------------------------------- MODULE MCApi -------------------------------
(* The limiter in front of the voice endpoints (RateLimiter) and a dialogue *)
(* behind it (VoiceSession).  A request the limiter admits reaches the      *)
(* dialogue unchanged and one it refuses never does, so a behaviour follows *)
(* one of the two.                                                          *)
EXTENDS MCVoiceSession, RateLimiter

VARIABLE part

MCSymmetry == RequestSymmetry \cup Permutations(Clients)

MCInit ==
  /\ part \in {"dialogue", "limiter"}
  /\ VoiceInit /\ Init
  /\ part = "limiter" => catalog = CHOOSE c \in Catalogs : TRUE
  /\ part = "dialogue" => watched = CHOOSE c \in Clients : TRUE

MCNext ==
  /\ UNCHANGED part
  /\ \/ part = "dialogue" /\ VoiceNext /\ UNCHANGED vars
     \/ part = "limiter" /\ Next /\ UNCHANGED voiceVars

MCSpec == MCInit /\ [][MCNext]_<<voiceVars, vars, part>>

============================================================================
