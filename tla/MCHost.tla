------------------------------- MODULE MCHost -------------------------------
(* The two root services of the production host: the broker that replaces   *)
(* the API's release (Deploy) and the custodian of the observation attempts *)
(* (Custody).  They keep their records in directories of their own and      *)
(* share none, so a behaviour follows one of them.                          *)
EXTENDS Deploy, Custody

VARIABLE part

MCInit ==
  /\ part \in {"deploy", "custody"}
  /\ Init /\ CustodyInit
  /\ part = "custody" => \A s \in Submissions : sha[s] = Base

MCNext ==
  /\ UNCHANGED part
  /\ \/ part = "deploy" /\ Next /\ UNCHANGED custodyVars
     \/ part = "custody" /\ CustodyStep /\ UNCHANGED vars

\* What FairSpec and CustodyFairSpec assume, each of its own part.
MCFairness ==
  /\ \A s \in Submissions : WF_vars(part = "deploy" /\ Broker(s)) /\ WF_vars(part = "deploy" /\ Worker(s))
  /\ WF_custodyVars(part = "custody" /\ (Recovery \/ Cycle))
  /\ WF_custodyVars(part = "custody" /\ Child)

MCSpec == MCInit /\ [][MCNext]_<<vars, custodyVars, part>> /\ MCFairness

-----------------------------------------------------------------------------
\* Deploy!RolloutEnds and Custody!StartEnds: neither service keeps its lock.
ServicesEnd == RolloutEnds /\ StartEnds
=============================================================================
