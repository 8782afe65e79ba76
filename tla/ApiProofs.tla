----------------------------- MODULE ApiProofs -----------------------------
(***************************************************************************)
(* Proofs about the two parts MCApi runs.                                  *)
(*                                                                         *)
(* RateLimiter, for any clients, rate, burst, capacity, idle time, sweep   *)
(* interval and clock skew that satisfy its assumptions.  RateBound is not *)
(* inductive: what a client may still be admitted for is in its bucket.    *)
(* Budget adds the content of the bucket to what has been spent.  It       *)
(* survives a sweep because a limiter that is forgotten was full (Ages and *)
(* IdleBucketsAreFull), and a late clock reading because it sets the       *)
(* bucket back by MaxSkew at most, which spent leaves out.                 *)
(*                                                                         *)
(* VoiceSession, for any dialogues, continuations, declared filters and    *)
(* catalogues.  What was said is carried by requests and by Redis, where a *)
(* command may run late: AllHeard follows it through both, with Belongs,   *)
(* so that a late SET writes into the dialogue it came from, and           *)
(* StartsEmpty, so that a first turn has nothing to carry over.            *)
(***************************************************************************)
EXTENDS RateLimiter, VoiceSession, TLAPS

-----------------------------------------------------------------------------
(* RateLimiter.                                                            *)

(* What a bucket would hold if it were asked at the present time; a client *)
(* that has been forgotten gets a full one.                                *)
LevelNow(map, c, time) ==
  IF c \in DOMAIN map THEN Least(Burst, map[c].level + (time - map[c].last)) ELSE Burst

Ages ==
  /\ \A c \in Known : clients[c].last <= clock /\ clients[c].last <= clients[c].lastSeen + MaxSkew
  /\ lastSweep <= clock
  /\ since <= clock

Budget == spent + LevelNow(clients, watched, clock) <= Burst + (clock - since)

IInv == TypeOK /\ Ages /\ OnlyRecentClients /\ Budget

(* The assumptions of the module, for the provers.                         *)
LEMMA Parameters ==
  /\ Burst \in Nat /\ SweepInterval \in Nat /\ MaxSkew \in Nat /\ IdleTTL \in Nat /\ Cost \in Nat
  /\ Cost > 0 /\ MaxSkew <= Cost /\ Cost <= Burst /\ Burst + MaxSkew <= IdleTTL
  BY ParametersAreNaturals, SkewBelowCost, BurstIsPositive, IdleBucketsAreFull

(* The empty map, a full bucket and no sweep yet.                          *)
LEMMA Initial == Init => IInv
<1> SUFFICES ASSUME Init PROVE IInv
  OBVIOUS
<1>1. Known = {} /\ clients = <<>>
  BY DEF Init, Known
<1>2. clients \in [{} -> [level : 0..Burst, last : Int, lastSeen : Int]]
  BY <1>1
<1>3. LevelNow(clients, watched, clock) = Burst
  BY <1>1 DEF LevelNow, Known
<1> QED
  BY <1>1, <1>2, <1>3, Parameters DEF Init, IInv, TypeOK, Ages, OnlyRecentClients, Budget

(* The bucket of one client, before and after a request that finds it.     *)
LEMMA Sizes ==
  ASSUME IInv, NEW c \in Known
  PROVE  /\ clients[c].level \in 0..Burst /\ clients[c].last \in Int /\ clients[c].lastSeen \in Int
         /\ clients[c].last <= clock
         /\ clients[c].last <= clients[c].lastSeen + MaxSkew
         /\ clients[c].lastSeen > lastSweep - IdleTTL
<1>1. clients[c] \in [level : 0..Burst, last : Int, lastSeen : Int]
  BY DEF IInv, TypeOK
<1> QED
  BY <1>1 DEF IInv, Ages, OnlyRecentClients

(* A client that a sweep forgets has a full bucket: nothing is lost with   *)
(* its limiter.                                                            *)
LEMMA ForgottenIsFull ==
  ASSUME IInv, NEW now \in Int, now <= clock, NEW c \in Known, c \notin Kept(now)
  PROVE  LevelNow(clients, c, clock) = Burst
<1>1. now - clients[c].lastSeen >= IdleTTL
  BY Sizes, Parameters DEF Kept
<1>2. clock \in Nat
  BY DEF IInv, TypeOK
<1>3. clients[c].level + (clock - clients[c].last) >= Burst
  BY <1>1, <1>2, Sizes, Parameters
<1> QED
  BY <1>2, <1>3, Sizes, Parameters DEF LevelNow, Least, Known

(* A request pays for its admission out of what the bucket holds now, up   *)
(* to the skew of its clock reading.                                       *)
LEMMA ContentIsCovered ==
  ASSUME IInv, NEW c \in Clients, NEW now \in (clock - MaxSkew)..clock
  PROVE  /\ Content(c, now) \in 0..Burst
         /\ LET paid == Content(c, now) - Cost + (clock - now)
            IN Least(Burst, paid) + (Cost - MaxSkew) <= LevelNow(clients, c, clock)
<1>1. clock \in Nat /\ now \in Int
  BY Parameters DEF IInv, TypeOK
<1>2. CASE c \in Kept(now)
  <2>1. c \in Known
    BY <1>2 DEF Kept
  <2>2. Content(c, now) = Refilled(clients[c], now)
    BY <1>2 DEF Content
  <2> QED
    BY <1>1, <2>1, <2>2, Sizes, Parameters DEF Refilled, LevelNow, Least, Most, Known
<1>3. CASE c \notin Kept(now)
  <2>1. LevelNow(clients, c, clock) = Burst
    <3>1. CASE c \in Known
      BY <1>1, <1>3, <3>1, ForgottenIsFull, Parameters
    <3>2. CASE c \notin Known
      BY <3>2 DEF LevelNow, Known
    <3> QED
      BY <3>1, <3>2
  <2>2. Content(c, now) = Burst
    BY <1>3 DEF Content
  <2> QED
    BY <1>1, <2>1, <2>2, Parameters DEF Least
<1> QED
  BY <1>2, <1>3

(* What a request leaves in the map: old buckets of the clients that are   *)
(* kept and, if there was room, bucket b of its own client.                *)
LEMMA MapAfter ==
  ASSUME IInv, NEW c \in Clients, NEW now \in (clock - MaxSkew)..clock,
         NEW room, room \subseteq Kept(now) \cup {c},
         NEW b \in [level : 0..Burst, last : Int, lastSeen : Int],
         clients' = [d \in room |-> IF d = c THEN b ELSE clients[d]],
         lastSweep' = IF SweepIsDue(now) THEN now ELSE lastSweep,
         UNCHANGED <<clock, watched, since>>,
         b.last <= clock, b.last <= b.lastSeen + MaxSkew, b.lastSeen = now
  PROVE  /\ Known' = room
         /\ clients' \in [Known' -> [level : 0..Burst, last : Int, lastSeen : Int]]
         /\ Known' \subseteq Clients /\ lastSweep' \in Int
         /\ Ages' /\ OnlyRecentClients'
<1>1. clock \in Nat /\ now \in Int /\ now <= clock /\ now >= clock - MaxSkew
      /\ lastSweep \in Int /\ lastSweep <= clock
  BY Parameters DEF IInv, TypeOK, Ages
<1>2. Known' = room
  BY DEF Known
<1>3. Kept(now) \subseteq Known
  BY DEF Kept
<1>4. \A d \in room : d # c => d \in Known /\ clients'[d] = clients[d]
                               /\ (SweepIsDue(now) => now - clients[d].lastSeen < IdleTTL)
  BY <1>3 DEF Kept
<1>5. c \in room => clients'[c] = b
  OBVIOUS
<1>6. \A d \in Known : clients[d] \in [level : 0..Burst, last : Int, lastSeen : Int] /\ d \in Clients
  BY DEF IInv, TypeOK
<1>7. lastSweep' \in Int /\ lastSweep' <= clock
  BY <1>1
<1>8. clients' \in [room -> [level : 0..Burst, last : Int, lastSeen : Int]]
  BY <1>4, <1>6
<1>9. Ages'
  <2>1. ASSUME NEW d \in room
        PROVE  clients'[d].last <= clock /\ clients'[d].last <= clients'[d].lastSeen + MaxSkew
    BY <2>1, <1>4, <1>5, Sizes
  <2> QED
    BY <1>2, <1>7, <2>1 DEF Ages, IInv
<1>10. OnlyRecentClients'
  <2>1. ASSUME NEW d \in room
        PROVE  clients'[d].lastSeen > lastSweep' - IdleTTL
    <3>1. CASE d = c
      BY <3>1, <1>1, <1>5, <1>7, Parameters
    <3>2. CASE d # c
      BY <3>2, <1>1, <1>4, Sizes, Parameters
    <3> QED
      BY <3>1, <3>2
  <2> QED
    BY <1>2, <2>1 DEF OnlyRecentClients
<1> QED
  BY <1>2, <1>3, <1>6, <1>7, <1>8, <1>9, <1>10

(* The bucket of a client that a request of another one, or a refused one, *)
(* keeps or forgets is worth the same to it.                               *)
LEMMA OthersUnchanged ==
  ASSUME IInv, NEW now \in Int, now <= clock, NEW d \in Clients, clock' = clock,
         \/ d \notin Known' /\ d \notin Kept(now)
         \/ d \in Known' /\ d \in Kept(now) /\ clients'[d].level = clients[d].level
            /\ clients'[d].last = clients[d].last
  PROVE  LevelNow(clients, d, clock)' = LevelNow(clients, d, clock)
<1>1. CASE d \notin Known' /\ d \notin Kept(now)
  <2>1. LevelNow(clients, d, clock) = Burst
    <3>1. CASE d \in Known
      BY <1>1, <3>1, ForgottenIsFull
    <3>2. CASE d \notin Known
      BY <3>2 DEF LevelNow, Known
    <3> QED
      BY <3>1, <3>2
  <2> QED
    BY <1>1, <2>1 DEF LevelNow, Known
<1>2. CASE d \in Known' /\ d \in Kept(now) /\ clients'[d].level = clients[d].level
           /\ clients'[d].last = clients[d].last
  <2>1. d \in Known
    BY <1>2 DEF Kept
  <2> QED
    BY <1>2, <2>1 DEF LevelNow, Known
<1> QED
  BY <1>1, <1>2

(* What one request does to the map, the history and the time.             *)
LEMMA AllowStep ==
  ASSUME IInv, NEW c \in Clients, NEW now \in (clock - MaxSkew)..clock, Allow(c, now)
  PROVE  IInv'
<1>1. clock \in Nat /\ now \in Int /\ now <= clock /\ now >= clock - MaxSkew
  BY Parameters DEF IInv, TypeOK
<1>2. /\ lastSweep' = IF SweepIsDue(now) THEN now ELSE lastSweep
      /\ UNCHANGED <<clock, watched, since>>
  BY DEF Allow
<1>3. watched \in Clients /\ spent \in Nat /\ since \in Nat /\ Budget
  BY DEF IInv, TypeOK
<1>4. CASE NoRoom(c, now)
  <2> DEFINE b == [level |-> Burst, last |-> now, lastSeen |-> now]
  <2>1. c \notin Kept(now)
    BY <1>4 DEF NoRoom, Room
  <2>2. clients' = [d \in Kept(now) |-> IF d = c THEN b ELSE clients[d]]
    BY <1>4, <2>1 DEF NoRoom
  <2>3. b \in [level : 0..Burst, last : Int, lastSeen : Int] /\ b.last <= clock
        /\ b.last <= b.lastSeen + MaxSkew /\ b.lastSeen = now
    BY <1>1, Parameters
  <2> HIDE DEF b
  <2>4. /\ Known' = Kept(now)
        /\ clients' \in [Known' -> [level : 0..Burst, last : Int, lastSeen : Int]]
        /\ Known' \subseteq Clients /\ lastSweep' \in Int
        /\ Ages' /\ OnlyRecentClients'
    BY <1>2, <2>2, <2>3, MapAfter
  <2>5. LevelNow(clients, watched, clock)' = LevelNow(clients, watched, clock)
    <3>1. watched \in Kept(now) => clients'[watched] = clients[watched]
      BY <2>1, <2>2
    <3> QED
      BY <1>1, <1>2, <1>3, <2>4, <3>1, OthersUnchanged
  <2>6. spent' = spent
    BY <1>4 DEF NoRoom
  <2> QED
    BY <1>1, <1>2, <1>3, <2>4, <2>5, <2>6 DEF IInv, TypeOK, Budget
<1>5. CASE Admit(c, now)
  <2> DEFINE b == [level |-> Content(c, now) - Cost, last |-> now, lastSeen |-> now]
  <2>1. PICK room \in Room(c, Kept(now)) : Remember(room, c, b)
    BY <1>5 DEF Admit
  <2>2. room = Kept(now) \cup {c}
    BY <2>1 DEF Room
  <2>3. Content(c, now) \in 0..Burst /\ Content(c, now) >= Cost
    BY <1>5, ContentIsCovered DEF Admit, Affordable
  <2>4. b \in [level : 0..Burst, last : Int, lastSeen : Int] /\ b.last <= clock
        /\ b.last <= b.lastSeen + MaxSkew /\ b.lastSeen = now
        /\ b.level = Content(c, now) - Cost /\ b.last = now
    BY <1>1, <2>3, Parameters
  <2>5. clients' = [d \in room |-> IF d = c THEN b ELSE clients[d]]
    BY <2>1 DEF Remember
  <2> HIDE DEF b
  <2>6. /\ Known' = room
        /\ clients' \in [Known' -> [level : 0..Burst, last : Int, lastSeen : Int]]
        /\ Known' \subseteq Clients /\ lastSweep' \in Int
        /\ Ages' /\ OnlyRecentClients'
    BY <1>2, <2>2, <2>4, <2>5, MapAfter
  <2>7. spent' \in Nat /\ Budget'
    <3>1. CASE c = watched
      <4>1. spent' = spent + (Cost - MaxSkew)
        BY <1>5, <3>1 DEF Admit
      <4>2. LevelNow(clients, watched, clock)' = Least(Burst, Content(c, now) - Cost + (clock - now))
        BY <1>2, <2>2, <2>4, <2>5, <2>6, <3>1 DEF LevelNow, Known
      <4>3. Least(Burst, Content(c, now) - Cost + (clock - now)) + (Cost - MaxSkew)
              <= LevelNow(clients, watched, clock)
        BY <3>1, ContentIsCovered
      <4>4. Least(Burst, Content(c, now) - Cost + (clock - now)) \in Int
        BY <1>1, <2>3, Parameters DEF Least
      <4>5. LevelNow(clients, watched, clock) \in Int
        BY <1>1, <1>3, Sizes, Parameters DEF LevelNow, Least, Known
      <4> HIDE DEF b
      <4> QED
        BY <1>1, <1>2, <1>3, <4>1, <4>2, <4>3, <4>4, <4>5, Parameters DEF Budget
    <3>2. CASE c # watched
      <4>1. spent' = spent
        BY <1>5, <3>2 DEF Admit
      <4>2. watched \in Kept(now) => clients'[watched] = clients[watched]
        BY <2>2, <2>5, <3>2
      <4>3. watched \in Known' <=> watched \in Kept(now)
        BY <2>2, <2>6, <3>2
      <4>4. LevelNow(clients, watched, clock)' = LevelNow(clients, watched, clock)
        BY <1>1, <1>2, <1>3, <4>2, <4>3, OthersUnchanged
      <4> QED
        BY <1>2, <1>3, <4>1, <4>4 DEF Budget
    <3> QED
      BY <3>1, <3>2
  <2> QED
    BY <1>1, <1>2, <1>3, <2>6, <2>7 DEF IInv, TypeOK
<1>6. CASE Refuse(c, now)
  <2> DEFINE b == [clients[c] EXCEPT !.lastSeen = now]
  <2>1. PICK room \in Room(c, Kept(now)) : Remember(room, c, b)
    BY <1>6 DEF Refuse
  <2>2. c \in Kept(now) /\ c \in Known
    BY <1>6, Parameters DEF Refuse, Affordable, Content, Kept
  <2>3. room = Kept(now) \cup {c}
    BY <2>1 DEF Room
  <2>4. clients[c] \in [level : 0..Burst, last : Int, lastSeen : Int]
    BY <2>2 DEF IInv, TypeOK
  <2>5. b \in [level : 0..Burst, last : Int, lastSeen : Int] /\ b.last <= clock
        /\ b.last <= b.lastSeen + MaxSkew /\ b.lastSeen = now
        /\ b.level = clients[c].level /\ b.last = clients[c].last
    BY <1>1, <2>2, <2>4, Sizes, Parameters
  <2>6. clients' = [d \in room |-> IF d = c THEN b ELSE clients[d]]
    BY <2>1 DEF Remember
  <2> HIDE DEF b
  <2>7. /\ Known' = room
        /\ clients' \in [Known' -> [level : 0..Burst, last : Int, lastSeen : Int]]
        /\ Known' \subseteq Clients /\ lastSweep' \in Int
        /\ Ages' /\ OnlyRecentClients'
    BY <1>2, <2>3, <2>5, <2>6, MapAfter
  <2>8. LevelNow(clients, watched, clock)' = LevelNow(clients, watched, clock)
    <3>1. watched \in Known' <=> watched \in Kept(now)
      BY <2>2, <2>3, <2>7
    <3>2. watched \in Known' => clients'[watched].level = clients[watched].level
                                /\ clients'[watched].last = clients[watched].last
      BY <2>5, <2>6, <2>7
    <3> QED
      BY <1>1, <1>2, <1>3, <3>1, <3>2, OthersUnchanged
  <2>9. spent' = spent
    BY <1>6 DEF Refuse
  <2> QED
    BY <1>1, <1>2, <1>3, <2>7, <2>8, <2>9 DEF IInv, TypeOK, Budget
<1> QED
  BY <1>4, <1>5, <1>6 DEF Allow

(* Time fills buckets no faster than it widens the window.                 *)
LEMMA TickStep == ASSUME IInv, Tick PROVE IInv'
<1>1. clock \in Nat /\ clock' = clock + 1 /\ UNCHANGED <<clients, lastSweep, history>>
  BY DEF Tick, IInv, TypeOK
<1>2. LevelNow(clients, watched, clock)' <= LevelNow(clients, watched, clock) + 1
  BY <1>1, Sizes, Parameters DEF LevelNow, Least, Known, history
<1>3. LevelNow(clients, watched, clock) \in Int /\ LevelNow(clients, watched, clock)' \in Int
  BY <1>1, Sizes, Parameters DEF LevelNow, Least, Known, history
<1>4. Budget'
  BY <1>1, <1>2, <1>3, Parameters DEF IInv, TypeOK, Budget, history
<1>5. Ages'
  BY <1>1, Sizes DEF IInv, TypeOK, Ages, Known, history
<1> QED
  BY <1>1, <1>4, <1>5 DEF IInv, TypeOK, OnlyRecentClients, Known, history

(* A new window opens with a full bucket at most.                          *)
LEMMA WatchStep == ASSUME IInv, Watch PROVE IInv'
<1>1. clock \in Nat /\ since' = clock /\ spent' = 0 /\ UNCHANGED <<clock, clients, lastSweep, watched>>
  BY DEF Watch, IInv, TypeOK
<1>2. LevelNow(clients, watched, clock)' <= Burst
  BY <1>1, Sizes, Parameters DEF LevelNow, Least, Known
<1>3. LevelNow(clients, watched, clock)' \in Int
  BY <1>1, Sizes, Parameters DEF LevelNow, Least, Known
<1>4. Budget'
  BY <1>1, <1>2, <1>3, Parameters DEF Budget
<1> QED
  BY <1>1, <1>4 DEF IInv, TypeOK, Ages, OnlyRecentClients, Known

(* The inductive invariant: every action preserves it.                     *)
THEOREM Inductive == Spec => []IInv
<1>1. IInv /\ [Next]_vars => IInv'
  <2> SUFFICES ASSUME IInv, [Next]_vars PROVE IInv'
    OBVIOUS
  <2>1. CASE Tick
    BY <2>1, TickStep
  <2>2. CASE Watch
    BY <2>2, WatchStep
  <2>3. ASSUME NEW c \in Clients, NEW now \in (clock - MaxSkew)..clock, Allow(c, now)
        PROVE  IInv'
    BY <2>3, AllowStep
  <2>4. CASE UNCHANGED vars
    BY <2>4 DEF vars, history, IInv, TypeOK, Ages, OnlyRecentClients, Budget, LevelNow, Known
  <2> QED
    BY <2>1, <2>2, <2>3, <2>4 DEF Next
<1> QED
  BY <1>1, Initial, PTL DEF Spec

(* Type correctness: no bucket is ever overdrawn or more than full.        *)
THEOREM TypeCorrect == Spec => []TypeOK
<1>1. IInv => TypeOK
  BY DEF IInv
<1> QED
  BY <1>1, Inductive, PTL

(* In no window is a client admitted for more than a burst and the refill  *)
(* of the window (allow() and the sweep, ratelimit.go).                    *)
THEOREM Bounded == Spec => []RateBound
<1>1. IInv => RateBound
  <2> SUFFICES ASSUME IInv PROVE RateBound
    OBVIOUS
  <2>1. clock \in Nat /\ since \in Nat /\ spent \in Nat
    BY DEF IInv, TypeOK
  <2>2. LevelNow(clients, watched, clock) \in Int /\ LevelNow(clients, watched, clock) >= 0
    BY <2>1, Sizes, Parameters DEF LevelNow, Least, Known
  <2> QED
    BY <2>1, <2>2, Parameters DEF IInv, Budget, RateBound
<1> QED
  BY <1>1, Inductive, PTL

(* The map holds recent clients only (the lazy sweep of allow()).          *)
THEOREM Recent == Spec => []OnlyRecentClients
<1>1. IInv => OnlyRecentClients
  BY DEF IInv
<1> QED
  BY <1>1, Inductive, PTL

-----------------------------------------------------------------------------
(* VoiceSession: what the inductive invariant is made of.                  *)

IsTable(f, S) == f = [x \in S |-> f[x]]

Heard(s, d) == \A k \in DOMAIN s.filters : <<s.category, k, s.filters[k]>> \in said[d]
\* A session whose filters are options its category declares.
Fits(s) ==
  /\ s.intent \in Intents \cup {None} /\ s.category \in Categories \cup {None}
  /\ IsTable(s.filters, DOMAIN s.filters)
  /\ s.category = None => DOMAIN s.filters = {}
  /\ s.category # None => \A k \in DOMAIN s.filters :
       k \in DOMAIN Declared[s.category] /\ s.filters[k] \in Declared[s.category][k]

Talking(r)  == pc[r] \in {"vocabulary", "parse", "query", "reply"}

\* The tables of the dialogues and of the requests.
Tables ==
  /\ IsTable(sessions, Starts) /\ IsTable(said, Starts)
  /\ IsTable(state, Requests) /\ IsTable(stated, Requests)

AllFit ==
  /\ \A d \in Starts : sessions[d] = Nothing \/ Fits(sessions[d])
  /\ \A r \in Requests : (Talking(r) \/ state[r] # Nothing) => Fits(state[r])

\* A request belongs to a dialogue from its first step on, and only the
\* continuation of one reads its session.
Belongs ==
  \A r \in Requests :
    /\ pc[r] = "idle" => state[r] = Nothing /\ command[r] = None
    /\ pc[r] # "idle" => dialogue[r] \in Starts
    /\ pc[r] = "get" => r \in Continues

\* A start knows nothing before the parser has spoken.
StartsEmpty == \A r \in Starts : pc[r] \in {"vocabulary", "parse"} => state[r].category = None

\* What a running request reads of the catalogue is in its history.
CatalogSeen == \A r \in Requests : Running(r) => catalog \in seen[r]

\* What is kept, in Redis or in a request that may still write it there, has
\* been heard.
AllHeard ==
  /\ \A d \in Starts : Heard(sessions[d], d)
  /\ \A r \in Requests : pc[r] # "idle" => Heard(state[r], dialogue[r])

VoiceInv ==
  /\ VoiceTypeOK /\ Tables /\ AllFit /\ Belongs /\ StartsEmpty /\ CatalogSeen
  /\ AllHeard /\ QueryWasOnOffer /\ StatedAnswerWins

-----------------------------------------------------------------------------
(* The pure decisions.                                                     *)
LEMMA EmptyTable ==
  ASSUME NEW f, IsTable(f, DOMAIN f), DOMAIN f = {}
  PROVE  f = <<>>
BY DEF IsTable

LEMMA NoFilters == FiltersOf(None) = {<<>>} /\ DOMAIN <<>> = {} /\ None \notin Categories
BY NoneIsNoCategory DEF FiltersOf

LEMMA FilterTable ==
  ASSUME NEW c, NEW f \in FiltersOf(c), c # None
  PROVE  IsTable(f, DOMAIN f) /\ DOMAIN f \subseteq DOMAIN Declared[c]
<1>1. PICK ks \in SUBSET DOMAIN Declared[c] : f \in [ks -> UNION {Declared[c][k] : k \in ks}]
  BY DEF FiltersOf
<1> QED
  BY <1>1 DEF IsTable

LEMMA FitsIsSession ==
  ASSUME NEW s, Fits(s)
  PROVE  IsSession(s)
<1>1. CASE s.category = None
  BY <1>1, EmptyTable, NoFilters DEF Fits, IsSession
<1>2. CASE s.category # None
  <2> DEFINE D == DOMAIN s.filters
             V == UNION {Declared[s.category][k] : k \in D}
  <2>1. D \subseteq DOMAIN Declared[s.category] /\ \A k \in D : s.filters[k] \in V
    BY <1>2 DEF Fits
  <2>2. s.filters \in [D -> V]
    BY <2>1 DEF Fits, IsTable
  <2>3. s.filters \in FiltersOf(s.category)
    BY <1>2, <2>1, <2>2 DEF FiltersOf
  <2> QED
    BY <2>3 DEF Fits, IsSession
<1> QED
  BY <1>1, <1>2

LEMMA NothingFacts == Nothing.filters = <<>> /\ DOMAIN Nothing.filters = {}
BY DEF Nothing

\* What is on offer now is on offer, and declared.
LEMMA LiveFacts ==
  ASSUME catalog \in Catalogs, NEW c, NEW k, NEW v, ValidFilter(IF c = None THEN <<>> ELSE Live(c), k, v)
  PROVE  /\ c # None /\ c \in Categories /\ WasOffered(catalog, c, k, v)
         /\ k \in DOMAIN Declared[c] /\ v \in Declared[c][k]
<1>1. c # None /\ ValidFilter(Live(c), k, v)
  BY DEF ValidFilter
<1>2. c \in DOMAIN catalog
  BY <1>1 DEF ValidFilter, Live
<1>3. k \in DOMAIN catalog[c] /\ catalog[c][k] # {} /\ v \in IF k \in Booleans THEN Declared[c][k] ELSE catalog[c][k]
  BY <1>1, <1>2 DEF ValidFilter, Live
<1>4. c \in Categories /\ k \in DOMAIN Declared[c] /\ v \in Declared[c][k]
  BY <1>2, <1>3, CatalogsAreDeclared
<1> QED
  BY <1>1, <1>2, <1>3, <1>4 DEF WasOffered

LEMMA ConfiguredFacts ==
  ASSUME NEW visible \in SUBSET Categories, NEW c, NEW k, NEW v, ValidFilter(Configured(visible, c), k, v)
  PROVE  c \in visible /\ k \in DOMAIN Declared[c] /\ v \in Declared[c][k]
<1>1. c \in visible
  BY DEF ValidFilter, Configured
<1> QED
  BY <1>1 DEF ValidFilter, Configured

\* What a turn leaves: a session of the selected category, all of it on offer,
\* where every filter was stated or kept and a statement is never overruled.
KeptOnOffer(r, c, f, s) ==
  /\ Fits(s) /\ s.category = c
  /\ \A k \in DOMAIN s.filters :
       /\ WasOffered(catalog, c, k, s.filters[k])
       /\ \/ k \in DOMAIN f /\ s.filters[k] = f[k]
          \/ c = state[r].category /\ k \in DOMAIN state[r].filters /\ s.filters[k] = state[r].filters[k]
       /\ k \in RequiredKeys(c) \cap DOMAIN f => s.filters[k] = f[k]

IsState(s) == s = [intent |-> s.intent, category |-> s.category, filters |-> s.filters]

LEMMA WithFilters ==
  ASSUME NEW s, IsState(s), NEW g
  PROVE  /\ IsState([s EXCEPT !.filters = g]) /\ [s EXCEPT !.filters = g].filters = g
         /\ [s EXCEPT !.filters = g].intent = s.intent /\ [s EXCEPT !.filters = g].category = s.category
BY DEF IsState

LEMMA TurnFacts ==
  ASSUME VoiceInv, NEW r \in Requests, pc[r] = "parse",
         NEW i \in Intents \cup {None}, NEW c \in categories[r] \cup {None}, NEW f, IsTable(f, DOMAIN f),
         NEW next, next = Turn(r, [intent |-> i, category |-> c, filters |-> f]), next # Nothing
  PROVE  KeptOnOffer(r, IF c # None THEN c ELSE state[r].category, f, next)
<1> DEFINE p          == [intent |-> i, category |-> c, filters |-> f]
           previous   == state[r]
           d          == Selected(p, previous.category)
           configured == Configured(categories[r], d)
           live       == IF d = None THEN <<>> ELSE Live(d)
           current    == [p EXCEPT !.filters = Clarified(d, @, configured, live)]
           joint      == Merge(previous, current, live)
           merged     == Restated(joint, f, current)
           offered    == [merged EXCEPT !.filters = Clarified(d, @, configured, live)]
<1>1. /\ Fits(previous) /\ categories[r] \subseteq Categories /\ catalog \in Catalogs
      /\ r \in Starts => previous.category = None
      /\ c \in Categories \cup {None}
  BY DEF VoiceInv, VoiceTypeOK, AllFit, Talking, StartsEmpty
<1>2. d = IF c # None THEN c ELSE previous.category
  BY DEF Selected
<1>3. d \in Categories \cup {None}
  BY <1>1, <1>2 DEF Fits
<1>4. /\ current.intent = i /\ current.category = c
      /\ DOMAIN current.filters \subseteq DOMAIN f /\ IsTable(current.filters, DOMAIN current.filters)
      /\ \A k \in DOMAIN current.filters : current.filters[k] = f[k]
  <2>1. IsState(p)
    BY DEF IsState
  <2>2. current.filters = Without(f, Unavailable(d, f, configured, live)) /\ current.intent = i /\ current.category = c
    BY <2>1, WithFilters DEF Clarified
  <2>3. PICK K : current.filters = Without(f, K)
    BY <2>2
  <2> HIDE DEF current
  <2>4. /\ DOMAIN current.filters = DOMAIN f \ K /\ IsTable(current.filters, DOMAIN f \ K)
        /\ \A k \in DOMAIN f \ K : current.filters[k] = f[k]
    BY <2>3 DEF Without, IsTable
  <2> QED
    BY <2>2, <2>4
<1> HIDE DEF current
<1>5. Valid(current, categories[r], live)
  BY DEF Turn, current
<1>6. CASE r \in Starts
  <2>1. next = current /\ c = d
    BY <1>1, <1>2, <1>5, <1>6 DEF Turn, current
  <2>2. \A k \in DOMAIN next.filters : ValidFilter(live, k, next.filters[k])
    BY <1>5, <2>1 DEF Valid
  <2>3. \A k \in DOMAIN next.filters :
          /\ d # None /\ WasOffered(catalog, d, k, next.filters[k])
          /\ k \in DOMAIN Declared[d] /\ next.filters[k] \in Declared[d][k]
    BY <1>1, <2>2, LiveFacts
  <2>4. Fits(next)
    BY <1>1, <1>4, <2>1, <2>3 DEF Fits
  <2> QED
    BY <1>2, <1>4, <2>1, <2>3, <2>4 DEF KeptOnOffer
<1>7. CASE r \notin Starts
  <2>1. next = offered /\ Valid(offered, categories[r], live)
    BY <1>5, <1>7 DEF Turn, current
  <2> HIDE DEF live, configured
  <2>2. /\ joint.intent \in {i, previous.intent} /\ joint.category = d
        /\ IsTable(joint.filters, DOMAIN joint.filters)
        /\ \A k \in DOMAIN joint.filters :
             \/ k \in DOMAIN current.filters /\ joint.filters[k] = current.filters[k]
             \/ k \notin DOMAIN current.filters \cap DOMAIN live /\ d = previous.category
                /\ k \in DOMAIN previous.filters /\ joint.filters[k] = previous.filters[k]
    <3>1. Selected(current, previous.category) = d
      BY <1>2, <1>4 DEF Selected
    <3> QED
      BY <1>4, <3>1 DEF Merge, IsTable
  <2> HIDE DEF joint
  <2>a. IsState(joint)
    BY DEF Merge, IsState, joint
  <2>3. /\ merged.intent = joint.intent /\ merged.category = d
        /\ DOMAIN merged.filters =
             DOMAIN joint.filters \ ((RequiredKeys(d) \cap DOMAIN f) \ DOMAIN current.filters)
        /\ \A k \in DOMAIN merged.filters : merged.filters[k] = joint.filters[k]
    <3>1. /\ merged.filters =
               Without(joint.filters, (RequiredKeys(joint.category) \cap DOMAIN f) \ DOMAIN current.filters)
          /\ merged.intent = joint.intent /\ merged.category = joint.category
      BY <2>a, WithFilters DEF Restated
    <3> DEFINE K == (RequiredKeys(joint.category) \cap DOMAIN f) \ DOMAIN current.filters
    <3> HIDE DEF merged
    <3>2. /\ DOMAIN merged.filters = DOMAIN joint.filters \ K
          /\ \A k \in DOMAIN joint.filters \ K : merged.filters[k] = joint.filters[k]
      BY <3>1 DEF Without
    <3> QED
      BY <2>2, <3>1, <3>2
  <2>b. IsState(merged)
    BY <2>a, WithFilters DEF Restated
  <2> HIDE DEF merged
  <2>4. /\ offered.intent = merged.intent /\ offered.category = d
        /\ DOMAIN offered.filters \subseteq DOMAIN merged.filters
        /\ IsTable(offered.filters, DOMAIN offered.filters)
        /\ \A k \in DOMAIN offered.filters : offered.filters[k] = merged.filters[k]
    <3>1. /\ offered.filters = Without(merged.filters, Unavailable(d, merged.filters, configured, live))
          /\ offered.intent = merged.intent /\ offered.category = merged.category
      BY <2>b, WithFilters DEF Clarified
    <3>2. PICK K : offered.filters = Without(merged.filters, K)
      BY <3>1
    <3> HIDE DEF offered
    <3>3. /\ DOMAIN offered.filters = DOMAIN merged.filters \ K /\ IsTable(offered.filters, DOMAIN merged.filters \ K)
          /\ \A k \in DOMAIN merged.filters \ K : offered.filters[k] = merged.filters[k]
      BY <3>2 DEF Without, IsTable
    <3> QED
      BY <2>3, <3>1, <3>3
  <2> HIDE DEF offered
  <2>5. \A k \in DOMAIN next.filters :
          /\ d # None /\ WasOffered(catalog, d, k, next.filters[k])
          /\ k \in DOMAIN Declared[d] /\ next.filters[k] \in Declared[d][k]
    <3>1. \A k \in DOMAIN next.filters : ValidFilter(live, k, next.filters[k])
      BY <2>1 DEF Valid
    <3> QED
      BY <1>1, <3>1, LiveFacts DEF live
  <2>6. Fits(next)
    <3>1. next.category = d /\ next.intent = offered.intent /\ next.filters = offered.filters
      BY <2>1, <2>4
    <3>2. next.intent \in Intents \cup {None} /\ d \in Categories \cup {None}
      BY <1>1, <1>3, <2>2, <2>3, <2>4, <3>1 DEF Fits
    <3>3. IsTable(next.filters, DOMAIN next.filters)
      BY <2>4, <3>1
    <3>4. /\ d = None => DOMAIN next.filters = {}
          /\ \A k \in DOMAIN next.filters : k \in DOMAIN Declared[d] /\ next.filters[k] \in Declared[d][k]
      BY <2>5
    <3> QED
      BY <3>1, <3>2, <3>3, <3>4, Zenon DEF Fits
  <2>7. \A k \in DOMAIN current.filters : k \in DOMAIN live
    BY <1>5 DEF Valid, ValidFilter
  <2>8. ASSUME NEW k \in DOMAIN next.filters
        PROVE  /\ \/ k \in DOMAIN f /\ next.filters[k] = f[k]
                  \/ d = previous.category /\ k \in DOMAIN previous.filters /\ next.filters[k] = previous.filters[k]
               /\ k \in RequiredKeys(d) \cap DOMAIN f => next.filters[k] = f[k]
    BY <1>4, <2>1, <2>2, <2>3, <2>4, <2>7, <2>8
  <2> QED
    BY <1>2, <2>1, <2>4, <2>5, <2>6, <2>8 DEF KeptOnOffer
<1> QED
  BY <1>6, <1>7

-----------------------------------------------------------------------------
(* The steps.                                                              *)
Pcs == {"idle", "get", "vocabulary", "parse", "query", "reply", "asked", "answered", "notFound", "failed"}
Over == {"asked", "answered", "notFound", "failed"}

LEMMA StateKinds ==
  ASSUME VoiceInv, NEW r \in Requests
  PROVE  /\ pc[r] \in Pcs /\ catalog \in Catalogs /\ DOMAIN catalog \subseteq Categories
         /\ state[r] = Nothing \/ Fits(state[r])
         /\ pc[r] # "idle" => dialogue[r] \in Starts
BY CatalogsAreDeclared DEF VoiceInv, VoiceTypeOK, AllFit, Belongs, Pcs

LEMMA EndFacts ==
  ASSUME VoiceInv, NEW r \in Requests, NEW outcome \in Over, End(r, outcome)
  PROVE  /\ pc' \in [Requests -> Pcs] /\ categories' \in [Requests -> SUBSET Categories]
         /\ seen' \in [Requests -> SUBSET Catalogs]
         /\ IsTable(state', Requests) /\ IsTable(stated', Requests)
         /\ \A q \in Requests :
              /\ pc'[q] = IF q = r THEN outcome ELSE pc[q]
              /\ q # r => seen'[q] = seen[q] /\ stated'[q] = stated[q] /\ state'[q] = state[q]
              /\ state'[q] \in {state[q], Nothing}
<1>1. pc \in [Requests -> Pcs] /\ categories \in [Requests -> SUBSET Categories] /\ seen \in [Requests -> SUBSET Catalogs]
      /\ IsTable(state, Requests) /\ IsTable(stated, Requests)
  BY DEF VoiceInv, VoiceTypeOK, Tables, Pcs
<1>2. /\ pc' \in [Requests -> Pcs] /\ categories' \in [Requests -> SUBSET Categories]
      /\ seen' \in [Requests -> SUBSET Catalogs]
      /\ \A q \in Requests : pc'[q] = (IF q = r THEN outcome ELSE pc[q]) /\ (q # r => seen'[q] = seen[q])
  BY <1>1 DEF End, Goto, Pcs, Over
<1>3. IsTable(stated', Requests) /\ \A q \in Requests : q # r => stated'[q] = stated[q]
  BY <1>1 DEF End, IsTable
<1>4. IsTable(state', Requests) /\ \A q \in Requests : state'[q] \in {state[q], Nothing} /\ (q # r => state'[q] = state[q])
  BY <1>1 DEF End, IsTable
<1> QED
  BY <1>2, <1>3, <1>4

LEMMA EndKeeps ==
  ASSUME VoiceInv, NEW r \in Requests, NEW outcome \in Over, pc[r] # "idle", End(r, outcome),
         UNCHANGED <<store, sessions, dialogue, command>>,
         IsTable(said', Starts), \A d \in Starts : said[d] \subseteq said'[d], completed' \subseteq Starts
  PROVE  VoiceInv'
<1> USE EndFacts DEF store
<1>1. AllFit'
  BY DEF VoiceInv, AllFit, Talking, Over
<1>2. VoiceTypeOK'
  BY <1>1, FitsIsSession DEF VoiceInv, VoiceTypeOK, AllFit, Talking, Pcs
<1>3. Tables'
  BY DEF VoiceInv, Tables
<1>4. Belongs'
  BY DEF VoiceInv, Belongs, Over
<1>7. StartsEmpty'
  BY DEF VoiceInv, StartsEmpty, Over, Requests
<1>8. CatalogSeen'
  BY DEF VoiceInv, CatalogSeen, Running, Over
<1>5. AllHeard'
  <2>1. \A s, d : d \in Starts /\ Heard(s, d) => Heard(s, d)'
    BY DEF Heard
  <2>2. \A d : Heard(Nothing, d)'
    BY NothingFacts DEF Heard
  <2> QED
    BY <2>1, <2>2 DEF VoiceInv, AllHeard, Belongs
<1>6. QueryWasOnOffer' /\ StatedAnswerWins'
  BY DEF VoiceInv, QueryWasOnOffer, StatedAnswerWins, Over
<1> QED
  BY <1>1, <1>2, <1>3, <1>4, <1>5, <1>6, <1>7, <1>8 DEF VoiceInv

LEMMA GetKeeps ==
  ASSUME VoiceInv, NEW r \in Requests, Get(r)
  PROVE  VoiceInv'
<1> USE DEF store, voiceHistory
<1>1. /\ pc[r] = "get" /\ dialogue[r] \in Starts /\ r \in Continues
      /\ UNCHANGED <<store, sessions, dialogue, command, said, completed>>
  BY DEF Get, VoiceInv, Belongs
<1>2. CASE End(r, "notFound")
  BY <1>1, <1>2, EndKeeps DEF Over, VoiceInv, VoiceTypeOK, Tables
<1>3. CASE /\ sessions[dialogue[r]] # Nothing /\ Goto(r, "vocabulary")
           /\ state' = [state EXCEPT ![r] = sessions[dialogue[r]]]
           /\ UNCHANGED <<categories, stated, seen>>
  <2>1. /\ IsTable(state', Requests) /\ pc' \in [Requests -> Pcs]
        /\ \A q \in Requests : /\ state'[q] = IF q = r THEN sessions[dialogue[r]] ELSE state[q]
                               /\ pc'[q] = IF q = r THEN "vocabulary" ELSE pc[q]
    BY <1>3 DEF VoiceInv, Tables, IsTable, VoiceTypeOK, Goto, Pcs
  <2>2. AllFit'
    BY <1>1, <1>3, <2>1 DEF VoiceInv, AllFit, Talking
  <2>3. VoiceTypeOK'
    BY <1>1, <1>3, <2>1, <2>2, FitsIsSession DEF VoiceInv, VoiceTypeOK, AllFit, Talking, Pcs
  <2>4. Tables' /\ Belongs'
    BY <1>1, <1>3, <2>1 DEF VoiceInv, Tables, Belongs
  <2>5. StartsEmpty'
    BY <1>1, <1>3, <2>1, TwoEndpoints DEF VoiceInv, StartsEmpty, Requests
  <2>6. CatalogSeen'
    BY <1>1, <1>3, <2>1 DEF VoiceInv, CatalogSeen, Running
  <2>7. AllHeard'
    BY <1>1, <1>3, <2>1 DEF VoiceInv, AllHeard, Heard
  <2>8. QueryWasOnOffer' /\ StatedAnswerWins'
    BY <1>1, <1>3, <2>1 DEF VoiceInv, QueryWasOnOffer, StatedAnswerWins
  <2> QED
    BY <2>2, <2>3, <2>4, <2>5, <2>6, <2>7, <2>8 DEF VoiceInv
<1> QED
  BY <1>2, <1>3 DEF Get

LEMMA VocabularyKeeps ==
  ASSUME VoiceInv, NEW r \in Requests, ListVoiceVocabulary(r)
  PROVE  VoiceInv'
<1>1. /\ pc[r] = "vocabulary" /\ UNCHANGED <<store, sessions, dialogue, state, command, stated, voiceHistory>>
      /\ pc' \in [Requests -> Pcs] /\ categories' \in [Requests -> SUBSET Categories]
      /\ \A q \in Requests : pc'[q] = IF q = r THEN "parse" ELSE pc[q]
  BY StateKinds DEF ListVoiceVocabulary, VoiceInv, VoiceTypeOK, Goto, Pcs
<1> USE <1>1 DEF store, voiceHistory
<1>2. AllFit'
  BY DEF VoiceInv, AllFit, Talking
<1>3. VoiceTypeOK'
  BY <1>2, FitsIsSession DEF VoiceInv, VoiceTypeOK, AllFit, Talking, Pcs
<1>4. Tables' /\ Belongs'
  BY DEF VoiceInv, Tables, Belongs
<1>5. StartsEmpty'
  BY DEF VoiceInv, StartsEmpty, Requests
<1>6. CatalogSeen'
  BY DEF VoiceInv, CatalogSeen, Running
<1>7. AllHeard'
  BY DEF VoiceInv, AllHeard, Heard
<1>8. QueryWasOnOffer' /\ StatedAnswerWins'
  BY DEF VoiceInv, QueryWasOnOffer, StatedAnswerWins
<1> QED
  BY <1>2, <1>3, <1>4, <1>5, <1>6, <1>7, <1>8 DEF VoiceInv

LEMMA ResultKeeps ==
  ASSUME VoiceInv, NEW r \in Requests, Result(r)
  PROVE  VoiceInv'
<1> USE DEF store, voiceHistory
<1>1. /\ pc[r] = "query" /\ UNCHANGED <<store, sessions, dialogue, said, completed>>
  BY DEF Result
<1>2. CASE End(r, "answered") /\ UNCHANGED command
  BY <1>1, <1>2, EndKeeps DEF Over, VoiceInv, VoiceTypeOK, Tables
<1>3. CASE /\ Goto(r, "reply") /\ command' = [command EXCEPT ![r] = "DEL"]
           /\ UNCHANGED <<categories, state, stated, seen>>
  <2>1. /\ pc' \in [Requests -> Pcs] /\ command' \in [Requests -> {None, "SET", "DEL", "executed", "lost"}]
        /\ \A q \in Requests : /\ pc'[q] = IF q = r THEN "reply" ELSE pc[q]
                               /\ q # r => command'[q] = command[q]
    BY <1>3 DEF VoiceInv, VoiceTypeOK, Goto, Pcs
  <2> USE <1>1, <1>3, <2>1
  <2>2. AllFit'
    BY DEF VoiceInv, AllFit, Talking
  <2>3. VoiceTypeOK'
    BY <2>2, FitsIsSession DEF VoiceInv, VoiceTypeOK, AllFit, Talking, Pcs
  <2>4. Tables' /\ Belongs'
    BY DEF VoiceInv, Tables, Belongs
  <2>5. StartsEmpty'
    BY DEF VoiceInv, StartsEmpty, Requests
  <2>6. CatalogSeen'
    BY DEF VoiceInv, CatalogSeen, Running
  <2>7. AllHeard'
    BY DEF VoiceInv, AllHeard, Heard
  <2>8. QueryWasOnOffer' /\ StatedAnswerWins'
    BY DEF VoiceInv, QueryWasOnOffer, StatedAnswerWins
  <2> QED
    BY <2>2, <2>3, <2>4, <2>5, <2>6, <2>7, <2>8 DEF VoiceInv
<1> QED
  BY <1>1, <1>2, <1>3 DEF Result

LEMMA ReplyFailKeeps ==
  ASSUME VoiceInv, NEW r \in Requests, Reply(r) \/ Fail(r)
  PROVE  VoiceInv'
<1>1. /\ pc[r] # "idle" /\ (\E outcome \in Over : End(r, outcome))
      /\ UNCHANGED <<store, sessions, dialogue, command, said>>
      /\ completed' \subseteq completed \cup {dialogue[r]}
  BY DEF Reply, Fail, Running, Over
<1>2. completed' \subseteq Starts
  BY <1>1, StateKinds DEF VoiceInv, VoiceTypeOK
<1> QED
  BY <1>1, <1>2, EndKeeps DEF VoiceInv, Tables

LEMMA StartKeeps ==
  ASSUME VoiceInv, NEW r \in Requests, Start(r)
  PROVE  VoiceInv'
<1> DEFINE new == [Nothing EXCEPT !.category = None]
<1>1. new.category = None /\ new.intent = None /\ DOMAIN new.filters = {} /\ new.filters = <<>>
  BY DEF Nothing
<1>2. Fits(new)
  BY <1>1 DEF Fits, IsTable
<1>3. /\ pc[r] = "idle" /\ r \in Starts /\ command[r] = None
      /\ UNCHANGED <<store, sessions, categories, command, stated, said, completed>>
      /\ state' = [state EXCEPT ![r] = new]
  BY DEF Start, VoiceInv, Belongs
<1> HIDE DEF new
<1>4. /\ pc' \in [Requests -> Pcs] /\ IsTable(state', Requests) /\ seen' \in [Requests -> SUBSET Catalogs]
      /\ dialogue' \in [Requests -> Starts \cup {None}]
      /\ \A q \in Requests : /\ state'[q] = IF q = r THEN new ELSE state[q]
                             /\ pc'[q] = IF q = r THEN "vocabulary" ELSE pc[q]
                             /\ dialogue'[q] = IF q = r THEN r ELSE dialogue[q]
                             /\ seen'[q] = IF q = r THEN {catalog} ELSE seen[q]
  BY <1>3 DEF Start, VoiceInv, Tables, IsTable, VoiceTypeOK, Goto, Pcs
<1> USE <1>3, <1>4 DEF store
<1>5. AllFit'
  BY <1>2 DEF VoiceInv, AllFit, Talking
<1>6. VoiceTypeOK'
  BY <1>5, FitsIsSession DEF VoiceInv, VoiceTypeOK, AllFit, Talking, Pcs
<1>7. Tables' /\ Belongs'
  BY DEF VoiceInv, Tables, Belongs
<1>8. StartsEmpty'
  BY <1>1 DEF VoiceInv, StartsEmpty, Requests
<1>9. CatalogSeen'
  BY DEF VoiceInv, CatalogSeen, Running
<1>10. AllHeard'
  BY <1>1 DEF VoiceInv, AllHeard, Heard
<1>11. QueryWasOnOffer' /\ StatedAnswerWins'
  BY DEF VoiceInv, QueryWasOnOffer, StatedAnswerWins
<1> QED
  BY <1>5, <1>6, <1>7, <1>8, <1>9, <1>10, <1>11 DEF VoiceInv

LEMMA ContinueKeeps ==
  ASSUME VoiceInv, NEW r \in Requests, Continue(r)
  PROVE  VoiceInv'
<1>1. PICK d \in Starts : dialogue' = [dialogue EXCEPT ![r] = d]
  BY DEF Continue
<1>2. /\ pc[r] = "idle" /\ r \in Continues /\ state[r] = Nothing /\ command[r] = None
      /\ UNCHANGED <<store, sessions, categories, state, command, stated, said, completed>>
  BY DEF Continue, VoiceInv, Belongs
<1>3. /\ pc' \in [Requests -> Pcs] /\ seen' \in [Requests -> SUBSET Catalogs]
      /\ dialogue' \in [Requests -> Starts \cup {None}]
      /\ \A q \in Requests : /\ pc'[q] = IF q = r THEN "get" ELSE pc[q]
                             /\ dialogue'[q] = IF q = r THEN d ELSE dialogue[q]
                             /\ seen'[q] = IF q = r THEN {catalog} ELSE seen[q]
  BY <1>1, <1>2 DEF Continue, VoiceInv, VoiceTypeOK, Goto, Pcs
<1> USE <1>2, <1>3 DEF store
<1>5. AllFit'
  BY DEF VoiceInv, AllFit, Talking
<1>6. VoiceTypeOK'
  BY <1>5, FitsIsSession DEF VoiceInv, VoiceTypeOK, AllFit, Talking, Pcs
<1>7. Tables' /\ Belongs'
  BY DEF VoiceInv, Tables, Belongs
<1>8. StartsEmpty'
  BY DEF VoiceInv, StartsEmpty, Requests
<1>9. CatalogSeen'
  BY DEF VoiceInv, CatalogSeen, Running
<1>10. AllHeard'
  BY NothingFacts DEF VoiceInv, AllHeard, Heard
<1>11. QueryWasOnOffer' /\ StatedAnswerWins'
  BY DEF VoiceInv, QueryWasOnOffer, StatedAnswerWins
<1> QED
  BY <1>5, <1>6, <1>7, <1>8, <1>9, <1>10, <1>11 DEF VoiceInv

\* Redis executes a command late, or never; a session expires.
LEMMA RedisKeeps ==
  ASSUME VoiceInv, (\E r \in Requests : Execute(r) \/ Lose(r)) \/ (\E d \in Starts : Expire(d))
  PROVE  VoiceInv'
<1> USE DEF store, locals, voiceHistory
<1>1. UNCHANGED <<store, pc, dialogue, categories, state, stated, voiceHistory>>
  BY DEF Execute, Lose, Expire
<1>2. /\ command' \in [Requests -> {None, "SET", "DEL", "executed", "lost"}]
      /\ \A r \in Requests : command[r] = None => command'[r] = None
  <2>1. CASE \E r \in Requests : Execute(r) \/ Lose(r)
    BY <2>1 DEF Execute, Lose, None, VoiceInv, VoiceTypeOK
  <2>2. CASE \E d \in Starts : Expire(d)
    BY <2>2 DEF Expire, VoiceInv, VoiceTypeOK
  <2> QED
    BY <2>1, <2>2
<1>3. /\ IsTable(sessions', Starts)
      /\ \A d \in Starts :
           \/ sessions'[d] \in {sessions[d], Nothing}
           \/ \E r \in Requests : pc[r] # "idle" /\ dialogue[r] = d /\ sessions'[d] = state[r]
  <2>1. CASE \E r \in Requests : Execute(r)
    <3>1. PICK r \in Requests : Execute(r)
      BY <2>1
    <3>2. pc[r] # "idle" /\ dialogue[r] \in Starts
      BY <3>1 DEF Execute, VoiceInv, Belongs, None
    <3> QED
      BY <3>1, <3>2 DEF Execute, VoiceInv, Tables, IsTable
  <2>2. CASE UNCHANGED sessions
    BY <2>2 DEF VoiceInv, Tables
  <2>3. CASE \E d \in Starts : Expire(d)
    BY <2>3 DEF Expire, VoiceInv, Tables, IsTable
  <2> QED
    BY <2>1, <2>2, <2>3 DEF Lose
<1> USE <1>1, <1>2, <1>3
<1>4. AllFit'
  BY DEF VoiceInv, AllFit, Talking
<1>5. VoiceTypeOK'
  BY <1>4, FitsIsSession DEF VoiceInv, VoiceTypeOK, AllFit, Talking, Pcs
<1>6. Tables' /\ Belongs' /\ StartsEmpty'
  BY DEF VoiceInv, Tables, Belongs, StartsEmpty
<1>7. CatalogSeen'
  BY DEF VoiceInv, CatalogSeen, Running
<1>8. AllHeard'
  BY NothingFacts DEF VoiceInv, AllHeard, Heard
<1>9. QueryWasOnOffer' /\ StatedAnswerWins'
  BY DEF VoiceInv, QueryWasOnOffer, StatedAnswerWins
<1> QED
  BY <1>4, <1>5, <1>6, <1>7, <1>8, <1>9 DEF VoiceInv

LEMMA PublishKeeps ==
  ASSUME VoiceInv, Publish
  PROVE  VoiceInv'
<1>1. /\ UNCHANGED <<sessions, locals, said, completed>> /\ catalog' \in Catalogs
      /\ published' \in 0 .. MaxPublications /\ seen' \in [Requests -> SUBSET Catalogs]
      /\ \A r \in Requests : seen'[r] = IF Running(r) THEN seen[r] \cup {catalog'} ELSE seen[r]
  BY PublicationsBounded DEF Publish, VoiceInv, VoiceTypeOK
<1> USE <1>1 DEF locals
<1>2. AllFit'
  BY DEF VoiceInv, AllFit, Talking
<1>3. VoiceTypeOK'
  BY <1>2, FitsIsSession DEF VoiceInv, VoiceTypeOK, AllFit, Talking, Pcs
<1>4. Tables' /\ Belongs' /\ StartsEmpty'
  BY DEF VoiceInv, Tables, Belongs, StartsEmpty
<1>5. CatalogSeen'
  BY DEF CatalogSeen, Running
<1>6. AllHeard'
  BY DEF VoiceInv, AllHeard, Heard
<1>7. QueryWasOnOffer' /\ StatedAnswerWins'
  BY DEF VoiceInv, QueryWasOnOffer, StatedAnswerWins, Running
<1> QED
  BY <1>2, <1>3, <1>4, <1>5, <1>6, <1>7 DEF VoiceInv

\* A turn: what the parser heard is validated, merged and kept.
LEMMA UnderstandKeeps ==
  ASSUME VoiceInv, NEW r \in Requests, Understand(r)
  PROVE  VoiceInv'
<1> USE DEF store
<1>1. PICK i \in Intents \cup {None}, c \in categories[r] \cup {None} :
        \E f \in Nameable(r, IF c # None THEN c ELSE state[r].category) :
          Hear(r, [intent |-> i, category |-> c, filters |-> f])
  BY DEF Understand
<1> DEFINE selected == IF c # None THEN c ELSE state[r].category
<1>2. PICK f \in FiltersOf(selected) : Hear(r, [intent |-> i, category |-> c, filters |-> f])
  BY <1>1 DEF Nameable
<1> DEFINE next == Turn(r, [intent |-> i, category |-> c, filters |-> f])
<1>3. /\ said' = [said EXCEPT ![dialogue[r]] = @ \cup {<<selected, k, f[k]>> : k \in DOMAIN f}]
      /\ \/ next = Nothing /\ End(r, "failed") /\ UNCHANGED command
         \/ /\ next # Nothing
            /\ state' = [state EXCEPT ![r] = next]
            /\ stated' = [stated EXCEPT ![r] = f]
            /\ IF Missing(next) # {}
                 THEN Goto(r, "reply") /\ command' = [command EXCEPT ![r] = "SET"]
                 ELSE Goto(r, "query") /\ UNCHANGED command
            /\ UNCHANGED <<categories, seen>>
  <2> DEFINE p == [intent |-> i, category |-> c, filters |-> f]
  <2>1. p.filters = f /\ p.category = c
    OBVIOUS
  <2>2. Selected(p, state[r].category) = selected
    BY <2>1 DEF Selected
  <2>3. Hear(r, p)
    BY <1>2
  <2>4. next = Turn(r, p)
    OBVIOUS
  <2> HIDE DEF p, selected, next
  <2>5. said' = [said EXCEPT ![dialogue[r]] = @ \cup {<<selected, k, f[k]>> : k \in DOMAIN f}]
    BY <2>1, <2>2, <2>3 DEF Hear
  <2>6. /\ \/ next = Nothing /\ End(r, "failed") /\ UNCHANGED command
           \/ /\ next # Nothing
              /\ state' = [state EXCEPT ![r] = next]
              /\ stated' = [stated EXCEPT ![r] = f]
              /\ IF Missing(next) # {}
                   THEN Goto(r, "reply") /\ command' = [command EXCEPT ![r] = "SET"]
                   ELSE Goto(r, "query") /\ UNCHANGED command
              /\ UNCHANGED <<categories, seen>>
    BY <2>1, <2>3, <2>4 DEF Hear
  <2> QED
    BY <2>5, <2>6
<1>4. /\ pc[r] = "parse" /\ dialogue[r] \in Starts /\ UNCHANGED <<store, sessions, dialogue, completed>>
      /\ IsTable(f, DOMAIN f)
  <2>1. pc[r] = "parse" /\ UNCHANGED <<store, sessions, dialogue, completed>>
    BY DEF Understand
  <2>2. IsTable(f, DOMAIN f)
    <3>1. CASE selected = None
      <4>1. f = <<>>
        BY <3>1, NoFilters
      <4> QED
        BY <4>1 DEF IsTable
    <3>2. CASE selected # None
      BY <3>2, FilterTable
    <3> QED
      BY <3>1, <3>2
  <2> QED
    BY <2>1, <2>2, StateKinds
<1> HIDE DEF selected, next
<1>5. /\ IsTable(said', Starts)
      /\ \A d \in Starts : said[d] \subseteq said'[d]
      /\ \A k \in DOMAIN f : <<selected, k, f[k]>> \in said'[dialogue[r]]
  <2>1. said' = [said EXCEPT ![dialogue[r]] = @ \cup {<<selected, k, f[k]>> : k \in DOMAIN f}]
    BY <1>3
  <2> QED
    BY <1>4, <2>1 DEF VoiceInv, Tables, IsTable
<1>6. CASE End(r, "failed") /\ UNCHANGED command
  BY <1>4, <1>5, <1>6, EndKeeps DEF Over, VoiceInv, VoiceTypeOK
<1>7. CASE /\ next # Nothing
           /\ state' = [state EXCEPT ![r] = next]
           /\ stated' = [stated EXCEPT ![r] = f]
           /\ IF Missing(next) # {}
                THEN Goto(r, "reply") /\ command' = [command EXCEPT ![r] = "SET"]
                ELSE Goto(r, "query") /\ UNCHANGED command
           /\ UNCHANGED <<categories, seen>>
  <2>1. KeptOnOffer(r, selected, f, next)
    BY <1>4, <1>7, TurnFacts DEF selected, next
  <2>2. /\ pc' \in [Requests -> Pcs] /\ pc'[r] \in {"query", "reply"}
        /\ command' \in [Requests -> {None, "SET", "DEL", "executed", "lost"}]
        /\ \A q \in Requests : q # r => pc'[q] = pc[q] /\ command'[q] = command[q]
    BY <1>7 DEF VoiceInv, VoiceTypeOK, Goto, Pcs
  <2>3. /\ IsTable(state', Requests) /\ IsTable(stated', Requests)
        /\ \A q \in Requests : /\ state'[q] = IF q = r THEN next ELSE state[q]
                               /\ stated'[q] = IF q = r THEN f ELSE stated[q]
    BY <1>7 DEF VoiceInv, Tables, IsTable
  <2> USE <1>4, <2>2, <2>3
  <2>4. AllFit'
    BY <2>1 DEF VoiceInv, AllFit, Talking, KeptOnOffer
  <2>5. VoiceTypeOK'
    BY <1>7, <2>4, FitsIsSession DEF VoiceInv, VoiceTypeOK, AllFit, Talking, Pcs
  <2>6. Tables' /\ Belongs'
    BY <1>5 DEF VoiceInv, Tables, Belongs
  <2>7. StartsEmpty'
    BY DEF VoiceInv, StartsEmpty, Requests
  <2>8. CatalogSeen'
    BY <1>7 DEF VoiceInv, CatalogSeen, Running
  <2>9. AllHeard'
    <3>1. \A s, d : d \in Starts /\ Heard(s, d) => Heard(s, d)'
      BY <1>5 DEF Heard
    <3>2. \A k \in DOMAIN next.filters : <<next.category, k, next.filters[k]>> \in said'[dialogue[r]]
      <4>1. Heard(state[r], dialogue[r])
        BY DEF VoiceInv, AllHeard
      <4> QED
        BY <1>5, <2>1, <4>1 DEF KeptOnOffer, Heard
    <3> QED
      <4>1. (\A d \in Starts : Heard(sessions[d], d))'
        BY <3>1 DEF VoiceInv, AllHeard
      <4>2. (\A q \in Requests \ {r} : pc[q] # "idle" => Heard(state[q], dialogue[q]))'
        BY <3>1 DEF VoiceInv, AllHeard, Belongs
      <4>3. Heard(state[r], dialogue[r])'
        BY <3>2 DEF Heard
      <4> QED
        BY <4>1, <4>2, <4>3 DEF AllHeard
  <2>10. QueryWasOnOffer'
    <3>1. catalog \in seen[r]
      BY DEF VoiceInv, CatalogSeen, Running
    <3> QED
      BY <1>7, <2>1, <3>1 DEF VoiceInv, QueryWasOnOffer, KeptOnOffer
  <2>11. StatedAnswerWins'
    BY <2>1 DEF VoiceInv, StatedAnswerWins, KeptOnOffer
  <2> QED
    BY <2>4, <2>5, <2>6, <2>7, <2>8, <2>9, <2>10, <2>11 DEF VoiceInv
<1> QED
  BY <1>3, <1>6, <1>7 DEF next

LEMMA VoiceInitial == VoiceInit => VoiceInv
<1> SUFFICES ASSUME VoiceInit PROVE VoiceInv
  OBVIOUS
<1> USE DEF VoiceInit
<1>1. AllFit /\ Tables
  BY DEF AllFit, Talking, Tables, IsTable
<1>2. VoiceTypeOK
  BY PublicationsBounded DEF VoiceTypeOK
<1>3. Belongs /\ StartsEmpty /\ CatalogSeen
  BY DEF Belongs, StartsEmpty, CatalogSeen, Running, Requests
<1>4. AllHeard /\ QueryWasOnOffer /\ StatedAnswerWins
  BY NothingFacts DEF AllHeard, Heard, QueryWasOnOffer, StatedAnswerWins
<1> QED
  BY <1>1, <1>2, <1>3, <1>4 DEF VoiceInv

LEMMA VoiceStays ==
  ASSUME VoiceInv, UNCHANGED voiceVars
  PROVE  VoiceInv'
BY DEF VoiceInv, voiceVars, store, locals, voiceHistory, VoiceTypeOK, Tables, AllFit, Belongs, StartsEmpty,
       CatalogSeen, AllHeard, Heard, Talking, Running, QueryWasOnOffer, StatedAnswerWins

LEMMA VoiceInductive == VoiceSpec => []VoiceInv
<1>1. VoiceInv /\ [VoiceNext]_voiceVars => VoiceInv'
  BY StartKeeps, ContinueKeeps, GetKeeps, VocabularyKeeps, UnderstandKeeps, ResultKeeps, ReplyFailKeeps,
     RedisKeeps, PublishKeeps, VoiceStays DEF VoiceNext
<1> QED
  BY <1>1, VoiceInitial, PTL DEF VoiceSpec

-----------------------------------------------------------------------------
(* What a query asks for was on offer while the request ran (QueryWasOnOffer)*)
(* liveInput and service.go Continue), for any catalogues, dialogues and   *)
(* number of concurrent continuations; of a boolean filter, that a product *)
(* on offer had a value of it.                                             *)
THEOREM OnOffer == VoiceSpec => []QueryWasOnOffer
<1>1. VoiceInv => QueryWasOnOffer
  BY DEF VoiceInv
<1> QED
  BY <1>1, VoiceInductive, PTL

(* The types, the last answer first (service.go:80) and nothing that was   *)
(* not said, also for the sessions in Redis (state.go:110).                *)
THEOREM AsSaid == VoiceSpec => []QueryIsWhatWasSaid
<1>1. VoiceInv => QueryIsWhatWasSaid
  BY DEF VoiceInv, AllHeard, Heard, NothingInvented, QueryIsWhatWasSaid
<1> QED
  BY <1>1, VoiceInductive, PTL

=============================================================================
