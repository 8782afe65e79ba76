---------------------------- MODULE RateLimiter ----------------------------
(***************************************************************************)
(* internal/middleware/ratelimit.go: one token bucket per client address   *)
(* in a map of bounded size.  A lazy sweep forgets idle clients; at        *)
(* capacity new clients are refused rather than others evicted.            *)
(*                                                                         *)
(* Time is a number of ticks and tokens are counted in ticks of refill: a  *)
(* bucket gains one unit per tick and a request costs Cost, 1/rps.  The    *)
(* middleware reads the clock before it takes the mutex, so that the       *)
(* moments it works with may arrive up to MaxSkew late and out of order.   *)
(***************************************************************************)
EXTENDS Integers, FiniteSets

CONSTANTS
  Clients,        \* client addresses
  Cost,           \* 1/rps
  Burst,          \* burst/rps: the content of a full bucket
  MaxClients,     \* MaxRateClients
  IdleTTL,        \* RateIdleTTL
  SweepInterval,  \* rateSweepInterval
  MaxSkew,        \* longest time between reading the clock and holding the mutex
  MaxClock        \* bound: moments examined

ASSUME ParametersAreNaturals ==
  /\ {Burst, SweepInterval, MaxClock, MaxSkew} \subseteq Nat
  /\ {Cost, MaxClients, IdleTTL} \subseteq Nat \ {0}
ASSUME SkewBelowCost == MaxSkew <= Cost
(* RATE_LIMIT_BURST is at least one request.                               *)
ASSUME BurstIsPositive == Cost <= Burst
(* RATE_LIMIT_BURST / RATE_LIMIT_RPS is 2 s by default and has to stay     *)
(* below the ten minutes of RateIdleTTL; the configuration does not check  *)
(* it.                                                                     *)
ASSUME IdleBucketsAreFull == Burst + MaxSkew <= IdleTTL

VARIABLES
  clock,      \* the time
  clients,    \* the map: clients[c] is the limiter of c and its lastSeen
  lastSweep,
  watched,    \* history: a client whose admissions are counted,
  since,      \*   from this moment on,
  spent       \*   and what they cost at least, Cost - MaxSkew each

history == <<watched, since, spent>>
vars    == <<clock, clients, lastSweep, history>>

Known == DOMAIN clients

Least(m, n) == IF m <= n THEN m ELSE n
Most(m, n)  == IF m >= n THEN m ELSE n

Init ==
  /\ clock = 0
  /\ clients = <<>>
  /\ lastSweep = - SweepInterval
  /\ watched \in Clients
  /\ since = 0
  /\ spent = 0

Tick ==
  /\ clock < MaxClock
  /\ clock' = clock + 1
  /\ UNCHANGED <<clients, lastSweep, history>>

(* The window of RateBound opens at any time.                              *)
Watch ==
  /\ since' = clock
  /\ spent' = 0
  /\ UNCHANGED <<clock, clients, lastSweep, watched>>

SweepIsDue(now) == now - lastSweep >= SweepInterval

(* The clients that a request with time now finds in the map.              *)
(* Faulty variant: a sweep removes one idle client at a time.              *)
Kept_AllButOne(now) ==
  LET idle == {c \in Known : now - clients[c].lastSeen >= IdleTTL}
  IN IF SweepIsDue(now) /\ idle # {} THEN Known \ {CHOOSE c \in idle : TRUE} ELSE Known

Kept(now) == {c \in Known : SweepIsDue(now) => now - clients[c].lastSeen < IdleTTL}

(* rate.Limiter.advance: what a bucket holds at now; time does not run     *)
(* backwards for the refill.                                               *)
Refilled(b, now) == Least(Burst, b.level + Most(0, now - b.last))

(* A new limiter is full.                                                  *)
Content(c, now) == IF c \in Kept(now) THEN Refilled(clients[c], now) ELSE Burst

(* Faulty variant: at capacity the client seen longest ago makes room.     *)
Room_EvictOldest(c, kept) ==
  IF c \in kept \/ Cardinality(kept) < MaxClients THEN {kept \cup {c}}
  ELSE {(kept \ {d}) \cup {c} :
          d \in {d \in kept : \A e \in kept : clients[d].lastSeen <= clients[e].lastSeen}}

(* The clients of the map once c has a limiter; none if the map is full.   *)
Room(c, kept) ==
  IF c \in kept \/ Cardinality(kept) < MaxClients THEN {kept \cup {c}} ELSE {}

(* Faulty variant: a bucket may be overdrawn.                              *)
Affordable_Overdraft(content) == content > 0

Affordable(content) == content >= Cost

(* The map becomes the clients in room, c among them with bucket b.        *)
Remember(room, c, b) == clients' = [d \in room |-> IF d = c THEN b ELSE clients[d]]

(* allow() sweeps in any case.  A client without room is refused, one      *)
(* without tokens is remembered and refused.                               *)
NoRoom(c, now) ==
  /\ Room(c, Kept(now)) = {}
  /\ clients' = [d \in Kept(now) |-> clients[d]]
  /\ UNCHANGED spent

Admit(c, now) ==
  /\ Affordable(Content(c, now))
  /\ \E room \in Room(c, Kept(now)) :
       Remember(room, c, [level |-> Content(c, now) - Cost, last |-> now, lastSeen |-> now])
  /\ spent' = IF c = watched THEN spent + (Cost - MaxSkew) ELSE spent

Refuse(c, now) ==
  /\ ~Affordable(Content(c, now))
  /\ \E room \in Room(c, Kept(now)) : Remember(room, c, [clients[c] EXCEPT !.lastSeen = now])
  /\ UNCHANGED spent

Allow(c, now) ==
  /\ NoRoom(c, now) \/ Admit(c, now) \/ Refuse(c, now)
  /\ lastSweep' = IF SweepIsDue(now) THEN now ELSE lastSweep
  /\ UNCHANGED <<clock, watched, since>>

Next ==
  \/ Tick
  \/ Watch
  \/ \E c \in Clients, now \in (clock - MaxSkew)..clock : Allow(c, now)

Spec == Init /\ [][Next]_vars

-----------------------------------------------------------------------------
TypeOK ==
  /\ clock \in Nat
  /\ Known \subseteq Clients
  /\ clients \in [Known -> [level : 0..Burst, last : Int, lastSeen : Int]]
  /\ lastSweep \in Int
  /\ watched \in Clients
  /\ since \in Nat
  /\ spent \in Nat

(* "Fail closed at capacity instead of evicting active limiters/resetting  *)
(* tokens": in every window a client is admitted for a burst and the       *)
(* refill of the window at most, although idle limiters are forgotten and  *)
(* clock readings are applied out of order.                                *)
RateBound == spent <= Burst + (clock - since)

(* A sweep leaves no idle client behind: a new address is refused for      *)
(* capacity only while the clients of the last IdleTTL + SweepInterval     *)
(* fill the map.                                                           *)
OnlyRecentClients == \A c \in Known : clients[c].lastSeen > lastSweep - IdleTTL

=============================================================================
