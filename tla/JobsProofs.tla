----------------------------- MODULE JobsProofs -----------------------------
(***************************************************************************)
(* Proofs about the two jobs a clock starts: the monitor of the public     *)
(* site and the daily sync.                                                *)
(*                                                                         *)
(* Monitor: any number of runs that may overlap and die, any clock, any    *)
(* number of events.  What may be read next - state.json, the file of a    *)
(* save under way, the copy of a run - always agrees with what the         *)
(* receivers have been told (Agrees), because an attempt is on disk before *)
(* it is sent (Sending).                                                   *)
(*                                                                         *)
(* Nightly: any sites, limits and files of earlier nights, any number of   *)
(* nights.  A file of a scraper that ended well is of this night           *)
(* (FilesOfTheNight), and a bundle is of the files as they are because no  *)
(* scraper is left to change them (BundleOfTheFiles).                      *)
(***************************************************************************)
EXTENDS Monitor, Nightly, SequenceTheorems, FiniteSetTheorems, TLAPS

Steps    == {"off", "check", "deliver", "save", "rename", "notify", "close"}
Modes    == {"https", "telegram"}
Copy     == [pc : Steps, s : States, time : Nat, mode : Modes, then : {"close", "deliver", "notify"}]
Messages == [id : Nat, type : EventTypes, mode : Modes, time : Nat]

Types ==
  /\ disk \in States \cup {Empty} /\ temp \in States \cup {Empty, Off}
  /\ lock \in Runs \cup {Nobody} /\ clock \in Nat
  /\ run \in [Runs -> Copy]
  /\ events \in Nat /\ told \in Seq(Messages)

Exclusive == \A r \in Runs : run[r].pc # "off" => lock = r

Base == IF disk = Empty THEN FirstState ELSE disk

CopiesOf(story, id) == {i \in DOMAIN story : story[i].id = id}

(* A pending event and a story: the event is the last one the story knows, *)
(* or a later one of the other kind.                                       *)
Continues(p, story) ==
  /\ \A i \in DOMAIN story : story[i].id <= p.id
  /\ story = <<>> => p.type = "incident_opened"
  /\ story # <<>> /\ story[Len(story)].id # p.id => story[Len(story)].type # p.type
  /\ \A i \in CopiesOf(story, p.id) :
       /\ story[i].type = p.type
       /\ story[i].time + Cooldown <= p.next
       /\ story[i].mode = "telegram" => p.manual
  /\ Cardinality(CopiesOf(story, p.id)) <= p.attempts

(* Nothing is pending: the receivers know of the incident, or of its end.  *)
Settled(s, story) ==
  /\ story = <<>> => s.phase # "INCIDENT"
  /\ story # <<>> => (story[Len(story)].type = "incident_opened" <=> s.phase = "INCIDENT")

Agrees(s, story, n) ==
  /\ s \in States /\ ValidState(s)
  /\ s.pending = Empty => Settled(s, story)
  /\ s.pending # Empty => s.pending.id <= n /\ Continues(s.pending, story)

(* A run is about to send an attempt that is, or will be, on disk.         *)
Sending(q, story) ==
  LET p == q.s.pending
  IN  /\ p # Empty /\ p.next = q.time + Cooldown
      /\ \A i \in CopiesOf(story, p.id) : story[i].time + Cooldown <= q.time
      /\ Cardinality(CopiesOf(story, p.id)) < p.attempts
      /\ q.mode = "telegram" => CopiesOf(story, p.id) = {} /\ p.manual
      /\ q.mode = "https" => ~p.manual

Files == Agrees(Base, told, events) /\ (temp \notin {Empty, Off} => Agrees(temp, told, events))

InOrder(r) ==
  /\ run[r].pc \in {"check", "deliver"} =>
       run[r].s = Base /\ temp = Empty /\ (run[r].s.lastUTC = Never \/ run[r].s.lastUTC <= run[r].time)
  /\ run[r].pc = "check" => run[r].s.pending = Empty
  /\ run[r].pc = "deliver" => run[r].s.pending # Empty
  /\ run[r].pc \in {"save", "rename"} => Agrees(run[r].s, told, events)
  /\ run[r].pc = "rename" => temp = run[r].s
  /\ run[r].pc \in {"save", "rename"} /\ run[r].then = "deliver" =>
       run[r].s.pending # Empty /\ run[r].s.lastUTC = run[r].time
  /\ run[r].pc \in {"save", "notify"} => temp = Empty
  /\ run[r].pc = "notify" => run[r].s = disk
  /\ run[r].pc = "notify" \/ (run[r].pc \in {"save", "rename"} /\ run[r].then = "notify") =>
       Sending(run[r], told)

(* The story so far, as the receivers know it.                             *)
History(story, n) ==
  /\ \A i \in DOMAIN story : story[i].id <= n
  /\ \A id \in Nat :
       /\ Cardinality(CopiesOf(story, id)) <= MaxAttempts
       /\ (\E i \in CopiesOf(story, id) : story[i].mode = "telegram") =>
            \A i, j \in CopiesOf(story, id) : i = j
  /\ \A i, j \in DOMAIN story :
       i < j /\ story[i].id = story[j].id =>
         story[j].type = story[i].type /\ story[j].time >= story[i].time + Cooldown
  /\ \A i \in DOMAIN story :
       /\ i = 1 => story[i].type = "incident_opened"
       /\ i > 1 => \/ story[i].id = story[i - 1].id
                   \/ story[i].id > story[i - 1].id /\ story[i].type # story[i - 1].type

IInv == /\ Types /\ Exclusive /\ Files /\ (\A r \in Runs : InOrder(r)) /\ History(told, events)

-----------------------------------------------------------------------------
LEMMA OffIsNoState == Off \notin States /\ Off # Empty /\ Never \notin Nat
  BY NothingIsNoRecord DEF Off, States, Never

LEMMA FreshIsValid == FirstState \in States /\ ValidState(FirstState) /\ FirstState.pending = Empty /\ FirstState.phase = "OK"
  BY DEF FirstState, States, ValidState, Failures, Ready

LEMMA CopiesAreFinite ==
  ASSUME NEW story \in Seq(Messages), NEW id
  PROVE  IsFiniteSet(CopiesOf(story, id)) /\ Cardinality(CopiesOf(story, id)) \in Nat
<1>1. IsFiniteSet(DOMAIN story)
  BY FS_Interval DEF Messages
<1>2. CopiesOf(story, id) \subseteq DOMAIN story
  BY DEF CopiesOf
<1> QED
  BY <1>1, <1>2, FS_Subset, FS_CardinalityType

LEMMA EntryIsMessage ==
  ASSUME NEW story \in Seq(Messages), NEW i \in DOMAIN story
  PROVE  story[i] \in Messages /\ i \in 1 .. Len(story) /\ Len(story) \in Nat
<1> HIDE DEF Messages
<1> QED
  OBVIOUS

LEMMA Initial == MonitorInit => IInv
<1> SUFFICES ASSUME MonitorInit PROVE IInv
  OBVIOUS
<1> USE DEF MonitorInit
<1>1. Off \in Copy /\ Off.pc = "off"
  BY FreshIsValid DEF Off, Copy, Steps, Modes
<1>2. Types
  BY <1>1 DEF Types
<1>3. \A r \in Runs : run[r].pc = "off"
  BY <1>1
<1>4. Files
  BY FreshIsValid DEF Files, Base, Agrees, Settled
<1>5. Exclusive /\ \A r \in Runs : InOrder(r)
  BY <1>3 DEF Exclusive, InOrder
<1>6. History(told, events)
  <2>1. \A id \in Nat : CopiesOf(<<>>, id) = {}
    BY DEF CopiesOf
  <2> QED
    BY <2>1, FS_EmptySet DEF History, MaxAttempts
<1> QED
  BY <1>2, <1>4, <1>5, <1>6 DEF IInv

-----------------------------------------------------------------------------
(* A step of one run that tells nobody anything.                           *)
LEMMA QuietKeeps ==
  ASSUME IInv, NEW r \in Runs, told' = told, events' \in Nat, events' >= events,
         Types', Files', InOrder(r)', run'[r].pc # "off" => lock' = r,
         \A m \in Runs \ {r} : run'[m] = run[m] /\ run[m].pc = "off"
  PROVE  IInv'
<1>1. Exclusive'
  BY DEF Exclusive
<1>2. ASSUME NEW m \in Runs, m # r PROVE InOrder(m)'
  BY <1>2 DEF InOrder
<1>3. History(told, events)'
  <2>1. ASSUME NEW i \in DOMAIN told PROVE told[i].id <= events'
    <3>1. told[i].id \in Nat /\ events \in Nat
      BY <2>1, EntryIsMessage DEF IInv, Types, Messages
    <3>2. told[i].id <= events
      BY <2>1 DEF IInv, History
    <3> QED
      BY <3>1, <3>2
  <2> QED
    BY <2>1 DEF IInv, History
<1> QED
  BY <1>1, <1>2, <1>3 DEF IInv

LEMMA OthersAreOff ==
  ASSUME IInv, NEW r \in Runs, run[r].pc # "off" \/ lock = Nobody
  PROVE  \A m \in Runs \ {r} : run[m].pc = "off"
  BY NothingIsNoRecord DEF IInv, Exclusive

LEMMA OpenKeeps ==
  ASSUME IInv, NEW r \in Runs, NEW mode \in Modes, Open(r, mode)
  PROVE  IInv'
<1>1. /\ run[r].pc = "off" /\ lock = Nobody
      /\ disk' = disk /\ temp' = temp /\ clock' = clock /\ events' = events /\ told' = told
  BY DEF Open, LockFree
<1>2. \A m \in Runs \ {r} : run[m].pc = "off"
  BY <1>1, OthersAreOff
<1>3. Files' /\ Base' = Base /\ Base \in States
  BY <1>1, FreshIsValid DEF IInv, Files, Base, Types
<1>4. CASE run' = run /\ lock' \in {r, Nobody}
  <2>1. Types'
    BY <1>1, <1>4 DEF IInv, Types
  <2>2. InOrder(r)'
    BY <1>1, <1>4 DEF InOrder
  <2> QED
    BY <1>1, <1>2, <1>3, <1>4, <2>1, <2>2, QuietKeeps DEF IInv, Types
<1>5. CASE /\ temp = Empty /\ lock' = r /\ ~(clock < Base.lastUTC)
           /\ run' = [run EXCEPT ![r] = [pc |-> IF Ready(Base.pending) THEN "deliver" ELSE "check", s |-> Base,
                                        time |-> clock, mode |-> mode, then |-> "close"]]
  <2> DEFINE q == [pc |-> IF Ready(Base.pending) THEN "deliver" ELSE "check", s |-> Base,
                   time |-> clock, mode |-> mode, then |-> "close"]
  <2>1. q \in Copy
    BY <1>3 DEF Copy, Steps, IInv, Types
  <2>2. run'[r] = q /\ run' = [run EXCEPT ![r] = q]
    BY <1>5 DEF IInv, Types
  <2>3. Types'
    BY <1>1, <1>5, <2>1, <2>2 DEF IInv, Types
  <2>4. q.s.lastUTC = Never \/ q.s.lastUTC <= q.time
    BY <1>3, <1>5 DEF States, Never, IInv, Types
  <2>5. InOrder(r)'
    BY <1>1, <1>3, <1>5, <2>2, <2>4 DEF InOrder, Ready
  <2>6. \A m \in Runs \ {r} : run'[m] = run[m]
    BY <1>5 DEF IInv, Types
  <2> QED
    BY <1>1, <1>2, <1>3, <1>5, <2>3, <2>5, <2>6, QuietKeeps DEF IInv, Types
<1> QED
  BY <1>4, <1>5 DEF Open, Base

LEMMA GotoMoves ==
  ASSUME IInv, NEW r \in Runs, NEW pc \in Steps, Goto(r, pc)
  PROVE  /\ run' \in [Runs -> Copy]
         /\ run'[r] = [run[r] EXCEPT !.pc = pc]
         /\ \A m \in Runs \ {r} : run'[m] = run[m]
<1>1. run[r] \in Copy
  BY DEF IInv, Types
<1>2. [run[r] EXCEPT !.pc = pc] \in Copy
  BY <1>1 DEF Copy
<1>3. run' = [run EXCEPT ![r] = [run[r] EXCEPT !.pc = pc]]
  BY DEF Goto
<1> QED
  BY <1>2, <1>3 DEF IInv, Types

LEMMA SaveMoves ==
  ASSUME IInv, NEW r \in Runs, NEW s \in States, NEW then \in {"close", "deliver", "notify"}, Save(r, s, then)
  PROVE  /\ run' \in [Runs -> Copy]
         /\ run'[r] = [run[r] EXCEPT !.pc = "save", !.s = s, !.then = then]
         /\ \A m \in Runs \ {r} : run'[m] = run[m]
<1> DEFINE q == [run[r] EXCEPT !.pc = "save", !.s = s, !.then = then]
<1>1. run[r] \in Copy
  BY DEF IInv, Types
<1>2. q \in Copy
  BY <1>1 DEF Copy, Steps
<1>3. run' = [run EXCEPT ![r] = q]
  BY <1>1 DEF Save, IInv, Types, Copy
<1> QED
  BY <1>2, <1>3 DEF IInv, Types

LEMMA StopMoves ==
  ASSUME IInv, NEW r \in Runs, run' = [run EXCEPT ![r] = Off]
  PROVE  /\ run' \in [Runs -> Copy]
         /\ run'[r].pc = "off"
         /\ \A m \in Runs \ {r} : run'[m] = run[m]
<1>1. Off \in Copy /\ Off.pc = "off"
  BY FreshIsValid DEF Off, Copy, Steps, Modes
<1> QED
  BY <1>1 DEF IInv, Types

LEMMA WriteTempKeeps ==
  ASSUME IInv, NEW r \in Runs, WriteTemp(r)
  PROVE  IInv'
<1> DEFINE q == run[r]
<1>1. /\ q.pc = "save" /\ q \in Copy
      /\ disk' = disk /\ lock' = lock /\ clock' = clock /\ events' = events /\ told' = told
  BY DEF WriteTemp, IInv, Types
<1>2. Agrees(q.s, told, events) /\ q.s \in States /\ ValidState(q.s)
  BY <1>1 DEF IInv, InOrder, Agrees
<1>3. temp' = q.s /\ Goto(r, "rename")
  BY <1>2 DEF WriteTemp
<1>4. /\ run' \in [Runs -> Copy] /\ run'[r] = [q EXCEPT !.pc = "rename"]
      /\ \A m \in Runs \ {r} : run'[m] = run[m]
  BY <1>3, GotoMoves DEF Steps
<1>5. /\ run'[r].pc = "rename" /\ run'[r].s = q.s /\ run'[r].then = q.then
      /\ run'[r].time = q.time /\ run'[r].mode = q.mode
  BY <1>1, <1>4 DEF Copy
<1>6. Types'
  BY <1>1, <1>2, <1>3, <1>4 DEF IInv, Types
<1>7. Files'
  BY <1>1, <1>2, <1>3 DEF IInv, Files, Base
<1>8. InOrder(r)'
  BY <1>1, <1>2, <1>3, <1>5 DEF IInv, InOrder, Sending
<1>9. lock' = r
  BY <1>1 DEF IInv, Exclusive
<1> QED
  BY <1>1, <1>4, <1>6, <1>7, <1>8, <1>9, OthersAreOff, QuietKeeps DEF IInv, Types

LEMMA RenameKeeps ==
  ASSUME IInv, NEW r \in Runs, Rename(r)
  PROVE  IInv'
<1> DEFINE q == run[r]
<1>1. /\ q.pc = "rename" /\ q \in Copy /\ temp = q.s
      /\ disk' = temp /\ temp' = Empty /\ Goto(r, q.then)
      /\ lock' = lock /\ clock' = clock /\ events' = events /\ told' = told
  BY DEF Rename, IInv, Types, InOrder
<1>2. Agrees(q.s, told, events) /\ q.s \in States /\ q.s # Empty
  BY <1>1, NothingIsNoRecord DEF IInv, InOrder, Agrees
<1>3. /\ run' \in [Runs -> Copy] /\ run'[r] = [q EXCEPT !.pc = q.then]
      /\ \A m \in Runs \ {r} : run'[m] = run[m]
  BY <1>1, GotoMoves DEF Steps, Copy
<1>4. /\ run'[r].pc = q.then /\ run'[r].s = q.s /\ run'[r].then = q.then
      /\ run'[r].time = q.time /\ run'[r].mode = q.mode
  BY <1>1, <1>3 DEF Copy
<1>5. q.then \in {"close", "deliver", "notify"} /\ q.time \in Nat
  BY <1>1 DEF Copy
<1>6. Types'
  BY <1>1, <1>2, <1>3 DEF IInv, Types
<1>7. Files' /\ Base' = q.s
  BY <1>1, <1>2 DEF Files, Base
<1>8. InOrder(r)'
  BY <1>1, <1>2, <1>4, <1>5, <1>7 DEF IInv, InOrder, Sending
<1>9. lock' = r
  BY <1>1 DEF IInv, Exclusive
<1> QED
  BY <1>1, <1>3, <1>6, <1>7, <1>8, <1>9, OthersAreOff, QuietKeeps DEF IInv, Types

LEMMA CloseKeeps ==
  ASSUME IInv, NEW r \in Runs, Close(r)
  PROVE  IInv'
<1>1. /\ run[r].pc = "close" /\ lock' = Nobody /\ run' = [run EXCEPT ![r] = Off]
      /\ disk' = disk /\ temp' = temp /\ clock' = clock /\ events' = events /\ told' = told
  BY DEF Close
<1>2. /\ run' \in [Runs -> Copy] /\ run'[r].pc = "off"
      /\ \A m \in Runs \ {r} : run'[m] = run[m]
  BY <1>1, StopMoves
<1>3. Types' /\ Files' /\ InOrder(r)'
  BY <1>1, <1>2 DEF IInv, Types, Files, Base, InOrder
<1> QED
  BY <1>1, <1>2, <1>3, OthersAreOff, QuietKeeps DEF IInv, Types

LEMMA DieKeeps ==
  ASSUME IInv, NEW r \in Runs, Die(r)
  PROVE  IInv'
<1>1. /\ run[r].pc # "off" /\ run' = [run EXCEPT ![r] = Off]
      /\ lock' = lock /\ clock' = clock /\ events' = events /\ told' = told
  BY DEF Die
<1>2. /\ run' \in [Runs -> Copy] /\ run'[r].pc = "off"
      /\ \A m \in Runs \ {r} : run'[m] = run[m]
  BY <1>1, StopMoves
<1>3. Types' /\ Files'
  <2>1. CASE disk' = disk /\ temp' = temp
    BY <1>1, <1>2, <2>1 DEF IInv, Types, Files, Base
  <2>2. CASE temp' = Off /\ disk' = disk
    BY <1>1, <1>2, <2>2 DEF IInv, Types, Files, Base
  <2>3. CASE run[r].pc = "rename" /\ disk' = temp /\ temp' = Empty
    <3>1. Agrees(temp, told, events) /\ temp \in States /\ temp # Empty
      BY <2>3, NothingIsNoRecord DEF IInv, InOrder, Agrees
    <3> QED
      BY <1>1, <1>2, <2>3, <3>1 DEF IInv, Types, Files, Base
  <2> QED
    BY <2>1, <2>2, <2>3 DEF Die
<1>4. InOrder(r)'
  BY <1>2 DEF InOrder
<1> QED
  BY <1>1, <1>2, <1>3, <1>4, OthersAreOff, QuietKeeps DEF IInv, Types

LEMMA AbortKeeps ==
  ASSUME IInv, NEW r \in Runs, run[r].pc # "off", Goto(r, "close"),
         UNCHANGED <<disk, temp, lock, clock, events, told>>
  PROVE  IInv'
<1>1. /\ run' \in [Runs -> Copy] /\ run'[r] = [run[r] EXCEPT !.pc = "close"]
      /\ \A m \in Runs \ {r} : run'[m] = run[m]
  BY GotoMoves DEF Steps
<1>2. run'[r].pc = "close"
  BY <1>1 DEF IInv, Types, Copy
<1>3. Types' /\ Files' /\ InOrder(r)'
  BY <1>1, <1>2 DEF IInv, Types, Files, Base, InOrder
<1>4. lock' = r
  BY DEF IInv, Exclusive
<1> QED
  BY <1>1, <1>3, <1>4, OthersAreOff, QuietKeeps DEF IInv, Types

-----------------------------------------------------------------------------
(* What a check makes of a state that has nothing pending.                 *)
LEMMA ObservedAgrees ==
  ASSUME NEW story \in Seq(Messages), NEW n \in Nat, NEW s, NEW t \in Nat, NEW ok,
         Agrees(s, story, n), s.pending = Empty, s.lastUTC = Never \/ s.lastUTC <= t,
         \A i \in DOMAIN story : story[i].id <= n,
         NEW e, e = n + 1, NEW o, o = Observed(s, ok, t, e)
  PROVE  /\ o \in States /\ o.lastUTC = t
         /\ Agrees(o, story, e)
         /\ o.pending = Empty => Agrees(o, story, n)
<1> DEFINE failures == IF ok THEN 0 ELSE Smaller(2, s.failures + 1)
           phase    == IF ok THEN "OK" ELSE IF failures = 1 THEN "DEGRADED" ELSE "INCIDENT"
           type     == IF s.phase # "INCIDENT" /\ phase = "INCIDENT" THEN "incident_opened"
                       ELSE IF s.phase = "INCIDENT" /\ ok THEN "incident_recovered" ELSE "none"
           p        == [id |-> n + 1, type |-> type, at |-> t, next |-> t, attempts |-> 0, manual |-> FALSE]
<1>1. o = [phase |-> phase, failures |-> failures, lastUTC |-> t,
           pending |-> IF type = "none" THEN Empty ELSE p]
  BY DEF Observed
<1>2. s \in States /\ ValidState(s) /\ Settled(s, story)
  BY DEF Agrees
<1>3. s.phase \in {"OK", "DEGRADED", "INCIDENT"} /\ s.failures = Failures[s.phase]
  BY <1>2 DEF States, ValidState
<1>4. failures = Failures[phase] /\ failures \in Nat /\ phase \in {"OK", "DEGRADED", "INCIDENT"}
  BY <1>3 DEF Failures, Smaller
<1>5. type # "none" => p \in Pendings /\ p # Empty
  <2>1. type # "none" => type \in EventTypes
    BY DEF EventTypes
  <2> HIDE DEF type
  <2>2. type # "none" => p \in Pendings
    BY <2>1 DEF Pendings
  <2> QED
    BY <2>2, NothingIsNoRecord
<1>6. o \in States
  <2> HIDE DEF type, p, phase, failures
  <2> QED
    BY <1>1, <1>4, <1>5 DEF States
<1>7. o.phase = phase /\ o.failures = failures /\ o.lastUTC = t /\ o.pending = IF type = "none" THEN Empty ELSE p
  <2> HIDE DEF type, p, phase, failures
  <2> QED
    BY <1>1
<1>8. p.id = n + 1 /\ p.type = type /\ p.at = t /\ p.next = t /\ p.attempts = 0 /\ p.manual = FALSE
  OBVIOUS
<1>9. /\ type = "incident_opened" => phase = "INCIDENT" /\ s.phase # "INCIDENT"
      /\ type = "incident_recovered" => phase = "OK" /\ s.phase = "INCIDENT"
      /\ type = "none" => (phase = "INCIDENT" <=> s.phase = "INCIDENT")
      /\ type \in {"incident_opened", "incident_recovered", "none"}
  BY <1>3 DEF Failures, Smaller
<1> HIDE DEF type, p, phase, failures
<1>10. ValidState(o)
  <2>1. t # Never
    BY OffIsNoState
  <2> QED
    BY <1>4, <1>5, <1>7, <1>8, <1>9, <2>1 DEF ValidState, ValidPending, Ready, MaxAttempts
<1>11. o.pending = Empty => Settled(o, story)
  BY <1>2, <1>5, <1>7, <1>9 DEF Settled
<1>12. o.pending # Empty => o.pending.id = n + 1 /\ Continues(o.pending, story)
  <2> SUFFICES ASSUME type # "none" PROVE o.pending.id = n + 1 /\ Continues(p, story)
    BY <1>5, <1>7, <1>8
  <2>1. ASSUME NEW i \in DOMAIN story PROVE story[i].id \in Nat /\ story[i].id < n + 1
    <3>1. story[i].id \in Nat /\ story[i].id <= n
      BY EntryIsMessage DEF Messages
    <3> QED
      BY <3>1
  <2>2. CopiesOf(story, n + 1) = {}
    BY <2>1 DEF CopiesOf
  <2>3. Cardinality(CopiesOf(story, n + 1)) = 0
    BY <2>2, FS_EmptySet
  <2>4. \A i \in DOMAIN story : story[i].id <= p.id
    BY <1>8, <2>1
  <2>5. story = <<>> => p.type = "incident_opened"
    BY <1>2, <1>8, <1>9 DEF Settled
  <2>6. story # <<>> => story[Len(story)].type # p.type
    BY <1>2, <1>8, <1>9 DEF Settled
  <2> QED
    BY <1>7, <1>8, <2>2, <2>3, <2>4, <2>5, <2>6 DEF Continues
<1> QED
  BY <1>6, <1>7, <1>10, <1>11, <1>12 DEF Agrees

LEMMA CheckKeeps ==
  ASSUME IInv, NEW r \in Runs, Check(r)
  PROVE  IInv'
<1> DEFINE q == run[r]
<1>1. /\ q.pc = "check" /\ q \in Copy /\ q.time \in Nat /\ q.s = Base /\ temp = Empty
      /\ q.s.lastUTC = Never \/ q.s.lastUTC <= q.time
      /\ q.s.pending = Empty /\ Agrees(q.s, told, events)
      /\ told \in Seq(Messages) /\ events \in Nat /\ \A i \in DOMAIN told : told[i].id <= events
      /\ disk' = disk /\ temp' = temp /\ lock' = lock /\ clock' = clock /\ told' = told
  BY DEF Check, IInv, Types, Copy, InOrder, Files, History
<1>2. PICK ok \in BOOLEAN :
        LET o == Observed(q.s, ok, q.time, events + 1)
        IN  /\ events' = IF Ready(o.pending) THEN events + 1 ELSE events
            /\ Save(r, o, IF Ready(o.pending) THEN "deliver" ELSE "close")
  <2>1. PICK bad \in 0 .. Len(Endpoints), kind \in Wrong \cup Missing :
          LET o == Observed(q.s, Healthy(Verdict(bad, kind)), q.time, events + 1)
          IN  /\ events' = IF Ready(o.pending) THEN events + 1 ELSE events
              /\ Save(r, o, IF Ready(o.pending) THEN "deliver" ELSE "close")
    BY DEF Check
  <2>2. Healthy(Verdict(bad, kind)) \in BOOLEAN
    BY DEF Healthy
  <2> QED
    BY <2>1, <2>2
<1> DEFINE o == Observed(q.s, ok, q.time, events + 1)
           then == IF Ready(o.pending) THEN "deliver" ELSE "close"
<1>3. /\ o \in States /\ o.lastUTC = q.time
      /\ Agrees(o, told, events + 1) /\ (o.pending = Empty => Agrees(o, told, events))
  <2>1. /\ told \in Seq(Messages) /\ events \in Nat /\ q.time \in Nat /\ ok \in BOOLEAN
        /\ Agrees(q.s, told, events) /\ q.s.pending = Empty
        /\ q.s.lastUTC = Never \/ q.s.lastUTC <= q.time
        /\ \A i \in DOMAIN told : told[i].id <= events
    BY <1>1
  <2> DEFINE e == events + 1
  <2>2. o = Observed(q.s, ok, q.time, e)
    OBVIOUS
  <2> HIDE DEF q, o, e
  <2>3. o \in States /\ o.lastUTC = q.time /\ Agrees(o, told, e) /\ (o.pending = Empty => Agrees(o, told, events))
    <3>1. e = events + 1
      BY DEF e
    <3> QED
      BY <2>1, <2>2, <3>1, ObservedAgrees
  <2> QED
    BY <2>3 DEF e
<1> HIDE DEF o
<1>4. events' = (IF Ready(o.pending) THEN events + 1 ELSE events) /\ Save(r, o, then)
  BY <1>2 DEF o
<1>5. events' \in Nat /\ events' >= events /\ Agrees(o, told, events')
  BY <1>1, <1>3, <1>4 DEF Ready
<1>6. /\ run' \in [Runs -> Copy] /\ run'[r] = [q EXCEPT !.pc = "save", !.s = o, !.then = then]
      /\ \A m \in Runs \ {r} : run'[m] = run[m]
  BY <1>3, <1>4, SaveMoves
<1>7. /\ run'[r].pc = "save" /\ run'[r].s = o /\ run'[r].then = then /\ run'[r].time = q.time
  BY <1>1, <1>6 DEF Copy
<1>8. Types'
  BY <1>1, <1>5, <1>6 DEF IInv, Types
<1>9. Agrees(Base, told, events')
  <2>1. Base.pending = Empty
    BY <1>1
  <2> QED
    BY <1>1, <2>1 DEF Agrees
<1>10. Files'
  BY <1>1, <1>9 DEF Files, Base
<1>11. InOrder(r)'
  BY <1>1, <1>3, <1>5, <1>7 DEF InOrder, Ready
<1>12. lock' = r
  BY <1>1 DEF IInv, Exclusive
<1> QED
  BY <1>1, <1>5, <1>6, <1>8, <1>10, <1>11, <1>12, OthersAreOff, QuietKeeps DEF IInv, Types

-----------------------------------------------------------------------------
(* What is saved before an attempt is sent.                                *)
LEMMA AttemptedAgrees ==
  ASSUME NEW story \in Seq(Messages), NEW n \in Nat, NEW s, NEW t \in Nat, NEW mode \in Modes,
         Agrees(s, story, n), s.pending # Empty, s.lastUTC <= t,
         ~WaitsForOperator(s.pending, mode), s.pending.attempts < MaxAttempts, ~TooEarly(s.pending, t)
  PROVE  LET o == Attempted(s, t, mode)
         IN  /\ o \in States /\ Agrees(o, story, n) /\ o.pending # Empty
             /\ \A q \in Copy : q.s = o /\ q.time = t /\ q.mode = mode => Sending(q, story)
<1> DEFINE p == s.pending
           b == [p EXCEPT !.attempts = @ + 1, !.next = t + Cooldown, !.manual = @ \/ mode = "telegram"]
           o == Attempted(s, t, mode)
<1>1. s \in States /\ ValidState(s) /\ p \in Pendings /\ p.id <= n /\ Continues(p, story)
  BY DEF Agrees, States
<1>2. ValidPending(s, p) /\ s.lastUTC \in Nat
  BY <1>1 DEF ValidState, ValidPending, Ready, States
<1>3. b \in Pendings /\ b # Empty
  <2>1. b \in Pendings
    <3> DEFINE manual == p.manual \/ mode = "telegram"
    <3>1. manual \in BOOLEAN
      OBVIOUS
    <3>2. b = [p EXCEPT !.attempts = p.attempts + 1, !.next = t + Cooldown, !.manual = manual]
      BY <1>1 DEF Pendings
    <3>3. p.id \in Nat /\ p.type \in EventTypes /\ p.at \in Nat /\ p.attempts + 1 \in Nat /\ t + Cooldown \in Nat
      BY <1>1 DEF Pendings, Cooldown
    <3> HIDE DEF b, manual, p
    <3>4. b = [id |-> p.id, type |-> p.type, at |-> p.at, next |-> t + Cooldown,
               attempts |-> p.attempts + 1, manual |-> manual]
      BY <1>1, <3>2 DEF Pendings
    <3> QED
      BY <3>1, <3>3, <3>4 DEF Pendings
  <2> QED
    BY <2>1, NothingIsNoRecord
<1>4. /\ b.id = p.id /\ b.type = p.type /\ b.at = p.at
      /\ b.attempts = p.attempts + 1 /\ b.next = t + Cooldown /\ b.manual = (p.manual \/ mode = "telegram")
  BY <1>1 DEF Pendings
<1>5. /\ p.attempts \in Nat /\ p.at \in Nat /\ p.next \in Nat /\ p.id \in Nat
      /\ p.attempts < 3 /\ p.next <= t /\ p.manual = FALSE /\ p.type \in EventTypes
      /\ mode = "telegram" => p.attempts = 0
  BY <1>1 DEF Pendings, MaxAttempts, TooEarly, WaitsForOperator
<1>6. o = [s EXCEPT !.lastUTC = t, !.pending = b]
  BY <1>1 DEF Attempted, States, Pendings
<1> HIDE DEF b, o
<1>7. o.phase = s.phase /\ o.failures = s.failures /\ o.lastUTC = t /\ o.pending = b /\ o \in States
  BY <1>1, <1>3, <1>6 DEF States
<1>8. ValidState(o)
  <2>1. t # Never
    BY OffIsNoState
  <2>2. p.at <= t
    BY <1>2, <1>5 DEF ValidPending
  <2>3. ValidPending(o, b)
    <3> HIDE DEF p
    <3>1. b.manual => b.attempts >= 1
      BY <1>4, <1>5
    <3>2. o.lastUTC # Never /\ b.at <= o.lastUTC
      BY <1>4, <1>7, <2>1, <2>2
    <3>3. b.next = o.lastUTC + Cooldown /\ b.attempts # 0
      BY <1>4, <1>5, <1>7
    <3>4. b.next >= b.at
      BY <1>4, <1>5, <2>2 DEF Cooldown
    <3>5. b.attempts \in 0 .. MaxAttempts
      BY <1>4, <1>5 DEF MaxAttempts
    <3>6. o.phase = IF b.type = "incident_opened" THEN "INCIDENT" ELSE "OK"
      BY <1>2, <1>4, <1>7 DEF ValidPending
    <3> QED
      BY <3>1, <3>2, <3>3, <3>4, <3>5, <3>6 DEF ValidPending
  <2> QED
    BY <1>1, <1>7, <2>1, <2>3 DEF ValidState
<1> DEFINE C == CopiesOf(story, p.id)
<1>9. IsFiniteSet(C) /\ Cardinality(C) \in Nat /\ Cardinality(C) <= p.attempts
  BY <1>1, CopiesAreFinite DEF Continues
<1>10. \A i \in C : story[i].time \in Nat /\ story[i].time + Cooldown <= p.next
                    /\ story[i].type = p.type /\ story[i].mode # "telegram"
  <2> SUFFICES ASSUME NEW i \in C
               PROVE  story[i].time \in Nat /\ story[i].time + Cooldown <= p.next
                      /\ story[i].type = p.type /\ story[i].mode # "telegram"
    OBVIOUS
  <2>1. i \in DOMAIN story
    BY DEF CopiesOf
  <2>2. story[i].time \in Nat
    BY <2>1, EntryIsMessage DEF Messages
  <2> QED
    BY <1>1, <1>5, <2>2 DEF Continues
<1>11. \A i \in C : story[i].time + Cooldown <= t
  BY <1>5, <1>10 DEF Cooldown
<1>12. Continues(b, story)
  <2>1. \A i \in C : story[i].time + Cooldown <= b.next
    BY <1>4, <1>10, <1>11 DEF Cooldown
  <2>2. Cardinality(C) <= b.attempts
    BY <1>4, <1>5, <1>9
  <2> QED
    BY <1>1, <1>4, <1>10, <2>1, <2>2 DEF Continues
<1>13. Agrees(o, story, n)
  BY <1>1, <1>3, <1>4, <1>7, <1>8, <1>12 DEF Agrees
<1>14. ASSUME NEW q \in Copy, q.s = o, q.time = t, q.mode = mode
       PROVE  Sending(q, story)
  <2>1. Cardinality(C) < b.attempts
    BY <1>4, <1>5, <1>9
  <2>2. mode = "telegram" => C = {} /\ b.manual
    <3>1. mode = "telegram" => Cardinality(C) = 0
      BY <1>5, <1>9
    <3> QED
      BY <1>4, <1>9, <3>1, FS_EmptySet
  <2>3. mode = "https" => ~b.manual
    BY <1>4, <1>5
  <2> QED
    BY <1>3, <1>4, <1>7, <1>11, <1>14, <2>1, <2>2, <2>3 DEF Sending
<1> QED
  BY <1>3, <1>7, <1>13, <1>14 DEF o

LEMMA DeliverKeeps ==
  ASSUME IInv, NEW r \in Runs, Deliver(r)
  PROVE  IInv'
<1> DEFINE q == run[r]
<1>1. /\ q.pc = "deliver" /\ q \in Copy /\ q.time \in Nat /\ q.mode \in Modes /\ q.s = Base /\ temp = Empty
      /\ q.s.lastUTC = Never \/ q.s.lastUTC <= q.time
      /\ q.s.pending # Empty /\ Agrees(q.s, told, events)
      /\ told \in Seq(Messages) /\ events \in Nat
      /\ disk' = disk /\ temp' = temp /\ lock' = lock /\ clock' = clock /\ told' = told /\ events' = events
  BY DEF Deliver, IInv, Types, Copy, InOrder, Files
<1>2. CASE Goto(r, "close")
  BY <1>1, <1>2, AbortKeeps
<1> DEFINE o == Attempted(q.s, q.time, q.mode)
<1>3. CASE /\ ~WaitsForOperator(q.s.pending, q.mode) /\ ~(q.s.pending.attempts >= MaxAttempts)
           /\ ~TooEarly(q.s.pending, q.time) /\ Save(r, o, "notify")
  <2>1. q.s.pending.attempts \in Nat /\ q.s.lastUTC # Never
    BY <1>1 DEF Agrees, States, Pendings, ValidState, ValidPending, Ready
  <2>2. q.s.pending.attempts < MaxAttempts /\ q.s.lastUTC <= q.time
    BY <1>1, <1>3, <2>1 DEF MaxAttempts
  <2>3. /\ o \in States /\ Agrees(o, told, events)
        /\ \A c \in Copy : c.s = o /\ c.time = q.time /\ c.mode = q.mode => Sending(c, told)
    BY <1>1, <1>3, <2>2, AttemptedAgrees
  <2> HIDE DEF o
  <2>4. /\ run' \in [Runs -> Copy] /\ run'[r] = [q EXCEPT !.pc = "save", !.s = o, !.then = "notify"]
        /\ \A m \in Runs \ {r} : run'[m] = run[m]
    BY <1>3, <2>3, SaveMoves
  <2>5. /\ run'[r].pc = "save" /\ run'[r].s = o /\ run'[r].then = "notify"
        /\ run'[r].time = q.time /\ run'[r].mode = q.mode /\ run'[r] \in Copy
    BY <1>1, <2>4 DEF Copy
  <2>6. Types' /\ Files'
    BY <1>1, <2>4 DEF IInv, Types, Files, Base
  <2>7. InOrder(r)'
    <3>1. Sending(run'[r], told)
      BY <2>3, <2>5
    <3>2. Sending(run[r], told)'
      BY <1>1, <3>1 DEF Sending
    <3> QED
      BY <1>1, <2>3, <2>5, <3>2 DEF InOrder
  <2>8. lock' = r
    BY <1>1 DEF IInv, Exclusive
  <2> QED
    BY <1>1, <2>4, <2>6, <2>7, <2>8, OthersAreOff, QuietKeeps DEF IInv, Types
<1> QED
  BY <1>2, <1>3 DEF Deliver

-----------------------------------------------------------------------------
(* An attempt that has arrived.                                            *)
LEMMA AppendTells ==
  ASSUME NEW story \in Seq(Messages), NEW m \in Messages
  PROVE  LET longer == Append(story, m)
         IN  /\ longer \in Seq(Messages) /\ Len(longer) = Len(story) + 1 /\ longer # <<>>
             /\ longer[Len(story) + 1] = m
             /\ DOMAIN story = 1 .. Len(story) /\ DOMAIN longer = 1 .. Len(story) + 1
             /\ \A i \in DOMAIN story : longer[i] = story[i] /\ i \in DOMAIN longer
             /\ \A i \in DOMAIN longer : i \in DOMAIN story \/ i = Len(story) + 1
<1> HIDE DEF Messages
<1> QED
  OBVIOUS

LEMMA CopiesGrow ==
  ASSUME NEW story \in Seq(Messages), NEW m \in Messages, NEW id
  PROVE  LET longer == Append(story, m)
         IN  /\ m.id # id => CopiesOf(longer, id) = CopiesOf(story, id)
             /\ m.id = id => /\ CopiesOf(longer, id) = CopiesOf(story, id) \cup {Len(story) + 1}
                             /\ Cardinality(CopiesOf(longer, id)) = Cardinality(CopiesOf(story, id)) + 1
<1> DEFINE longer == Append(story, m)
<1>1. /\ longer[Len(story) + 1] = m
      /\ DOMAIN story = 1 .. Len(story) /\ DOMAIN longer = 1 .. Len(story) + 1
      /\ \A i \in DOMAIN story : longer[i] = story[i] /\ i \in DOMAIN longer
      /\ \A i \in DOMAIN longer : i \in DOMAIN story \/ i = Len(story) + 1
      /\ Len(story) \in Nat
  BY AppendTells
<1> HIDE DEF longer
<1>2. m.id # id => CopiesOf(longer, id) = CopiesOf(story, id)
  BY <1>1 DEF CopiesOf
<1>3. m.id = id => CopiesOf(longer, id) = CopiesOf(story, id) \cup {Len(story) + 1}
  BY <1>1 DEF CopiesOf
<1>4. Len(story) + 1 \notin CopiesOf(story, id)
  BY <1>1 DEF CopiesOf
<1>5. m.id = id => Cardinality(CopiesOf(longer, id)) = Cardinality(CopiesOf(story, id)) + 1
  BY <1>3, <1>4, CopiesAreFinite, FS_AddElement
<1> QED
  BY <1>2, <1>3, <1>5 DEF longer

LEMMA ToldAgrees ==
  ASSUME NEW story \in Seq(Messages), NEW n \in Nat, NEW q \in Copy,
         Agrees(q.s, story, n), Sending(q, story), History(story, n)
  PROVE  LET p == q.s.pending
             m == [id |-> p.id, type |-> p.type, mode |-> q.mode, time |-> q.time]
         IN  /\ m \in Messages
             /\ Agrees(q.s, Append(story, m), n)
             /\ Agrees([q.s EXCEPT !.pending = Empty], Append(story, m), n)
             /\ History(Append(story, m), n)
<1> DEFINE p      == q.s.pending
           m      == [id |-> p.id, type |-> p.type, mode |-> q.mode, time |-> q.time]
           longer == Append(story, m)
           last   == Len(story) + 1
           C      == CopiesOf(story, p.id)
           D      == CopiesOf(longer, p.id)
<1>1. /\ q.s \in States /\ ValidState(q.s) /\ p \in Pendings /\ p # Empty /\ p.id <= n /\ Continues(p, story)
      /\ ValidPending(q.s, p) /\ q.time \in Nat /\ q.mode \in Modes
  BY DEF Agrees, Sending, States, ValidState, Ready, Copy
<1>2. /\ p.id \in Nat /\ p.type \in EventTypes /\ p.attempts \in Nat /\ p.next \in Nat /\ p.attempts <= 3
      /\ p.next = q.time + Cooldown
  BY <1>1 DEF Pendings, ValidPending, MaxAttempts, Sending
<1>3. m \in Messages
  BY <1>1, <1>2 DEF Messages
<1>4. m.id = p.id /\ m.type = p.type /\ m.mode = q.mode /\ m.time = q.time
  OBVIOUS
<1> HIDE DEF m, p
<1>5. /\ longer \in Seq(Messages) /\ Len(longer) = last /\ longer # <<>> /\ longer[last] = m
      /\ DOMAIN story = 1 .. Len(story) /\ DOMAIN longer = 1 .. last /\ Len(story) \in Nat
      /\ \A i \in DOMAIN story : longer[i] = story[i] /\ i \in DOMAIN longer
      /\ \A i \in DOMAIN longer : i \in DOMAIN story \/ i = last
  BY <1>3, AppendTells
<1>6. D = C \cup {last} /\ Cardinality(D) = Cardinality(C) + 1
  BY <1>3, <1>4, CopiesGrow
<1>7. \A id : id # p.id => CopiesOf(longer, id) = CopiesOf(story, id)
  BY <1>3, <1>4, CopiesGrow
<1>8. Cardinality(C) \in Nat /\ Cardinality(C) < p.attempts
  BY <1>1, CopiesAreFinite DEF Sending, p
<1> HIDE DEF longer
<1>9. \A i \in C : i \in DOMAIN story /\ longer[i] = story[i]
  BY <1>5 DEF CopiesOf
<1>10. Continues(p, longer)
  <2>1. \A i \in DOMAIN longer : longer[i].id <= p.id
    BY <1>1, <1>2, <1>4, <1>5 DEF Continues
  <2>2. longer[Len(longer)].id = p.id
    BY <1>4, <1>5
  <2>3. ASSUME NEW i \in D
        PROVE  /\ longer[i].type = p.type /\ longer[i].time + Cooldown <= p.next
               /\ longer[i].mode = "telegram" => p.manual
    <3>1. CASE i = last
      BY <1>1, <1>2, <1>4, <1>5, <3>1 DEF Sending, p, Cooldown
    <3>2. CASE i \in C
      BY <1>1, <1>9, <3>2 DEF Continues
    <3> QED
      BY <1>6, <3>1, <3>2
  <2>4. Cardinality(D) <= p.attempts
    BY <1>2, <1>6, <1>8
  <2> QED
    BY <1>5, <2>1, <2>2, <2>3, <2>4 DEF Continues
<1>11. Agrees(q.s, longer, n)
  BY <1>1, <1>10 DEF Agrees, p
<1> DEFINE told2 == [q.s EXCEPT !.pending = Empty]
<1>12. Agrees(told2, longer, n)
  <2>1. /\ told2 \in States /\ told2.pending = Empty /\ told2.phase = q.s.phase
        /\ told2.failures = q.s.failures /\ told2.lastUTC = q.s.lastUTC
    BY <1>1 DEF States
  <2>2. ValidState(told2)
    BY <1>1, <2>1 DEF ValidState, Ready
  <2>3. Settled(told2, longer)
    BY <1>1, <1>2, <1>4, <1>5, <2>1 DEF Settled, ValidPending, EventTypes
  <2> HIDE DEF told2
  <2> QED
    BY <2>1, <2>2, <2>3 DEF Agrees
<1>13. History(longer, n)
  <2>1. \A i \in DOMAIN longer : longer[i].id <= n
    BY <1>1, <1>4, <1>5 DEF History
  <2>2. ASSUME NEW id \in Nat
        PROVE  /\ Cardinality(CopiesOf(longer, id)) <= MaxAttempts
               /\ (\E i \in CopiesOf(longer, id) : longer[i].mode = "telegram") =>
                    \A i, j \in CopiesOf(longer, id) : i = j
    <3>1. CASE id # p.id
      <4>1. CopiesOf(longer, id) = CopiesOf(story, id)
        BY <1>7, <3>1
      <4>2. \A i \in CopiesOf(story, id) : longer[i] = story[i]
        BY <1>5 DEF CopiesOf
      <4> QED
        BY <4>1, <4>2 DEF History
    <3>2. CASE id = p.id
      <4>1. Cardinality(D) <= MaxAttempts
        BY <1>2, <1>6, <1>8 DEF MaxAttempts
      <4>2. (\E i \in D : longer[i].mode = "telegram") => C = {}
        <5>1. ASSUME NEW i \in C, longer[i].mode = "telegram" PROVE FALSE
          <6>1. p.manual
            BY <1>1, <1>9, <5>1 DEF Continues
          <6>2. q.mode = "telegram"
            BY <1>1, <6>1 DEF Sending, p, Modes
          <6> QED
            BY <5>1, <6>2 DEF Sending, p
        <5>2. longer[last].mode = "telegram" => C = {}
          BY <1>4, <1>5 DEF Sending, p
        <5> QED
          BY <1>6, <5>1, <5>2
      <4> QED
        BY <1>6, <3>2, <4>1, <4>2
    <3> QED
      BY <3>1, <3>2
  <2>3. ASSUME NEW i \in DOMAIN longer, NEW j \in DOMAIN longer, i < j, longer[i].id = longer[j].id
        PROVE  longer[j].type = longer[i].type /\ longer[j].time >= longer[i].time + Cooldown
    <3>1. i \in DOMAIN story
      BY <1>5, <2>3
    <3>2. CASE j \in DOMAIN story
      BY <1>5, <2>3, <3>1, <3>2 DEF History
    <3>3. CASE j = last
      <4>1. i \in C
        BY <1>4, <1>5, <2>3, <3>1, <3>3 DEF CopiesOf
      <4>2. story[i].type = p.type /\ story[i].time + Cooldown <= q.time
        BY <1>1, <4>1 DEF Continues, Sending, p
      <4>3. story[i].time + Cooldown \in Nat
        <5>1. story[i].time \in Nat
          BY <3>1, EntryIsMessage DEF Messages
        <5> QED
          BY <5>1 DEF Cooldown
      <4> QED
        BY <1>1, <1>4, <1>5, <3>1, <3>3, <4>2, <4>3
    <3> QED
      BY <1>5, <3>2, <3>3
  <2>4. ASSUME NEW i \in DOMAIN longer
        PROVE  /\ i = 1 => longer[i].type = "incident_opened"
               /\ i > 1 => \/ longer[i].id = longer[i - 1].id
                           \/ longer[i].id > longer[i - 1].id /\ longer[i].type # longer[i - 1].type
    <3>1. CASE i \in DOMAIN story
      <4>1. i > 1 => i - 1 \in DOMAIN story
        BY <1>5, <3>1
      <4> QED
        BY <1>5, <3>1, <4>1 DEF History
    <3>2. CASE i = last
      <4>1. CASE story = <<>>
        BY <1>1, <1>4, <1>5, <3>2, <4>1 DEF Continues
      <4>2. CASE story # <<>>
        <5>1. Len(story) \in DOMAIN story /\ i - 1 = Len(story) /\ i > 1
          BY <1>5, <3>2, <4>2, EmptySeq
        <5>2. story[Len(story)].id \in Nat /\ story[Len(story)].id <= p.id
          BY <1>1, <5>1, EntryIsMessage DEF Messages, Continues
        <5>3. story[Len(story)].id # p.id => story[Len(story)].type # p.type
          BY <1>1, <4>2 DEF Continues
        <5> QED
          BY <1>2, <1>4, <1>5, <3>2, <5>1, <5>2, <5>3
      <4> QED
        BY <4>1, <4>2
    <3> QED
      BY <1>5, <3>1, <3>2
  <2> QED
    BY <2>1, <2>2, <2>3, <2>4 DEF History
<1> QED
  BY <1>3, <1>11, <1>12, <1>13 DEF m, p, longer

LEMMA NotifyKeeps ==
  ASSUME IInv, NEW r \in Runs, Notify(r)
  PROVE  IInv'
<1> DEFINE q    == run[r]
           p    == q.s.pending
           m    == [id |-> p.id, type |-> p.type, mode |-> q.mode, time |-> q.time]
           done == [q.s EXCEPT !.pending = Empty]
<1>1. /\ q.pc = "notify" /\ q \in Copy /\ q.s = disk /\ q.s \in States /\ temp = Empty /\ Sending(q, told)
      /\ told \in Seq(Messages) /\ events \in Nat /\ History(told, events)
      /\ disk' = disk /\ temp' = temp /\ lock' = lock /\ clock' = clock /\ events' = events
  BY DEF Notify, IInv, Types, Copy, InOrder
<1>2. Base = q.s /\ disk # Empty /\ Agrees(q.s, told, events)
  BY <1>1, NothingIsNoRecord DEF IInv, Files, Base
<1>3. /\ m \in Messages
      /\ Agrees(q.s, Append(told, m), events)
      /\ Agrees(done, Append(told, m), events)
      /\ History(Append(told, m), events)
  BY <1>1, <1>2, ToldAgrees
<1>4. /\ told' = Append(told, m) \/ told' = told
      /\ Goto(r, "close") \/ (told' = Append(told, m) /\ Save(r, done, "close"))
  BY DEF Notify, TelegramAnswers, HttpsAnswers
<1> HIDE DEF m, done
<1>5. told' \in Seq(Messages) /\ Agrees(q.s, told', events) /\ History(told', events)
  <2>1. CASE told' = told
    BY <1>1, <1>2, <2>1
  <2>2. CASE told' = Append(told, m)
    BY <1>1, <1>3, <2>2, AppendTells
  <2> QED
    BY <1>4, <2>1, <2>2
<1>6. Base' = q.s
  BY <1>1, <1>2 DEF Base
<1>7. /\ run' \in [Runs -> Copy]
      /\ \A k \in Runs \ {r} : run'[k] = run[k]
      /\ InOrder(r)'
  <2>1. CASE Goto(r, "close")
    <3>1. /\ run' \in [Runs -> Copy] /\ run'[r] = [q EXCEPT !.pc = "close"]
          /\ \A k \in Runs \ {r} : run'[k] = run[k]
      BY <2>1, GotoMoves DEF Steps
    <3>2. run'[r].pc = "close"
      BY <1>1, <3>1 DEF Copy
    <3> QED
      BY <3>1, <3>2 DEF InOrder
  <2>2. CASE told' = Append(told, m) /\ Save(r, done, "close")
    <3>1. done \in States
      BY <1>3 DEF Agrees
    <3>2. /\ run' \in [Runs -> Copy] /\ run'[r] = [q EXCEPT !.pc = "save", !.s = done, !.then = "close"]
          /\ \A k \in Runs \ {r} : run'[k] = run[k]
      BY <2>2, <3>1, SaveMoves
    <3>3. run'[r].pc = "save" /\ run'[r].s = done /\ run'[r].then = "close"
      BY <1>1, <3>2 DEF Copy
    <3> QED
      BY <1>1, <1>3, <2>2, <3>2, <3>3 DEF InOrder
  <2> QED
    BY <1>4, <2>1, <2>2
<1>8. Types' /\ Files'
  BY <1>1, <1>5, <1>6, <1>7 DEF IInv, Types, Files
<1>9. \A k \in Runs \ {r} : run[k].pc = "off"
  BY <1>1, OthersAreOff
<1>10. lock' = r
  BY <1>1 DEF IInv, Exclusive
<1>11. Exclusive'
  BY <1>7, <1>9, <1>10 DEF Exclusive
<1>12. ASSUME NEW k \in Runs, k # r PROVE InOrder(k)'
  BY <1>7, <1>9, <1>12 DEF InOrder
<1>13. History(told, events)'
  BY <1>1, <1>5 DEF History
<1> QED
  BY <1>7, <1>8, <1>11, <1>12, <1>13 DEF IInv

-----------------------------------------------------------------------------
LEMMA ReconcileKeeps ==
  ASSUME IInv, Reconcile
  PROVE  IInv'
<1>1. /\ lock \in Runs /\ run[lock].pc = "off" /\ lock' = Nobody /\ temp' = Empty
      /\ disk' = disk \/ (temp \notin {Empty, Off} /\ disk' = temp)
      /\ clock' = clock /\ run' = run /\ events' = events /\ told' = told
  BY DEF Reconcile, IInv, Types
<1>2. \A r \in Runs : run[r].pc = "off"
  BY <1>1 DEF IInv, Exclusive
<1>3. Types'
  BY <1>1 DEF IInv, Types
<1>4. Exclusive' /\ \A r \in Runs : InOrder(r)'
  BY <1>1, <1>2 DEF Exclusive, InOrder
<1>5. Files' /\ History(told, events)'
  BY <1>1 DEF IInv, Files, Base, History
<1> QED
  BY <1>3, <1>4, <1>5 DEF IInv

LEMMA ClockKeeps ==
  ASSUME IInv, Clock
  PROVE  IInv'
<1>1. /\ clock' \in Nat
      /\ disk' = disk /\ temp' = temp /\ lock' = lock /\ run' = run /\ events' = events /\ told' = told
  BY TimeIsBounded DEF Clock
<1>2. Types' /\ Exclusive' /\ Files' /\ (\A r \in Runs : InOrder(r)') /\ History(told, events)'
  BY <1>1 DEF IInv, Types, Exclusive, Files, Base, InOrder, History
<1> QED
  BY <1>2 DEF IInv

LEMMA StutterKeeps ==
  ASSUME IInv, UNCHANGED monitorVars
  PROVE  IInv'
  BY DEF IInv, monitorVars, Types, Exclusive, Files, Base, InOrder, History

LEMMA Inductive == IInv /\ [MonitorNext]_monitorVars => IInv'
<1> SUFFICES ASSUME IInv, [MonitorNext]_monitorVars PROVE IInv'
  OBVIOUS
<1>1. ASSUME NEW r \in Runs, NEW mode \in {"https", "telegram"}, Open(r, mode) PROVE IInv'
  BY <1>1, OpenKeeps DEF Modes
<1>2. ASSUME NEW r \in Runs, WriteTemp(r) PROVE IInv'
  BY <1>2, WriteTempKeeps
<1>3. ASSUME NEW r \in Runs, Rename(r) PROVE IInv'
  BY <1>3, RenameKeeps
<1>4. ASSUME NEW r \in Runs, Close(r) PROVE IInv'
  BY <1>4, CloseKeeps
<1>5. ASSUME NEW r \in Runs, Die(r) PROVE IInv'
  BY <1>5, DieKeeps
<1>6. ASSUME NEW r \in Runs, Check(r) PROVE IInv'
  BY <1>6, CheckKeeps
<1>7. ASSUME NEW r \in Runs, Abort(r) PROVE IInv'
  BY <1>7, AbortKeeps DEF Abort
<1>8. ASSUME NEW r \in Runs, Deliver(r) PROVE IInv'
  BY <1>8, DeliverKeeps
<1>9. ASSUME NEW r \in Runs, Notify(r) PROVE IInv'
  BY <1>9, NotifyKeeps
<1> QED
  BY <1>1, <1>2, <1>3, <1>4, <1>5, <1>6, <1>7, <1>8, <1>9, ClockKeeps, ReconcileKeeps, StutterKeeps
     DEF MonitorNext

\* However the runs of the monitor overlap and die, whatever the clock and the
\* operator do: what a run saves is valid, an event goes out by Telegram at
\* most once and by HTTPS at most three times, spaced, and the receivers hear
\* incidents and recoveries by turns (scripts/ops/monitor-go-production.mjs:48-82).
THEOREM IncidentsToldOnce == MonitorSpec => []IncidentIsToldOnce
<1>1. MonitorInit => IInv
  BY Initial
<1>2. IInv /\ [MonitorNext]_monitorVars => IInv'
  BY Inductive
<1>3. IInv => IncidentIsToldOnce
  <2> SUFFICES ASSUME IInv PROVE IncidentIsToldOnce
    OBVIOUS
  <2>1. SavesAreValid
    BY DEF IInv, InOrder, Agrees, SavesAreValid
  <2>2. \A id : Copies(id) = CopiesOf(told, id)
    BY DEF Copies, CopiesOf
  <2>3. \A id \in 1 .. events : id \in Nat
    BY DEF IInv, Types
  <2>4. TelegramOnce
    BY <2>2, <2>3 DEF IInv, History, TelegramOnce
  <2>5. RetriesAreSpaced
    BY <2>2, <2>3 DEF IInv, History, RetriesAreSpaced
  <2>6. StoryIsOrdered
    BY DEF IInv, History, StoryIsOrdered
  <2> QED
    BY <2>1, <2>4, <2>5, <2>6 DEF IncidentIsToldOnce
<1> QED
  BY <1>1, <1>2, <1>3, PTL DEF MonitorSpec

-----------------------------------------------------------------------------
(* The daily sync *)
\* A file that a scraper of this night has written, or is about to put in
\* place, was captured this night.
FilesOfTheNight ==
  \A s \in NightStores :
    /\ stage[s] = "tmp" => tmp[s].captured = night
    /\ stage[s] \in {"written", "ok"} => file[s].captured = night

\* The bundle is none, or that of the files as they are: no scraper is left to
\* change them.
BundleOfTheFiles ==
  bundle.night = night =>
    /\ ScrapersEnd
    /\ \A s \in NightStores : Fresh(s)
    /\ bundle.files = [s \in NightStores |-> file[s].captured]

NightTables ==
  /\ night \in Nat \ {0}
  /\ stage = [s \in NightStores |-> stage[s]] /\ tmp = [s \in NightStores |-> tmp[s]]
  /\ file = [s \in NightStores |-> file[s]]

NightInv == NightTables /\ FilesOfTheNight /\ BundleOfTheFiles /\ ExitTellsTheSnapshot

-----------------------------------------------------------------------------
\* A step of a scraper, or of the pool of Dana, leaves the bundle and the
\* snapshot alone and is taken before the bundle is made.
LEMMA ScraperKeeps ==
  ASSUME NightInv, NEW s \in NightStores,
         stage[s] \notin {"ok", "failed"}, NEW to, stage' = [stage EXCEPT ![s] = to],
         to = "tmp" => tmp'[s].captured = night,
         to \in {"written", "ok"} => file'[s].captured = night,
         \A q \in NightStores \ {s} : tmp'[q] = tmp[q] /\ file'[q] = file[q],
         tmp' = [q \in NightStores |-> tmp'[q]], file' = [q \in NightStores |-> file'[q]],
         UNCHANGED <<night, bundle, published, exit>>
  PROVE  NightInv'
<1>1. bundle.night # night
  BY DEF NightInv, BundleOfTheFiles, ScrapersEnd
<1>2. BundleOfTheFiles'
  BY <1>1 DEF BundleOfTheFiles
<1>3. NightTables' /\ FilesOfTheNight'
  BY DEF NightInv, NightTables, FilesOfTheNight
<1>4. ExitTellsTheSnapshot'
  BY DEF NightInv, ExitTellsTheSnapshot
<1> QED
  BY <1>2, <1>3, <1>4 DEF NightInv

LEMMA ScraperStepKeeps ==
  ASSUME NightInv, NEW s \in NightStores, ScraperStep(s)
  PROVE  NightInv'
<1> USE DEF NightInv, NightTables
<1>1. CASE RunScraper(s)
  <2>1. PICK r : Outcome(s, r)
    BY <1>1 DEF RunScraper
  <2>2. PICK to \in {"scraped", "failed"} : stage' = [stage EXCEPT ![s] = to]
    BY <2>1 DEF Outcome
  <2> QED
    BY <1>1, <2>2, ScraperKeeps DEF RunScraper
<1>2. CASE WriteTmp(s)
  <2>1. Stamped(result[s]).captured = night
    BY DEF Stamped
  <2>2. \/ tmp' = [tmp EXCEPT ![s] = Stamped(result[s])] /\ stage' = [stage EXCEPT ![s] = "tmp"]
        \/ UNCHANGED tmp /\ stage' = [stage EXCEPT ![s] = "failed"]
    BY <1>2 DEF WriteTmp
  <2> QED
    BY <1>2, <2>1, <2>2, ScraperKeeps DEF WriteTmp
<1>3. CASE RenameTmp(s)
  <2>1. tmp[s].captured = night
    BY <1>3 DEF RenameTmp, FilesOfTheNight
  <2> QED
    BY <1>3, <2>1, ScraperKeeps DEF RenameTmp
<1>4. CASE ScraperExit(s)
  <2>1. file[s].captured = night
    BY <1>4 DEF ScraperExit, FilesOfTheNight
  <2> QED
    BY <1>4, <2>1, ScraperKeeps DEF ScraperExit
<1>5. CASE Kill(s)
  BY <1>5, ScraperKeeps DEF Kill
<1> QED
  BY <1>1, <1>2, <1>3, <1>4, <1>5 DEF ScraperStep

LEMMA DanaKeeps ==
  ASSUME NightInv, DanaStep
  PROVE  NightInv'
<1> USE DEF NightInv, NightTables
<1>1. "DANA" \in NightStores
  BY DEF NightStores
<1>2. CASE UNCHANGED <<night, stage, tmp, file, bundle, published, exit>>
  BY <1>2 DEF FilesOfTheNight, BundleOfTheFiles, ExitTellsTheSnapshot, ScrapersEnd, Fresh
<1>3. CASE DanaStart
  BY <1>1, <1>3, ScraperKeeps DEF DanaStart
<1>4. CASE DanaPhaseEnd /\ pool.phase # 1
  <2>1. PICK to \in {"scraped", "failed"} : stage' = [stage EXCEPT !["DANA"] = to]
    BY <1>4 DEF DanaPhaseEnd, Outcome
  <2> QED
    BY <1>1, <1>4, <2>1, ScraperKeeps DEF DanaPhaseEnd
<1> QED
  BY <1>2, <1>3, <1>4 DEF DanaStep, DanaPhaseEnd, PoolAnswer

LEMMA SyncKeeps ==
  ASSUME NightInv, Sync
  PROVE  NightInv'
<1> USE DEF NightInv, NightTables
<1>1. FilesOfTheNight' /\ NightTables'
  BY DEF Sync, FilesOfTheNight
<1>2. CASE UNCHANGED bundle
  <2>1. BundleOfTheFiles'
    BY <1>2 DEF Sync, BundleOfTheFiles, ScrapersEnd, Fresh
  <2>2. ExitTellsTheSnapshot'
    BY <1>2 DEF Sync, ExitTellsTheSnapshot
  <2> QED
    BY <1>1, <2>1, <2>2
<1>3. CASE bundle' = [night |-> night, files |-> [s \in NightStores |-> file[s].captured]]
           /\ (\A s \in NightStores : Fresh(s)) /\ UNCHANGED exit
  <2>1. BundleOfTheFiles'
    BY <1>3 DEF Sync, BundleOfTheFiles, ScrapersEnd, Fresh
  <2>2. ExitTellsTheSnapshot'
    BY <1>3 DEF Sync, ExitTellsTheSnapshot
  <2> QED
    BY <1>1, <2>1, <2>2
<1> QED
  BY <1>2, <1>3 DEF Sync

LEMMA PublishKeeps ==
  ASSUME NightInv, NEW good \in BOOLEAN, Publish(good)
  PROVE  NightInv'
<1> USE DEF NightInv, NightTables
<1>1. /\ exit = "running" /\ bundle.night = night /\ UNCHANGED <<night, stage, tmp, file, bundle>>
      /\ published' \in {published, bundle} /\ (exit' \in {"0", "3"} => published' = bundle)
      /\ exit' = "0" => FailedScrapers = {}
  BY DEF Publish
<1>2. FilesOfTheNight' /\ NightTables' /\ BundleOfTheFiles'
  BY <1>1 DEF FilesOfTheNight, BundleOfTheFiles, ScrapersEnd, Fresh
<1>3. /\ bundle.files = [s \in NightStores |-> file[s].captured]
      /\ \A s \in NightStores : (night - file[s].captured) * 24 <= MaxAge
  BY <1>1 DEF BundleOfTheFiles, Fresh
<1>4. exit' = "0" => \A s \in NightStores : file[s].captured = night
  BY <1>1 DEF FailedScrapers, BundleOfTheFiles, ScrapersEnd, FilesOfTheNight
<1>5. /\ published.night # 0 =>
           /\ DOMAIN published.files = NightStores
           /\ \A s \in NightStores : (published.night - published.files[s]) * 24 <= MaxAge
  BY DEF ExitTellsTheSnapshot
<1>6. ExitTellsTheSnapshot'
  BY <1>1, <1>3, <1>4, <1>5 DEF ExitTellsTheSnapshot
<1> QED
  BY <1>2, <1>6

LEMMA NextNightKeeps ==
  ASSUME NightInv, NextNight
  PROVE  NightInv'
<1> USE DEF NightInv, NightTables
<1>1. /\ night' \in Nat \ {0} /\ stage' = [s \in NightStores |-> "start"] /\ tmp' = [s \in NightStores |-> NoFile]
      /\ bundle'.night = 0 /\ exit' = "running" /\ UNCHANGED <<file, published>>
  BY DEF NextNight, NoBundle
<1>2. NightTables' /\ FilesOfTheNight' /\ BundleOfTheFiles'
  BY <1>1 DEF FilesOfTheNight, BundleOfTheFiles
<1>3. ExitTellsTheSnapshot'
  BY <1>1 DEF ExitTellsTheSnapshot
<1> QED
  BY <1>2, <1>3

LEMMA NightInitial == NightInit => NightInv
<1> SUFFICES ASSUME NightInit PROVE NightInv
  OBVIOUS
<1>1. NightTables /\ FilesOfTheNight
  BY FirstFilesAreTables DEF NightInit, NightTables, FilesOfTheNight
<1>2. BundleOfTheFiles /\ ExitTellsTheSnapshot
  BY DEF NightInit, BundleOfTheFiles, ExitTellsTheSnapshot, NoBundle
<1> QED
  BY <1>1, <1>2 DEF NightInv

LEMMA NightStays ==
  ASSUME NightInv, UNCHANGED nightVars
  PROVE  NightInv'
BY DEF NightInv, nightVars, NightTables, FilesOfTheNight, BundleOfTheFiles, ExitTellsTheSnapshot, ScrapersEnd, Fresh

LEMMA NightInductive == NightSpec => []NightInv
<1>1. NightInv /\ [NightNext]_nightVars => NightInv'
  BY ScraperStepKeeps, DanaKeeps, SyncKeeps, PublishKeeps, NextNightKeeps, NightStays DEF NightNext, NightStep
<1> QED
  BY <1>1, NightInitial, PTL DEF NightSpec

\* Whatever a site answers, whenever a scraper is killed, whatever file an
\* earlier night has left and however a publication ends: exit code 0 stands
\* for a published snapshot of three files of this night, 3 for one of this
\* night, and no snapshot used a file beyond the limit of age or leaves a store
\* out (pipeline/scripts/daily-sync.sh, cli/sync.ts).
THEOREM ExitIsTrue == NightSpec => []ExitTellsTheSnapshot
<1>1. NightInv => ExitTellsTheSnapshot
  BY DEF NightInv
<1> QED
  BY <1>1, NightInductive, PTL
=============================================================================
