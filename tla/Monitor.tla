------------------------------- MODULE Monitor -------------------------------
(***************************************************************************)
(* scripts/ops/monitor-go-production.mjs: one-shot runs that check the API *)
(* and tell an operator of incidents and recoveries.  What they have seen  *)
(* and still have to tell lives in state.json, behind monitor.lock         *)
(* (monitor-state.mjs); an event leaves by an HTTPS receiver that drops    *)
(* repeated keys, or by Telegram, which does not.  A run may die anywhere, *)
(* the wall clock may jump, and an operator may clear what a dead run      *)
(* leaves.  One unit of time stands for 30 s.                              *)
(***************************************************************************)
EXTENDS Integers, Sequences, FiniteSets

CONSTANTS
  Runs,       \* invocations that may overlap
  Nobody,     \* monitor.lock does not exist
  Empty,      \* no such file, no pending event
  MaxTime,    \* bound: the wall clock stays within 0 .. MaxTime
  MaxEvents,  \* bound: events ever opened
  MaxDeaths   \* bound: runs that die

Cooldown    == 2
MaxAttempts == 3

VARIABLES
  disk,    \* state.json
  temp,    \* the .pending- file of a save under way
  lock,    \* monitor.lock: the run that made it, or Nobody
  clock,   \* the wall clock
  run,     \* run[r]: where it is, its copy of the state, the time it read
  events,  \* events opened so far: the random ids
  told,    \* what has reached a receiver, in order
  deaths

monitorVars == <<disk, temp, lock, clock, run, events, told, deaths>>

Never == 0 - 1   \* lastUTC: null
FirstState == [phase |-> "OK", failures |-> 0, lastUTC |-> Never, pending |-> Empty]
Off == [pc |-> "off", s |-> FirstState, time |-> 0, mode |-> "https", then |-> "close"]
Ready(p) == p # Empty

EventTypes == {"incident_opened", "incident_recovered"}
Pendings == [id : Nat, type : EventTypes, at : Nat, next : Nat, attempts : Nat, manual : BOOLEAN]
States == [phase : {"OK", "DEGRADED", "INCIDENT"}, failures : Nat, lastUTC : Nat \cup {Never},
           pending : Pendings \cup {Empty}]

ASSUME NothingIsNoRecord == Nobody \notin Runs /\ Empty \notin States \cup Pendings /\ Empty # Off
ASSUME TimeIsBounded == MaxTime \in Nat

-----------------------------------------------------------------------------
(* monitor-state.mjs                                                       *)

Failures == [OK |-> 0, DEGRADED |-> 1, INCIDENT |-> 2]

ValidPending(s, p) ==
  /\ p.manual => p.attempts >= 1
  /\ s.lastUTC # Never /\ p.at <= s.lastUTC /\ p.next >= p.at
  /\ p.attempts \in 0 .. MaxAttempts
  /\ p.next = IF p.attempts = 0 THEN p.at ELSE s.lastUTC + Cooldown
  /\ s.phase = IF p.type = "incident_opened" THEN "INCIDENT" ELSE "OK"

ValidState(s) ==
  /\ s.failures = Failures[s.phase]
  /\ s.lastUTC = Never => s.phase = "OK"
  /\ Ready(s.pending) => ValidPending(s, s.pending)

\* The lock is created with O_EXCL.
LockFree == lock = Nobody

\* A run begins: it takes the lock, keeps it and gives up on what an
\* interrupted or invalid save has left, and reads the time.  A run that
\* finds the lock taken ends without a trace.
Open(r, mode) ==
  /\ run[r].pc = "off" /\ LockFree
  /\ LET s == IF disk = Empty THEN FirstState ELSE disk
     IN  IF temp # Empty \/ ~ValidState(s)
         THEN lock' = r /\ UNCHANGED run
         ELSE /\ lock' = IF clock < s.lastUTC THEN Nobody ELSE r
              /\ run' = IF clock < s.lastUTC THEN run
                        ELSE [run EXCEPT ![r] =
                                [pc |-> IF Ready(s.pending) THEN "deliver" ELSE "check", s |-> s,
                                 time |-> clock, mode |-> mode, then |-> "close"]]
  /\ UNCHANGED <<disk, temp, clock, events, told, deaths>>

Goto(r, pc) == run' = [run EXCEPT ![r].pc = pc]
Save(r, s, then) == run' = [run EXCEPT ![r].pc = "save", ![r].s = s, ![r].then = then]

\* save(): an invalid state is refused, which poisons the store: the run ends
\* and leaves its lock.
WriteTemp(r) ==
  /\ run[r].pc = "save"
  /\ IF ValidState(run[r].s) THEN temp' = run[r].s /\ Goto(r, "rename")
     ELSE run' = [run EXCEPT ![r] = Off] /\ UNCHANGED temp
  /\ UNCHANGED <<disk, lock, clock, events, told, deaths>>

Rename(r) ==
  /\ run[r].pc = "rename"
  /\ disk' = temp /\ temp' = Empty
  /\ Goto(r, run[r].then)
  /\ UNCHANGED <<lock, clock, events, told, deaths>>

Close(r) ==
  /\ run[r].pc = "close"
  /\ lock' = Nobody /\ run' = [run EXCEPT ![r] = Off]
  /\ UNCHANGED <<disk, temp, clock, events, told, deaths>>

\* A run that dies, or whose save fails at any of its steps: the lock stays,
\* and with it a temporary file, whole or not, or the state already renamed.
Die(r) ==
  /\ run[r].pc # "off" /\ deaths < MaxDeaths
  /\ deaths' = deaths + 1
  /\ run' = [run EXCEPT ![r] = Off]
  /\ \/ UNCHANGED <<disk, temp>>
     \/ run[r].pc = "save" /\ temp' = Off /\ UNCHANGED disk
     \/ run[r].pc = "rename" /\ disk' = temp /\ temp' = Empty
  /\ UNCHANGED <<lock, clock, events, told>>

-----------------------------------------------------------------------------
(* verify-go-production.mjs: five requests in order, up to the first that  *)
(* does not pass; eight seconds each never use up the fifty of them all.   *)

Endpoints == <<"live", "ready", "categories", "products", "dashboard">>

\* What may become of one request(): a body that is none of what the endpoint
\* promises, or no body at all.
Wrong   == {"schema", "invalid_json", "content_type"}
Missing == {"timeout", "body_limit", "partial_body", "transport", "redirect", "access_blocked", "http_status"}

\* The verdict when the request number bad (0: none) does not pass.
Verdict(bad, kind) ==
  [outcome |-> CASE bad = 0 -> "PASS"
                 [] bad # 0 /\ kind \in Wrong -> "FAIL"
                 [] OTHER -> "BLOCKED",
   requests |-> IF bad = 0 THEN Len(Endpoints) ELSE bad]

Healthy(v) == v.outcome = "PASS" /\ v.requests = Len(Endpoints)

-----------------------------------------------------------------------------
(* runMonitor()                                                            *)

Smaller(a, b) == IF a < b THEN a ELSE b

\* Mutant: every failed check of an incident opens it.
ObservedAgain(s, ok, t, id) ==
  LET failures == IF ok THEN 0 ELSE Smaller(2, s.failures + 1)
      phase    == IF ok THEN "OK" ELSE IF failures = 1 THEN "DEGRADED" ELSE "INCIDENT"
      type     == IF phase = "INCIDENT" THEN "incident_opened"
                  ELSE IF s.phase = "INCIDENT" /\ ok THEN "incident_recovered" ELSE "none"
  IN  [phase |-> phase, failures |-> failures, lastUTC |-> t,
       pending |-> IF type = "none" THEN Empty
                   ELSE [id |-> id, type |-> type, at |-> t, next |-> t, attempts |-> 0, manual |-> FALSE]]

\* The next state after a check at time t.
Observed(s, ok, t, id) ==
  LET failures == IF ok THEN 0 ELSE Smaller(2, s.failures + 1)
      phase    == IF ok THEN "OK" ELSE IF failures = 1 THEN "DEGRADED" ELSE "INCIDENT"
      type     == IF s.phase # "INCIDENT" /\ phase = "INCIDENT" THEN "incident_opened"
                  ELSE IF s.phase = "INCIDENT" /\ ok THEN "incident_recovered" ELSE "none"
  IN  [phase |-> phase, failures |-> failures, lastUTC |-> t,
       pending |-> IF type = "none" THEN Empty
                   ELSE [id |-> id, type |-> type, at |-> t, next |-> t, attempts |-> 0, manual |-> FALSE]]

Check(r) ==
  /\ run[r].pc = "check"
  /\ \E bad \in 0 .. Len(Endpoints), kind \in Wrong \cup Missing :
       LET s == Observed(run[r].s, Healthy(Verdict(bad, kind)), run[r].time, events + 1)
       IN  /\ Ready(s.pending) => events < MaxEvents
           /\ events' = IF Ready(s.pending) THEN events + 1 ELSE events
           /\ Save(r, s, IF Ready(s.pending) THEN "deliver" ELSE "close")
  /\ UNCHANGED <<disk, temp, lock, clock, told, deaths>>

\* The caller aborts the run while it checks: nothing is saved.
Abort(r) ==
  /\ run[r].pc = "check"
  /\ Goto(r, "close")
  /\ UNCHANGED <<disk, temp, lock, clock, events, told, deaths>>

\* Mutant: only the mark of a Telegram attempt forbids another attempt.
WaitsForOperatorMarkOnly(p, mode) == p.manual

\* An event that a Telegram run has tried, or that a Telegram run finds
\* already tried, is left to the operator.
WaitsForOperator(p, mode) == p.manual \/ (mode = "telegram" /\ p.attempts > 0)

\* Mutant: the cooldown is counted from the attempt before.
AttemptedFromPlan(s, t, mode) ==
  [s EXCEPT !.lastUTC = t, !.pending.attempts = @ + 1, !.pending.next = @ + Cooldown,
            !.pending.manual = @ \/ mode = "telegram"]

\* The state as it is saved before the event is sent.
Attempted(s, t, mode) ==
  [s EXCEPT !.lastUTC = t, !.pending.attempts = @ + 1, !.pending.next = t + Cooldown,
            !.pending.manual = @ \/ mode = "telegram"]

\* Mutant: a new attempt waits for the time of the event.
TooEarlyFromEvent(p, t) == t < p.at

TooEarly(p, t) == t < p.next

Deliver(r) ==
  /\ run[r].pc = "deliver"
  /\ LET s == run[r].s
         p == s.pending
     IN  IF WaitsForOperator(p, run[r].mode) \/ p.attempts >= MaxAttempts \/ TooEarly(p, run[r].time)
         THEN Goto(r, "close")
         ELSE Save(r, Attempted(s, run[r].time, run[r].mode), "notify")
  /\ UNCHANGED <<disk, temp, lock, clock, events, told, deaths>>

\* createNotifier(): any 2xx from the receiver accepts the event.
HttpsAnswers == [accepted |-> {"2xx"}, refused |-> {"other", "none"}]

\* createTelegramNotifier(): only a complete 200 that names the message does.
TelegramAnswers == [accepted |-> {"message"}, refused |-> {"no message", "other", "none"}]

\* The event is sent.  An accepted one has arrived; of the others nobody knows.
Notify(r) ==
  /\ run[r].pc = "notify"
  /\ LET p == run[r].s.pending
         answers == IF run[r].mode = "telegram" THEN TelegramAnswers ELSE HttpsAnswers
         message == [id |-> p.id, type |-> p.type, mode |-> run[r].mode, time |-> run[r].time]
     IN  \E answer \in answers.accepted \cup answers.refused :
           /\ \/ told' = Append(told, message)
              \/ answer \in answers.refused /\ UNCHANGED told
           /\ IF answer \in answers.accepted THEN Save(r, [run[r].s EXCEPT !.pending = Empty], "close")
              ELSE Goto(r, "close")
  /\ UNCHANGED <<disk, temp, lock, clock, events, deaths>>

-----------------------------------------------------------------------------
(* The surroundings.                                                       *)

Clock ==
  /\ \E t \in 0 .. MaxTime : clock' = t
  /\ UNCHANGED <<disk, temp, lock, run, events, told, deaths>>

\* ops/monitor/README.md, Recovery: when the run that made the lock is gone the
\* operator clears it, and keeps or drops what the interrupted save wrote.
Reconcile ==
  /\ lock # Nobody /\ run[lock].pc = "off"
  /\ lock' = Nobody
  /\ disk' \in {disk} \cup (IF temp \in {Empty, Off} THEN {} ELSE {temp})
  /\ temp' = Empty
  /\ UNCHANGED <<clock, run, events, told, deaths>>

MonitorInit ==
  /\ disk = Empty /\ temp = Empty /\ lock = Nobody /\ clock = 0
  /\ run = [r \in Runs |-> Off]
  /\ events = 0 /\ told = <<>> /\ deaths = 0

MonitorNext ==
  \/ \E r \in Runs :
       \/ \E mode \in {"https", "telegram"} : Open(r, mode)
       \/ WriteTemp(r) \/ Rename(r) \/ Close(r) \/ Die(r)
       \/ Check(r) \/ Abort(r) \/ Deliver(r) \/ Notify(r)
  \/ Clock \/ Reconcile

MonitorSpec == MonitorInit /\ [][MonitorNext]_monitorVars

-----------------------------------------------------------------------------
Copies(id) == {i \in DOMAIN told : told[i].id = id}

\* Every state a run hands to save() (monitor-state.mjs:64) is valid: if one is
\* not, the monitor stops itself until an operator comes, and what was on
\* disk before is what the next run refuses or repeats.
SavesAreValid == \A r \in Runs : run[r].pc \in {"save", "rename"} => ValidState(run[r].s)

\* ops/monitor/README.md: "at most one automatic Telegram send for that event",
\* "even after cooldown or delivery-mode changes"; crashes, overlapping runs
\* and cleared locks included.
TelegramOnce ==
  \A id \in 1 .. events :
    (\E i \in Copies(id) : told[i].mode = "telegram") => \A i, j \in Copies(id) : i = j

\* A receiver sees an event at most three times, under one key, the attempts
\* spaced by the cooldown in the time the runs read (monitor-go-production.mjs:50-53),
\* whatever the clock, the crashes and the operator do.
RetriesAreSpaced ==
  /\ \A id \in 1 .. events : Cardinality(Copies(id)) <= MaxAttempts
  /\ \A i, j \in DOMAIN told :
       i < j /\ told[i].id = told[j].id =>
         /\ told[j].type = told[i].type
         /\ told[j].time >= told[i].time + Cooldown

\* The receivers hear a story that makes sense: it begins with an incident,
\* incidents and recoveries come by turns, and no event is heard of again
\* after a later one (monitor-go-production.mjs:60: a pending event is drained
\* before anything new is observed).
StoryIsOrdered ==
  \A i \in DOMAIN told :
    /\ i = 1 => told[i].type = "incident_opened"
    /\ i > 1 => \/ told[i].id = told[i - 1].id
                \/ told[i].id > told[i - 1].id /\ told[i].type # told[i - 1].type

\* Through crashes between saving and sending an incident is told once, in
\* order, and never too often (monitor-go-production.mjs:55).
IncidentIsToldOnce == SavesAreValid /\ TelegramOnce /\ RetriesAreSpaced /\ StoryIsOrdered
=============================================================================
