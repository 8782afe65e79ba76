------------------------- MODULE ObservationProofs -------------------------
(***************************************************************************)
(* Proofs about Observation, for any number of launches.                   *)
(*                                                                         *)
(* The ready-server has one client in its life, and a ticket is its (Given);*)
(* from its baseline to its relay a run holds the session lock, so what it *)
(* announces is the successor of that baseline and its own (Staged).  A    *)
(* launch that has published never comes back to the step that publishes   *)
(* (Over).                                                                 *)
(***************************************************************************)
EXTENDS Observation, SequenceTheorems, TLAPS

LaunchSteps == {"idle", "dry", "apply", "plain_dry", "plain_apply", "wait", "done", "failed"}
RunSteps    == {"none", "request", "reply", "stage", "publish", "notify", "relay", "relay_degraded", "ok", "error"}
RelaySteps  == {"none", "listening", "accepted", "answered", "delivered", "closed"}
SupSteps    == {"prepared", "armed", "capture", "after", "observed", "settled"}
Announcing  == {"notify", "relay", "relay_degraded"}
Holding     == {"publish"} \cup Announcing

Types ==
  /\ auxBy \in Seq(Launches) /\ latest = Len(auxBy) /\ stager \in Launches \cup {Nobody}
  /\ authority \in {"absent", "valid", "gone"} /\ claim \in BOOLEAN
  /\ launch \in [Launches -> [pc : LaunchSteps, c2 : BOOLEAN]]
  /\ run \in [Launches -> [pc : RunSteps, ticket : BOOLEAN, base : Nat, bound : BOOLEAN]]
  /\ relay \in [pc : RelaySteps, client : Launches \cup {Nobody}]
  /\ fifo \in [snapshot : Nat, accepted : BOOLEAN]
  /\ sup \in [pc : SupSteps, before : Nat, live : BOOLEAN, event : Nat, captured : Nat, verdict : Verdicts]
  /\ auxAfter \in Nat

(* The session lock, and the process a launch waits for.                   *)
Locked ==
  \A l \in Launches : /\ run[l].pc \in Holding <=> stager = l
                      /\ run[l].pc # "none" => launch[l].pc = "wait"

(* Before the attempt is armed nobody can have connected or announced.     *)
Given ==
  /\ sup.pc = "prepared" => relay.pc = "none" /\ fifo = NoEvent /\ sup.event = 0
  /\ relay.pc \in {"none", "listening"} => relay.client = Nobody
  /\ \A l \in Launches : run[l].ticket => relay.client = l

Staged ==
  \A l \in Launches :
    /\ run[l].pc = "publish" => run[l].base = latest
    /\ run[l].pc \in Announcing => run[l].base + 1 = latest /\ auxBy[latest] = l
    /\ run[l].pc \in Holding /\ run[l].bound => relay.client = l /\ run[l].base = sup.before
    /\ run[l].pc \in {"relay", "relay_degraded"} => run[l].bound

Announced(n) == n \in 1 .. latest /\ n = sup.before + 1 /\ auxBy[n] = relay.client
Events ==
  /\ fifo # NoEvent => Announced(fifo.snapshot)
  /\ sup.event # 0 => Announced(sup.event)
  /\ sup.captured \in 0 .. latest

Judged ==
  /\ sup.pc \in {"prepared", "armed", "capture", "after"} => sup.verdict = "none"
  /\ VerdictIsAboutTheEvent

Over ==
  \A l \in Launches, n \in 1 .. latest :
    auxBy[n] = l => launch[l].pc \in {"done", "failed"} \/ run[l].pc \in Announcing \cup {"ok", "error"}

IInv == Types /\ Locked /\ Given /\ Staged /\ Events /\ Judged /\ Over /\ PublishedOnce

LEMMA Initial == Init => IInv
<1> SUFFICES ASSUME Init PROVE IInv
  OBVIOUS
<1> USE DEF Init
<1>1. latest = 0 /\ auxBy = <<>> /\ Len(auxBy) = 0
  OBVIOUS
<1>2. Types
  <2>1. auxBy \in Seq(Launches) /\ latest = Len(auxBy) /\ stager = Nobody /\ auxAfter = 0
    BY <1>1
  <2>2. launch \in [Launches -> [pc : LaunchSteps, c2 : BOOLEAN]] /\ claim = FALSE
    BY DEF LaunchSteps
  <2>3. run \in [Launches -> [pc : RunSteps, ticket : BOOLEAN, base : Nat, bound : BOOLEAN]]
    BY DEF NoRun, RunSteps
  <2>4. relay \in [pc : RelaySteps, client : Launches \cup {Nobody}] /\ authority = "absent"
    BY DEF RelaySteps
  <2>5. fifo \in [snapshot : Nat, accepted : BOOLEAN]
    BY DEF NoEvent
  <2>6. sup \in [pc : SupSteps, before : Nat, live : BOOLEAN, event : Nat, captured : Nat, verdict : Verdicts]
    BY DEF SupSteps, Verdicts
  <2> QED
    BY <2>1, <2>2, <2>3, <2>4, <2>5, <2>6 DEF Types
<1>3. Locked /\ Given /\ Staged
  BY NobodyIsNoLaunch DEF Locked, Given, Staged, NoRun, Holding, Announcing
<1>4. Events /\ Judged /\ Over /\ PublishedOnce
  BY <1>1 DEF Events, Judged, VerdictIsAboutTheEvent, Over, PublishedOnce
<1> QED
  BY <1>2, <1>3, <1>4 DEF IInv

-----------------------------------------------------------------------------
(* The launcher: it starts the process, and it takes its end.              *)
LaunchMoves(l) ==
  /\ UNCHANGED <<storeVars, attemptVars>>
  /\ claim' \in BOOLEAN /\ launch' \in [Launches -> [pc : LaunchSteps, c2 : BOOLEAN]]
  /\ \A m \in Launches \ {l} : launch'[m] = launch[m] /\ run'[m] = run[m]
  /\ \/ launch[l].pc \notin {"wait", "done", "failed"} /\ run' = run
     \/ /\ launch[l].pc \notin {"wait", "done", "failed"} /\ launch'[l].pc = "wait"
        /\ \E p \in {"request", "stage"} : run' = [run EXCEPT ![l].pc = p]
     \/ /\ launch'[l].pc \in {"done", "failed"} /\ run[l].pc \in {"ok", "error"}
        /\ run' = [run EXCEPT ![l] = NoRun]

RunRecords    == [pc : RunSteps, ticket : BOOLEAN, base : Nat, bound : BOOLEAN]
LaunchRecords == [pc : LaunchSteps, c2 : BOOLEAN]

LEMMA StepNames ==
  /\ {"idle", "dry", "apply", "plain_dry", "plain_apply", "wait", "done", "failed"} \subseteq LaunchSteps
  /\ {"none", "request", "reply", "stage", "publish", "notify", "relay", "relay_degraded", "ok", "error"}
       \subseteq RunSteps
BY DEF LaunchSteps, RunSteps

(* One launch is set to a record.                                          *)
LEMMA LaunchSet ==
  ASSUME Types, NEW l \in Launches, NEW x \in LaunchRecords, launch' = [launch EXCEPT ![l] = x]
  PROVE  /\ launch' \in [Launches -> LaunchRecords] /\ launch'[l] = x
         /\ \A m \in Launches \ {l} : launch'[m] = launch[m]
<1>1. launch \in [Launches -> LaunchRecords]
  BY DEF Types, LaunchRecords
<1> QED
  BY <1>1

LEMMA LaunchGoes ==
  ASSUME Types, NEW l \in Launches, NEW p \in LaunchSteps, Goto(l, p)
  PROVE  /\ launch' \in [Launches -> LaunchRecords] /\ launch'[l].pc = p
         /\ \A m \in Launches \ {l} : launch'[m] = launch[m]
<1> DEFINE x == [launch[l] EXCEPT !.pc = p]
<1>1. launch[l] \in LaunchRecords
  BY DEF Types, LaunchRecords
<1>2. x \in LaunchRecords /\ x.pc = p
  BY <1>1 DEF LaunchRecords
<1>3. launch' = [launch EXCEPT ![l] = x]
  BY DEF Goto
<1> HIDE DEF x
<1> QED
  BY <1>2, <1>3, LaunchSet

(* One process is set to a record.                                         *)
LEMMA RunSet ==
  ASSUME Types, NEW l \in Launches, NEW x \in RunRecords, run' = [run EXCEPT ![l] = x]
  PROVE  /\ run' \in [Launches -> RunRecords] /\ run'[l] = x
         /\ \A m \in Launches \ {l} : run'[m] = run[m]
<1>1. run \in [Launches -> RunRecords]
  BY DEF Types, RunRecords
<1> QED
  BY <1>1

LEMMA RunMoves ==
  ASSUME Types, NEW l \in Launches, NEW p \in RunSteps, run' = [run EXCEPT ![l].pc = p]
  PROVE  /\ run' \in [Launches -> RunRecords]
         /\ run'[l].pc = p /\ run'[l].ticket = run[l].ticket
         /\ run'[l].base = run[l].base /\ run'[l].bound = run[l].bound
         /\ \A m \in Launches \ {l} : run'[m] = run[m]
<1> DEFINE x == [run[l] EXCEPT !.pc = p]
<1>1. run[l] \in RunRecords
  BY DEF Types, RunRecords
<1>2. x \in RunRecords /\ x.pc = p /\ x.ticket = run[l].ticket /\ x.base = run[l].base /\ x.bound = run[l].bound
  BY <1>1 DEF RunRecords
<1>3. run' = [run EXCEPT ![l] = x]
  OBVIOUS
<1> HIDE DEF x
<1>4. run' \in [Launches -> RunRecords] /\ run'[l] = x /\ \A m \in Launches \ {l} : run'[m] = run[m]
  BY <1>2, <1>3, RunSet
<1> QED
  BY <1>2, <1>4

LEMMA LauncherMoves ==
  ASSUME Types, NEW l \in Launches, Launcher(l)
  PROVE  LaunchMoves(l)
<1> DEFINE Launched == /\ launch' \in [Launches -> LaunchRecords]
                       /\ \A m \in Launches \ {l} : launch'[m] = launch[m]
<1>1. /\ UNCHANGED <<storeVars, attemptVars>> /\ claim' \in BOOLEAN
      /\ \/ launch[l].pc \notin {"wait", "done", "failed"} /\ run' = run
         \/ /\ launch[l].pc \notin {"wait", "done", "failed"} /\ Goto(l, "wait")
            /\ \E p \in {"request", "stage"} : run' = [run EXCEPT ![l].pc = p]
         \/ /\ run[l].pc \in {"ok", "error"} /\ run' = [run EXCEPT ![l] = NoRun]
            /\ \E p \in {"done", "failed"} : Goto(l, p)
  <2> USE DEF Types
  <2>1. CASE AdmitImmutable(l)
    BY <2>1 DEF AdmitImmutable
  <2>2. CASE NotArmed(l)
    BY <2>2 DEF NotArmed
  <2>3. CASE DryRun(l)
    BY <2>3 DEF DryRun
  <2>4. CASE Apply(l)
    BY <2>4 DEF Apply
  <2>5. CASE FallBack(l)
    BY <2>5 DEF FallBack
  <2>6. CASE DryRunFails(l)
    BY <2>6 DEF DryRunFails
  <2>7. CASE Collect(l)
    BY <2>7 DEF Collect
  <2> QED
    BY <2>1, <2>2, <2>3, <2>4, <2>5, <2>6, <2>7 DEF Launcher
<1>2. ASSUME NEW p \in LaunchSteps, Goto(l, p) PROVE Launched
  BY <1>2, LaunchGoes
<1>3. ASSUME NEW p \in LaunchSteps, NEW b \in BOOLEAN, launch' = [launch EXCEPT ![l] = [pc |-> p, c2 |-> b]]
      PROVE  Launched
  <2>1. [pc |-> p, c2 |-> b] \in LaunchRecords
    BY DEF LaunchRecords
  <2> QED
    BY <1>3, <2>1, LaunchSet
<1>4. Launched
  <2> HIDE DEF Launched
  <2>1. CASE AdmitImmutable(l)
    BY <2>1, <1>3, StepNames DEF AdmitImmutable
  <2>2. CASE NotArmed(l) \/ FallBack(l)
    BY <2>2, <1>3, StepNames DEF NotArmed, FallBack
  <2>3. CASE DryRun(l)
    BY <2>3, <1>2, StepNames DEF DryRun
  <2>4. CASE Apply(l)
    BY <2>4, <1>2, StepNames DEF Apply
  <2>5. CASE DryRunFails(l)
    BY <2>5, <1>2, StepNames DEF DryRunFails
  <2>6. CASE Collect(l)
    BY <2>6, <1>2, StepNames DEF Collect
  <2> QED
    BY <2>1, <2>2, <2>3, <2>4, <2>5, <2>6 DEF Launcher
<1>5. ASSUME NEW p \in LaunchSteps, Goto(l, p) PROVE launch'[l].pc = p
  BY <1>5, LaunchGoes
<1>6. \/ launch[l].pc \notin {"wait", "done", "failed"} /\ run' = run
      \/ /\ launch[l].pc \notin {"wait", "done", "failed"} /\ launch'[l].pc = "wait"
         /\ \E p \in {"request", "stage"} : run' = [run EXCEPT ![l].pc = p]
      \/ /\ launch'[l].pc \in {"done", "failed"} /\ run[l].pc \in {"ok", "error"}
         /\ run' = [run EXCEPT ![l] = NoRun]
  BY <1>1, <1>5, StepNames
<1>7. \A m \in Launches \ {l} : run'[m] = run[m]
  BY <1>6 DEF Types
<1> QED
  BY <1>1, <1>4, <1>6, <1>7 DEF LaunchMoves, LaunchRecords

(* A step of a process that holds no lock, before or after.                *)
Quiet(l) ==
  /\ run' \in [Launches -> RunRecords]
  /\ run'[l].pc \notin Holding /\ run[l].pc \notin Holding
  /\ run'[l].ticket => run[l].ticket

LEMMA LauncherKeeps ==
  ASSUME IInv, NEW l \in Launches, Launcher(l)
  PROVE  IInv'
<1>1. LaunchMoves(l)
  BY LauncherMoves DEF IInv
<1>2. launch[l].pc # "wait" => run[l].pc = "none"
  BY DEF IInv, Locked
<1>3. Quiet(l)
  <2>1. CASE run' = run
    BY <1>1, <1>2, <2>1 DEF Quiet, LaunchMoves, IInv, Types, Holding, Announcing, RunRecords
  <2>2. ASSUME NEW p \in {"request", "stage"}, run' = [run EXCEPT ![l].pc = p], run[l].pc = "none"
        PROVE  Quiet(l)
    <3>1. run' \in [Launches -> RunRecords] /\ run'[l].pc = p /\ run'[l].ticket = run[l].ticket
      BY <2>2, RunMoves, StepNames DEF IInv
    <3> QED
      BY <2>2, <3>1 DEF Quiet, Holding, Announcing
  <2>3. CASE run' = [run EXCEPT ![l] = NoRun] /\ run[l].pc \in {"ok", "error"}
    <3>1. NoRun \in RunRecords /\ NoRun.pc = "none" /\ NoRun.ticket = FALSE
      BY StepNames DEF NoRun, RunRecords
    <3>2. run' \in [Launches -> RunRecords] /\ run'[l] = NoRun
      BY <2>3, <3>1, RunSet DEF IInv
    <3> QED
      BY <2>3, <3>1, <3>2 DEF Quiet, Holding, Announcing
  <2> QED
    BY <1>1, <1>2, <2>1, <2>2, <2>3 DEF LaunchMoves
<1>4. run'[l].pc # "none" => launch'[l].pc = "wait"
  BY <1>1, <1>2 DEF LaunchMoves, NoRun, IInv, Types
<1>5. Types'
  BY <1>1, <1>3 DEF Quiet, LaunchMoves, IInv, Types, storeVars, attemptVars, RunRecords
<1>6. Locked' /\ Given'
  BY <1>1, <1>3, <1>4 DEF Quiet, LaunchMoves, IInv, Locked, Given, storeVars, attemptVars
<1>7. Staged'
  BY <1>1, <1>3 DEF Quiet, LaunchMoves, IInv, Staged, storeVars, attemptVars, Holding, Announcing
<1>8. Events' /\ Judged' /\ PublishedOnce'
  BY <1>1 DEF LaunchMoves, IInv, Events, Announced, Judged, VerdictIsAboutTheEvent, PublishedOnce, storeVars, attemptVars
<1>9. Over'
  <2>1. ASSUME NEW n \in 1 .. latest, auxBy[n] = l PROVE launch'[l].pc \in {"done", "failed"}
    BY <1>1, <1>2, <2>1 DEF LaunchMoves, IInv, Over, Announcing
  <2> QED
    BY <1>1, <2>1 DEF LaunchMoves, IInv, Over, storeVars
<1> QED
  BY <1>5, <1>6, <1>7, <1>8, <1>9 DEF IInv

-----------------------------------------------------------------------------
(* The ingest process: only its own record changes.                        *)
Own(l) ==
  /\ UNCHANGED <<authority, claim, launch, sup, auxAfter>>
  /\ run' \in [Launches -> RunRecords]
  /\ \A m \in Launches \ {l} : run'[m] = run[m]

LEMMA OwnSet ==
  ASSUME Types, NEW l \in Launches, NEW x \in RunRecords, run' = [run EXCEPT ![l] = x],
         UNCHANGED <<authority, claim, launch, sup, auxAfter>>
  PROVE  Own(l) /\ run'[l] = x
BY RunSet DEF Own

LEMMA OwnStep ==
  ASSUME Types, NEW l \in Launches, NEW p \in RunSteps, run' = [run EXCEPT ![l].pc = p],
         UNCHANGED <<authority, claim, launch, sup, auxAfter>>
  PROVE  /\ Own(l) /\ run'[l].pc = p /\ run'[l].ticket = run[l].ticket
         /\ run'[l].base = run[l].base /\ run'[l].bound = run[l].bound
BY RunMoves DEF Own

(* Before it takes the lock.                                               *)
LEMMA AskingKeeps ==
  ASSUME IInv, NEW l \in Launches, Own(l), UNCHANGED <<storeVars, relay, fifo>>,
         run[l].pc \in {"request", "reply", "stage"}, run'[l].pc \notin Holding,
         run'[l].ticket => relay.client = l
  PROVE  IInv'
<1>1. run[l].pc \notin Holding /\ launch[l].pc = "wait"
  BY DEF Holding, Announcing, IInv, Locked
<1>2. Types'
  BY DEF IInv, Types, Own, storeVars, RunRecords
<1>3. Locked' /\ Given'
  BY <1>1 DEF Own, IInv, Locked, Given, storeVars
<1>4. Staged'
  BY <1>1 DEF Own, IInv, Staged, storeVars, Holding, Announcing
<1>5. Events' /\ Judged' /\ PublishedOnce'
  BY DEF Own, IInv, Events, Announced, Judged, VerdictIsAboutTheEvent, PublishedOnce, storeVars
<1>6. Over'
  <2>1. ASSUME NEW n \in 1 .. latest PROVE auxBy[n] # l
    BY <1>1 DEF IInv, Over, Announcing
  <2> QED
    BY <2>1 DEF Own, IInv, Over, storeVars
<1> QED
  BY <1>2, <1>3, <1>4, <1>5, <1>6 DEF IInv

LEMMA TakeTicketKeeps ==
  ASSUME IInv, NEW l \in Launches, TakeTicket(l) \/ GiveUp(l)
  PROVE  IInv'
<1>1. UNCHANGED <<storeVars, attemptVars, claim, launch>> /\ run[l].pc \in {"request", "reply"}
  BY DEF TakeTicket, GiveUp
<1>2. \/ run' = [run EXCEPT ![l].pc = "stage", ![l].ticket = TRUE] /\ relay.client = l
      \/ run' = [run EXCEPT ![l].pc = "stage"]
  BY DEF TakeTicket, GiveUp, Step
<1>3. CASE run' = [run EXCEPT ![l].pc = "stage", ![l].ticket = TRUE] /\ relay.client = l
  <2> DEFINE r == [run[l] EXCEPT !.pc = "stage", !.ticket = TRUE]
  <2>4. run[l] \in RunRecords
    BY DEF IInv, Types, RunRecords
  <2>2. run' = [run EXCEPT ![l] = r] /\ r.pc = "stage"
    BY <1>3, <2>4 DEF IInv, Types, RunRecords
  <2>3. r \in RunRecords
    <3>1. "stage" \in RunSteps
      BY StepNames
    <3> QED
      BY <2>4, <3>1 DEF RunRecords
  <2> HIDE DEF r
  <2>1. Own(l) /\ run'[l].pc = "stage"
    BY <1>1, <2>2, <2>3, OwnSet DEF IInv, attemptVars
  <2> QED
    BY <1>1, <1>3, <2>1, AskingKeeps DEF attemptVars, Holding, Announcing
<1>4. CASE run' = [run EXCEPT ![l].pc = "stage"]
  <2>1. Own(l) /\ run'[l].pc = "stage" /\ run'[l].ticket = run[l].ticket
    BY <1>1, <1>4, OwnStep, StepNames DEF IInv, attemptVars
  <2> QED
    BY <1>1, <2>1, AskingKeeps DEF attemptVars, Holding, Announcing, IInv, Given
<1> QED
  BY <1>2, <1>3, <1>4

LEMMA ConnectKeeps ==
  ASSUME IInv, NEW l \in Launches, Connect(l)
  PROVE  IInv'
<1>1. /\ UNCHANGED <<storeVars, authority, claim, launch, fifo, sup, auxAfter>>
      /\ run[l].pc = "request" /\ relay.pc = "listening"
      /\ relay' = [pc |-> "accepted", client |-> l] /\ run' = [run EXCEPT ![l].pc = "reply"]
  BY DEF Connect, Step
<1>2. relay.client = Nobody /\ \A m \in Launches : ~run[m].ticket
  BY <1>1, NobodyIsNoLaunch DEF IInv, Given
<1>3. ASSUME NEW m \in Launches PROVE ~(run[m].pc \in Holding /\ run[m].bound)
  BY <1>2, <1>3, NobodyIsNoLaunch DEF IInv, Staged
<1>4. ~Announced(fifo.snapshot) /\ ~Announced(sup.event)
  <2>1. ASSUME NEW n \in 1 .. latest PROVE auxBy[n] \in Launches
    BY <2>1 DEF IInv, Types
  <2> QED
    BY <1>2, <2>1, NobodyIsNoLaunch DEF Announced
<1>5. fifo = NoEvent /\ sup.event = 0
  BY <1>4 DEF IInv, Events
<1>6. /\ run' \in [Launches -> RunRecords]
      /\ \A m \in Launches \ {l} : run'[m] = run[m]
      /\ run'[l].pc = "reply" /\ ~run'[l].ticket
  BY <1>1, <1>2, RunMoves, StepNames DEF IInv
<1>7. Types'
  <2>1. relay' \in [pc : RelaySteps, client : Launches \cup {Nobody}]
    BY <1>1 DEF RelaySteps
  <2> QED
    BY <1>1, <1>6, <2>1 DEF IInv, Types, storeVars, RunRecords
<1>8. Locked'
  BY <1>1, <1>6 DEF IInv, Locked, storeVars, Holding, Announcing
<1>9. Given'
  BY <1>1, <1>2, <1>6 DEF IInv, Given
<1>10. Staged'
  BY <1>1, <1>3, <1>6 DEF IInv, Staged, storeVars, Holding, Announcing
<1>11. Events' /\ Judged' /\ PublishedOnce'
  BY <1>1, <1>5 DEF IInv, Events, Judged, VerdictIsAboutTheEvent, PublishedOnce, storeVars
<1>12. Over'
  BY <1>1, <1>6 DEF IInv, Over, storeVars, Announcing, Locked
<1> QED
  BY <1>7, <1>8, <1>9, <1>10, <1>11, <1>12 DEF IInv

LEMMA StageKeeps ==
  ASSUME IInv, NEW l \in Launches, Stage(l)
  PROVE  IInv'
<1> DEFINE r == [run[l] EXCEPT !.pc = "publish", !.base = latest, !.bound = Bound(l)]
<1>1. /\ UNCHANGED <<latest, auxBy, attemptVars, claim, launch>>
      /\ run[l].pc = "stage" /\ stager = Nobody /\ stager' = l
      /\ run' = [run EXCEPT ![l].pc = "publish", ![l].base = latest, ![l].bound = Bound(l)]
  BY DEF Stage
<1>2. latest \in Nat /\ Bound(l) \in BOOLEAN /\ (Bound(l) => relay.client = l /\ latest = sup.before)
  BY DEF IInv, Types, Bound, Given
<1>3. /\ Own(l) /\ run'[l].pc = "publish" /\ run'[l].base = latest
      /\ run'[l].bound = Bound(l) /\ run'[l].ticket = run[l].ticket
  <2>1. r \in RunRecords
    <3>1. "publish" \in RunSteps
      BY StepNames
    <3>2. run[l] \in RunRecords
      BY DEF IInv, Types, RunRecords
    <3> QED
      BY <1>2, <3>1, <3>2 DEF RunRecords
  <2>2. run' = [run EXCEPT ![l] = r]
    BY <1>1 DEF IInv, Types
  <2>3. /\ r.pc = "publish" /\ r.base = latest
        /\ r.bound = Bound(l) /\ r.ticket = run[l].ticket
    BY DEF IInv, Types
  <2> HIDE DEF r
  <2> QED
    BY <1>1, <2>1, <2>2, <2>3, OwnSet DEF IInv, attemptVars
<1>4. \A m \in Launches : run[m].pc \notin Holding
  BY <1>1, NobodyIsNoLaunch DEF IInv, Locked
<1>5. Types'
  BY <1>1, <1>3 DEF Own, IInv, Types, attemptVars, RunRecords
<1>6. Locked' /\ Given'
  BY <1>1, <1>3, <1>4 DEF Own, IInv, Locked, Given, attemptVars, Holding
<1>7. Staged'
  BY <1>1, <1>2, <1>3, <1>4 DEF Own, Staged, attemptVars, Holding, Announcing
<1>8. Events' /\ Judged' /\ PublishedOnce'
  BY <1>1 DEF IInv, Events, Announced, Judged, VerdictIsAboutTheEvent, PublishedOnce, attemptVars
<1>9. Over'
  BY <1>1, <1>3 DEF Own, IInv, Over, Announcing, Locked
<1> QED
  BY <1>5, <1>6, <1>7, <1>8, <1>9 DEF IInv

LEMMA PublishKeeps ==
  ASSUME IInv, NEW l \in Launches, Publish(l)
  PROVE  IInv'
<1>1. /\ UNCHANGED <<attemptVars, claim, launch>>
      /\ run[l].pc = "publish" /\ latest' = latest + 1 /\ auxBy' = Append(auxBy, l)
      /\ \/ run' = [run EXCEPT ![l].pc = "notify"] /\ stager' = stager
         \/ run' = [run EXCEPT ![l].pc = "error"] /\ stager' = Nobody
  BY DEF Publish, Step
<1>2. /\ auxBy' \in Seq(Launches) /\ Len(auxBy') = latest' /\ auxBy'[latest'] = l
      /\ \A n \in 1 .. latest : auxBy'[n] = auxBy[n]
      /\ latest \in Nat
  BY <1>1 DEF IInv, Types
<1>3. /\ stager = l /\ launch[l].pc = "wait"
      /\ \A m \in Launches \ {l} : run[m].pc \notin Holding
  BY <1>1 DEF IInv, Locked, Holding
<1>4. /\ Own(l) /\ run'[l].base = run[l].base
      /\ run'[l].bound = run[l].bound /\ run'[l].ticket = run[l].ticket
      /\ \/ run'[l].pc = "notify" /\ stager' = l
         \/ run'[l].pc = "error" /\ stager' = Nobody
  <2>1. CASE run' = [run EXCEPT ![l].pc = "notify"] /\ stager' = stager
    BY <1>1, <1>3, <2>1, OwnStep, StepNames DEF attemptVars, IInv
  <2>2. CASE run' = [run EXCEPT ![l].pc = "error"] /\ stager' = Nobody
    BY <1>1, <1>3, <2>2, OwnStep, StepNames DEF attemptVars, IInv
  <2> QED
    BY <1>1, <2>1, <2>2
<1>5. \A n \in 1 .. latest : auxBy[n] # l
  BY <1>1, <1>3 DEF IInv, Over, Announcing
<1>6. Types'
  BY <1>1, <1>2, <1>4 DEF Own, IInv, Types, attemptVars, RunRecords
<1>7. Locked' /\ Given'
  BY <1>1, <1>3, <1>4, NobodyIsNoLaunch DEF Own, IInv, Locked, Given, attemptVars, Holding, Announcing
<1>8. Staged'
  BY <1>1, <1>2, <1>3, <1>4 DEF Own, IInv, Staged, attemptVars, Holding, Announcing
<1>9. \A n \in Nat : Announced(n) => Announced(n)'
  BY <1>1, <1>2 DEF Announced, attemptVars
<1>10. Events' /\ Judged'
  BY <1>1, <1>2, <1>9 DEF IInv, Types, Events, Judged, VerdictIsAboutTheEvent, attemptVars
<1>11. DOMAIN auxBy' = 1 .. latest' /\ DOMAIN auxBy = 1 .. latest
  BY <1>2 DEF IInv, Types
<1>12. PublishedOnce'
  BY <1>1, <1>2, <1>5, <1>11 DEF IInv, PublishedOnce
<1>13. Over'
  <2> SUFFICES ASSUME NEW m \in Launches, NEW n \in 1 .. latest', auxBy'[n] = m
               PROVE  launch'[m].pc \in {"done", "failed"} \/ run'[m].pc \in Announcing \cup {"ok", "error"}
    BY DEF Over
  <2>1. CASE m = l
    BY <1>4, <2>1 DEF Announcing
  <2>2. CASE m # l
    BY <1>1, <1>2, <1>4, <2>2 DEF Own, IInv, Over
  <2> QED
    BY <2>1, <2>2
<1> QED
  BY <1>6, <1>7, <1>8, <1>10, <1>12, <1>13 DEF IInv

(* It has published, or gives up, and lets go of the lock; what it relays  *)
(* is its own snapshot.                                                    *)
LEMMA ReleasingKeeps ==
  ASSUME IInv, NEW l \in Launches, NEW p \in {"ok", "error"}, run[l].pc \in Holding,
         run' = [run EXCEPT ![l].pc = p], stager' = Nobody,
         UNCHANGED <<latest, auxBy, authority, claim, launch, relay, sup, auxAfter>>,
         \/ fifo' = fifo
         \/ /\ fifo' \in [snapshot : {run[l].base + 1}, accepted : BOOLEAN]
            /\ run[l].pc \in {"relay", "relay_degraded"} /\ sup.pc = "armed"
  PROVE  IInv'
<1>1. stager = l /\ launch[l].pc = "wait" /\ \A m \in Launches \ {l} : run[m].pc \notin Holding
  BY DEF IInv, Locked, Holding, Announcing
<1>2. /\ Own(l) /\ run'[l].pc = p /\ run'[l].ticket = run[l].ticket
  BY OwnStep, StepNames DEF IInv
<1>3. ASSUME run[l].pc \in {"relay", "relay_degraded"} PROVE Announced(run[l].base + 1)
  <2>1. run[l].bound /\ run[l].pc \in Announcing /\ run[l].pc \in Holding
    BY <1>3 DEF IInv, Staged, Announcing, Holding
  <2>2. /\ run[l].base + 1 = latest /\ auxBy[latest] = l /\ relay.client = l
        /\ run[l].base = sup.before /\ latest \in Nat /\ run[l].base \in Nat
    BY <2>1 DEF IInv, Staged, Types
  <2> QED
    BY <2>2 DEF Announced
<1>4. Types'
  <2>1. fifo' \in [snapshot : Nat, accepted : BOOLEAN]
    BY DEF IInv, Types
  <2> QED
    BY <1>2, <2>1 DEF Own, IInv, Types, RunRecords
<1>5. Locked'
  BY <1>1, <1>2, NobodyIsNoLaunch DEF Own, IInv, Locked, Holding, Announcing
<1>6. Given'
  BY <1>2 DEF Own, IInv, Given
<1>7. Staged'
  BY <1>1, <1>2 DEF Own, IInv, Staged, Holding, Announcing
<1>8. Events'
  BY <1>3 DEF IInv, Events, Announced
<1>9. Judged' /\ PublishedOnce'
  BY DEF IInv, Judged, VerdictIsAboutTheEvent, PublishedOnce
<1>10. Over'
  BY <1>1, <1>2 DEF Own, IInv, Over
<1> QED
  BY <1>4, <1>5, <1>6, <1>7, <1>8, <1>9, <1>10 DEF IInv

LEMMA RunFailsKeeps ==
  ASSUME IInv, NEW l \in Launches, RunFails(l)
  PROVE  IInv'
<1>1. /\ UNCHANGED <<latest, auxBy, attemptVars, claim, launch>>
      /\ run' = [run EXCEPT ![l].pc = "error"] /\ stager' = IF stager = l THEN Nobody ELSE stager
      /\ run[l].pc \in {"request", "reply", "stage"} \cup Holding
  BY DEF RunFails, Step, Holding, Announcing
<1>2. CASE run[l].pc \in Holding
  <2>1. stager' = Nobody
    BY <1>1, <1>2 DEF IInv, Locked
  <2> QED
    BY <1>1, <1>2, <2>1, ReleasingKeeps DEF attemptVars
<1>3. CASE run[l].pc \in {"request", "reply", "stage"}
  <2>1. stager' = stager
    BY <1>1, <1>3 DEF IInv, Locked, Holding, Announcing
  <2>2. Own(l) /\ run'[l].pc = "error" /\ run'[l].ticket = run[l].ticket
    BY <1>1, OwnStep, StepNames DEF attemptVars, IInv
  <2> QED
    BY <1>1, <1>3, <2>1, <2>2, AskingKeeps DEF attemptVars, storeVars, Holding, Announcing, IInv, Given
<1> QED
  BY <1>1, <1>2, <1>3

LEMMA NotifyKeeps ==
  ASSUME IInv, NEW l \in Launches, Notify(l)
  PROVE  IInv'
<1>1. /\ UNCHANGED <<latest, auxBy, attemptVars, claim, launch>> /\ run[l].pc = "notify"
      /\ \/ ~run[l].bound /\ run' = [run EXCEPT ![l].pc = "ok"] /\ stager' = Nobody
         \/ /\ run[l].bound /\ stager' = stager
            /\ \E answer \in {"relay", "relay_degraded"} : run' = [run EXCEPT ![l].pc = answer]
  BY DEF Notify, Step
<1>2. CASE run' = [run EXCEPT ![l].pc = "ok"] /\ stager' = Nobody
  BY <1>1, <1>2, ReleasingKeeps DEF attemptVars, Holding, Announcing
<1>3. ASSUME run[l].bound, stager' = stager, NEW answer \in {"relay", "relay_degraded"},
             run' = [run EXCEPT ![l].pc = answer]
      PROVE  IInv'
  <2>1. /\ Own(l) /\ run'[l].pc = answer /\ run'[l].base = run[l].base
        /\ run'[l].bound = run[l].bound /\ run'[l].ticket = run[l].ticket
    <3>1. answer \in RunSteps
      BY StepNames
    <3>2. Types /\ UNCHANGED <<authority, claim, launch, sup, auxAfter>>
      BY <1>1 DEF attemptVars, IInv
    <3> QED
      BY <1>3, <3>1, <3>2, OwnStep
  <2>2. Types' /\ Given'
    BY <1>1, <1>3, <2>1 DEF Own, IInv, Types, Given, attemptVars, RunRecords
  <2>3. Locked' /\ Staged'
    BY <1>1, <1>3, <2>1 DEF Own, IInv, Locked, Staged, attemptVars, Holding, Announcing
  <2>4. Events' /\ Judged' /\ PublishedOnce'
    BY <1>1, <1>3 DEF IInv, Events, Announced, Judged, VerdictIsAboutTheEvent, PublishedOnce, attemptVars
  <2>5. Over'
    BY <1>1, <1>3, <2>1 DEF Own, IInv, Over, Announcing
  <2> QED
    BY <2>2, <2>3, <2>4, <2>5 DEF IInv
<1> QED
  BY <1>1, <1>2, <1>3

LEMMA RelayKeeps ==
  ASSUME IInv, NEW l \in Launches, Relay(l)
  PROVE  IInv'
<1>1. /\ run[l].pc \in {"relay", "relay_degraded"} /\ run' = [run EXCEPT ![l].pc = "ok"] /\ stager' = Nobody
      /\ UNCHANGED <<latest, auxBy, authority, claim, launch, relay, sup, auxAfter>>
      /\ fifo' = IF sup.pc = "armed"
                 THEN [snapshot |-> run[l].base + 1, accepted |-> run[l].pc = "relay"]
                 ELSE fifo
  BY DEF Relay, Step
<1>2. \/ fifo' = fifo
      \/ fifo' \in [snapshot : {run[l].base + 1}, accepted : BOOLEAN] /\ sup.pc = "armed"
  BY <1>1
<1> QED
  BY <1>1, <1>2, ReleasingKeeps DEF Holding, Announcing

-----------------------------------------------------------------------------
(* The attempt: launches, runs and snapshots stay as they are.             *)
Aside == UNCHANGED <<storeVars, claim, launch, run>>

LEMMA AsideKeeps ==
  ASSUME IInv, Aside, authority' \in {"absent", "valid", "gone"},
         relay' \in [pc : RelaySteps, client : {relay.client}],
         relay.pc = "none" /\ sup'.pc = "prepared" => relay'.pc = "none",
         relay'.pc \in {"none", "listening"} => relay.client = Nobody,
         fifo' \in {fifo, NoEvent},
         sup' \in [pc : SupSteps, before : {sup.before}, live : BOOLEAN, event : {sup.event, fifo.snapshot},
                   captured : 0 .. latest, verdict : Verdicts],
         sup'.pc = "prepared" => sup.pc = "prepared" /\ sup'.event = sup.event,
         sup'.event # sup.event => fifo # NoEvent,
         auxAfter' \in Nat,
         Judged'
  PROVE  IInv'
<1> USE DEF Aside
<1>1. fifo.snapshot \in Nat /\ sup.event \in Nat /\ sup.before \in Nat /\ latest \in Nat
      /\ relay.client \in Launches \cup {Nobody} /\ NoEvent \in [snapshot : Nat, accepted : BOOLEAN]
  BY DEF IInv, Types, NoEvent
<1>2. /\ relay'.pc \in RelaySteps /\ relay'.client = relay.client
      /\ sup'.before = sup.before /\ sup'.event \in {sup.event, fifo.snapshot} /\ sup'.captured \in 0 .. latest
  OBVIOUS
<1>3. Types'
  BY <1>1 DEF IInv, Types, storeVars
<1>4. Locked' /\ Over' /\ PublishedOnce'
  BY DEF IInv, Locked, Over, PublishedOnce, storeVars
<1>5. Given'
  BY <1>2 DEF IInv, Given
<1>6. Staged'
  BY <1>2 DEF IInv, Staged, storeVars
<1>7. Events'
  BY <1>2 DEF IInv, Events, Announced, storeVars
<1> QED
  BY <1>3, <1>4, <1>5, <1>6, <1>7 DEF IInv

LEMMA ArmKeeps ==
  ASSUME IInv, Arm
  PROVE  IInv'
<1>1. /\ UNCHANGED <<storeVars, authority, claim, launch, run, fifo, auxAfter>> /\ sup.pc = "prepared"
      /\ sup' = [sup EXCEPT !.pc = "armed", !.before = latest]
      /\ relay' = [relay EXCEPT !.pc = "listening"]
  BY DEF Arm
<1>2. /\ relay.client = Nobody /\ fifo = NoEvent /\ sup.event = 0 /\ sup.verdict = "none"
      /\ latest \in Nat
  BY <1>1 DEF IInv, Given, Judged, Types
<1>3. /\ sup' \in [pc : SupSteps, before : Nat, live : BOOLEAN, event : Nat, captured : Nat, verdict : Verdicts]
      /\ sup'.pc = "armed" /\ sup'.event = 0 /\ sup'.verdict = "none" /\ sup'.captured = sup.captured
      /\ relay' \in [pc : RelaySteps, client : Launches \cup {Nobody}] /\ relay'.client = Nobody
  BY <1>1, <1>2 DEF IInv, Types, SupSteps, RelaySteps
<1>4. ASSUME NEW l \in Launches PROVE ~(run[l].pc \in Holding /\ run[l].bound)
  BY <1>2, NobodyIsNoLaunch DEF IInv, Staged
<1>5. Types'
  BY <1>1, <1>3 DEF IInv, Types, storeVars
<1>6. Locked' /\ Over' /\ PublishedOnce'
  BY <1>1 DEF IInv, Locked, Over, PublishedOnce, storeVars
<1>7. Given'
  BY <1>1, <1>2, <1>3 DEF IInv, Given
<1>8. Staged'
  BY <1>1, <1>4 DEF IInv, Staged, storeVars
<1>9. Events' /\ Judged'
  BY <1>1, <1>2, <1>3 DEF IInv, Events, Judged, VerdictIsAboutTheEvent, storeVars
<1> QED
  BY <1>5, <1>6, <1>7, <1>8, <1>9 DEF IInv

LEMMA AttemptKeeps ==
  ASSUME IInv, Attempt
  PROVE  IInv'
<1>1. /\ relay.pc \in RelaySteps /\ sup.pc \in SupSteps /\ sup.captured \in 0 .. latest /\ sup.verdict \in Verdicts
      /\ sup.live \in BOOLEAN /\ authority \in {"absent", "valid", "gone"} /\ auxAfter \in Nat /\ latest \in Nat
      /\ relay \in [pc : RelaySteps, client : {relay.client}]
      /\ sup \in [pc : SupSteps, before : {sup.before}, live : BOOLEAN, event : {sup.event, fifo.snapshot},
                  captured : 0 .. latest, verdict : Verdicts]
      /\ relay.pc \in {"none", "listening"} => relay.client = Nobody
  BY DEF IInv, Types, Events, Given
<1>2. Judged
  BY DEF IInv
<1> DEFINE Sups == [pc : SupSteps, before : {sup.before}, live : BOOLEAN, event : {sup.event, fifo.snapshot},
                    captured : 0 .. latest, verdict : Verdicts]
<1>12. ASSUME NEW v \in Verdicts
       PROVE  /\ Settle(v) \in Sups /\ Settle(v).pc = "settled" /\ Settle(v).event = sup.event
              /\ Settle(v).captured = sup.captured /\ Settle(v).verdict = v
  <2>1. "settled" \in SupSteps
    BY DEF SupSteps
  <2> QED
    BY <1>1, <2>1 DEF Settle
<1>13. ASSUME NEW p \in SupSteps, NEW e \in {sup.event, fifo.snapshot}, NEW v \in Verdicts,
              NEW s, s = [sup EXCEPT !.pc = p, !.event = e, !.verdict = v]
       PROVE  /\ s \in Sups /\ s.pc = p /\ s.event = e
              /\ s.captured = sup.captured /\ s.verdict = v
  BY <1>1, <1>13
<1>14. {"capture", "after", "observed", "settled"} \subseteq SupSteps
       /\ {"none", "PASS", "FAIL", "INCONCLUSIVE"} \subseteq Verdicts
  BY DEF SupSteps, Verdicts
<1>3. CASE Arm
  BY <1>3, ArmKeeps
<1>4. CASE IssueReady \/ AuthorityEnds
  <2>1. /\ UNCHANGED <<storeVars, claim, launch, run, relay, fifo, sup, auxAfter>>
        /\ authority' \in {"valid", "gone"}
    BY <1>4 DEF IssueReady, AuthorityEnds
  <2>2. Judged'
    BY <1>2, <2>1 DEF Judged, VerdictIsAboutTheEvent
  <2> QED
    BY <1>1, <2>1, <2>2, AsideKeeps DEF Aside
<1>5. CASE Respond \/ Deliver
  <2>1. /\ UNCHANGED <<storeVars, authority, claim, launch, run, fifo, sup, auxAfter>>
        /\ \E p \in {"answered", "delivered", "closed"} : relay' = [relay EXCEPT !.pc = p]
        /\ relay.pc # "none"
    BY <1>5 DEF Respond, Deliver
  <2>2. relay' \in [pc : RelaySteps, client : {relay.client}] /\ relay'.pc \notin {"none", "listening"}
    BY <1>1, <2>1 DEF RelaySteps
  <2>3. Judged'
    BY <1>2, <2>1 DEF Judged, VerdictIsAboutTheEvent
  <2> QED
    BY <1>1, <2>1, <2>2, <2>3, AsideKeeps DEF Aside
<1>6. CASE Delivered
  <2>1. /\ UNCHANGED <<storeVars, authority, claim, launch, run, relay, fifo, auxAfter>>
        /\ sup' = [sup EXCEPT !.live = TRUE]
    BY <1>6 DEF Delivered
  <2>2. /\ sup' \in [pc : SupSteps, before : {sup.before}, live : BOOLEAN, event : {sup.event, fifo.snapshot},
                     captured : 0 .. latest, verdict : Verdicts]
        /\ sup'.pc = sup.pc /\ sup'.event = sup.event /\ sup'.verdict = sup.verdict /\ sup'.captured = sup.captured
    BY <1>1, <2>1
  <2>3. Judged'
    BY <1>2, <2>1, <2>2 DEF Judged, VerdictIsAboutTheEvent
  <2> QED
    BY <1>1, <2>1, <2>2, <2>3, AsideKeeps DEF Aside
<1>7. CASE HelperFails
  <2>1. /\ UNCHANGED <<storeVars, authority, claim, launch, run, fifo, auxAfter>>
        /\ sup' = [sup EXCEPT !.live = FALSE] /\ relay' = [relay EXCEPT !.pc = "closed"]
        /\ relay.pc # "none"
    BY <1>7 DEF HelperFails
  <2>2. /\ sup' \in [pc : SupSteps, before : {sup.before}, live : BOOLEAN, event : {sup.event, fifo.snapshot},
                     captured : 0 .. latest, verdict : Verdicts]
        /\ sup'.pc = sup.pc /\ sup'.event = sup.event /\ sup'.verdict = sup.verdict /\ sup'.captured = sup.captured
        /\ relay' \in [pc : RelaySteps, client : {relay.client}] /\ relay'.pc = "closed"
    BY <1>1, <2>1 DEF RelaySteps
  <2>3. Judged'
    BY <1>2, <2>1, <2>2 DEF Judged, VerdictIsAboutTheEvent
  <2> QED
    BY <1>1, <2>1, <2>2, <2>3, AsideKeeps DEF Aside
<1>8. CASE ConsumeEvent
  <2>1. /\ UNCHANGED <<storeVars, authority, claim, launch, run, auxAfter>>
        /\ fifo' = NoEvent /\ fifo # NoEvent /\ sup.pc = "armed"
        /\ \/ sup' = [sup EXCEPT !.pc = "capture", !.event = fifo.snapshot] /\ relay' = relay
           \/ sup' = Settle("INCONCLUSIVE") /\ relay' = [relay EXCEPT !.pc = "closed"]
    BY <1>8 DEF ConsumeEvent, CloseHelper
  <2>2. relay' \in [pc : RelaySteps, client : {relay.client}] /\ (relay'.pc = relay.pc \/ relay'.pc = "closed")
    BY <1>1, <2>1 DEF RelaySteps
  <2>3. /\ sup' \in [pc : SupSteps, before : {sup.before}, live : BOOLEAN, event : {sup.event, fifo.snapshot},
                     captured : 0 .. latest, verdict : Verdicts]
        /\ sup'.pc # "prepared" /\ sup'.verdict \in {"none", "INCONCLUSIVE"}
        /\ sup'.verdict # "none" => sup'.pc = "settled"
    <3>1. sup.verdict = "none"
      BY <1>2, <2>1 DEF Judged
    <3>2. CASE sup' = [sup EXCEPT !.pc = "capture", !.event = fifo.snapshot]
      <4>1. sup' = [sup EXCEPT !.pc = "capture", !.event = fifo.snapshot, !.verdict = sup.verdict]
        BY <1>1, <3>2
      <4> QED
        BY <1>1, <1>14, <3>1, <4>1, <1>13
    <3>3. CASE sup' = Settle("INCONCLUSIVE")
      BY <1>14, <3>3, <1>12
    <3> QED
      BY <2>1, <3>2, <3>3
  <2>4. Judged'
    BY <2>3 DEF Judged, VerdictIsAboutTheEvent
  <2> QED
    BY <1>1, <2>1, <2>2, <2>3, <2>4, AsideKeeps DEF Aside
<1>9. CASE Capture
  <2>1. /\ UNCHANGED <<storeVars, authority, claim, launch, run, relay, fifo, auxAfter>> /\ sup.pc = "capture"
        /\ \E revision \in 0 .. latest : sup' = [sup EXCEPT !.pc = "after", !.captured = revision]
    BY <1>9 DEF Capture
  <2>2. /\ sup' \in [pc : SupSteps, before : {sup.before}, live : BOOLEAN, event : {sup.event, fifo.snapshot},
                     captured : 0 .. latest, verdict : Verdicts]
        /\ sup'.pc = "after" /\ sup'.event = sup.event /\ sup'.verdict = sup.verdict
    BY <1>1, <2>1 DEF SupSteps
  <2>3. Judged'
    BY <1>2, <2>1, <2>2 DEF Judged, VerdictIsAboutTheEvent
  <2> QED
    BY <1>1, <2>1, <2>2, <2>3, AsideKeeps DEF Aside
<1>10. CASE After
  <2>1. /\ UNCHANGED <<storeVars, authority, claim, launch, run, fifo>> /\ sup.pc = "after" /\ auxAfter' = latest
        /\ \/ sup' = Settle("INCONCLUSIVE")
           \/ /\ latest = sup.event
              /\ sup' = [sup EXCEPT !.pc = "observed", !.verdict = IF sup.captured = latest THEN "PASS" ELSE "FAIL"]
        /\ relay' = relay \/ relay' = [relay EXCEPT !.pc = "closed"]
    BY <1>10 DEF After, ChainHolds
  <2>2. relay' \in [pc : RelaySteps, client : {relay.client}] /\ (relay'.pc = relay.pc \/ relay'.pc = "closed")
    BY <1>1, <2>1 DEF RelaySteps
  <2>3. /\ sup' \in [pc : SupSteps, before : {sup.before}, live : BOOLEAN, event : {sup.event, fifo.snapshot},
                     captured : 0 .. latest, verdict : Verdicts]
        /\ sup'.pc \in {"observed", "settled"} /\ sup'.event = sup.event /\ sup'.captured = sup.captured
        /\ \/ sup'.verdict = "INCONCLUSIVE"
           \/ latest = sup.event /\ sup'.verdict = IF sup.captured = latest THEN "PASS" ELSE "FAIL"
    <3>1. CASE sup' = Settle("INCONCLUSIVE")
      BY <1>14, <3>1, <1>12
    <3>2. ASSUME NEW v \in {"PASS", "FAIL"}, sup' = [sup EXCEPT !.pc = "observed", !.verdict = v]
          PROVE  sup' \in Sups /\ sup'.pc = "observed" /\ sup'.event = sup.event
                 /\ sup'.captured = sup.captured /\ sup'.verdict = v
      <4>1. "observed" \in SupSteps /\ v \in Verdicts
        BY <1>14
      <4> QED
        BY <1>1, <3>2, <4>1
    <3> QED
      BY <2>1, <3>1, <3>2
  <2>4. Judged'
    BY <2>1, <2>3 DEF Judged, VerdictIsAboutTheEvent
  <2> QED
    BY <1>1, <2>1, <2>2, <2>3, <2>4, AsideKeeps DEF Aside
<1>11. CASE Observe \/ GiveUpAttempt
  <2>1. /\ UNCHANGED <<storeVars, authority, claim, launch, run, fifo, auxAfter>>
        /\ \E v \in {sup.verdict, "INCONCLUSIVE"} : sup' = Settle(v)
        /\ relay' = [relay EXCEPT !.pc = "closed"]
    BY <1>11 DEF Observe, GiveUpAttempt, CloseHelper
  <2>2. relay' \in [pc : RelaySteps, client : {relay.client}] /\ relay'.pc = "closed"
    BY <1>1, <2>1 DEF RelaySteps
  <2>3. /\ sup' \in [pc : SupSteps, before : {sup.before}, live : BOOLEAN, event : {sup.event, fifo.snapshot},
                     captured : 0 .. latest, verdict : Verdicts]
        /\ sup'.pc = "settled" /\ sup'.event = sup.event /\ sup'.captured = sup.captured
        /\ sup'.verdict \in {sup.verdict, "INCONCLUSIVE"}
    BY <1>1, <1>12, <1>14, <2>1
  <2>4. Judged'
    BY <1>2, <2>1, <2>3 DEF Judged, VerdictIsAboutTheEvent
  <2>5. relay.pc = "none" /\ sup'.pc = "prepared" => relay'.pc = "none"
    BY <2>3
  <2> QED
    BY <1>1, <2>1, <2>2, <2>3, <2>4, <2>5, AsideKeeps DEF Aside
<1> QED
  BY <1>3, <1>4, <1>5, <1>6, <1>7, <1>8, <1>9, <1>10, <1>11 DEF Attempt

-----------------------------------------------------------------------------
LEMMA StutterKeeps ==
  ASSUME IInv, UNCHANGED vars
  PROVE  IInv'
  BY DEF IInv, Types, Locked, Given, Staged, Events, Announced, Judged, VerdictIsAboutTheEvent, Over,
     PublishedOnce, vars

LEMMA Inductive == Spec => []IInv
<1>1. IInv /\ [Next]_vars => IInv'
  <2> SUFFICES ASSUME IInv, [Next]_vars PROVE IInv'
    OBVIOUS
  <2>1. ASSUME NEW l \in Launches, Ingest(l) PROVE IInv'
    BY <2>1, ConnectKeeps, TakeTicketKeeps, StageKeeps, PublishKeeps, RunFailsKeeps, NotifyKeeps, RelayKeeps
       DEF Ingest
  <2> QED
    BY <2>1, LauncherKeeps, AttemptKeeps, StutterKeeps DEF Next
<1> QED
  BY <1>1, Initial, PTL DEF Spec

\* The variables keep their types, and the event that enters the supervisor
\* replaced the snapshot BEFORE was read from and was published by the launch
\* that was given READY, whoever else publishes, fails or dies meanwhile
\* (cmd/ingest/main.go:129, ready.go:225).
THEOREM BoundEvents == Spec => []EventIsBound
<1>1. IInv => TypeOK
  BY DEF IInv, Types, Locked, Events, Announced, TypeOK, Holding, Announcing, LaunchSteps, RunSteps, RelaySteps
<1>2. IInv => EventReplacesBaseline
  BY DEF IInv, Events, Announced, EventReplacesBaseline
<1> QED
  BY <1>1, <1>2, Inductive, PTL DEF EventIsBound

\* A verdict other than INCONCLUSIVE is about the announced snapshot: it was
\* the newest when AFTER was read, and PASS says that the pages showed it
\* (projection-provider.mjs:374).
THEOREM HonestVerdicts == Spec => []VerdictIsAboutTheEvent
  BY Inductive, PTL DEF IInv, Judged

\* However the authority, the candidate and the commit end, a launch never
\* publishes twice (c2-ingest-launch.py:257).
THEOREM OnePublication == Spec => []PublishedOnce
  BY Inductive, PTL DEF IInv
=============================================================================
