------------------------------ MODULE Custody ------------------------------
(***************************************************************************)
(* The custody of C2 observations: the root controller that one start of   *)
(* aktau-c2-custodian.service runs (ops/c2/auto-custodian.py), and the     *)
(* unprivileged Node child it supervises (c2-operator-entry.mjs and        *)
(* c2-production-supervisor.mjs).  One start spawns at most one child and  *)
(* a child prepares at most one attempt, so a start and its attempt share  *)
(* a number.                                                               *)
(*                                                                         *)
(* What outlives a crash is on disk: the controller's journal, the durable *)
(* attempt ledger with its operator.lock, the per-attempt directories, the *)
(* two root records (deployment, READY) and the archives of recoveries.    *)
(* KillMode=control-group: a crash of the service ends the child as well.  *)
(*                                                                         *)
(* The publication that is observed is abstracted to the result it leads   *)
(* the supervisor to.                                                      *)
(***************************************************************************)
EXTENDS Integers, SequencesExt

CONSTANTS
  MaxStarts,    \* bound: starts of the service
  MaxFaults     \* bound: crashes, stops, timeouts and failed writes

ASSUME MaxStartsAssumption == MaxStarts \in Nat \ {0}
ASSUME MaxFaultsAssumption == MaxFaults \in Nat

VARIABLES
  \* on disk
  current,      \* current.json: [phase, attempt, start, late]
  lock,         \* does ledger/operator.lock exist?
  pending,      \* does a half-written ledger/attempts.json.*.pending exist?
  ledger,       \* attempts.json: [form, entries]
  dirs,         \* how far every attempt's directory is made, in the operator's namespace
  deployment,   \* deployment.json: [attempt, stage]
  ready,        \* ready.json: the attempt it admits, or 0
  archived,     \* directories created by recoveries
  \* the controller
  starts,       \* starts so far
  pc,           \* what it is about to do
  attempt,      \* the attempt in its hands, or 0
  plan,         \* recovery in progress: [attempt, moves, entries]
  \* the child
  child,        \* [pc, result, clean, stop]
  frames,       \* frames it wrote and the controller has not read
  cmd,          \* the command it has not read
  \* observers
  faults,       \* faults so far
  auxVerdict,   \* verdict of every attempt that was completed
  auxUnclean,   \* attempts that ended with unverified cleanup
  auxTorn       \* was a recovery interrupted?

disk  == <<current, lock, pending, ledger, dirs, deployment, ready, archived>>
work  == <<starts, attempt, plan>>
root  == <<pc, work>>
node  == <<child, frames, cmd>>
aux   == <<auxVerdict, auxUnclean, auxTorn>>

\* the disk but for one of its parts
allButJournal == <<lock, pending, ledger, dirs, deployment, ready, archived>>
allButLock == <<current, pending, ledger, dirs, deployment, ready, archived>>
allButPending == <<current, lock, ledger, dirs, deployment, ready, archived>>
allButLedger == <<current, lock, pending, dirs, deployment, ready, archived>>
allButDirs == <<current, lock, pending, ledger, deployment, ready, archived>>
allButDeployment == <<current, lock, pending, ledger, dirs, ready, archived>>
allButReady == <<current, lock, pending, ledger, dirs, deployment, archived>>
allButArchive == <<current, lock, pending, ledger, dirs, deployment, ready>>

custodyVars  == <<disk, root, node, faults, aux>>

----------------------------------------------------------------------------
(* Records *)

Starts     == 1 .. MaxStarts
Verdicts   == {"PASS", "FAIL", "INCONCLUSIVE"}
\* An attempt's directory: root's own, handed to the operator, with root's FIFO
\* in it, with the FIFO handed over and known by its identity.
Stages     == {"none", "bare", "owned", "piped", "whole"}
NoRecord   == [attempt |-> 0, stage |-> "none"]
NoPlan     == [attempt |-> 0, moves |-> <<>>, entries |-> <<>>]
NoChild    == [pc |-> "none", result |-> "INCONCLUSIVE", clean |-> TRUE, stop |-> FALSE]
Entry(id, state, verdict) == [id |-> id, state |-> state, verdict |-> verdict]

Terminal(e)  == e.state \in {"completed", "inconclusive"}
Ids          == {e.id : e \in ToSet(ledger.entries)}
AllTerminal  == \A e \in ToSet(ledger.entries) : Terminal(e)
Prepared(s)  == s \in Ids

\* What a crash leaves half handed over is root's, and foreign to a recovery.
HalfMade(a)  == a \in Starts /\ dirs[a] \in {"bare", "piped"}

Save(phase, a) ==
  current' = [phase |-> phase, attempt |-> a, start |-> starts, late |-> FALSE]

\* where a start of the service still holds recovery resources in flight
Recovering == {"archiving", "unarmed", "moved", "restoring", "restored"}
\* between Popen and the end of finish(): an exception leads to abort()
Controlling == {"spawned", "await_prepared", "dir", "attest", "await_armed", "ready",
            "armed", "await_observed", "after", "observed", "await_final", "finish",
            "unlink_ready", "unlink_deployment", "complete"}
Awaiting == {"await_prepared", "await_armed", "await_observed", "await_final"}

CustodyInit ==
  /\ current = [phase |-> "none", attempt |-> 0, start |-> 0, late |-> FALSE]
  /\ lock = FALSE /\ pending = FALSE
  /\ ledger = [form |-> "absent", entries |-> <<>>]
  /\ dirs = [a \in Starts |-> "none"] /\ deployment = NoRecord /\ ready = 0 /\ archived = {}
  /\ starts = 0 /\ pc = "off" /\ attempt = 0 /\ plan = NoPlan
  /\ child = NoChild /\ frames = <<>> /\ cmd = "none"
  /\ faults = 0
  /\ auxVerdict = <<>> /\ auxUnclean = {} /\ auxTorn = FALSE

Proceed(p) == pc' = p

----------------------------------------------------------------------------
(* Controller: preflight and recovery of an interrupted predecessor *)

Start ==
  /\ pc = "off" /\ child.pc = "none" /\ starts < MaxStarts
  /\ starts' = starts + 1
  /\ attempt' = 0 /\ plan' = NoPlan
  /\ frames' = <<>> /\ cmd' = "none"
  /\ Proceed(IF current.phase \in {"none", "completed"} THEN "preflight" ELSE "recover")
  /\ UNCHANGED <<disk, child, faults, aux>>

\* The journal of a start that never bound an attempt, over a ledger without
\* an unfinished entry.
UnarmedStart ==
  /\ current.attempt = 0
  /\ \/ ledger.form = "absent"
     \/ ledger.form = "whole" /\ Terminal(Last(ledger.entries))

\* Mutant: an attempt that was prepared but not yet journalled is not found.
Interrupted_JournalledOnly ==
  IF ledger.form = "whole" /\ Last(ledger.entries).id = current.attempt
  THEN current.attempt ELSE 0

\* The attempt a recovery retires: the journal's, or the one that was prepared
\* but not yet bound; 0 when neither is proved.
Interrupted ==
  IF ledger.form # "whole" THEN 0
  ELSE IF current.attempt = 0
       THEN IF current.late THEN 0 ELSE Last(ledger.entries).id
       ELSE IF Last(ledger.entries).id = current.attempt THEN current.attempt ELSE 0

\* Mutant: an attempt interrupted after its event counts as passed.
AbandonAfterBoot_Counted ==
  LET last == Last(ledger.entries)
  IN  CASE Terminal(last) -> ledger.entries
        [] last.state = "event_consumed" -> Append(Front(ledger.entries), Entry(last.id, "completed", "PASS"))
        [] OTHER -> Append(Front(ledger.entries), Entry(last.id, "inconclusive", "INCONCLUSIVE"))

\* The ledger after an interrupted attempt is retired.
AbandonAfterBoot ==
  LET last == Last(ledger.entries)
  IN  IF Terminal(last) THEN ledger.entries
      ELSE Append(Front(ledger.entries), Entry(last.id, "inconclusive", "INCONCLUSIVE"))

\* Names found in the ledger directory besides attempts.json, in the order
\* the directory lists them.
LedgerNames(order) ==
  IF lock /\ pending THEN order
  ELSE (IF lock THEN <<"lock">> ELSE <<>>) \o (IF pending THEN <<"pending">> ELSE <<>>)
Orders == {<<"lock", "pending">>, <<"pending", "lock">>}

\* The resources a recovery moves: attempts.json first, the directory last.
Moves(a, order) ==
  <<"attempts">> \o LedgerNames(order)
    \o (IF deployment = NoRecord THEN <<>> ELSE <<"deployment">>)
    \o (IF ready = 0 THEN <<>> ELSE <<"ready">>)
    \o (IF dirs[a] = "none" THEN <<>> ELSE <<"attempt">>)

AuthorityIsForeign(a) ==
  \/ deployment # NoRecord /\ deployment.attempt # a
  \/ ready \notin {0, a}

RecoverPriorBoot ==
  /\ pc = "recover" /\ ~UnarmedStart
  /\ Interrupted # 0 /\ ~AuthorityIsForeign(Interrupted) /\ ~HalfMade(Interrupted)
  /\ <<"attempt", Interrupted>> \notin archived
  /\ archived' = archived \union {<<"attempt", Interrupted>>}
  /\ \E order \in Orders :
       plan' = [attempt |-> Interrupted, moves |-> Moves(Interrupted, order),
                entries |-> AbandonAfterBoot]
  /\ Proceed("archiving")
  /\ UNCHANGED <<allButArchive, starts, attempt, node, faults, aux>>

RecoverUnarmedStart ==
  /\ pc = "recover" /\ UnarmedStart
  /\ current.phase = "starting" /\ ready = 0 /\ deployment = NoRecord
  /\ <<"unarmed", current.start>> \notin archived
  /\ archived' = archived \union {<<"unarmed", current.start>>}
  /\ \E order \in Orders : plan' = [NoPlan EXCEPT !.moves = LedgerNames(order)]
  /\ Proceed("unarmed")
  /\ UNCHANGED <<allButArchive, starts, attempt, node, faults, aux>>

\* recovery_move: one resource after the other leaves for the archive
Move ==
  /\ pc \in {"archiving", "unarmed"} /\ plan.moves # <<>>
  /\ LET name == Head(plan.moves)
     IN  /\ ledger' = IF name = "attempts" THEN [form |-> "absent", entries |-> <<>>] ELSE ledger
         /\ lock' = (lock /\ name # "lock")
         /\ pending' = (pending /\ name # "pending")
         /\ deployment' = IF name = "deployment" THEN NoRecord ELSE deployment
         /\ ready' = IF name = "ready" THEN 0 ELSE ready
         /\ dirs' = IF name = "attempt" THEN [dirs EXCEPT ![plan.attempt] = "none"] ELSE dirs
  /\ plan' = [plan EXCEPT !.moves = Tail(@)]
  /\ UNCHANGED <<current, archived, starts, pc, attempt, node, faults, aux>>

\* O_EXCL creation of attempts.json, then its content, then the journal
CreateRestored ==
  /\ pc = "archiving" /\ plan.moves = <<>>
  /\ ledger' = [form |-> "torn", entries |-> <<>>]
  /\ Proceed("restoring")
  /\ UNCHANGED <<allButLedger, work, node, faults, aux>>

WriteRestored ==
  /\ pc = "restoring"
  /\ ledger' = [form |-> "whole", entries |-> plan.entries]
  /\ Proceed("restored")
  /\ UNCHANGED <<allButLedger, work, node, faults, aux>>

RecoveryDone ==
  /\ \/ pc = "restored"
     \/ pc = "unarmed" /\ plan.moves = <<>>
  /\ Save("completed", plan.attempt)
  /\ plan' = NoPlan
  /\ Proceed("preflight")
  /\ UNCHANGED <<allButJournal, starts, attempt, node, faults, aux>>

\* preflight_namespace and the check for left-over authority; of an older
\* attempt's directory only the owner is looked at, not what is in it.
NamespaceIsClean ==
  /\ ledger.form # "torn" /\ AllTerminal
  /\ ~lock /\ ~pending
  /\ \A a \in Starts : dirs[a] # "none" => a \in Ids /\ dirs[a] # "bare"
  /\ ready = 0 /\ deployment = NoRecord

PreflightChecks ==
  /\ pc = "preflight" /\ NamespaceIsClean
  /\ Proceed("spawn")
  /\ UNCHANGED <<disk, work, node, faults, aux>>

\* Every other state stays interlocked: the start fails, nothing is changed.
CannotRecover ==
  IF UnarmedStart
  THEN \/ current.phase # "starting" \/ ready # 0 \/ deployment # NoRecord
       \/ <<"unarmed", current.start>> \in archived
  ELSE \/ Interrupted = 0 \/ AuthorityIsForeign(Interrupted) \/ HalfMade(Interrupted)
       \/ <<"attempt", Interrupted>> \in archived

Refuse ==
  /\ \/ pc = "recover" /\ CannotRecover
     \/ pc = "preflight" /\ ~NamespaceIsClean
  /\ Proceed("refused")
  /\ UNCHANGED <<disk, work, node, faults, aux>>

Exit ==
  /\ pc = "refused"
  /\ Proceed("off")
  /\ UNCHANGED <<disk, work, node, faults, aux>>

----------------------------------------------------------------------------
(* Controller: the cycle of one attempt (run_cycle) *)

Spawn ==
  /\ pc = "spawn"
  /\ Save("starting", 0)
  /\ Proceed("popen")
  /\ UNCHANGED <<allButJournal, work, node, faults, aux>>

Popen ==
  /\ pc = "popen"
  /\ child' = [NoChild EXCEPT !.pc = "open"]
  /\ Proceed("spawned")
  /\ UNCHANGED <<disk, work, frames, cmd, faults, aux>>

\* The journal is stamped again after Popen: an attempt that was prepared
\* before this stamp is not provably the child's (unbound_prepared_attempt).
SaveSpawned ==
  /\ pc = "spawned"
  /\ current' = [phase |-> "starting", attempt |-> 0, start |-> starts, late |-> Prepared(starts)]
  /\ Proceed("await_prepared")
  /\ UNCHANGED <<allButJournal, work, node, faults, aux>>

Read(frame) == frames # <<>> /\ Head(frames) = frame /\ frames' = Tail(frames)

ReceivePrepared ==
  /\ pc = "await_prepared" /\ Read("PREPARED")
  /\ attempt' = starts
  /\ Save("prepared", starts)
  /\ Proceed("dir")
  /\ UNCHANGED <<allButJournal, starts, plan, child, cmd, faults, aux>>

\* before(): mkdir, fchown, mkfifo and chown, one after the other
Further(stage) ==
  CASE stage = "none"  -> "bare"
    [] stage = "bare"  -> "owned"
    [] stage = "owned" -> "piped"
    [] OTHER           -> "whole"

MakeDirectory ==
  /\ pc = "dir"
  /\ dirs' = [dirs EXCEPT ![attempt] = Further(@)]
  /\ Proceed(IF dirs'[attempt] = "whole" THEN "attest" ELSE "dir")
  /\ UNCHANGED <<allButDirs, work, node, faults, aux>>

AttestBefore ==
  /\ pc = "attest"
  /\ deployment' = [attempt |-> attempt, stage |-> "before"]
  /\ cmd' = "ARM"
  /\ Proceed("await_armed")
  /\ UNCHANGED <<allButDeployment, work, child, frames, faults, aux>>

ReceiveArmed ==
  /\ pc = "await_armed" /\ Read("ARMED")
  /\ Proceed("ready")
  /\ UNCHANGED <<disk, work, child, cmd, faults, aux>>

\* Admission needs the live child with its reader and its helper.
IssueReady ==
  /\ pc = "ready" /\ child.pc = "observing"
  /\ ready' = attempt
  /\ Proceed("armed")
  /\ UNCHANGED <<allButReady, work, node, faults, aux>>

JournalArmed ==
  /\ pc = "armed"
  /\ Save("armed", attempt)
  /\ Proceed("await_observed")
  /\ UNCHANGED <<allButJournal, work, node, faults, aux>>

ReceiveObserved ==
  /\ pc = "await_observed" /\ Read("OBSERVED")
  /\ Proceed("after")
  /\ UNCHANGED <<disk, work, child, cmd, faults, aux>>

\* Mutant: FINALIZE is sent before the journal says observed.
AttestAfter_FinalizeEarly ==
  /\ pc = "after"
  /\ deployment' = [attempt |-> attempt, stage |-> "after"]
  /\ cmd' = "FINALIZE"
  /\ Proceed("observed")
  /\ UNCHANGED <<allButDeployment, work, child, frames, faults, aux>>

AttestAfter ==
  /\ pc = "after"
  /\ deployment' = [attempt |-> attempt, stage |-> "after"]
  /\ Proceed("observed")
  /\ UNCHANGED <<allButDeployment, work, node, faults, aux>>

JournalObserved ==
  /\ pc = "observed"
  /\ Save("observed", attempt)
  /\ cmd' = "FINALIZE"
  /\ Proceed("await_final")
  /\ UNCHANGED <<allButJournal, work, child, frames, faults, aux>>

ReceiveFinalized ==
  /\ pc = "await_final" /\ Read("FINALIZED")
  /\ Proceed("finish")
  /\ UNCHANGED <<disk, work, child, cmd, faults, aux>>

ReceiveCancelled ==
  /\ pc \in {"await_armed", "await_observed"} /\ Read("CANCELLED")
  /\ Proceed("finish")
  /\ UNCHANGED <<disk, work, child, cmd, faults, aux>>

\* A frame that does not belong here ends the cycle.
Expected ==
  [p \in Awaiting |->
     CASE p = "await_prepared" -> {"PREPARED"}
       [] p = "await_armed"    -> {"ARMED", "CANCELLED"}
       [] p = "await_observed" -> {"OBSERVED", "CANCELLED"}
       [] p = "await_final"    -> {"FINALIZED"}]

ReceiveUnexpected ==
  /\ pc \in Awaiting
  /\ frames # <<>> /\ Head(frames) \notin Expected[pc]
  /\ frames' = Tail(frames)
  /\ Proceed("abort")
  /\ UNCHANGED <<disk, work, child, cmd, faults, aux>>

\* Mutant: the end of the child's output is not noticed.
ReceiveEnd_EofIgnored ==
  /\ pc = "ready" /\ child.pc # "observing"
  /\ Proceed("abort")
  /\ UNCHANGED <<disk, work, node, faults, aux>>

\* control_eof: the child is gone and left no frame; also a child that no
\* longer qualifies for READY
ReceiveEnd ==
  /\ \/ pc \in Awaiting /\ frames = <<>> /\ child.pc = "exited"
     \/ pc = "ready" /\ child.pc # "observing"
  /\ Proceed("abort")
  /\ UNCHANGED <<disk, work, node, faults, aux>>

\* Mutant: the lock is not looked at before the journal is completed.
LedgerIsFinal_LockIgnored ==
  /\ ledger.form = "whole" /\ AllTerminal
  /\ Last(ledger.entries).id = attempt

\* finish(): independent checks of the exit, the lock and the ledger
LedgerIsFinal ==
  /\ ~lock /\ ledger.form = "whole" /\ AllTerminal
  /\ Last(ledger.entries).id = attempt

\* The FIFO must be the one that was made; it is the first thing that goes.
Finishable == LedgerIsFinal /\ dirs[attempt] = "whole"
UnlinkFifo == dirs' = [dirs EXCEPT ![attempt] = "owned"]

Finish ==
  /\ pc = "finish" /\ child.pc = "exited"
  /\ IF Finishable
     THEN /\ Proceed("unlink_ready") /\ UnlinkFifo
     ELSE /\ Proceed("abort") /\ UNCHANGED dirs
  /\ UNCHANGED <<allButDirs, work, node, faults, aux>>

UnlinkReady ==
  /\ pc = "unlink_ready"
  /\ ready' = 0
  /\ Proceed("unlink_deployment")
  /\ UNCHANGED <<allButReady, work, node, faults, aux>>

UnlinkDeployment ==
  /\ pc = "unlink_deployment"
  /\ deployment' = NoRecord
  /\ Proceed("complete")
  /\ UNCHANGED <<allButDeployment, work, node, faults, aux>>

Complete ==
  /\ pc = "complete"
  /\ Save("completed", attempt)
  /\ child' = NoChild
  /\ Proceed("off")
  /\ UNCHANGED <<allButJournal, work, frames, cmd, faults, aux>>

\* abort(): SIGTERM, seven seconds of grace, SIGKILL; only an explicit orderly
\* cancellation may still be finished
Terminate ==
  /\ pc = "abort"
  /\ child' = [child EXCEPT !.stop = TRUE]
  /\ Proceed("aborting")
  /\ UNCHANGED <<disk, work, frames, cmd, faults, aux>>

OrderlyCancelled == attempt # 0 /\ frames # <<>> /\ Head(frames) = "CANCELLED"

Aborted ==
  /\ pc = "aborting" /\ child.pc = "exited"
  /\ IF OrderlyCancelled /\ Finishable
     THEN /\ Proceed("unlink_ready") /\ UnlinkFifo /\ UNCHANGED child
     ELSE /\ Proceed("off") /\ child' = NoChild /\ UNCHANGED dirs
  /\ frames' = <<>>
  /\ UNCHANGED <<allButDirs, work, cmd, faults, aux>>

----------------------------------------------------------------------------
(* The child: one attempt under the durable ledger *)

Pc(p)      == child' = [child EXCEPT !.pc = p]
Emit(f)    == frames' = Append(frames, f)
\* Mutant: a transition appends instead of replacing the active entry.
Record_Appended(state, verdict) ==
  ledger' = [form |-> "whole", entries |-> Append(ledger.entries, Entry(starts, state, verdict))]

\* prepare() and transition() replace attempts.json by rename.
Record(state, verdict) ==
  ledger' = [form |-> "whole",
             entries |-> (IF Prepared(starts) THEN Front(ledger.entries) ELSE ledger.entries)
                           \o <<Entry(starts, state, verdict)>>]

\* openAttemptLedger: O_EXCL operator.lock, no leftovers, only finished entries
OpenLedger ==
  /\ child.pc = "open" /\ ~lock /\ ~pending /\ ledger.form # "torn" /\ AllTerminal
  /\ lock' = TRUE
  /\ Pc("opened")
  /\ UNCHANGED <<allButLock, root, frames, cmd, faults, aux>>

Prepare ==
  /\ child.pc = "opened"
  /\ Record("prepared", "INCONCLUSIVE")
  /\ Emit("PREPARED")
  /\ Pc("prepared")
  /\ UNCHANGED <<allButLedger, root, cmd, faults, aux>>

BeginArm ==
  /\ child.pc = "prepared" /\ cmd = "ARM"
  /\ cmd' = "none"
  /\ Pc(IF deployment = [attempt |-> starts, stage |-> "before"] THEN "arming" ELSE "settling")
  /\ UNCHANGED <<disk, root, frames, faults, aux>>

Arm ==
  /\ child.pc = "arming"
  /\ Record("armed", "INCONCLUSIVE")
  /\ Emit("ARMED")
  /\ Pc("observing")
  /\ UNCHANGED <<allButLedger, root, cmd, faults, aux>>

\* A prerequisite is missing (projection, clock, reader, helper): NOT_ARMED.
ArmFails ==
  /\ child.pc = "arming"
  /\ Pc("settling")
  /\ UNCHANGED <<disk, root, frames, cmd, faults, aux>>

\* The event of a publisher that was admitted under this attempt's READY
ConsumeEvent ==
  /\ child.pc = "observing" /\ ready = starts
  /\ Record("event_consumed", "INCONCLUSIVE")
  /\ Pc("consumed")
  /\ UNCHANGED <<allButLedger, root, frames, cmd, faults, aux>>

\* The verdict over the capture, the outcome of the cleanup, OBSERVED
ObserveRun ==
  /\ child.pc \in {"observing", "consumed"}
  /\ \E verdict \in Verdicts, clean \in BOOLEAN :
       /\ (child.pc = "observing" \/ ~clean) => verdict = "INCONCLUSIVE"
       /\ child' = [child EXCEPT !.pc = "seen", !.result = verdict, !.clean = clean]
  /\ Emit("OBSERVED")
  /\ UNCHANGED <<disk, root, cmd, faults, aux>>

\* finalize(): recheck READY and the AFTER attestation, then the last transition
Final ==
  IF ready = starts /\ deployment = [attempt |-> starts, stage |-> "after"]
  THEN child.result ELSE "INCONCLUSIVE"

Finalize ==
  /\ child.pc = "seen" /\ cmd = "FINALIZE"
  /\ cmd' = "none"
  /\ IF Final = "INCONCLUSIVE"
     THEN /\ Record("inconclusive", Final) /\ UNCHANGED auxVerdict
     ELSE /\ Record("completed", Final)
          /\ auxVerdict' = [id \in DOMAIN auxVerdict \union {starts} |->
                              IF id = starts THEN Final ELSE auxVerdict[id]]
  /\ child' = [child EXCEPT !.pc = "closing", !.result = Final]
  /\ UNCHANGED <<allButLedger, root, frames, faults, auxUnclean, auxTorn>>

\* The lock is released only after a verified cleanup.
Close(next) ==
  /\ lock' = (lock /\ ~child.clean)
  /\ auxUnclean' = IF child.clean THEN auxUnclean ELSE auxUnclean \union {starts}
  /\ Pc(next)
  /\ UNCHANGED <<allButLock, root, frames, cmd, faults, auxVerdict, auxTorn>>

CloseFinal  == child.pc = "closing" /\ Close("reporting")
CloseCancel == child.pc = "retired" /\ Close("cancelled")

\* FINALIZED; the controller refuses one that asks for reconciliation because
\* the lock is still there
ReportFinal ==
  /\ child.pc = "reporting"
  /\ Emit("FINALIZED")
  /\ Pc("exited")
  /\ UNCHANGED <<disk, root, cmd, faults, aux>>

\* The awaits at which SIGTERM or the deadline reaches the child, and where
\* cancel() then starts: before ARM nothing was opened that needs settling.
Awaits  == {"prepared", "arming", "observing", "consumed", "seen"}
Abandon == Pc(IF child.pc = "prepared" THEN "cancelling" ELSE "settling")

Interrupt ==
  /\ child.pc \in Awaits /\ child.stop
  /\ Abandon
  /\ UNCHANGED <<disk, root, frames, cmd, faults, aux>>

\* cancel(): settle what is pending, retire the attempt
Cancel ==
  /\ child.pc \in {"cancelling", "settling"}
  /\ Record("inconclusive", "INCONCLUSIVE")
  /\ \E clean \in IF child.pc = "settling" THEN BOOLEAN ELSE {TRUE} :
       child' = [child EXCEPT !.pc = "retired", !.clean = @ /\ clean]
  /\ UNCHANGED <<allButLedger, root, frames, cmd, faults, aux>>

ReportCancel ==
  /\ child.pc = "cancelled"
  /\ Emit(IF child.clean THEN "CANCELLED" ELSE "RECONCILIATION")
  /\ Pc("exited")
  /\ UNCHANGED <<disk, root, cmd, faults, aux>>

----------------------------------------------------------------------------
(* Faults *)

Saving == {"opened", "arming", "observing", "consumed", "seen", "cancelling", "settling"}
Fault  == faults < MaxFaults /\ faults' = faults + 1

\* Power loss, or the service killed with its control group; before Popen a
\* stop request has the same effect.
Crash ==
  /\ Fault /\ pc # "off"
  /\ Proceed("off")
  /\ child' = NoChild /\ frames' = <<>> /\ cmd' = "none"
  /\ pending' \in IF child.pc \in Saving THEN BOOLEAN ELSE {pending}
  /\ auxTorn' = (auxTorn \/ pc \in Recovering)
  /\ UNCHANGED <<allButPending, work, auxVerdict, auxUnclean>>

\* A stop request, a receive() that times out, or any check that raises
Stop ==
  /\ Fault /\ pc \in Controlling
  /\ Proceed("abort")
  /\ UNCHANGED <<disk, work, node, aux>>

\* The child alone is killed.
ChildDies ==
  /\ Fault /\ child.pc \notin {"none", "exited"}
  /\ Pc("exited")
  /\ pending' \in IF child.pc \in Saving THEN BOOLEAN ELSE {pending}
  /\ UNCHANGED <<allButPending, root, frames, cmd, aux>>

\* A write of the ledger fails: the ledger is poisoned and the lock stays.
SaveFails ==
  /\ Fault /\ child.pc \in Saving
  /\ pending' \in BOOLEAN
  /\ Emit(IF child.pc = "opened" THEN "NOT_ARMED" ELSE "RECONCILIATION")
  /\ Pc("exited")
  /\ UNCHANGED <<allButPending, root, cmd, aux>>

\* The child is refused before it touches the ledger (privileges, approval).
ChildRefuses ==
  /\ Fault /\ child.pc = "open"
  /\ Emit("NOT_ARMED")
  /\ Pc("exited")
  /\ UNCHANGED <<disk, root, cmd, aux>>

\* The child's deadline passes at an await.
Deadline ==
  /\ Fault /\ child.pc \in Awaits
  /\ Abandon
  /\ UNCHANGED <<disk, root, frames, cmd, aux>>

\* The child's deadline passes between finalize() and the check behind it:
\* cancel() refuses a finalized session and the attempt is reported open.
DeadlineAfterFinalize ==
  /\ Fault /\ child.pc = "reporting"
  /\ Emit("RECONCILIATION")
  /\ Pc("exited")
  /\ UNCHANGED <<disk, root, cmd, aux>>

----------------------------------------------------------------------------

Recovery ==
  \/ RecoverPriorBoot \/ RecoverUnarmedStart \/ Move \/ CreateRestored
  \/ WriteRestored \/ RecoveryDone \/ PreflightChecks \/ Refuse \/ Exit

Cycle ==
  \/ Spawn \/ Popen \/ SaveSpawned \/ ReceivePrepared \/ MakeDirectory
  \/ AttestBefore \/ ReceiveArmed \/ IssueReady \/ JournalArmed
  \/ ReceiveObserved \/ AttestAfter \/ JournalObserved \/ ReceiveFinalized
  \/ ReceiveCancelled \/ ReceiveUnexpected \/ ReceiveEnd \/ Finish
  \/ UnlinkReady \/ UnlinkDeployment \/ Complete \/ Terminate \/ Aborted

Child ==
  \/ OpenLedger \/ Prepare \/ BeginArm \/ Arm \/ ArmFails \/ ConsumeEvent
  \/ ObserveRun \/ Finalize \/ CloseFinal \/ CloseCancel \/ ReportFinal
  \/ Interrupt \/ Cancel \/ ReportCancel

Faults ==
  \/ Crash \/ Stop \/ ChildDies \/ SaveFails \/ ChildRefuses \/ Deadline
  \/ DeadlineAfterFinalize

CustodyStep == Start \/ Recovery \/ Cycle \/ Child \/ Faults

CustodySpec == CustodyInit /\ [][CustodyStep]_custodyVars

\* The controller and the child run whenever they can: every wait of either
\* has a deadline and systemd bounds the whole (RuntimeMaxSec).
CustodyFairSpec == CustodySpec /\ WF_custodyVars(Recovery \/ Cycle) /\ WF_custodyVars(Child)

----------------------------------------------------------------------------
(* Properties *)

Phases == {"none", "starting", "prepared", "armed", "observed", "completed"}
States == {"prepared", "armed", "event_consumed", "completed", "inconclusive"}

\* The types; in particular an entry that is not finished is the last one of
\* the ledger (c2-production-supervisor.mjs:70-82).
CustodyTypeOK ==
  /\ current \in [phase : Phases, attempt : {0} \union Starts, start : {0} \union Starts, late : BOOLEAN]
  /\ lock \in BOOLEAN /\ pending \in BOOLEAN
  /\ ledger.form \in {"absent", "torn", "whole"}
  /\ ledger.form = "whole" <=> ledger.entries # <<>>
  /\ \A i \in DOMAIN ledger.entries :
       /\ ledger.entries[i] \in [id : Starts, state : States, verdict : Verdicts]
       /\ i < Len(ledger.entries) => Terminal(ledger.entries[i])
  /\ dirs \in [Starts -> Stages]
  /\ deployment \in [attempt : Starts, stage : {"before", "after"}] \union {NoRecord}
  /\ ready \in {0} \union Starts
  /\ starts \in {0} \union Starts /\ attempt \in {0, starts}
  /\ Len(frames) <= 3
  /\ cmd \in {"none", "ARM", "FINALIZE"}
  /\ child.result \in Verdicts /\ child.clean \in BOOLEAN /\ child.stop \in BOOLEAN

\* A journal that says completed is the end of the matter: no lock, no
\* half-written file, no unfinished entry, and no root record that a publisher
\* could still be admitted under is left behind, whatever crashed on the way
\* (auto-custodian.py:646-667 finish, 446-495 recovery).
CompletedIsClean ==
  current.phase = "completed" =>
    /\ ~lock /\ ~pending /\ ledger.form # "torn" /\ AllTerminal
    /\ ready = 0 /\ deployment = NoRecord

\* As long as no recovery was itself interrupted, a child that opens the ledger
\* finds every verdict that was ever completed, unchanged, and no other
\* (auto-custodian.py:250-261 "Never count an interrupted attempt; retain all
\* earlier durable evidence").
CompletedIn(entries) == {<<e.id, e.verdict>> : e \in {x \in ToSet(entries) : x.state = "completed"}}
Completed            == {<<id, auxVerdict[id]>> : id \in DOMAIN auxVerdict}
LedgerIsOpen         == child.pc \notin {"none", "open", "exited"}

CountsAreKept ==
  LedgerIsOpen /\ ~auxTorn => CompletedIn(ledger.entries) = Completed

\* A start is refused only over the remains of an interrupted recovery, when
\* the attempt cannot be bound to the start that prepared it, or over a
\* directory or FIFO that its start had made and not yet handed to the operator
\* (foreign_recovery_directory, foreign_recovery_resource): any other crash,
\* stop, failed write or dead child is recovered by the next start
\* (auto-custodian.py:420-515, 405-419, 557-566).
RefusedOnlyWhenUnproven ==
  pc = "refused" =>
    auxTorn \/ current.late \/ HalfMade(current.attempt)

\* A completed attempt leaves nothing behind, recovery keeps every verdict, and
\* only what is not proved to be the start's stays refused (auto-custodian.py:434,
\* 481, 646).
VerdictsAreKept == CustodyTypeOK /\ CompletedIsClean /\ CountsAreKept /\ RefusedOnlyWhenUnproven

\* A verdict counts only once the controller's journal says that the attempt
\* was observed, while READY and the AFTER attestation of that very attempt
\* are in place (auto-custodian.py:627-644, c2-production-supervisor.mjs:300-311).
CountedUnderCustody ==
  [][auxVerdict' # auxVerdict =>
       /\ current.phase = "observed" /\ current.attempt = starts
       /\ ready = starts /\ deployment = [attempt |-> starts, stage |-> "after"]]_custodyVars

\* Every start of the service comes to an end (RuntimeMaxSec, Restart=no, the
\* time limits of receive() and of abort()).
StartEnds == (pc # "off") ~> (pc = "off")

----------------------------------------------------------------------------
(* Properties the documentation states and the code does not keep *)

\* ops/c2/README.md:640 "earlier PASS/FAIL history and count policy are
\* retained": a child never opens a ledger that misses a completed verdict.
HistoryIsRetained == LedgerIsOpen => Completed \subseteq CompletedIn(ledger.entries)

\* ops/c2/README.md:641-642 "same invocation, live actor or failed cleanup
\* remain BLOCKED, never deleted or auto-replayed": no attempt follows one whose
\* cleanup was not verified.
UncleanIsBlocked == LedgerIsOpen => auxUnclean \subseteq {starts}

=============================================================================
