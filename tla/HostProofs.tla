----------------------------- MODULE HostProofs -----------------------------
(***************************************************************************)
(* Proofs about the two root services of the production host: Deploy, for  *)
(* any submissions, releases and number of signals, and Custody, for any   *)
(* number of starts and faults.                                            *)
(*                                                                         *)
(* Deploy.  What a worker reports of the host is true because nobody else  *)
(* touches the host meanwhile (Exclusive), which holds across a crash      *)
(* because a killed worker leaves its journal RUNNING (Journaled).  Stage  *)
(* then says, for every step of a rollout, what the worker has made of the *)
(* host.                                                                   *)
(*                                                                         *)
(* Custody.  A verdict is neither lost nor invented because the entries of *)
(* the ledger are numbered by the starts that made them (Numbered), the    *)
(* child's lock covers its unfinished entry (Locked), and a recovery takes *)
(* a copy before it moves the ledger away (Restoring, Kept).  A start can  *)
(* be recovered because the journal names the start whose entry may be     *)
(* unfinished (Journalled).                                                *)
(***************************************************************************)
EXTENDS Deploy, Custody, TLAPS

-----------------------------------------------------------------------------
(* Deploy *)

Alive == Running \cup {"killed"}

(* The lock, and what a worker that was killed leaves in its place.        *)
Exclusive ==
  \A s, t \in Submissions : s # t /\ HoldsLock(s) => ~HoldsLock(t) /\ worker[t] # "killed"
Forked == \A s \in Submissions : worker[s] # None => parent[s] \in {"forked", "done"}
Journaled ==
  \A s \in Submissions :
    parent[s] = "journaled" \/ worker[s] \in Alive => journal[sha[s]] = "RUNNING"
Locking == Exclusive /\ Forked /\ Journaled

(* A load is preceded by the marker of its approval.                       *)
Approvals ==
  /\ \A x \in Shas : loads[x] <= 1 /\ (loads[x] > 0 => x \in used)
  /\ \A s \in Submissions : worker[s] = "load" => sha[s] \in used /\ loads[sha[s]] = 0

AsFound(s) == release = prior[s] /\ container = [sha |-> prior[s], checked |-> TRUE] /\ tunnel
Outside(s) ==
  /\ worker[s] \in {None, "preflight"} => prior[s] = None
  /\ worker[s] \in {"compensate"} \cup (Preflight \ {"preflight"}) \cup Cutover \cup Rollback => prior[s] \in Shas

(* Host and files at every step of the worker of s.                        *)
Going(s) ==
  /\ worker[s] \in {"fresh", "authorize", "consume", "load", "recheck", "freshAgain", "stop"} => AsFound(s)
  /\ worker[s] \in {"save", "replace", "recreate", "local"} => ~tunnel
  /\ worker[s] \in {"save", "replace"} => release = prior[s]
  /\ worker[s] \in {"recreate", "local", "open", "public", "observe"} => release = sha[s]
  /\ worker[s] \in {"local", "open", "public", "observe"} => container.sha = sha[s]
  /\ worker[s] \in {"open", "public", "observe"} => container.checked
  /\ worker[s] \in {"public", "observe"} => tunnel
  /\ worker[s] \in {"replace", "recreate", "local", "open", "public", "observe"} => previous[sha[s]] = prior[s]
Returning(s) ==
  /\ worker[s] \in {"rbReplace", "rbRecreate", "rbLocal"} => ~tunnel
  /\ worker[s] \in {"rbRecreate", "rbLocal", "rbOpen", "rbPublic"} => release = prior[s]
  /\ worker[s] \in {"rbLocal", "rbOpen", "rbPublic"} => container.sha = prior[s]
  /\ worker[s] \in {"rbOpen", "rbPublic"} => container.checked
  /\ worker[s] = "rbPublic" => tunnel
Reported(s) ==
  worker[s] \in {"returned", "write"} =>
    /\ outcome[s] = "DEPLOYED" =>
         release = sha[s] /\ container = [sha |-> sha[s], checked |-> TRUE] /\ tunnel
    /\ outcome[s] \in {"BLOCKED_ROLLED_BACK", "NO_OP", "SKIPPED_STALE"} => AsFound(s)
    /\ outcome[s] = "BLOCKED_PREFLIGHT" /\ prior[s] # None /\ signals[s] = 0 => AsFound(s)
Reference(s) ==
  worker[s] \in Alive \ {"preflight"} => prior[s] = None \/ release = prior[s] \/ previous[sha[s]] = prior[s]
Stage(s) == Outside(s) /\ Going(s) /\ Returning(s) /\ Reported(s) /\ Reference(s)

IInv == /\ TypeOK /\ Locking /\ Approvals /\ NothingUncheckedIsPublic
        /\ \A s \in Submissions : Stage(s)

-----------------------------------------------------------------------------
(* The successors of the steps.                                            *)
LEMMA Successors ==
  /\ After["preflight"] = "fresh" /\ After["fresh"] = "authorize" /\ After["authorize"] = "consume"
  /\ After["consume"] = "load" /\ After["load"] = "recheck" /\ After["recheck"] = "freshAgain"
  /\ After["freshAgain"] = "stop" /\ After["stop"] = "save" /\ After["save"] = "replace"
  /\ After["replace"] = "recreate" /\ After["recreate"] = "local" /\ After["local"] = "open"
  /\ After["open"] = "public" /\ After["public"] = "observe"
  /\ After["compensate"] = "rbStop" /\ After["rbStop"] = "rbReplace" /\ After["rbReplace"] = "rbRecreate"
  /\ After["rbRecreate"] = "rbLocal" /\ After["rbLocal"] = "rbOpen" /\ After["rbOpen"] = "rbPublic"
  /\ After["rbPublic"] = "returned"
  BY DEF After

Steps == {"compensate"} \cup Preflight \cup Cutover \cup Rollback

LEMMA NextSteps == \A step \in Steps \ {"observe"} : After[step] \in Running \ {"preflight"}
  BY Successors DEF Steps, Running, Preflight, Cutover, Rollback

LEMMA Initial == Init => IInv
<1> SUFFICES ASSUME Init PROVE IInv
  OBVIOUS
<1> USE DEF Init
<1>1. TypeOK
  BY BaseIsRelease, SignalsBounded DEF TypeOK, Statuses, None, Running
<1>2. Locking
  BY DEF Locking, Exclusive, Forked, Journaled, HoldsLock, Alive, Running, None, Preflight,
     Cutover, Rollback
<1>3. Approvals /\ NothingUncheckedIsPublic
  BY DEF Approvals, NothingUncheckedIsPublic, None
<1>4. ASSUME NEW s \in Submissions PROVE Stage(s)
  BY DEF Stage, Outside, Going, Returning, Reported, Reference, Alive, Running, Preflight,
     Cutover, Rollback, None
<1> QED
  BY <1>1, <1>2, <1>3, <1>4 DEF IInv

WorkerStep(s) == Worker(s) \/ Signal(s) \/ WorkerKilled(s)
ParentStep(s) == Broker(s) \/ ParentKilled(s)

(* What every step of a worker has in common: only its own process moves,  *)
(* and the journal of its release changes only as it exits.                *)
OnlyMoves(s) ==
  /\ worker[s] \in Running
  /\ UNCHANGED <<parent, sha>>
  /\ \E w \in (Running \ {"preflight"}) \cup {"exited", "killed"} :
       worker' = [worker EXCEPT ![s] = w] /\ (w # "exited" => journal' = journal)
  /\ \A x \in Shas : x # sha[s] => journal'[x] = journal[x]
  /\ \A t \in Submissions : t # s => prior'[t] = prior[t]

LEMMA WorkerMoves ==
  ASSUME TypeOK, NEW s \in Submissions, WorkerStep(s)
  PROVE  OnlyMoves(s)
<1> USE DEF TypeOK, At, Goto, Return, Steps, Running, Preflight, Cutover, Rollback, files, host
<1>1. CASE FindPrior(s)
  BY <1>1, Successors DEF FindPrior, OnlyMoves
<1>2. CASE Stale(s)
  BY <1>2 DEF Stale, OnlyMoves
<1>3. CASE Check(s)
  <2>1. worker[s] \in Steps \ {"observe"}
    BY <1>3 DEF Check
  <2>2. After[worker[s]] \in Running \ {"preflight"}
    BY <2>1, NextSteps
  <2> HIDE DEF Running, Preflight, Cutover, Rollback
  <2>3. worker' = [worker EXCEPT ![s] = After[worker[s]]] /\ UNCHANGED <<journal, parent, sha, prior>>
    BY <1>3 DEF Check
  <2> QED
    BY <2>1, <2>2, <2>3 DEF OnlyMoves, Running
<1>4. CASE Consume(s)
  BY <1>4, Successors DEF Consume, OnlyMoves
<1>5. CASE Load(s)
  BY <1>5, Successors DEF Load, OnlyMoves
<1>6. CASE CloseTunnel(s)
  <2>1. worker[s] \in Steps \ {"observe"}
    BY <1>6 DEF CloseTunnel
  <2>2. After[worker[s]] \in Running \ {"preflight"}
    BY <2>1, NextSteps
  <2> HIDE DEF Running, Preflight, Cutover, Rollback
  <2>3. worker' = [worker EXCEPT ![s] = After[worker[s]]] /\ UNCHANGED <<journal, parent, sha, prior>>
    BY <1>6 DEF CloseTunnel
  <2> QED
    BY <2>1, <2>2, <2>3 DEF OnlyMoves, Running
<1>7. CASE SavePrevious(s)
  BY <1>7, Successors DEF SavePrevious, OnlyMoves
<1>8. CASE ReplaceRelease(s)
  <2>1. worker[s] \in Steps \ {"observe"}
    BY <1>8 DEF ReplaceRelease
  <2>2. After[worker[s]] \in Running \ {"preflight"}
    BY <2>1, NextSteps
  <2> HIDE DEF Running, Preflight, Cutover, Rollback
  <2>3. worker' = [worker EXCEPT ![s] = After[worker[s]]] /\ UNCHANGED <<journal, parent, sha, prior>>
    BY <1>8 DEF ReplaceRelease
  <2> QED
    BY <2>1, <2>2, <2>3 DEF OnlyMoves, Running
<1>9. CASE Recreate(s)
  <2>1. worker[s] \in Steps \ {"observe"}
    BY <1>9 DEF Recreate
  <2>2. After[worker[s]] \in Running \ {"preflight"}
    BY <2>1, NextSteps
  <2> HIDE DEF Running, Preflight, Cutover, Rollback
  <2>3. worker' = [worker EXCEPT ![s] = After[worker[s]]] /\ UNCHANGED <<journal, parent, sha, prior>>
    BY <1>9 DEF Recreate
  <2> QED
    BY <2>1, <2>2, <2>3 DEF OnlyMoves, Running
<1>10. CASE Smoke(s)
  <2>1. worker[s] \in Steps \ {"observe"}
    BY <1>10 DEF Smoke
  <2>2. After[worker[s]] \in Running \ {"preflight"}
    BY <2>1, NextSteps
  <2> HIDE DEF Running, Preflight, Cutover, Rollback
  <2>3. worker' = [worker EXCEPT ![s] = After[worker[s]]] /\ UNCHANGED <<journal, parent, sha, prior>>
    BY <1>10 DEF Smoke
  <2> QED
    BY <2>1, <2>2, <2>3 DEF OnlyMoves, Running
<1>11. CASE OpenTunnel(s)
  <2>1. worker[s] \in Steps \ {"observe"}
    BY <1>11 DEF OpenTunnel
  <2>2. After[worker[s]] \in Running \ {"preflight"}
    BY <2>1, NextSteps
  <2> HIDE DEF Running, Preflight, Cutover, Rollback
  <2>3. worker' = [worker EXCEPT ![s] = After[worker[s]]] /\ UNCHANGED <<journal, parent, sha, prior>>
    BY <1>11 DEF OpenTunnel
  <2> QED
    BY <2>1, <2>2, <2>3 DEF OnlyMoves, Running
<1>12. CASE Observe(s)
  BY <1>12 DEF Observe, OnlyMoves
<1>13. CASE Compensate(s)
  BY <1>13, Successors DEF Compensate, OnlyMoves
<1>14. CASE LastStop(s)
  BY <1>14 DEF LastStop, OnlyMoves
<1>15. CASE Leave(s)
  BY <1>15 DEF Leave, OnlyMoves
<1>16. CASE WriteResult(s)
  BY <1>16 DEF WriteResult, OnlyMoves
<1>17. CASE Blocked(s)
  BY <1>17 DEF Blocked, Raise, OnlyMoves
<1>18. CASE WriteFails(s)
  BY <1>18 DEF WriteFails, WriteInterrupted, OnlyMoves
<1>19. CASE Signal(s)
  BY <1>19 DEF Signal, Raise, WriteInterrupted, OnlyMoves
<1>20. CASE WorkerKilled(s)
  BY <1>20 DEF WorkerKilled, OnlyMoves
<1> QED
  BY <1>1, <1>2, <1>3, <1>4, <1>5, <1>6, <1>7, <1>8, <1>9, <1>10, <1>11, <1>12, <1>13,
     <1>14, <1>15, <1>16, <1>17, <1>18, <1>19, <1>20 DEF WorkerStep, Worker

(* Nobody else is at work while a worker moves, and nobody else was killed.*)
LEMMA Alone ==
  ASSUME IInv, NEW s \in Submissions, worker[s] \in Running, NEW t \in Submissions, t # s
  PROVE  worker[t] \notin Alive /\ ~HoldsLock(t)
  BY DEF IInv, Locking, Exclusive, HoldsLock, Alive

LEMMA WorkerKeepsLocking ==
  ASSUME IInv, NEW s \in Submissions, OnlyMoves(s)
  PROVE  Locking'
<1> USE DEF IInv, OnlyMoves
<1> PICK w \in (Running \ {"preflight"}) \cup {"exited", "killed"} :
      worker' = [worker EXCEPT ![s] = w] /\ (w # "exited" => journal' = journal)
  OBVIOUS
<1>1. /\ worker'[s] = w
      /\ \A t \in Submissions : t # s => worker'[t] = worker[t] /\ worker[t] \notin Alive /\ ~HoldsLock(t)
  BY Alone DEF TypeOK
<1>2. Exclusive'
  BY <1>1 DEF Exclusive, HoldsLock, Alive
<1>3. parent[s] \in {"forked", "done"}
  BY DEF Locking, Forked, Running, Preflight, Cutover, Rollback, None
<1>4. Forked'
  BY <1>1, <1>3 DEF Locking, Forked
<1>5. Journaled'
  <2> SUFFICES ASSUME NEW t \in Submissions, parent[t] = "journaled" \/ worker'[t] \in Alive
               PROVE  journal'[sha[t]] = "RUNNING"
    BY DEF Journaled
  <2>1. t = s
    BY <1>1 DEF HoldsLock
  <2>2. w # "exited"
    BY <1>1, <1>3, <2>1 DEF Alive, Running, Preflight, Cutover, Rollback
  <2> QED
    BY <2>1, <2>2 DEF Locking, Journaled, Alive
<1> QED
  BY <1>2, <1>4, <1>5 DEF Locking

(* The stages of the others do not depend on the host.                     *)
LEMMA WorkerKeepsOthers ==
  ASSUME IInv, NEW s \in Submissions, OnlyMoves(s), NEW t \in Submissions, t # s
  PROVE  Stage(t)'
<1>1. worker'[t] = worker[t] /\ prior'[t] = prior[t] /\ worker[t] \notin Alive /\ worker[t] # "preflight"
  BY Alone DEF IInv, TypeOK, OnlyMoves, Alive, Running, Preflight
<1>2. Outside(t)'
  BY <1>1 DEF IInv, Stage, Outside, Alive
<1> QED
  BY <1>1, <1>2 DEF Stage, Going, Returning, Reported, Reference, Alive, Running, Preflight,
     Cutover, Rollback

-----------------------------------------------------------------------------
(* Each step of the worker of s, for the host, the files and its own stage.*)
Stands(s) == TypeOK /\ Approvals /\ NothingUncheckedIsPublic /\ Stage(s)

(* A step that does not come to a load and leaves the approvals alone.     *)
LEMMA ApprovalsStay ==
  ASSUME IInv, NEW s \in Submissions, OnlyMoves(s), worker'[s] # "load", UNCHANGED <<used, loads>>
  PROVE  Approvals'
<1>1. \A t \in Submissions : t # s => worker'[t] = worker[t]
  BY DEF IInv, TypeOK, OnlyMoves
<1> QED
  BY <1>1 DEF IInv, Approvals, OnlyMoves

(* The steps that succeed.                                                 *)
LEMMA WorkerKeeps ==
  ASSUME IInv, NEW s \in Submissions, OnlyMoves(s), Worker(s), ~Blocked(s)
  PROVE  Stands(s)'
<1> USE DEF IInv, host, files, At, Goto, Return
<1> TypeOK /\ Stage(s) /\ s \in Submissions
  OBVIOUS
<1>1. CASE FindPrior(s)
  <2> USE <1>1 DEF FindPrior
  <2>1. \/ worker[s] = "preflight" /\ worker'[s] = "fresh" /\ release # sha[s]
        \/ worker[s] = "preflight" /\ worker'[s] = "returned" /\ outcome'[s] = "NO_OP"
    <3>1. CASE release = sha[s]
      BY <3>1 DEF TypeOK
    <3>2. CASE release # sha[s]
      BY <3>2, Successors DEF TypeOK
    <3> QED
      BY <3>1, <3>2
  <2>2. TypeOK'
    BY <2>1 DEF TypeOK, OnlyMoves, Stage, Outside, Statuses, Running, Preflight, Cutover, Rollback
  <2>4. Approvals'
    BY <2>1, ApprovalsStay
  <2>5. NothingUncheckedIsPublic'
    BY <2>1 DEF TypeOK, NothingUncheckedIsPublic, Stage, Going, Returning
  <2>6. Stage(s)'
    BY <2>1, <2>2 DEF TypeOK, Stage, Outside, Going, Returning, Reported, Reference, AsFound,
       Alive, Running, Preflight, Cutover, Rollback, None, NothingUncheckedIsPublic
  <2> QED
    BY <2>2, <2>4, <2>5, <2>6 DEF Stands
<1>2. CASE Stale(s)
  <2> USE <1>2 DEF Stale
  <2>1. worker[s] \in {"fresh", "freshAgain"} /\ worker'[s] = "returned" /\ outcome'[s] = "SKIPPED_STALE"
    BY Successors DEF TypeOK
  <2>2. TypeOK'
    BY <2>1 DEF TypeOK, OnlyMoves, Stage, Outside, Statuses, Running, Preflight, Cutover, Rollback
  <2>4. Approvals'
    BY <2>1, ApprovalsStay
  <2>5. NothingUncheckedIsPublic'
    BY <2>1 DEF TypeOK, NothingUncheckedIsPublic, Stage, Going, Returning
  <2>6. Stage(s)'
    BY <2>1, <2>2 DEF TypeOK, Stage, Outside, Going, Returning, Reported, Reference, AsFound,
       Alive, Running, Preflight, Cutover, Rollback, None
  <2> QED
    BY <2>2, <2>4, <2>5, <2>6 DEF Stands
<1>3. CASE Check(s)
  <2> USE <1>3 DEF Check
  <2>1. \/ worker[s] = "fresh" /\ worker'[s] = "authorize"
        \/ worker[s] = "authorize" /\ worker'[s] = "consume"
        \/ worker[s] = "recheck" /\ worker'[s] = "freshAgain"
        \/ worker[s] = "freshAgain" /\ worker'[s] = "stop"
        \/ worker[s] = "public" /\ worker'[s] = "observe"
        \/ worker[s] = "rbPublic" /\ worker'[s] = "returned" /\ outcome'[s] = "BLOCKED_ROLLED_BACK"
    <3>1. worker'[s] = After[worker[s]]
      BY DEF TypeOK
    <3>2. worker[s] \in {"fresh", "authorize", "recheck", "freshAgain", "public", "rbPublic"}
      OBVIOUS
    <3>3. worker[s] = "rbPublic" => outcome'[s] = "BLOCKED_ROLLED_BACK"
      BY DEF TypeOK
    <3> HIDE <1>3 DEF Check
    <3> QED
      BY <3>1, <3>2, <3>3, Successors
  <2>2. TypeOK'
    BY <2>1 DEF TypeOK, OnlyMoves, Stage, Outside, Statuses, Running, Preflight, Cutover, Rollback
  <2>4. Approvals'
    BY <2>1, ApprovalsStay
  <2>5. NothingUncheckedIsPublic'
    BY <2>1 DEF TypeOK, NothingUncheckedIsPublic, Stage, Going, Returning
  <2>6. Stage(s)'
    BY <2>1, <2>2 DEF TypeOK, Stage, Outside, Going, Returning, Reported, Reference, AsFound,
       Alive, Running, Preflight, Cutover, Rollback, None
  <2> QED
    BY <2>2, <2>4, <2>5, <2>6 DEF Stands
<1>4. CASE Consume(s)
  <2> USE <1>4 DEF Consume
  <2>1. worker[s] = "consume" /\ worker'[s] = "load"
    BY Successors DEF TypeOK
  <2>2. TypeOK'
    BY <2>1 DEF TypeOK, OnlyMoves, Stage, Outside, Statuses, Running, Preflight, Cutover, Rollback
  <2>3. \A t \in Submissions : t # s => worker'[t] = worker[t] /\ worker[t] # "load"
    BY <2>1, Alone DEF TypeOK, OnlyMoves, Alive, Running, Preflight
  <2>4. Approvals'
    BY <2>1, <2>3 DEF TypeOK, Approvals
  <2>5. NothingUncheckedIsPublic'
    BY <2>1 DEF TypeOK, NothingUncheckedIsPublic, Stage, Going, Returning
  <2>6. Stage(s)'
    BY <2>1, <2>2 DEF TypeOK, Stage, Outside, Going, Returning, Reported, Reference, AsFound,
       Alive, Running, Preflight, Cutover, Rollback, None
  <2> QED
    BY <2>2, <2>4, <2>5, <2>6 DEF Stands
<1>5. CASE Load(s)
  <2> USE <1>5 DEF Load
  <2>1. worker[s] = "load" /\ worker'[s] = "recheck"
    BY Successors DEF TypeOK
  <2>2. TypeOK'
    BY <2>1 DEF TypeOK, OnlyMoves, Stage, Outside, Statuses, Running, Preflight, Cutover, Rollback
  <2>3. \A t \in Submissions : t # s => worker'[t] = worker[t] /\ worker[t] # "load"
    BY <2>1, Alone DEF TypeOK, OnlyMoves, Alive, Running, Preflight
  <2>4. Approvals'
    BY <2>1, <2>3 DEF TypeOK, Approvals
  <2>5. NothingUncheckedIsPublic'
    BY <2>1 DEF TypeOK, NothingUncheckedIsPublic, Stage, Going, Returning
  <2>6. Stage(s)'
    BY <2>1, <2>2 DEF TypeOK, Stage, Outside, Going, Returning, Reported, Reference, AsFound,
       Alive, Running, Preflight, Cutover, Rollback, None
  <2> QED
    BY <2>2, <2>4, <2>5, <2>6 DEF Stands
<1>6. CASE CloseTunnel(s)
  <2> USE <1>6 DEF CloseTunnel
  <2>1. \/ worker[s] = "stop" /\ worker'[s] = "save"
        \/ worker[s] = "rbStop" /\ worker'[s] = "rbReplace"
    <3>1. worker'[s] = After[worker[s]]
      BY DEF TypeOK
    <3>2. worker[s] \in {"stop", "rbStop"}
      OBVIOUS
    <3> HIDE <1>6 DEF CloseTunnel
    <3> QED
      BY <3>1, <3>2, Successors
  <2>2. TypeOK'
    <3>1. worker' \in [Submissions -> Running \cup {None, "exited", "killed"}]
      BY DEF TypeOK, OnlyMoves
    <3>2. /\ container' \in [sha : Shas \cup {None}, checked : BOOLEAN] /\ tunnel' \in BOOLEAN
          /\ UNCHANGED <<release, files, parent, sha, prior, outcome, signals>>
      BY DEF TypeOK
    <3> QED
      BY <3>1, <3>2 DEF TypeOK, files
  <2>4. Approvals'
    BY <2>1, ApprovalsStay
  <2>5. NothingUncheckedIsPublic'
    BY <2>1 DEF TypeOK, NothingUncheckedIsPublic, Stage, Going, Returning
  <2>6. Stage(s)'
    BY <2>1, <2>2 DEF TypeOK, Stage, Outside, Going, Returning, Reported, Reference, AsFound,
       Alive, Running, Preflight, Cutover, Rollback, None
  <2> QED
    BY <2>2, <2>4, <2>5, <2>6 DEF Stands
<1>7. CASE SavePrevious(s)
  <2> USE <1>7 DEF SavePrevious
  <2>1. worker[s] = "save" /\ worker'[s] = "replace"
    BY Successors DEF TypeOK
  <2>2. TypeOK'
    BY <2>1 DEF TypeOK, OnlyMoves, Stage, Outside, Statuses, Running, Preflight, Cutover, Rollback
  <2>4. Approvals'
    BY <2>1, ApprovalsStay
  <2>5. NothingUncheckedIsPublic'
    BY <2>1 DEF TypeOK, NothingUncheckedIsPublic, Stage, Going, Returning
  <2>6. Stage(s)'
    BY <2>1, <2>2 DEF TypeOK, Stage, Outside, Going, Returning, Reported, Reference, AsFound,
       Alive, Running, Preflight, Cutover, Rollback, None
  <2> QED
    BY <2>2, <2>4, <2>5, <2>6 DEF Stands
<1>8. CASE ReplaceRelease(s)
  <2> USE <1>8 DEF ReplaceRelease
  <2>1. \/ worker[s] = "replace" /\ worker'[s] = "recreate"
        \/ worker[s] = "rbReplace" /\ worker'[s] = "rbRecreate"
    <3>1. worker'[s] = After[worker[s]]
      BY DEF TypeOK
    <3>2. worker[s] \in {"replace", "rbReplace"}
      OBVIOUS
    <3> HIDE <1>8 DEF ReplaceRelease
    <3> QED
      BY <3>1, <3>2, Successors
  <2>2. TypeOK'
    BY <2>1 DEF TypeOK, OnlyMoves, Stage, Outside, Statuses, Running, Preflight, Cutover, Rollback
  <2>4. Approvals'
    BY <2>1, ApprovalsStay
  <2>5. NothingUncheckedIsPublic'
    BY <2>1 DEF TypeOK, NothingUncheckedIsPublic, Stage, Going, Returning
  <2>6. Stage(s)'
    BY <2>1, <2>2 DEF TypeOK, Stage, Outside, Going, Returning, Reported, Reference, AsFound,
       Alive, Running, Preflight, Cutover, Rollback, None
  <2> QED
    BY <2>2, <2>4, <2>5, <2>6 DEF Stands
<1>9. CASE Recreate(s)
  <2> USE <1>9 DEF Recreate
  <2>1. \/ worker[s] = "recreate" /\ worker'[s] = "local"
        \/ worker[s] = "rbRecreate" /\ worker'[s] = "rbLocal"
    <3>1. worker'[s] = After[worker[s]]
      BY DEF TypeOK
    <3>2. worker[s] \in {"recreate", "rbRecreate"}
      OBVIOUS
    <3> HIDE <1>9 DEF Recreate
    <3> QED
      BY <3>1, <3>2, Successors
  <2>2. TypeOK'
    BY <2>1 DEF TypeOK, OnlyMoves, Stage, Outside, Statuses, Running, Preflight, Cutover, Rollback
  <2>4. Approvals'
    BY <2>1, ApprovalsStay
  <2>5. NothingUncheckedIsPublic'
    BY <2>1 DEF TypeOK, NothingUncheckedIsPublic, Stage, Going, Returning
  <2>6. Stage(s)'
    BY <2>1, <2>2 DEF TypeOK, Stage, Outside, Going, Returning, Reported, Reference, AsFound,
       Alive, Running, Preflight, Cutover, Rollback, None
  <2> QED
    BY <2>2, <2>4, <2>5, <2>6 DEF Stands
<1>10. CASE Smoke(s)
  <2> USE <1>10 DEF Smoke
  <2>1. \/ worker[s] = "local" /\ worker'[s] = "open"
        \/ worker[s] = "rbLocal" /\ worker'[s] = "rbOpen"
    <3>1. worker'[s] = After[worker[s]]
      BY DEF TypeOK
    <3>2. worker[s] \in {"local", "rbLocal"}
      OBVIOUS
    <3> HIDE <1>10 DEF Smoke
    <3> QED
      BY <3>1, <3>2, Successors
  <2>2. TypeOK'
    <3>1. worker' \in [Submissions -> Running \cup {None, "exited", "killed"}]
      BY DEF TypeOK, OnlyMoves
    <3>2. /\ container' \in [sha : Shas \cup {None}, checked : BOOLEAN] /\ tunnel' \in BOOLEAN
          /\ UNCHANGED <<release, files, parent, sha, prior, outcome, signals>>
      BY DEF TypeOK
    <3> QED
      BY <3>1, <3>2 DEF TypeOK, files
  <2>4. Approvals'
    BY <2>1, ApprovalsStay
  <2>5. NothingUncheckedIsPublic'
    BY <2>1 DEF TypeOK, NothingUncheckedIsPublic, Stage, Going, Returning
  <2>6. Stage(s)'
    BY <2>1, <2>2 DEF TypeOK, Stage, Outside, Going, Returning, Reported, Reference, AsFound,
       Alive, Running, Preflight, Cutover, Rollback, None
  <2> QED
    BY <2>2, <2>4, <2>5, <2>6 DEF Stands
<1>11. CASE OpenTunnel(s)
  <2> USE <1>11 DEF OpenTunnel
  <2>1. \/ worker[s] = "open" /\ worker'[s] = "public"
        \/ worker[s] = "rbOpen" /\ worker'[s] = "rbPublic"
    <3>1. worker'[s] = After[worker[s]]
      BY DEF TypeOK
    <3>2. worker[s] \in {"open", "rbOpen"}
      OBVIOUS
    <3> HIDE <1>11 DEF OpenTunnel
    <3> QED
      BY <3>1, <3>2, Successors
  <2>2. TypeOK'
    BY <2>1 DEF TypeOK, OnlyMoves, Stage, Outside, Statuses, Running, Preflight, Cutover, Rollback
  <2>4. Approvals'
    BY <2>1, ApprovalsStay
  <2>5. NothingUncheckedIsPublic'
    BY <2>1 DEF TypeOK, NothingUncheckedIsPublic, Stage, Going, Returning
  <2>6. Stage(s)'
    BY <2>1, <2>2 DEF TypeOK, Stage, Outside, Going, Returning, Reported, Reference, AsFound,
       Alive, Running, Preflight, Cutover, Rollback, None
  <2> QED
    BY <2>2, <2>4, <2>5, <2>6 DEF Stands
<1>12. CASE Observe(s)
  <2> USE <1>12 DEF Observe
  <2>1. worker[s] = "observe" /\ worker'[s] = "returned" /\ outcome'[s] = "DEPLOYED"
    BY Successors DEF TypeOK
  <2>2. TypeOK'
    BY <2>1 DEF TypeOK, OnlyMoves, Stage, Outside, Statuses, Running, Preflight, Cutover, Rollback
  <2>4. Approvals'
    BY <2>1, ApprovalsStay
  <2>5. NothingUncheckedIsPublic'
    BY <2>1 DEF TypeOK, NothingUncheckedIsPublic, Stage, Going, Returning
  <2>6. Stage(s)'
    BY <2>1, <2>2 DEF TypeOK, Stage, Outside, Going, Returning, Reported, Reference, AsFound,
       Alive, Running, Preflight, Cutover, Rollback, None
  <2> QED
    BY <2>2, <2>4, <2>5, <2>6 DEF Stands
<1>13. CASE Compensate(s)
  <2> USE <1>13 DEF Compensate
  <2>1. worker[s] = "compensate" /\ worker'[s] = "rbStop"
    BY Successors DEF TypeOK
  <2>2. TypeOK'
    BY <2>1 DEF TypeOK, OnlyMoves, Stage, Outside, Statuses, Running, Preflight, Cutover, Rollback
  <2>4. Approvals'
    BY <2>1, ApprovalsStay
  <2>5. NothingUncheckedIsPublic'
    BY <2>1 DEF TypeOK, NothingUncheckedIsPublic, Stage, Going, Returning
  <2>6. Stage(s)'
    BY <2>1, <2>2 DEF TypeOK, Stage, Outside, Going, Returning, Reported, Reference, AsFound,
       Alive, Running, Preflight, Cutover, Rollback, None
  <2> QED
    BY <2>2, <2>4, <2>5, <2>6 DEF Stands
<1>14. CASE LastStop(s)
  <2> USE <1>14 DEF LastStop
  <2>1. worker[s] = "lastStop" /\ worker'[s] = "returned" /\ outcome'[s] = "BLOCKED_ROLLBACK_FAILED"
    BY Successors DEF TypeOK
  <2>2. TypeOK'
    BY <2>1 DEF TypeOK, OnlyMoves, Stage, Outside, Statuses, Running, Preflight, Cutover, Rollback
  <2>4. Approvals'
    BY <2>1, ApprovalsStay
  <2>5. NothingUncheckedIsPublic'
    BY <2>1 DEF TypeOK, NothingUncheckedIsPublic, Stage, Going, Returning
  <2>6. Stage(s)'
    BY <2>1, <2>2 DEF TypeOK, Stage, Outside, Going, Returning, Reported, Reference, AsFound,
       Alive, Running, Preflight, Cutover, Rollback, None
  <2> QED
    BY <2>2, <2>4, <2>5, <2>6 DEF Stands
<1>15. CASE Leave(s)
  <2> USE <1>15 DEF Leave
  <2>1. worker[s] = "returned" /\ worker'[s] = "write"
    BY Successors DEF TypeOK
  <2>2. TypeOK'
    BY <2>1 DEF TypeOK, OnlyMoves, Stage, Outside, Statuses, Running, Preflight, Cutover, Rollback
  <2>4. Approvals'
    BY <2>1, ApprovalsStay
  <2>5. NothingUncheckedIsPublic'
    BY <2>1 DEF TypeOK, NothingUncheckedIsPublic, Stage, Going, Returning
  <2>6. Stage(s)'
    BY <2>1, <2>2 DEF TypeOK, Stage, Outside, Going, Returning, Reported, Reference, AsFound,
       Alive, Running, Preflight, Cutover, Rollback, None
  <2> QED
    BY <2>2, <2>4, <2>5, <2>6 DEF Stands
<1>16. CASE WriteResult(s)
  <2> USE <1>16 DEF WriteResult
  <2>1. worker[s] = "write" /\ worker'[s] = "exited"
    BY Successors DEF TypeOK
  <2>2. TypeOK'
    BY <2>1 DEF TypeOK, OnlyMoves, Stage, Outside, Statuses, Running, Preflight, Cutover, Rollback
  <2>4. Approvals'
    BY <2>1, ApprovalsStay
  <2>5. NothingUncheckedIsPublic'
    BY <2>1 DEF TypeOK, NothingUncheckedIsPublic, Stage, Going, Returning
  <2>6. Stage(s)'
    BY <2>1, <2>2 DEF TypeOK, Stage, Outside, Going, Returning, Reported, Reference, AsFound,
       Alive, Running, Preflight, Cutover, Rollback, None
  <2> QED
    BY <2>2, <2>4, <2>5, <2>6 DEF Stands
<1>17. CASE WriteFails(s)
  <2> USE <1>17 DEF WriteFails, WriteInterrupted, Left
  <2>1. worker[s] = "write" /\ worker'[s] = "exited"
    BY Successors DEF TypeOK
  <2>2. TypeOK'
    BY <2>1 DEF TypeOK, OnlyMoves, Stage, Outside, Statuses, Running, Preflight, Cutover, Rollback
  <2>4. Approvals'
    BY <2>1, ApprovalsStay
  <2>5. NothingUncheckedIsPublic'
    BY <2>1 DEF TypeOK, NothingUncheckedIsPublic, Stage, Going, Returning
  <2>6. Stage(s)'
    BY <2>1, <2>2 DEF TypeOK, Stage, Outside, Going, Returning, Reported, Reference, AsFound,
       Alive, Running, Preflight, Cutover, Rollback, None
  <2> QED
    BY <2>2, <2>4, <2>5, <2>6 DEF Stands
<1> QED
  BY <1>1, <1>2, <1>3, <1>4, <1>5, <1>6, <1>7, <1>8, <1>9, <1>10, <1>11, <1>12, <1>13, <1>14,
     <1>15, <1>16, <1>17 DEF Worker

-----------------------------------------------------------------------------
(* What a step that fails, is interrupted or killed leaves: the release is *)
(* what it was, nothing unchecked is public, no approval is loaded twice.  *)
HalfDone(s) ==
  /\ release' = release /\ release \in Shas
  /\ container' \in [sha : Shas \cup {None}, checked : BOOLEAN]
  /\ tunnel' \in BOOLEAN
  /\ previous' \in [Shas -> Shas \cup {None}]
  /\ used' \subseteq Shas
  /\ loads' \in [Shas -> Nat]
  /\ tunnel' => container'.checked
  /\ \A x \in Shas : loads'[x] <= 1 /\ (loads'[x] > 0 => x \in used')
  /\ worker[s] \in Preflight => UNCHANGED <<container, tunnel, previous>>
  /\ worker[s] # "preflight" =>
       prior[s] = None \/ release = prior[s] \/ previous'[sha[s]] = prior[s]

LEMMA PartialEffects ==
  ASSUME IInv, NEW s \in Submissions, worker[s] \in Running, PartialEffect(s)
  PROVE  HalfDone(s)
<1> USE DEF IInv, At
<1>1. Reference(s) /\ sha[s] \in Shas /\ release \in Shas
  BY DEF Stage, TypeOK
<1>2. CASE UNCHANGED Left
  BY <1>1, <1>2 DEF HalfDone, Left, TypeOK, Approvals, NothingUncheckedIsPublic, Reference,
     Alive
<1>3. CASE /\ worker[s] \in {"stop", "rbStop", "open", "rbOpen"}
           /\ tunnel' = (worker[s] \in {"open", "rbOpen"})
           /\ UNCHANGED <<release, container, loads, previous, used>>
  <2>1. tunnel' => container'.checked
    BY <1>3 DEF Stage, Going, Returning
  <2> QED
    BY <1>1, <1>3, <2>1 DEF HalfDone, TypeOK, Approvals, Reference, Alive, Preflight
<1>4. CASE /\ worker[s] \in {"recreate", "rbRecreate"}
           /\ container' \in [sha : {release, None}, checked : {FALSE}]
           /\ UNCHANGED <<release, tunnel, loads, previous, used>>
  <2>1. ~tunnel'
    BY <1>4 DEF Stage, Going, Returning
  <2> QED
    BY <1>1, <1>4, <2>1 DEF HalfDone, TypeOK, Approvals, Reference, Alive, Preflight
<1>5. CASE /\ At(s, "consume") /\ archive[s]
           /\ used' = used \cup {sha[s]}
           /\ UNCHANGED <<release, container, tunnel, loads, previous>>
  BY <1>1, <1>5 DEF HalfDone, TypeOK, Approvals, NothingUncheckedIsPublic, Reference, Alive
<1>6. CASE /\ At(s, "load")
           /\ loads' = [loads EXCEPT ![sha[s]] = @ + 1]
           /\ UNCHANGED <<release, container, tunnel, previous, used>>
  BY <1>1, <1>6 DEF HalfDone, TypeOK, Approvals, NothingUncheckedIsPublic, Reference, Alive
<1>7. CASE /\ At(s, "save")
           /\ previous' = [previous EXCEPT ![sha[s]] = None]
           /\ UNCHANGED <<release, container, tunnel, loads, used>>
  <2>1. release = prior[s]
    BY <1>7 DEF Stage, Going
  <2> QED
    BY <1>1, <1>7, <2>1 DEF HalfDone, TypeOK, Approvals, NothingUncheckedIsPublic, Preflight
<1> QED
  BY <1>2, <1>3, <1>4, <1>5, <1>6, <1>7 DEF PartialEffect

(* Where the exception goes.  A worker that reports BLOCKED_PREFLIGHT and  *)
(* knows a prior release has left the host as it found it.                 *)
LEMMA Raised ==
  ASSUME IInv, NEW s \in Submissions, OnlyMoves(s), PartialEffect(s), Raise(s),
         UNCHANGED <<journal, archive, prior>>, signals' \in [Submissions -> 0..MaxSignals]
  PROVE  Stands(s)'
<1> USE DEF IInv, At, Goto, Return
<1>1. HalfDone(s)
  BY PartialEffects DEF OnlyMoves
<1>2. /\ TypeOK /\ Stage(s)
      /\ parent' = parent /\ sha' = sha
      /\ \A t \in Submissions : t # s => worker'[t] = worker[t] /\ worker[t] # "load"
  BY Alone DEF OnlyMoves, TypeOK, Alive, Running, Preflight
<1>3. \/ worker[s] \in Preflight /\ worker'[s] = "returned" /\ outcome'[s] = "BLOCKED_PREFLIGHT"
      \/ worker[s] \in Cutover /\ worker'[s] = "compensate"
      \/ worker[s] \in Rollback /\ worker'[s] = "lastStop"
  BY DEF Raise, TypeOK
<1>4. TypeOK'
  BY <1>1, <1>2 DEF HalfDone, Raise, TypeOK, Statuses, Running
<1>5. Approvals'
  BY <1>1, <1>2, <1>3 DEF HalfDone, Approvals
<1>6. NothingUncheckedIsPublic'
  BY <1>1 DEF HalfDone, NothingUncheckedIsPublic
<1>7. (Outside(s) /\ Going(s) /\ Returning(s) /\ Reference(s))'
  BY <1>1, <1>2, <1>3 DEF HalfDone, Stage, Outside, Going, Returning, Reference, Preflight,
     Cutover, Rollback, None
<1>8. Reported(s)'
  BY <1>1, <1>2, <1>3 DEF HalfDone, Stage, Outside, Going, Reported, AsFound, Preflight,
     Cutover, Rollback
<1> QED
  BY <1>4, <1>5, <1>6, <1>7, <1>8 DEF Stands, Stage

(* The other ways a signal ends a step: it reports without the host, or    *)
(* it cuts off the journal.                                                *)
LEMMA SignalKeeps ==
  ASSUME IInv, NEW s \in Submissions, OnlyMoves(s), Signal(s)
  PROVE  Stands(s)'
<1> USE DEF IInv, At, Goto, Return
<1>1. /\ signals' \in [Submissions -> 0..MaxSignals] /\ signals'[s] > 0
      /\ UNCHANGED <<parent, sha, prior>> /\ TypeOK /\ Stage(s)
  BY SignalsBounded DEF Signal, TypeOK
<1>2. CASE PartialEffect(s) /\ Raise(s) /\ UNCHANGED <<journal, archive>>
  BY <1>1, <1>2, Raised
<1>3. CASE /\ worker[s] \in {"compensate", "lastStop", "returned"}
           /\ Goto(s, "write")
           /\ outcome' = [outcome EXCEPT ![s] = "BLOCKED_PREFLIGHT"]
           /\ UNCHANGED <<Left, journal, archive>>
  <2>1. TypeOK' /\ worker'[s] = "write" /\ outcome'[s] = "BLOCKED_PREFLIGHT"
    BY <1>1, <1>3 DEF Left, TypeOK, Statuses, Running
  <2>2. Approvals' /\ NothingUncheckedIsPublic'
    BY <1>3, <2>1, ApprovalsStay DEF Left, NothingUncheckedIsPublic
  <2>3. Stage(s)'
    BY <1>1, <1>3, <2>1 DEF Left, Stage, Outside, Going, Returning, Reported, Reference,
       Alive, Running, Preflight, Cutover, Rollback, None
  <2> QED
    BY <2>1, <2>2, <2>3 DEF Stands
<1>4. CASE /\ At(s, "lastStop")
           /\ Return(s, "BLOCKED_ROLLBACK_FAILED")
           /\ UNCHANGED <<Left, journal, archive>>
  <2>1. TypeOK' /\ worker'[s] = "returned" /\ outcome'[s] = "BLOCKED_ROLLBACK_FAILED"
    BY <1>1, <1>4 DEF Left, TypeOK, Statuses, Running
  <2>2. Approvals' /\ NothingUncheckedIsPublic'
    BY <1>4, <2>1, ApprovalsStay DEF Left, NothingUncheckedIsPublic
  <2>3. Stage(s)'
    BY <1>1, <1>4, <2>1 DEF Left, Stage, Outside, Going, Returning, Reported, Reference,
       Alive, Running, Preflight, Cutover, Rollback, None
  <2> QED
    BY <2>1, <2>2, <2>3 DEF Stands
<1>5. CASE WriteInterrupted(s) /\ UNCHANGED <<Left, outcome>>
  <2>1. TypeOK' /\ worker'[s] = "exited"
    BY <1>1, <1>5 DEF WriteInterrupted, Left, TypeOK, Statuses, Running
  <2>2. Approvals' /\ NothingUncheckedIsPublic'
    BY <1>5, <2>1, ApprovalsStay DEF Left, NothingUncheckedIsPublic
  <2>3. Stage(s)'
    BY <2>1 DEF Stage, Outside, Going, Returning, Reported, Reference, Alive, Running,
       Preflight, Cutover, Rollback, None
  <2> QED
    BY <2>1, <2>2, <2>3 DEF Stands
<1> QED
  BY <1>2, <1>3, <1>4, <1>5 DEF Signal

LEMMA KillKeeps ==
  ASSUME IInv, NEW s \in Submissions, OnlyMoves(s), WorkerKilled(s)
  PROVE  Stands(s)'
<1> USE DEF IInv, Goto, WorkerKilled
<1>1. HalfDone(s) /\ TypeOK /\ Stage(s) /\ worker'[s] = "killed"
  BY PartialEffects DEF TypeOK
<1>2. \A t \in Submissions : t # s => worker'[t] = worker[t] /\ worker[t] # "load"
  BY Alone DEF TypeOK, Alive, Running, Preflight
<1>3. TypeOK'
  BY <1>1 DEF HalfDone, TypeOK
<1>4. Approvals' /\ NothingUncheckedIsPublic'
  BY <1>1, <1>2 DEF HalfDone, Approvals, NothingUncheckedIsPublic
<1>5. Stage(s)'
  BY <1>1 DEF HalfDone, Stage, Outside, Going, Returning, Reported, Reference, Preflight,
     Cutover, Rollback, None
<1> QED
  BY <1>3, <1>4, <1>5 DEF Stands

LEMMA WorkerPreserves ==
  ASSUME IInv, NEW s \in Submissions, WorkerStep(s)
  PROVE  IInv'
<1>1. OnlyMoves(s)
  BY WorkerMoves DEF IInv
<1>2. Stands(s)'
  <2>1. CASE Blocked(s)
    BY <1>1, <2>1, Raised DEF Blocked, IInv, TypeOK
  <2> QED
    BY <1>1, <2>1, WorkerKeeps, SignalKeeps, KillKeeps DEF WorkerStep
<1> QED
  BY <1>1, <1>2, WorkerKeepsLocking, WorkerKeepsOthers DEF Stands, IInv

-----------------------------------------------------------------------------
(* The broker process touches neither the host nor a worker at work.       *)
LEMMA StagesStay ==
  ASSUME IInv, UNCHANGED <<host, previous, used, loads, sha, prior, outcome, signals, worker>>
  PROVE  (Approvals /\ NothingUncheckedIsPublic /\ \A t \in Submissions : Stage(t))'
  BY DEF IInv, host, Approvals, NothingUncheckedIsPublic, Stage, Outside, Going, Returning,
     Reported, Reference, AsFound

LEMMA BrokerPreserves ==
  ASSUME IInv, NEW s \in Submissions, ParentStep(s)
  PROVE  IInv'
<1> USE DEF IInv, Parent, host, files
<1>1. CASE Submit(s)
  <2> USE <1>1 DEF Submit
  <2>1. TypeOK'
    BY DEF TypeOK
  <2>2. /\ parent[s] = "idle" /\ worker[s] = None /\ UNCHANGED <<worker, sha, journal>>
        /\ \A t \in Submissions : t # s => parent'[t] = parent[t]
    BY DEF TypeOK, Locking, Forked
  <2>3. (Forked /\ Journaled)'
    <3>1. parent'[s] \in {"done", "receiving"}
      BY DEF TypeOK
    <3> QED
      BY <2>2, <3>1 DEF Locking, Forked, Journaled
  <2>4. CASE parent'[s] = "done"
    <3>1. \A t \in Submissions : HoldsLock(t)' => HoldsLock(t)
      BY <2>2, <2>4 DEF HoldsLock
    <3> QED
      BY <2>1, <2>2, <2>3, <3>1, StagesStay DEF Locking, Exclusive
  <2>5. CASE parent'[s] = "receiving"
    <3>1. \A t \in Submissions : ~HoldsLock(t) /\ worker[t] # "killed"
      BY <2>5 DEF TypeOK, Locking, Journaled, Alive
    <3>2. \A t \in Submissions : HoldsLock(t)' => t = s
      BY <2>2, <3>1 DEF HoldsLock
    <3>3. Exclusive'
      BY <2>2, <3>1, <3>2 DEF Exclusive
    <3> QED
      BY <2>1, <2>2, <2>3, <3>3, StagesStay DEF Locking
  <2> QED
    BY <2>4, <2>5 DEF TypeOK
<1>2. CASE Receive(s)
  <2> USE <1>2 DEF Receive
  <2>1. TypeOK'
    BY DEF TypeOK
  <2>2. Locking'
    BY DEF TypeOK, Locking, Exclusive, Forked, Journaled, HoldsLock
  <2> QED
    BY <2>1, <2>2, StagesStay
<1>3. CASE Journal(s)
  <2> USE <1>3 DEF Journal
  <2>1. TypeOK'
    BY DEF TypeOK, Statuses
  <2>2. Locking'
    BY DEF TypeOK, Locking, Exclusive, Forked, Journaled, HoldsLock
  <2> QED
    BY <2>1, <2>2, StagesStay
<1>4. CASE Fork(s)
  <2> USE <1>4 DEF Fork
  <2>1. /\ worker[s] = None /\ worker'[s] = "preflight" /\ prior[s] = None
        /\ parent[s] = "journaled" /\ parent'[s] = "forked"
        /\ \A t \in Submissions : t # s => worker'[t] = worker[t] /\ parent'[t] = parent[t]
    BY DEF TypeOK, Locking, Forked, Stage, Outside
  <2>2. TypeOK'
    BY DEF TypeOK, Running, Preflight
  <2>3. Locking'
    BY <2>1 DEF Locking, Exclusive, Forked, Journaled, HoldsLock, Alive
  <2>4. Approvals' /\ NothingUncheckedIsPublic'
    BY <2>1 DEF Approvals, NothingUncheckedIsPublic
  <2>5. ASSUME NEW t \in Submissions PROVE Stage(t)'
    <3>1. CASE t = s
      BY <2>1, <3>1 DEF Stage, Outside, Going, Returning, Reported, Reference, Preflight,
         Cutover, Rollback
    <3>2. CASE t # s
      BY <2>1, <3>2 DEF Stage, Outside, Going, Returning, Reported, Reference, AsFound
    <3> QED
      BY <3>1, <3>2
  <2> QED
    BY <2>2, <2>3, <2>4, <2>5
<1>5. CASE Accepted(s) \/ ParentFails(s) \/ ParentKilled(s)
  <2> USE <1>5 DEF Accepted, ParentFails, ParentKilled
  <2>1. TypeOK'
    BY DEF TypeOK
  <2>2. Locking'
    BY DEF TypeOK, Locking, Exclusive, Forked, Journaled, HoldsLock
  <2> QED
    BY <2>1, <2>2, StagesStay
<1> QED
  BY <1>1, <1>2, <1>3, <1>4, <1>5 DEF ParentStep, Broker

-----------------------------------------------------------------------------
LEMMA Stutter == ASSUME IInv, UNCHANGED vars PROVE IInv'
<1> USE DEF IInv, vars, host, files, procs
<1>1. TypeOK' /\ Locking'
  BY DEF TypeOK, Locking, Exclusive, Forked, Journaled, HoldsLock
<1> QED
  BY <1>1, StagesStay

LEMMA Inductive == Spec => []IInv
<1>1. IInv /\ [Next]_vars => IInv'
  BY BrokerPreserves, WorkerPreserves, Stutter DEF Next, ParentStep, WorkerStep
<1> QED
  BY <1>1, Initial, PTL DEF Spec

(* Every variable keeps its type: the state the broker process, the worker *)
(* and the files of auto_broker.py can be in.                              *)
THEOREM TypeCorrect == Spec => []TypeOK
<1>1. IInv => TypeOK
  BY DEF IInv
<1> QED
  BY <1>1, Inductive, PTL

(* One release transaction at a time, whatever is killed, and one docker   *)
(* load for an approval: the flock and the RUNNING journal that            *)
(* require_idle looks for, and the .used marker created before the load.   *)
THEOREM OneReleaseAtATime == Spec => []OneAtATime
<1>1. IInv => OneAtATime
  BY DEF IInv, OneAtATime, OneTransaction, OneLoadPerApproval, Locking, Exclusive, Approvals,
     HoldsLock
<1> QED
  BY <1>1, Inductive, PTL

(* What write_result journals of a rollout holds of the host: DEPLOYED has *)
(* the release live and checked, the other closing statuses the release    *)
(* preflight found.                                                        *)
THEOREM TrueResults == Spec => []ResultIsTrue
<1>1. IInv => ResultIsTrue
  BY DEF IInv, ResultIsTrue, Stage, Reported, AsFound
<1> QED
  BY <1>1, Inductive, PTL

(* The tunnel is open only in front of a container that has passed the     *)
(* smoke test, on the way out, on the way back and after any interruption. *)
THEOREM ClosedUntilChecked == Spec => []NothingUncheckedIsPublic
<1>1. IInv => NothingUncheckedIsPublic
  BY DEF IInv
<1> QED
  BY <1>1, Inductive, PTL

(* The release to return to is on disk when a worker is killed with its    *)
(* own release in place, and a worker nobody has signalled that answers    *)
(* BLOCKED_PREFLIGHT has put it back.                                      *)
THEOREM WayBack == Spec => []WayBackIsKept
<1>1. IInv => RollbackReferenceSurvives
  BY DEF IInv, RollbackReferenceSurvives, Stage, Reference, Alive
<1>2. IInv => FailureIsCompensated
  BY DEF IInv, FailureIsCompensated, Stage, Reported, AsFound
<1> QED
  BY <1>1, <1>2, Inductive, PTL DEF WayBackIsKept

-----------------------------------------------------------------------------
(* Custody *)

\* The controller between Popen and the end, and the child between its lock
\* and the transition that ends its attempt.
Serving == Controlling \cup {"abort", "aborting"}
Working == {"prepared", "arming", "observing", "consumed", "seen", "settling", "cancelling"}
Retired == {"closing", "reporting", "retired", "cancelled"}
Bound   == Controlling \ {"spawned", "await_prepared"}
Ending  == {"unlink_ready", "unlink_deployment", "complete"}
Live    == {"starting", "prepared", "armed", "observed"}
Frames  == {"PREPARED", "ARMED", "OBSERVED", "FINALIZED", "CANCELLED", "RECONCILIATION",
            "NOT_ARMED"}

Entries == [id : Starts, state : States, verdict : Verdicts]
AllEnded(s) == \A i \in 1 .. Len(s) : Terminal(s[i])
IdsOf(s)    == {s[i].id : i \in 1 .. Len(s)}
EndsWith(s, n) == s # <<>> /\ s[Len(s)].id = n
NoAuthority == ready = 0 /\ deployment = NoRecord

\* A ledger whose entries are those of n starts, in their order.
Ordered(s, n) ==
  /\ s \in Seq(Entries)
  /\ \A i \in 1 .. Len(s) : s[i].id <= n /\ (i < Len(s) => Terminal(s[i]))
  /\ \A i, j \in 1 .. Len(s) : i < j => s[i].id < s[j].id

Holds(s, x) == \E i \in 1 .. Len(s) : s[i] = x
Names       == {"attempts", "lock", "pending", "deployment", "ready", "attempt"}

Types ==
  /\ current \in [phase : Phases, attempt : {0} \cup Starts, start : {0} \cup Starts,
                  late : BOOLEAN]
  /\ lock \in BOOLEAN /\ pending \in BOOLEAN /\ auxTorn \in BOOLEAN
  /\ ledger.form \in {"absent", "torn", "whole"}
  /\ ledger.form = "whole" <=> ledger.entries # <<>>
  /\ Ordered(ledger.entries, starts)
  /\ dirs \in [Starts -> Stages]
  /\ deployment \in [attempt : Starts, stage : {"before", "after"}] \cup {NoRecord}
  /\ ready \in {0} \cup Starts
  /\ starts \in {0} \cup Starts /\ attempt \in {0, starts} /\ (pc # "off" => starts # 0)
  /\ frames \in Seq(Frames) /\ Len(frames) <= 3
  /\ cmd \in {"none", "ARM", "FINALIZE"}
  /\ pc \in {"off", "preflight", "recover", "spawn", "popen", "refused"} \cup Recovering
              \cup Serving
  /\ child = [pc |-> child.pc, result |-> child.result, clean |-> child.clean, stop |-> child.stop]
  /\ child.pc \in {"none", "open", "opened", "exited"} \cup Working \cup Retired
  /\ child.result \in Verdicts /\ child.clean \in BOOLEAN /\ child.stop \in BOOLEAN
  /\ pc \notin Serving => child = NoChild
  /\ pc \in Serving => child.pc # "none"

\* Which entry of the ledger is that of the start under way.
Numbered ==
  /\ pc \notin Serving \cup {"off"} \/ child.pc \in {"open", "opened"} =>
       Ordered(ledger.entries, starts - 1)
  /\ attempt # 0 \/ child.pc \in Working \cup Retired \/ Holds(frames, "PREPARED") =>
       EndsWith(ledger.entries, starts)
  /\ child.pc \in Working => ~Terminal(ledger.entries[Len(ledger.entries)])
  /\ child.pc \in {"opened"} \cup Retired => AllEnded(ledger.entries)
  /\ pc \notin Serving \cup {"off"} => attempt = 0 /\ frames = <<>>
  /\ pc \in Bound => attempt # 0
  /\ pc \in {"spawned", "await_prepared"} => attempt = 0

\* The lock is held by the child, and a half-written file is behind it.
Locked ==
  /\ child.pc \in ({"opened", "closing", "retired"} \cup Working) => lock
  /\ child.pc \notin {"none", "exited"} => ~pending
  /\ pc \in Serving /\ pending => lock
  /\ pc \in {"spawn", "popen"} =>
       ~lock /\ ~pending /\ NoAuthority /\ AllEnded(ledger.entries) /\ ledger.form # "torn"
  /\ pc = "spawned" => NoAuthority
  /\ pc \in Ending =>
       /\ child.pc = "exited" /\ ~lock /\ ledger.form = "whole" /\ AllEnded(ledger.entries)
       /\ pc # "unlink_ready" => ready = 0
       /\ pc = "complete" => deployment = NoRecord

\* The frames not read yet, and the command.
Piped ==
  /\ child.pc \in {"open", "opened", "arming"} => frames = <<>>
  /\ child.pc = "prepared" => Len(frames) <= 1 /\ (attempt # 0 => frames = <<>>)
  /\ child.pc \in {"observing", "consumed", "cancelling"} => Len(frames) <= 1
  /\ child.pc \in {"seen", "settling"} \cup Retired => Len(frames) <= 2
  /\ cmd = "ARM" => attempt # 0
  /\ pc \in {"spawned", "await_prepared", "dir", "attest"} \/ pc \notin Serving \cup {"off"} =>
       cmd = "none"
  /\ pc \in Controlling \ (Ending \cup {"await_final", "finish"}) => cmd # "FINALIZE"
  /\ cmd = "FINALIZE" /\ child.pc # "none" => current.phase = "observed" /\ current.attempt = starts

\* What the journal says of the ledger and of the root records.
Journalled ==
  /\ current.phase \notin Live =>
       /\ ~lock /\ ~pending /\ NoAuthority /\ AllEnded(ledger.entries) /\ ledger.form # "torn"
       /\ pc \in {"off", "preflight", "spawn", "refused"}
  /\ pc \in {"preflight", "spawn"} => current.phase \notin Live
  /\ current.attempt = 0 => NoAuthority
  /\ deployment # NoRecord => deployment.attempt = current.attempt
  /\ ready \in {0, current.attempt}
  /\ pc \in Serving /\ attempt # 0 => current.attempt = attempt
  /\ current.phase \in Live =>
       /\ current.attempt \in {0, current.start} /\ current.start # 0
       /\ current.phase # "starting" => current.attempt # 0
       /\ current.start <= starts
       /\ pc \in {"recover"} \cup Recovering => current.start < starts
       /\ pc \in Serving \cup {"popen"} => current.start = starts
  /\ \A x \in archived : x[2] \in Nat /\ x[2] < starts

\* A recovery: what is still in its place is still to be moved.
Restoring ==
  /\ plan.moves \in Seq(Names)
  /\ plan.attempt \in {0} \cup Starts
  /\ pc \in {"archiving", "restoring", "restored"} =>
       Ordered(plan.entries, starts - 1) /\ plan.entries # <<>> /\ AllEnded(plan.entries)
  /\ pc \in {"archiving", "unarmed"} =>
       /\ lock => Holds(plan.moves, "lock")
       /\ pending => Holds(plan.moves, "pending")
  /\ pc = "archiving" =>
       /\ deployment # NoRecord => Holds(plan.moves, "deployment")
       /\ ready # 0 => Holds(plan.moves, "ready")
       /\ ledger.form # "absent" => Holds(plan.moves, "attempts")
  /\ pc = "unarmed" =>
       /\ NoAuthority /\ AllEnded(ledger.entries) /\ ledger.form # "torn"
       /\ ~Holds(plan.moves, "attempts")
  /\ pc \in {"restoring", "restored"} => ~lock /\ ~pending /\ NoAuthority
  /\ pc = "restored" => ledger = [form |-> "whole", entries |-> plan.entries]

\* The entries that survive: those of the ledger or of its copy.
Known == IF pc \in {"archiving", "restoring"} THEN plan.entries ELSE ledger.entries
Counts(s) == {<<s[i].id, s[i].verdict>> : i \in {k \in 1 .. Len(s) : s[k].state = "completed"}}

\* What no interrupted recovery has touched.
Kept ==
  ~auxTorn =>
    /\ Counts(Known) = Completed
    /\ \A a \in Starts : dirs[a] # "none" => a \in IdsOf(Known)
    /\ ledger.form = "torn" => pc = "restoring"
    /\ current.phase \in Live /\ pc \notin Recovering =>
         /\ ~AllEnded(ledger.entries) => EndsWith(ledger.entries, current.start)
         /\ current.attempt # 0 => EndsWith(ledger.entries, current.attempt)
         /\ <<"attempt", current.start>> \notin archived
         /\ <<"unarmed", current.start>> \notin archived

\* What is half handed over belongs to the attempt that the journal binds, and
\* nothing is while a recovery or a later step of the cycle is under way.
HandedOver ==
  /\ \A a \in Starts : HalfMade(a) => current.phase = "prepared" /\ current.attempt = a
  /\ pc \notin {"off", "recover", "refused", "dir", "abort", "aborting"} =>
       \A a \in Starts : ~HalfMade(a)
  /\ pc = "dir" => current.phase = "prepared"

CustodyInv ==
  /\ Types /\ Numbered /\ Locked /\ Piped /\ Journalled /\ Restoring /\ Kept
  /\ RefusedOnlyWhenUnproven /\ HandedOver

-----------------------------------------------------------------------------
(* Ledgers *)

\* What ToSet says of a ledger, said of its indices.
LEMMA TerminalEntries ==
  /\ AllTerminal <=> \A x \in ToSet(ledger.entries) : Terminal(x)
  /\ \A s \in Seq(Entries) : (\A x \in ToSet(s) : Terminal(x)) <=> AllEnded(s)
  /\ \A s \in Seq(Entries) : {e.id : e \in ToSet(s)} = IdsOf(s)
<1>1. \A s \in Seq(Entries) : DOMAIN s = 1 .. Len(s)
  OBVIOUS
<1> QED
  BY <1>1 DEF AllTerminal, ToSet, AllEnded, IdsOf

LEMMA CompletedAreCounted ==
  ASSUME NEW s \in Seq(Entries)
  PROVE  CompletedIn(s) = Counts(s)
<1>1. DOMAIN s = 1 .. Len(s)
  OBVIOUS
<1>2. {x \in ToSet(s) : x.state = "completed"} =
        {s[i] : i \in {k \in 1 .. Len(s) : s[k].state = "completed"}}
  BY <1>1 DEF ToSet
<1> QED
  BY <1>2 DEF CompletedIn, Counts

LEMMA Numbers ==
  /\ \A n \in Starts : n \in Nat /\ n # 0
  /\ Starts \subseteq Nat /\ MaxStarts \in Nat
BY MaxStartsAssumption DEF Starts

LEMMA Fields ==
  ASSUME NEW s \in Seq(Entries), NEW i \in 1 .. Len(s)
  PROVE  s[i] \in Entries /\ s[i].id \in Nat /\ s[i].id \in Starts
<1>1. s[i] \in Entries
  OBVIOUS
<1>2. s[i].id \in Starts
  BY <1>1 DEF Entries
<1> QED
  BY <1>1, <1>2, Numbers

\* A later start has no entry yet.
LEMMA Later ==
  ASSUME NEW s, NEW n \in Nat, Ordered(s, n - 1)
  PROVE  Ordered(s, n) /\ n \notin IdsOf(s) /\ ~EndsWith(s, n)
<1>1. s \in Seq(Entries) /\ \A i \in 1 .. Len(s) : s[i].id \in Nat
  BY Fields DEF Ordered
<1>2. Ordered(s, n)
  BY <1>1 DEF Ordered
<1> QED
  BY <1>1, <1>2 DEF Ordered, IdsOf, EndsWith

\* The number of the last start is at the end, or nowhere.
LEMMA LastIsLatest ==
  ASSUME NEW s, NEW n \in Nat, Ordered(s, n)
  PROVE  /\ n \in IdsOf(s) <=> EndsWith(s, n)
         /\ n \notin IdsOf(s) => Ordered(s, n - 1)
<1>1. s \in Seq(Entries) /\ \A i \in 1 .. Len(s) : s[i].id \in Nat
  BY Fields DEF Ordered
<1>2. EndsWith(s, n) => n \in IdsOf(s)
  BY <1>1 DEF IdsOf, EndsWith
<1>3. n \in IdsOf(s) => EndsWith(s, n)
  <2> SUFFICES ASSUME NEW i \in 1 .. Len(s), s[i].id = n PROVE EndsWith(s, n)
    BY DEF IdsOf
  <2>1. i = Len(s)
    <3>1. CASE i < Len(s)
      <4>1. s[i].id < s[Len(s)].id /\ s[Len(s)].id <= n /\ s[Len(s)].id \in Nat
        BY <1>1, <3>1 DEF Ordered
      <4> QED
        BY <4>1
    <3> QED
      BY <1>1, <3>1
  <2> QED
    BY <1>1, <2>1 DEF EndsWith
<1>4. n \notin IdsOf(s) => Ordered(s, n - 1)
  BY <1>1 DEF IdsOf, Ordered
<1> QED
  BY <1>2, <1>3, <1>4

\* What prepare() and transition() make of a ledger.
Extended(s, e) == s \o <<e>>
Renewed(s, e)  == Front(s) \o <<e>>

\* prepare() adds the entry of a start that has none,
LEMMA Appended ==
  ASSUME NEW s, NEW n \in Starts, Ordered(s, n - 1), AllEnded(s),
         NEW e \in Entries, e.id = n, NEW t, t = Extended(s, e)
  PROVE  /\ Ordered(t, n) /\ t # <<>> /\ t[Len(t)] = e /\ IdsOf(t) = IdsOf(s) \cup {n}
         /\ Terminal(e) => AllEnded(t)
         /\ e.state # "completed" => Counts(t) = Counts(s)
<1>1. n \in Nat /\ s \in Seq(Entries)
  BY Numbers DEF Ordered
<1>2. /\ t \in Seq(Entries) /\ Len(t) = Len(s) + 1 /\ t[Len(t)] = e
      /\ \A i \in 1 .. Len(s) : t[i] = s[i]
      /\ \A i \in 1 .. Len(t) : i \in 1 .. Len(s) \/ i = Len(t)
  BY <1>1 DEF Extended
<1>3. \A i \in 1 .. Len(s) : s[i].id \in Nat /\ s[i].id < n /\ Terminal(s[i])
  BY <1>1, Fields DEF Ordered, AllEnded
<1>4. Ordered(t, n)
  <2>1. \A i \in 1 .. Len(t) : t[i].id <= n /\ (i < Len(t) => Terminal(t[i]))
    BY <1>1, <1>2, <1>3
  <2>2. \A i, j \in 1 .. Len(t) : i < j => t[i].id < t[j].id
    <3> SUFFICES ASSUME NEW i \in 1 .. Len(t), NEW j \in 1 .. Len(t), i < j PROVE t[i].id < t[j].id
      OBVIOUS
    <3>1. i \in 1 .. Len(s)
      BY <1>1, <1>2
    <3> QED
      BY <1>1, <1>2, <1>3, <3>1 DEF Ordered
  <2> QED
    BY <1>2, <2>1, <2>2 DEF Ordered
<1>5. IdsOf(t) = IdsOf(s) \cup {n}
  BY <1>1, <1>2 DEF IdsOf
<1>6. Terminal(e) => AllEnded(t)
  BY <1>1, <1>2, <1>3 DEF AllEnded
<1>7. e.state # "completed" => Counts(t) = Counts(s)
  <2> SUFFICES ASSUME e.state # "completed" PROVE Counts(t) = Counts(s)
    OBVIOUS
  <2>1. {k \in 1 .. Len(t) : t[k].state = "completed"} =
          {k \in 1 .. Len(s) : s[k].state = "completed"}
    BY <1>1, <1>2
  <2> QED
    BY <1>2, <2>1 DEF Counts
<1> QED
  BY <1>1, <1>2, <1>4, <1>5, <1>6, <1>7

\* transition() replaces it, and counts it at most once.
LEMMA Replaced ==
  ASSUME NEW s, NEW n \in Starts, Ordered(s, n), EndsWith(s, n), ~Terminal(s[Len(s)]),
         NEW e \in Entries, e.id = n, NEW t, t = Renewed(s, e)
  PROVE  /\ Ordered(t, n) /\ t # <<>> /\ t[Len(t)] = e /\ IdsOf(t) = IdsOf(s)
         /\ Terminal(e) => AllEnded(t)
         /\ e.state # "completed" => Counts(t) = Counts(s)
         /\ e.state = "completed" => Counts(t) = Counts(s) \cup {<<n, e.verdict>>}
         /\ \A v : <<n, v>> \notin Counts(s)
<1>1. n \in Nat /\ s \in Seq(Entries) /\ Len(s) \in Nat \ {0} /\ s[Len(s)].id = n
  BY Numbers DEF Ordered, EndsWith
<1>2. /\ t \in Seq(Entries) /\ Len(t) = Len(s) /\ t[Len(t)] = e
      /\ \A i \in 1 .. Len(s) : i # Len(s) => t[i] = s[i]
  BY <1>1 DEF Front, Renewed
<1>3. \A i \in 1 .. Len(s) : i # Len(s) => s[i].id \in Nat /\ s[i].id < n /\ Terminal(s[i])
  <2> SUFFICES ASSUME NEW i \in 1 .. Len(s), i # Len(s)
               PROVE  s[i].id \in Nat /\ s[i].id < n /\ Terminal(s[i])
    OBVIOUS
  <2>1. s[i].id < s[Len(s)].id /\ Terminal(s[i])
    BY <1>1 DEF Ordered
  <2> QED
    BY <1>1, <2>1, Fields
<1>4. Ordered(t, n)
  <2>1. \A i \in 1 .. Len(t) : t[i].id <= n /\ (i < Len(t) => Terminal(t[i]))
    BY <1>1, <1>2, <1>3
  <2>2. \A i, j \in 1 .. Len(t) : i < j => t[i].id < t[j].id
    <3> SUFFICES ASSUME NEW i \in 1 .. Len(t), NEW j \in 1 .. Len(t), i < j PROVE t[i].id < t[j].id
      OBVIOUS
    <3>1. i # Len(t) /\ t[i] = s[i]
      BY <1>1, <1>2
    <3> QED
      BY <1>1, <1>2, <1>3, <3>1 DEF Ordered
  <2> QED
    BY <1>2, <2>1, <2>2 DEF Ordered
<1>5. IdsOf(t) = IdsOf(s)
  <2>1. \A i \in 1 .. Len(s) : t[i].id = s[i].id
    BY <1>1, <1>2
  <2> QED
    BY <1>2, <2>1 DEF IdsOf
<1>6. Terminal(e) => AllEnded(t)
  BY <1>1, <1>2, <1>3 DEF AllEnded
<1>7. s[Len(s)].state # "completed"
  BY DEF Terminal
<1>8. e.state # "completed" => Counts(t) = Counts(s)
  <2> SUFFICES ASSUME e.state # "completed" PROVE Counts(t) = Counts(s)
    OBVIOUS
  <2>1. {k \in 1 .. Len(t) : t[k].state = "completed"} =
          {k \in 1 .. Len(s) : s[k].state = "completed"}
    BY <1>1, <1>2, <1>7
  <2>2. \A k \in {j \in 1 .. Len(s) : s[j].state = "completed"} : t[k] = s[k]
    BY <1>1, <1>2, <1>7
  <2> QED
    BY <2>1, <2>2 DEF Counts
<1>9. e.state = "completed" => Counts(t) = Counts(s) \cup {<<n, e.verdict>>}
  <2> SUFFICES ASSUME e.state = "completed" PROVE Counts(t) = Counts(s) \cup {<<n, e.verdict>>}
    OBVIOUS
  <2>1. {k \in 1 .. Len(t) : t[k].state = "completed"} =
          {k \in 1 .. Len(s) : s[k].state = "completed"} \cup {Len(t)}
    BY <1>1, <1>2, <1>7
  <2>2. \A k \in {j \in 1 .. Len(s) : s[j].state = "completed"} : t[k] = s[k]
    BY <1>1, <1>2, <1>7
  <2>3. t[Len(t)].id = n /\ t[Len(t)].verdict = e.verdict
    BY <1>2
  <2> QED
    BY <2>1, <2>2, <2>3 DEF Counts
<1>10. \A v : <<n, v>> \notin Counts(s)
  <2> SUFFICES ASSUME NEW k \in 1 .. Len(s), s[k].state = "completed", s[k].id = n PROVE FALSE
    BY DEF Counts
  <2>1. k # Len(s)
    BY <1>7
  <2> QED
    BY <1>1, <1>3, <2>1
<1> QED
  BY <1>1, <1>2, <1>4, <1>5, <1>6, <1>8, <1>9, <1>10

\* The moves of a recovery.
LEMMA Pieces ==
  /\ \A s \in Seq(Names), t \in Seq(Names), x \in Names :
       s \o t \in Seq(Names) /\ (Holds(s \o t, x) <=> Holds(s, x) \/ Holds(t, x))
  /\ \A x, y : Holds(<<x>>, y) <=> x = y
  /\ \A y : ~Holds(<<>>, y)
  /\ \A x, y, z : Holds(<<x, y>>, z) <=> z = x \/ z = y
<1>1. ASSUME NEW s \in Seq(Names), NEW t \in Seq(Names), NEW x \in Names
      PROVE  s \o t \in Seq(Names) /\ (Holds(s \o t, x) <=> Holds(s, x) \/ Holds(t, x))
  <2>1. /\ s \o t \in Seq(Names) /\ Len(s \o t) = Len(s) + Len(t)
        /\ \A i \in 1 .. Len(s) : (s \o t)[i] = s[i]
        /\ \A i \in 1 .. Len(t) : (s \o t)[Len(s) + i] = t[i] /\ Len(s) + i \in 1 .. Len(s \o t)
        /\ \A i \in 1 .. Len(s \o t) :
             \/ i \in 1 .. Len(s)
             \/ i - Len(s) \in 1 .. Len(t) /\ (s \o t)[i] = t[i - Len(s)]
    OBVIOUS
  <2>2. Holds(s \o t, x) => Holds(s, x) \/ Holds(t, x)
    BY <2>1 DEF Holds
  <2>3. Holds(s, x) => Holds(s \o t, x)
    BY <2>1 DEF Holds
  <2>4. Holds(t, x) => Holds(s \o t, x)
    BY <2>1 DEF Holds
  <2> QED
    BY <2>1, <2>2, <2>3, <2>4
<1>2. \A x, y : Holds(<<x>>, y) <=> x = y
  BY DEF Holds
<1>3. \A y : ~Holds(<<>>, y)
  BY DEF Holds
<1>4. \A x, y, z : Holds(<<x, y>>, z) <=> z = x \/ z = y
  <2> SUFFICES ASSUME NEW x, NEW y, NEW z PROVE Holds(<<x, y>>, z) <=> z = x \/ z = y
    OBVIOUS
  <2>1. Len(<<x, y>>) = 2 /\ 1 .. 2 = {1, 2}
    OBVIOUS
  <2> QED
    BY <2>1 DEF Holds
<1> QED
  BY <1>1, <1>2, <1>3, <1>4

\* A pipe or a list of moves, after the first is taken
LEMMA Shorter ==
  ASSUME NEW S, NEW s \in Seq(S), s # <<>>
  PROVE  /\ Tail(s) \in Seq(S) /\ Len(Tail(s)) = Len(s) - 1
         /\ Head(s) \in S /\ Holds(s, Head(s))
         /\ \A x : Holds(s, x) => x = Head(s) \/ Holds(Tail(s), x)
         /\ \A x : Holds(Tail(s), x) => Holds(s, x)
<1>1. /\ Tail(s) \in Seq(S) /\ Len(Tail(s)) = Len(s) - 1 /\ Head(s) = s[1] /\ Head(s) \in S
      /\ \A i \in 1 .. Len(s) : i = 1 \/ (i - 1 \in 1 .. Len(Tail(s)) /\ Tail(s)[i - 1] = s[i])
      /\ \A i \in 1 .. Len(Tail(s)) : i + 1 \in 1 .. Len(s) /\ Tail(s)[i] = s[i + 1]
  OBVIOUS
<1>2. ASSUME NEW x, Holds(s, x), x # Head(s) PROVE Holds(Tail(s), x)
  <2>1. PICK i \in 1 .. Len(s) : s[i] = x
    BY <1>2 DEF Holds
  <2> QED
    BY <1>1, <1>2, <2>1 DEF Holds
<1>3. ASSUME NEW x, Holds(Tail(s), x) PROVE Holds(s, x)
  <2>1. PICK i \in 1 .. Len(Tail(s)) : Tail(s)[i] = x
    BY <1>3 DEF Holds
  <2> QED
    BY <1>1, <2>1 DEF Holds
<1>4. Holds(s, Head(s))
  BY <1>1 DEF Holds
<1> QED
  BY <1>1, <1>2, <1>3, <1>4

\* and after one is added.
LEMMA Longer ==
  ASSUME NEW S, NEW s \in Seq(S), NEW y \in S
  PROVE  /\ Append(s, y) \in Seq(S) /\ Len(Append(s, y)) = Len(s) + 1
         /\ \A x : Holds(Append(s, y), x) => Holds(s, x) \/ x = y
<1>1. /\ Append(s, y) \in Seq(S) /\ Len(Append(s, y)) = Len(s) + 1
      /\ \A i \in 1 .. Len(s) : Append(s, y)[i] = s[i]
      /\ Append(s, y)[Len(s) + 1] = y
      /\ \A i \in 1 .. Len(Append(s, y)) : i \in 1 .. Len(s) \/ i = Len(s) + 1
  OBVIOUS
<1> QED
  BY <1>1 DEF Holds

LEMMA NoEntries ==
  /\ \A n \in Nat : Ordered(<<>>, n)
  /\ AllEnded(<<>>) /\ Counts(<<>>) = {} /\ IdsOf(<<>>) = {} /\ \A x : ~Holds(<<>>, x)
  /\ \A n : ~EndsWith(<<>>, n)
BY DEF Ordered, AllEnded, Counts, IdsOf, Holds, EndsWith

LEMMA EntryIsEntry ==
  ASSUME NEW n \in Starts, NEW state \in States, NEW verdict \in Verdicts
  PROVE  /\ Entry(n, state, verdict) \in Entries /\ Entry(n, state, verdict).id = n
         /\ Entry(n, state, verdict).state = state /\ Entry(n, state, verdict).verdict = verdict
         /\ Terminal(Entry(n, state, verdict)) <=> state \in {"completed", "inconclusive"}
BY DEF Entry, Entries, Terminal

\* A transition of the child, with the disk as it is.
LEMMA RecordMakes ==
  ASSUME Types, Numbered, child.pc \in {"opened"} \cup Working,
         NEW state \in States, NEW verdict \in Verdicts, Record(state, verdict)
  PROVE  /\ ledger'.form = "whole" /\ ledger'.entries # <<>> /\ Ordered(ledger'.entries, starts)
         /\ EndsWith(ledger'.entries, starts) /\ starts \in IdsOf(ledger'.entries)
         /\ IdsOf(ledger.entries) \subseteq IdsOf(ledger'.entries)
         /\ ledger'.entries[Len(ledger'.entries)].id = starts
         /\ state \in {"completed", "inconclusive"} => AllEnded(ledger'.entries)
         /\ state \notin {"completed", "inconclusive"} =>
              ~Terminal(ledger'.entries[Len(ledger'.entries)])
         /\ state # "completed" => Counts(ledger'.entries) = Counts(ledger.entries)
         /\ state = "completed" /\ child.pc \in Working =>
              /\ Counts(ledger'.entries) = Counts(ledger.entries) \cup {<<starts, verdict>>}
              /\ \A v : <<starts, v>> \notin Counts(ledger.entries)
<1> DEFINE s == ledger.entries
           e == Entry(starts, state, verdict)
           t == ledger'.entries
<1>1. starts \in Starts /\ starts \in Nat /\ Ordered(s, starts) /\ s \in Seq(Entries)
  BY Numbers DEF Types, Ordered, NoChild, Serving, Controlling, Working
<1>2. /\ e \in Entries /\ e.id = starts /\ e.state = state /\ e.verdict = verdict
      /\ Terminal(e) <=> state \in {"completed", "inconclusive"}
  BY <1>1, EntryIsEntry
<1>3. Prepared(starts) <=> EndsWith(s, starts)
  BY <1>1, TerminalEntries, LastIsLatest DEF Prepared, Ids
<1>4. /\ ledger'.form = "whole"
      /\ t = IF EndsWith(s, starts) THEN Renewed(s, e) ELSE Extended(s, e)
  BY <1>3 DEF Record, Renewed, Extended
<1> HIDE DEF s, e, t
<1>5. CASE child.pc = "opened"
  <2>1. Ordered(s, starts - 1) /\ AllEnded(s)
    BY <1>5 DEF Numbered, s
  <2>2. t = Extended(s, e)
    BY <1>1, <1>4, <2>1, Later
  <2>3. /\ Ordered(t, starts) /\ t # <<>> /\ t[Len(t)] = e /\ IdsOf(t) = IdsOf(s) \cup {starts}
        /\ Terminal(e) => AllEnded(t)
        /\ e.state # "completed" => Counts(t) = Counts(s)
    BY <1>1, <1>2, <2>1, <2>2, Appended
  <2> QED
    BY <1>2, <1>4, <1>5, <2>3 DEF EndsWith, Working, s, t
<1>6. CASE child.pc \in Working
  <2>1. EndsWith(s, starts) /\ ~Terminal(s[Len(s)])
    BY <1>6 DEF Numbered, s
  <2>2. t = Renewed(s, e)
    BY <1>4, <2>1
  <2>3. /\ Ordered(t, starts) /\ t # <<>> /\ t[Len(t)] = e /\ IdsOf(t) = IdsOf(s)
        /\ Terminal(e) => AllEnded(t)
        /\ e.state # "completed" => Counts(t) = Counts(s)
        /\ e.state = "completed" => Counts(t) = Counts(s) \cup {<<starts, e.verdict>>}
        /\ \A v : <<starts, v>> \notin Counts(s)
    BY <1>1, <1>2, <2>1, <2>2, Replaced
  <2>4. starts \in IdsOf(s)
    BY <1>1, <2>1, LastIsLatest
  <2> QED
    BY <1>2, <1>4, <2>3, <2>4 DEF EndsWith, s, t
<1> QED
  BY <1>5, <1>6

\* The verdicts that were completed, before and after one more.
Pairs(f) == {<<id, f[id]>> : id \in DOMAIN f}

With(f, n, v) == [id \in DOMAIN f \cup {n} |-> IF id = n THEN v ELSE f[id]]

LEMMA OneMore ==
  ASSUME NEW f, NEW n, NEW v, \A w : <<n, w>> \notin Pairs(f), NEW g, g = With(f, n, v)
  PROVE  Pairs(g) = Pairs(f) \cup {<<n, v>>}
<1>1. n \notin DOMAIN f
  BY DEF Pairs
<1>2. DOMAIN g = DOMAIN f \cup {n} /\ g[n] = v /\ \A id \in DOMAIN f : g[id] = f[id]
  BY <1>1 DEF With
<1> QED
  BY <1>2 DEF Pairs

\* A ledger is finished when its last entry is.
LEMMA LastEnds ==
  ASSUME NEW s, NEW n \in Nat, Ordered(s, n), s # <<>>
  PROVE  /\ Terminal(s[Len(s)]) <=> AllEnded(s)
         /\ s[Len(s)].id \in Starts /\ s[Len(s)].id \in Nat /\ s[Len(s)].id <= n
         /\ Ordered(s, s[Len(s)].id) /\ EndsWith(s, s[Len(s)].id)
<1>1. /\ s \in Seq(Entries) /\ Len(s) \in 1 .. Len(s)
      /\ \A i \in 1 .. Len(s) : i < Len(s) \/ i = Len(s)
  BY DEF Ordered
<1>2. \A i \in 1 .. Len(s) : s[i].id \in Nat /\ s[i].id \in Starts
  BY <1>1, Fields
<1>3. Terminal(s[Len(s)]) <=> AllEnded(s)
  BY <1>1 DEF Ordered, AllEnded
<1>4. \A i \in 1 .. Len(s) : s[i].id <= s[Len(s)].id
  BY <1>1, <1>2 DEF Ordered
<1>5. Ordered(s, s[Len(s)].id)
  BY <1>1, <1>4 DEF Ordered
<1> QED
  BY <1>1, <1>2, <1>3, <1>5 DEF Ordered, EndsWith

\* What a recovery puts in the place of a ledger.
LEMMA Abandoned ==
  ASSUME NEW s, NEW n \in Nat, Ordered(s, n), s # <<>>,
         NEW t, t = IF Terminal(s[Len(s)]) THEN s
                    ELSE Renewed(s, Entry(s[Len(s)].id, "inconclusive", "INCONCLUSIVE"))
  PROVE  Ordered(t, n) /\ t # <<>> /\ AllEnded(t) /\ Counts(t) = Counts(s) /\ IdsOf(t) = IdsOf(s)
<1> DEFINE k == s[Len(s)].id
           e == Entry(k, "inconclusive", "INCONCLUSIVE")
<1>1. /\ k \in Starts /\ k \in Nat /\ k <= n /\ Ordered(s, k) /\ EndsWith(s, k)
      /\ Terminal(s[Len(s)]) <=> AllEnded(s)
  BY LastEnds
<1>2. e \in Entries /\ e.id = k /\ e.state = "inconclusive" /\ Terminal(e)
  BY <1>1, EntryIsEntry DEF States, Verdicts
<1>3. CASE Terminal(s[Len(s)])
  BY <1>1, <1>3
<1>4. CASE ~Terminal(s[Len(s)])
  <2>1. t = Renewed(s, e)
    BY <1>4
  <2> HIDE DEF e
  <2>2. Ordered(t, k) /\ t # <<>> /\ IdsOf(t) = IdsOf(s) /\ AllEnded(t) /\ Counts(t) = Counts(s)
    BY <1>1, <1>2, <1>4, <2>1, Replaced
  <2> HIDE DEF k
  <2>3. \A i \in 1 .. Len(t) : t[i].id <= n
    <3>1. t \in Seq(Entries) /\ \A i \in 1 .. Len(t) : t[i].id <= k
      BY <2>2 DEF Ordered
    <3>2. \A i \in 1 .. Len(t) : t[i].id \in Nat
      BY <3>1, Fields
    <3> QED
      BY <1>1, <3>1, <3>2
  <2> QED
    BY <2>2, <2>3 DEF Ordered
<1> QED
  BY <1>3, <1>4

\* A recovery moves everything that is in its place.
LEMMA LedgerNamesHold ==
  ASSUME lock \in BOOLEAN, pending \in BOOLEAN, NEW order \in Orders
  PROVE  /\ LedgerNames(order) \in Seq(Names)
         /\ lock => Holds(LedgerNames(order), "lock")
         /\ pending => Holds(LedgerNames(order), "pending")
         /\ ~Holds(LedgerNames(order), "attempts")
<1>1. /\ order \in Seq(Names) /\ Holds(order, "lock") /\ Holds(order, "pending")
      /\ ~Holds(order, "attempts")
  <2>1. <<"lock", "pending">> \in Seq(Names) /\ <<"pending", "lock">> \in Seq(Names)
    BY DEF Names
  <2>2. order \in {<<"lock", "pending">>, <<"pending", "lock">>}
    BY DEF Orders
  <2>3. CASE order = <<"lock", "pending">>
    BY <2>1, <2>3, Pieces
  <2>4. CASE order = <<"pending", "lock">>
    BY <2>1, <2>4, Pieces
  <2> QED
    BY <2>2, <2>3, <2>4
<1>2. /\ <<"lock">> \in Seq(Names) /\ <<"pending">> \in Seq(Names) /\ <<>> \in Seq(Names)
      /\ "lock" \in Names /\ "pending" \in Names /\ "attempts" \in Names
  BY DEF Names
<1>3. CASE lock /\ pending
  BY <1>1, <1>3 DEF LedgerNames
<1>4. CASE ~(lock /\ pending)
  <2> DEFINE a == IF lock THEN <<"lock">> ELSE <<>>
             b == IF pending THEN <<"pending">> ELSE <<>>
  <2>1. a \in Seq(Names) /\ b \in Seq(Names)
    BY <1>2
  <2>2. /\ lock => Holds(a, "lock")
        /\ pending => Holds(b, "pending")
        /\ ~Holds(a, "attempts") /\ ~Holds(b, "attempts")
    BY Pieces
  <2>3. LedgerNames(order) = a \o b
    BY <1>4 DEF LedgerNames
  <2> HIDE DEF a, b
  <2> QED
    BY <1>2, <2>1, <2>2, <2>3, Pieces
<1> QED
  BY <1>3, <1>4

LEMMA MovesHold ==
  ASSUME lock \in BOOLEAN, pending \in BOOLEAN, NEW order \in Orders, NEW a
  PROVE  /\ Moves(a, order) \in Seq(Names)
         /\ Holds(Moves(a, order), "attempts")
         /\ lock => Holds(Moves(a, order), "lock")
         /\ pending => Holds(Moves(a, order), "pending")
         /\ deployment # NoRecord => Holds(Moves(a, order), "deployment")
         /\ ready # 0 => Holds(Moves(a, order), "ready")
<1> DEFINE p == <<"attempts">>
           q == LedgerNames(order)
           d == IF deployment = NoRecord THEN <<>> ELSE <<"deployment">>
           r == IF ready = 0 THEN <<>> ELSE <<"ready">>
           l == IF dirs[a] = "none" THEN <<>> ELSE <<"attempt">>
<1>1. /\ "lock" \in Names /\ "pending" \in Names /\ "attempts" \in Names
      /\ "deployment" \in Names /\ "ready" \in Names
      /\ p \in Seq(Names) /\ d \in Seq(Names) /\ r \in Seq(Names) /\ l \in Seq(Names)
  <2>1. \A x \in Names : <<x>> \in Seq(Names)
    OBVIOUS
  <2>2. <<>> \in Seq(Names)
    OBVIOUS
  <2>3. {"lock", "pending", "attempts", "deployment", "ready", "attempt"} = Names
    BY DEF Names
  <2> QED
    BY <2>1, <2>2, <2>3
<1>2. /\ q \in Seq(Names)
      /\ lock => Holds(q, "lock")
      /\ pending => Holds(q, "pending")
  BY LedgerNamesHold
<1>3. /\ Holds(p, "attempts")
      /\ deployment # NoRecord => Holds(d, "deployment")
      /\ ready # 0 => Holds(r, "ready")
  BY Pieces
<1>4. Moves(a, order) = p \o q \o d \o r \o l
  BY DEF Moves
<1> HIDE DEF p, q, d, r, l
<1>5. /\ p \o q \in Seq(Names) /\ p \o q \o d \in Seq(Names)
      /\ p \o q \o d \o r \in Seq(Names) /\ p \o q \o d \o r \o l \in Seq(Names)
  BY <1>1, <1>2, Pieces
<1>6. \A x \in Names :
        Holds(p \o q \o d \o r \o l, x) <=>
          Holds(p, x) \/ Holds(q, x) \/ Holds(d, x) \/ Holds(r, x) \/ Holds(l, x)
  <2> SUFFICES ASSUME NEW x \in Names
               PROVE  Holds(p \o q \o d \o r \o l, x) <=>
                        Holds(p, x) \/ Holds(q, x) \/ Holds(d, x) \/ Holds(r, x) \/ Holds(l, x)
    OBVIOUS
  <2>1. Holds(p \o q, x) <=> Holds(p, x) \/ Holds(q, x)
    BY <1>1, <1>2, Pieces
  <2>2. Holds(p \o q \o d, x) <=> Holds(p \o q, x) \/ Holds(d, x)
    BY <1>1, <1>5, Pieces
  <2>3. Holds(p \o q \o d \o r, x) <=> Holds(p \o q \o d, x) \/ Holds(r, x)
    BY <1>1, <1>5, Pieces
  <2>4. Holds(p \o q \o d \o r \o l, x) <=> Holds(p \o q \o d \o r, x) \/ Holds(l, x)
    BY <1>1, <1>5, Pieces
  <2> QED
    BY <2>1, <2>2, <2>3, <2>4
<1> QED
  BY <1>1, <1>2, <1>3, <1>4, <1>5, <1>6

USE DEF disk, work, root, node, aux, allButJournal, allButLock, allButPending, allButLedger,
        allButDirs, allButDeployment, allButReady, allButArchive, Proceed, Save, Pc, Emit,
        Fault, Read, NoChild, NoPlan, NoRecord, NoAuthority, Serving, Controlling, Working,
        Retired, Bound, Ending, Live, Recovering, Awaiting, Awaits, Saving, HalfMade

-----------------------------------------------------------------------------
(* The recovery *)

LEMMA StartKeeps ==
  ASSUME CustodyInv, Start
  PROVE  CustodyInv'
<1>1. /\ starts \in Nat /\ starts' = starts + 1 /\ starts' \in Starts /\ starts' - 1 = starts
      /\ Ordered(ledger.entries, starts')
  <2>1. starts \in Nat /\ starts' = starts + 1 /\ starts' \in Starts /\ starts' - 1 = starts
    BY Numbers DEF CustodyInv, Types, Start, Starts
  <2>2. Ordered(ledger.entries, starts' - 1)
    BY <2>1 DEF CustodyInv, Types
  <2> QED
    BY <2>1, <2>2, Later
<1>2. Types'
  BY <1>1, NoEntries DEF CustodyInv, Types, Start, Phases, Frames, Verdicts
<1>3. Numbered'
  BY <1>1, NoEntries DEF CustodyInv, Numbered, Types, Start
<1>4. Locked'
  BY <1>1, NoEntries DEF CustodyInv, Locked, Types, Start
<1>5. Piped'
  BY <1>1, NoEntries DEF CustodyInv, Piped, Types, Start
<1>6. Journalled'
  BY <1>1, NoEntries, Numbers DEF CustodyInv, Journalled, Types, Numbered, Locked, Start, Phases
<1>7. Restoring'
  BY <1>1, NoEntries DEF CustodyInv, Restoring, Types, Start
<1>8. Kept'
  BY <1>1, NoEntries DEF CustodyInv, Kept, Types, Start, Known, Completed
<1>9. RefusedOnlyWhenUnproven'
  BY <1>1, NoEntries DEF CustodyInv, RefusedOnlyWhenUnproven, Types, Start
<1>10. HandedOver'
  BY <1>1, NoEntries DEF CustodyInv, HandedOver, Types, Start
<1> QED
  BY <1>2, <1>3, <1>4, <1>5, <1>6, <1>7, <1>8, <1>9, <1>10 DEF CustodyInv

LEMMA RecoverPriorBootKeeps ==
  ASSUME CustodyInv, RecoverPriorBoot
  PROVE  CustodyInv'
<1> DEFINE s == ledger.entries
<1>1. /\ pc = "recover" /\ pc' = "archiving" /\ ~UnarmedStart /\ Interrupted # 0
      /\ starts \in Nat /\ starts \in Starts /\ starts - 1 \in Nat
      /\ archived' = archived \union {<<"attempt", Interrupted>>}
      /\ UNCHANGED <<allButArchive, starts, attempt, node, faults, aux>>
  BY Numbers DEF RecoverPriorBoot, Proceed, CustodyInv, Types, Starts
<1>2. PICK order \in Orders :
        plan' = [attempt |-> Interrupted, moves |-> Moves(Interrupted, order),
                 entries |-> AbandonAfterBoot]
  BY DEF RecoverPriorBoot
<1>3. ledger.form = "whole" /\ s # <<>> /\ Interrupted = s[Len(s)].id
  BY <1>1 DEF Interrupted, Last, CustodyInv, Types
<1>4. Ordered(s, starts - 1)
  BY <1>1 DEF CustodyInv, Numbered, Serving, Controlling
<1>5. Interrupted \in Starts /\ Interrupted \in Nat /\ Interrupted < starts
  BY <1>1, <1>3, <1>4, LastEnds
<1>6. AbandonAfterBoot =
        IF Terminal(s[Len(s)]) THEN s
        ELSE Renewed(s, Entry(s[Len(s)].id, "inconclusive", "INCONCLUSIVE"))
  <2>1. s \in Seq(Entries) /\ \A y : Append(Front(s), y) = Front(s) \o <<y>>
    BY <1>4 DEF Ordered, Front
  <2> QED
    BY <2>1 DEF AbandonAfterBoot, Last, Renewed
<1>7. /\ Ordered(plan'.entries, starts - 1) /\ plan'.entries # <<>> /\ AllEnded(plan'.entries)
      /\ Counts(plan'.entries) = Counts(s) /\ IdsOf(plan'.entries) = IdsOf(s)
  BY <1>1, <1>2, <1>3, <1>4, <1>6, Abandoned
<1>8. /\ plan'.moves \in Seq(Names) /\ plan'.attempt = Interrupted
      /\ Holds(plan'.moves, "attempts")
      /\ lock => Holds(plan'.moves, "lock")
      /\ pending => Holds(plan'.moves, "pending")
      /\ deployment # NoRecord => Holds(plan'.moves, "deployment")
      /\ ready # 0 => Holds(plan'.moves, "ready")
  BY <1>2, MovesHold DEF CustodyInv, Types
<1> HIDE DEF s
<1>9. s = ledger.entries
  BY DEF s
<1>10. Types'
  BY <1>1, <1>3, <1>4, <1>5, <1>7, <1>8, <1>9 DEF CustodyInv, Types, Phases, Frames, Verdicts
<1>11. Numbered'
  BY <1>1, <1>3, <1>4, <1>5, <1>7, <1>8, <1>9 DEF CustodyInv, Numbered, Types
<1>12. Locked'
  BY <1>1, <1>3, <1>4, <1>5, <1>7, <1>8, <1>9 DEF CustodyInv, Locked, Types
<1>13. Piped'
  BY <1>1, <1>3, <1>4, <1>5, <1>7, <1>8, <1>9 DEF CustodyInv, Piped, Types
<1>14. Journalled'
  BY <1>1, <1>3, <1>4, <1>5, <1>7, <1>8, <1>9 DEF CustodyInv, Journalled, Types, Phases
<1>15. Restoring'
  BY <1>1, <1>3, <1>4, <1>5, <1>7, <1>8, <1>9 DEF CustodyInv, Restoring, Types
<1>16. Kept'
  BY <1>1, <1>3, <1>4, <1>5, <1>7, <1>8, <1>9 DEF CustodyInv, Kept, Types, Known, Completed
<1>17. RefusedOnlyWhenUnproven'
  BY <1>1, <1>3, <1>4, <1>5, <1>7, <1>8, <1>9 DEF CustodyInv, RefusedOnlyWhenUnproven, Types
<1>18. HandedOver'
  BY <1>1, <1>3, <1>4, <1>5, <1>7, <1>8, <1>9, Numbers DEF CustodyInv, HandedOver, Types, Interrupted, RecoverPriorBoot
<1> QED
  BY <1>10, <1>11, <1>12, <1>13, <1>14, <1>15, <1>16, <1>17, <1>18 DEF CustodyInv

LEMMA RecoverUnarmedStartKeeps ==
  ASSUME CustodyInv, RecoverUnarmedStart
  PROVE  CustodyInv'
<1>1. /\ pc = "recover" /\ pc' = "unarmed" /\ UnarmedStart /\ current.phase = "starting"
      /\ ready = 0 /\ deployment = NoRecord
      /\ starts \in Nat /\ starts \in Starts /\ starts - 1 \in Nat /\ current.start \in Nat
      /\ archived' = archived \union {<<"unarmed", current.start>>}
      /\ UNCHANGED <<allButArchive, starts, attempt, node, faults, aux>>
  BY Numbers DEF RecoverUnarmedStart, Proceed, CustodyInv, Types, Starts
<1>2. PICK order \in Orders : plan' = [NoPlan EXCEPT !.moves = LedgerNames(order)]
  BY DEF RecoverUnarmedStart
<1>3. /\ plan'.moves \in Seq(Names) /\ plan'.attempt = 0
      /\ lock => Holds(plan'.moves, "lock")
      /\ pending => Holds(plan'.moves, "pending")
      /\ ~Holds(plan'.moves, "attempts")
  BY <1>2, LedgerNamesHold DEF CustodyInv, Types, NoPlan
<1>4. AllEnded(ledger.entries) /\ ledger.form # "torn"
  BY <1>1, LastEnds, NoEntries DEF UnarmedStart, Last, CustodyInv, Types
<1>5. current.start < starts
  BY <1>1 DEF CustodyInv, Journalled, Live
<1>6. Types'
  BY <1>1, <1>3, <1>4, <1>5 DEF CustodyInv, Types, Phases, Frames, Verdicts
<1>7. Numbered'
  BY <1>1, <1>3, <1>4, <1>5 DEF CustodyInv, Numbered, Types
<1>8. Locked'
  BY <1>1, <1>3, <1>4, <1>5 DEF CustodyInv, Locked, Types
<1>9. Piped'
  BY <1>1, <1>3, <1>4, <1>5 DEF CustodyInv, Piped, Types
<1>10. Journalled'
  BY <1>1, <1>3, <1>4, <1>5 DEF CustodyInv, Journalled, Types, Phases
<1>11. Restoring'
  BY <1>1, <1>3, <1>4, <1>5 DEF CustodyInv, Restoring, Types
<1>12. Kept'
  BY <1>1, <1>3, <1>4, <1>5 DEF CustodyInv, Kept, Types, Known, Completed
<1>13. RefusedOnlyWhenUnproven'
  BY <1>1, <1>3, <1>4, <1>5 DEF CustodyInv, RefusedOnlyWhenUnproven, Types
<1>14. HandedOver'
  BY <1>1, <1>3, <1>4, <1>5, Numbers DEF CustodyInv, HandedOver, Types, UnarmedStart
<1> QED
  BY <1>6, <1>7, <1>8, <1>9, <1>10, <1>11, <1>12, <1>13, <1>14 DEF CustodyInv

LEMMA MoveKeeps ==
  ASSUME CustodyInv, Move
  PROVE  CustodyInv'
<1>1. /\ plan'.moves = Tail(plan.moves) /\ plan'.attempt = plan.attempt
      /\ plan'.entries = plan.entries
  BY DEF Move, CustodyInv, Types
<1>2. /\ Tail(plan.moves) \in Seq(Names)
      /\ \A x : Holds(plan.moves, x) => x = Head(plan.moves) \/ Holds(Tail(plan.moves), x)
      /\ \A x : Holds(Tail(plan.moves), x) => Holds(plan.moves, x)
      /\ Holds(plan.moves, Head(plan.moves))
  BY Shorter DEF Move, CustodyInv, Restoring
<1>3. starts \in Nat /\ starts \in Starts /\ starts - 1 \in Nat
  BY Numbers DEF Move, CustodyInv, Types, Starts
<1>4. Types'
  <2>1. /\ dirs' \in [Starts -> Stages]
        /\ \A a \in Starts : dirs'[a] \in {dirs[a], "none"}
    BY DEF CustodyInv, Types, Move, Stages
  <2> QED
    BY <1>1, <1>2, <1>3, <2>1, NoEntries DEF CustodyInv, Types, Move, Phases, Frames, Verdicts
<1>5. Numbered'
  BY <1>1, <1>2, <1>3, NoEntries DEF CustodyInv, Numbered, Types, Move
<1>6. Locked'
  BY <1>1, <1>2, <1>3, NoEntries DEF CustodyInv, Locked, Types, Move
<1>7. Piped'
  BY <1>1, <1>2, <1>3, NoEntries DEF CustodyInv, Piped, Types, Move
<1>8. Journalled'
  BY <1>1, <1>2, <1>3, NoEntries DEF CustodyInv, Journalled, Types, Move, Phases
<1>9. Restoring'
  BY <1>1, <1>2, <1>3, NoEntries DEF CustodyInv, Restoring, Types, Move
<1>10. Kept'
  <2>1. pc \in {"archiving", "unarmed"} /\ pc' = pc /\ UNCHANGED <<auxTorn, auxVerdict>>
    BY DEF Move
  <2>2. Known' = Known
    <3>1. CASE pc = "archiving"
      BY <1>1, <2>1, <3>1 DEF Known
    <3>2. CASE pc = "unarmed"
      <4>1. Head(plan.moves) # "attempts"
        BY <1>2, <3>2 DEF CustodyInv, Restoring
      <4>2. UNCHANGED ledger
        BY <4>1 DEF Move
      <4> QED
        BY <2>1, <3>2, <4>2 DEF Known
    <3> QED
      BY <2>1, <3>1, <3>2
  <2>3. ledger'.form = "torn" => ledger.form = "torn"
    BY DEF Move
  <2>4. Completed' = Completed
    BY <2>1 DEF Completed
  <2>5. \A a \in Starts : dirs'[a] # "none" => dirs[a] # "none"
    BY DEF CustodyInv, Types, Move
  <2> QED
    BY <2>1, <2>2, <2>3, <2>4, <2>5 DEF CustodyInv, Kept
<1>11. RefusedOnlyWhenUnproven'
  BY <1>1, <1>2, <1>3, NoEntries DEF CustodyInv, RefusedOnlyWhenUnproven, Types, Move
<1>12. HandedOver'
  BY <1>1, <1>2, <1>3, NoEntries DEF CustodyInv, HandedOver, Types, Move
<1> QED
  BY <1>4, <1>5, <1>6, <1>7, <1>8, <1>9, <1>10, <1>11, <1>12 DEF CustodyInv

LEMMA CreateRestoredKeeps ==
  ASSUME CustodyInv, CreateRestored
  PROVE  CustodyInv'
<1>1. starts \in Nat /\ starts \in Starts /\ starts - 1 \in Nat
  BY Numbers DEF CreateRestored, CustodyInv, Types, Starts
<1>2. /\ ~lock /\ ~pending /\ ready = 0 /\ deployment = NoRecord
      /\ Ordered(plan.entries, starts - 1) /\ plan.entries # <<>> /\ AllEnded(plan.entries)
  BY NoEntries DEF CreateRestored, CustodyInv, Types, Restoring
<1>3. Types'
  BY <1>1, <1>2, NoEntries DEF CustodyInv, Types, CreateRestored, Phases, Frames, Verdicts
<1>4. Numbered'
  BY <1>1, <1>2, NoEntries DEF CustodyInv, Numbered, Types, CreateRestored
<1>5. Locked'
  BY <1>1, <1>2, NoEntries DEF CustodyInv, Locked, Types, CreateRestored
<1>6. Piped'
  BY <1>1, <1>2, NoEntries DEF CustodyInv, Piped, Types, CreateRestored
<1>7. Journalled'
  BY <1>1, <1>2, NoEntries DEF CustodyInv, Journalled, Types, CreateRestored, Phases
<1>8. Restoring'
  BY <1>1, <1>2, NoEntries DEF CustodyInv, Restoring, Types, CreateRestored
<1>9. Kept'
  BY <1>1, <1>2, NoEntries DEF CustodyInv, Kept, Types, CreateRestored, Known, Completed
<1>10. RefusedOnlyWhenUnproven'
  BY <1>1, <1>2, NoEntries DEF CustodyInv, RefusedOnlyWhenUnproven, Types, CreateRestored
<1>11. HandedOver'
  BY <1>1, <1>2, NoEntries DEF CustodyInv, HandedOver, Types, CreateRestored
<1> QED
  BY <1>3, <1>4, <1>5, <1>6, <1>7, <1>8, <1>9, <1>10, <1>11 DEF CustodyInv

LEMMA WriteRestoredKeeps ==
  ASSUME CustodyInv, WriteRestored
  PROVE  CustodyInv'
<1>1. starts \in Nat /\ starts \in Starts /\ starts - 1 \in Nat
  BY Numbers DEF WriteRestored, CustodyInv, Types, Starts
<1>2. Ordered(plan.entries, starts)
  BY <1>1, Later DEF WriteRestored, CustodyInv, Restoring
<1>3. Types'
  BY <1>1, <1>2, NoEntries, Numbers, Shorter, Longer DEF CustodyInv, Types, Numbered, Locked,
     Piped, Journalled, Restoring, Kept, RefusedOnlyWhenUnproven, WriteRestored, Phases, Frames,
     Verdicts
<1>4. Numbered'
  BY <1>1, <1>2, NoEntries, Numbers, Shorter, Longer DEF CustodyInv, Numbered, Types, Locked,
     Piped, Journalled, Restoring, Kept, RefusedOnlyWhenUnproven, WriteRestored
<1>5. Locked'
  BY <1>1, <1>2, NoEntries DEF CustodyInv, Locked, Types, WriteRestored
<1>6. Piped'
  BY <1>1, <1>2, NoEntries DEF CustodyInv, Piped, Types, WriteRestored
<1>7. Journalled'
  BY <1>1, <1>2, NoEntries DEF CustodyInv, Journalled, Types, WriteRestored, Phases
<1>8. Restoring'
  BY <1>1, <1>2, NoEntries DEF CustodyInv, Restoring, Types, WriteRestored
<1>9. Kept'
  BY <1>1, <1>2, NoEntries DEF CustodyInv, Kept, Types, WriteRestored, Known, Completed
<1>10. RefusedOnlyWhenUnproven'
  BY <1>1, <1>2, NoEntries DEF CustodyInv, RefusedOnlyWhenUnproven, Types, WriteRestored
<1>11. HandedOver'
  BY <1>1, <1>2, NoEntries DEF CustodyInv, HandedOver, Types, WriteRestored
<1> QED
  BY <1>3, <1>4, <1>5, <1>6, <1>7, <1>8, <1>9, <1>10, <1>11 DEF CustodyInv

LEMMA RecoveryDoneKeeps ==
  ASSUME CustodyInv, RecoveryDone
  PROVE  CustodyInv'
<1>1. starts \in Nat /\ starts \in Starts /\ starts - 1 \in Nat
  BY Numbers DEF RecoveryDone, CustodyInv, Types, Starts, Recovering
<1>2. Types'
  BY <1>1, NoEntries, Numbers, Shorter, Longer DEF CustodyInv, Types, Numbered, Locked, Piped,
     Journalled, Restoring, Kept, RefusedOnlyWhenUnproven, RecoveryDone, Phases, Frames, Verdicts
<1>3. Numbered'
  BY <1>1, NoEntries DEF CustodyInv, Numbered, Types, RecoveryDone
<1>4. Locked'
  BY <1>1, NoEntries DEF CustodyInv, Locked, Types, RecoveryDone
<1>5. Piped'
  BY <1>1, NoEntries DEF CustodyInv, Piped, Types, RecoveryDone
<1>6. Journalled'
  BY <1>1, NoEntries, Numbers, Shorter, Longer DEF CustodyInv, Journalled, Types, Numbered, Locked,
     Piped, Restoring, Kept, RefusedOnlyWhenUnproven, RecoveryDone, Phases
<1>7. Restoring'
  BY <1>1, NoEntries DEF CustodyInv, Restoring, Types, RecoveryDone
<1>8. Kept'
  BY <1>1, NoEntries DEF CustodyInv, Kept, Types, RecoveryDone, Known, Completed
<1>9. RefusedOnlyWhenUnproven'
  BY <1>1, NoEntries DEF CustodyInv, RefusedOnlyWhenUnproven, Types, RecoveryDone
<1>10. HandedOver'
  BY <1>1, NoEntries DEF CustodyInv, HandedOver, Types, RecoveryDone
<1> QED
  BY <1>2, <1>3, <1>4, <1>5, <1>6, <1>7, <1>8, <1>9, <1>10 DEF CustodyInv

LEMMA PreflightChecksKeeps ==
  ASSUME CustodyInv, PreflightChecks
  PROVE  CustodyInv'
<1>1. AllEnded(ledger.entries) /\ ~lock /\ ~pending /\ NoAuthority /\ ledger.form # "torn"
  BY TerminalEntries DEF PreflightChecks, NamespaceIsClean, NoAuthority, CustodyInv, Types, Ordered
<1>2. Types'
  BY <1>1 DEF CustodyInv, Types, PreflightChecks, Phases, Frames, Verdicts
<1>3. Numbered'
  BY <1>1 DEF CustodyInv, Numbered, Types, PreflightChecks
<1>4. Locked'
  BY <1>1 DEF CustodyInv, Locked, Types, PreflightChecks
<1>5. Piped'
  BY <1>1 DEF CustodyInv, Piped, Types, PreflightChecks
<1>6. Journalled'
  BY <1>1 DEF CustodyInv, Journalled, Types, PreflightChecks, Phases
<1>7. Restoring'
  BY <1>1 DEF CustodyInv, Restoring, Types, PreflightChecks
<1>8. Kept'
  BY <1>1 DEF CustodyInv, Kept, Types, PreflightChecks, Known, Completed
<1>9. RefusedOnlyWhenUnproven'
  BY <1>1 DEF CustodyInv, RefusedOnlyWhenUnproven, Types, PreflightChecks
<1>10. HandedOver'
  BY <1>1 DEF CustodyInv, HandedOver, Types, PreflightChecks
<1> QED
  BY <1>2, <1>3, <1>4, <1>5, <1>6, <1>7, <1>8, <1>9, <1>10 DEF CustodyInv

LEMMA RefuseKeeps ==
  ASSUME CustodyInv, Refuse
  PROVE  CustodyInv'
<1>1. /\ starts \in Nat /\ starts \in Starts /\ starts - 1 \in Nat
      /\ ledger.entries \in Seq(Entries)
  BY Numbers DEF Refuse, CustodyInv, Types, Starts, Ordered
<1>2. ASSUME pc = "preflight", ~NamespaceIsClean PROVE auxTorn
  <2>1. current.phase \notin Live
    BY <1>2 DEF CustodyInv, Journalled
  <2>2. /\ ~lock /\ ~pending /\ NoAuthority /\ AllTerminal /\ ledger.form # "torn"
    BY <1>1, <2>1, TerminalEntries DEF CustodyInv, Journalled
  <2>3. ~auxTorn => \A a \in Starts : dirs[a] # "none" => a \in Ids
    BY <1>1, <1>2, TerminalEntries DEF CustodyInv, Kept, Known, Ids
  <2>4. \A a \in Starts : dirs[a] # "bare"
    BY <1>2 DEF CustodyInv, HandedOver
  <2> QED
    BY <1>2, <2>2, <2>3, <2>4 DEF NamespaceIsClean, NoAuthority
<1>3. ASSUME pc = "recover", CannotRecover, ~auxTorn, ~current.late, ~HalfMade(current.attempt)
      PROVE  FALSE
  <2> DEFINE s == ledger.entries
  <2>1. /\ current.phase \in Live /\ pc \notin Recovering /\ current.start \in Nat
        /\ current.start # 0
    <3>1. current.phase \in Live /\ pc \notin Recovering
      BY <1>3 DEF CustodyInv, Journalled, Recovering
    <3> QED
      BY <3>1, Numbers DEF CustodyInv, Types, Journalled
  <2>2. /\ ledger.form # "torn"
        /\ ~AllEnded(s) => EndsWith(s, current.start)
        /\ current.attempt # 0 => EndsWith(s, current.attempt)
        /\ <<"attempt", current.start>> \notin archived
        /\ <<"unarmed", current.start>> \notin archived
    BY <1>3, <2>1 DEF CustodyInv, Kept, Recovering
  <2>3. /\ current.attempt \in {0, current.start}
        /\ current.phase # "starting" => current.attempt # 0
        /\ current.attempt = 0 => ready = 0 /\ deployment = NoRecord
        /\ deployment # NoRecord => deployment.attempt = current.attempt
        /\ ready \in {0, current.attempt}
    BY <2>1 DEF CustodyInv, Journalled, NoAuthority
  <2>4. CASE UnarmedStart
    BY <1>3, <2>1, <2>2, <2>3, <2>4 DEF CannotRecover, UnarmedStart
  <2>5. CASE ~UnarmedStart
    <3>1. ledger.form = "whole" /\ s # <<>> /\ s[Len(s)].id = current.start
      <4>1. CASE current.attempt # 0
        BY <2>2, <2>3, <4>1 DEF EndsWith, CustodyInv, Types
      <4>2. CASE current.attempt = 0
        <5>1. ledger.form = "whole" /\ ~Terminal(s[Len(s)])
          BY <2>2, <2>5, <4>2 DEF UnarmedStart, Last, CustodyInv, Types
        <5>2. s # <<>> /\ Ordered(s, starts)
          BY <5>1 DEF CustodyInv, Types
        <5>3. ~AllEnded(s)
          BY <1>1, <5>1, <5>2, LastEnds
        <5> QED
          BY <2>2, <5>1, <5>3 DEF EndsWith
      <4> QED
        BY <4>1, <4>2
    <3>2. Interrupted = current.start
      BY <1>3, <2>3, <3>1 DEF Interrupted, Last
    <3>3. ~AuthorityIsForeign(current.start)
      BY <2>1, <2>3 DEF AuthorityIsForeign
    <3>4. ~HalfMade(current.start)
      <4>1. HalfMade(current.start) => current.attempt = current.start
        BY DEF CustodyInv, HandedOver
      <4> QED
        BY <1>3, <4>1
    <3> QED
      BY <1>3, <2>1, <2>2, <2>5, <3>2, <3>3, <3>4 DEF CannotRecover
  <2> QED
    BY <2>4, <2>5
<1>4. auxTorn \/ current.late \/ HalfMade(current.attempt)
  BY <1>2, <1>3 DEF Refuse
<1>5. Types'
  BY <1>4 DEF CustodyInv, Types, Refuse, Phases, Frames, Verdicts
<1>6. Numbered'
  BY <1>4 DEF CustodyInv, Numbered, Types, Refuse
<1>7. Locked'
  BY <1>4 DEF CustodyInv, Locked, Types, Refuse
<1>8. Piped'
  BY <1>4 DEF CustodyInv, Piped, Types, Refuse
<1>9. Journalled'
  BY <1>4 DEF CustodyInv, Journalled, Types, Refuse, Phases
<1>10. Restoring'
  BY <1>4 DEF CustodyInv, Restoring, Types, Refuse
<1>11. Kept'
  BY <1>4 DEF CustodyInv, Kept, Types, Refuse, Known, Completed
<1>12. RefusedOnlyWhenUnproven'
  BY <1>4 DEF CustodyInv, RefusedOnlyWhenUnproven, Types, Refuse
<1>13. HandedOver'
  BY <1>4 DEF CustodyInv, HandedOver, Types, Refuse
<1> QED
  BY <1>5, <1>6, <1>7, <1>8, <1>9, <1>10, <1>11, <1>12, <1>13 DEF CustodyInv

LEMMA ExitKeeps ==
  ASSUME CustodyInv, Exit
  PROVE  CustodyInv'
<1>1. Types'
  BY DEF CustodyInv, Types, Exit, Phases, Frames, Verdicts
<1>2. Numbered'
  BY DEF CustodyInv, Numbered, Types, Exit
<1>3. Locked'
  BY DEF CustodyInv, Locked, Types, Exit
<1>4. Piped'
  BY DEF CustodyInv, Piped, Types, Exit
<1>5. Journalled'
  BY DEF CustodyInv, Journalled, Types, Exit, Phases
<1>6. Restoring'
  BY DEF CustodyInv, Restoring, Types, Exit
<1>7. Kept'
  BY DEF CustodyInv, Kept, Types, Exit, Known, Completed
<1>8. RefusedOnlyWhenUnproven'
  BY DEF CustodyInv, RefusedOnlyWhenUnproven, Types, Exit
<1>9. HandedOver'
  BY DEF CustodyInv, HandedOver, Types, Exit
<1> QED
  BY <1>1, <1>2, <1>3, <1>4, <1>5, <1>6, <1>7, <1>8, <1>9 DEF CustodyInv

-----------------------------------------------------------------------------
(* The cycle of one attempt *)

LEMMA SpawnKeeps ==
  ASSUME CustodyInv, Spawn
  PROVE  CustodyInv'
<1>1. Types'
  BY DEF CustodyInv, Types, Spawn, Phases, Frames, Verdicts
<1>2. Numbered'
  BY DEF CustodyInv, Numbered, Types, Spawn
<1>3. Locked'
  BY DEF CustodyInv, Locked, Types, Spawn
<1>4. Piped'
  BY DEF CustodyInv, Piped, Types, Spawn
<1>5. Journalled'
  BY Numbers DEF CustodyInv, Journalled, Types, Numbered, Locked, Spawn, Phases
<1>6. Restoring'
  BY DEF CustodyInv, Restoring, Types, Spawn
<1>7. Kept'
  BY Numbers DEF CustodyInv, Kept, Types, Numbered, Locked, Journalled, Spawn, Known, Completed
<1>8. RefusedOnlyWhenUnproven'
  BY DEF CustodyInv, RefusedOnlyWhenUnproven, Types, Spawn
<1>9. HandedOver'
  BY DEF CustodyInv, HandedOver, Types, Spawn
<1> QED
  BY <1>1, <1>2, <1>3, <1>4, <1>5, <1>6, <1>7, <1>8, <1>9 DEF CustodyInv

LEMMA PopenKeeps ==
  ASSUME CustodyInv, Popen
  PROVE  CustodyInv'
<1>1. Types'
  <2>1. pc' = "spawned" /\ UNCHANGED <<disk, work, frames, cmd, faults, aux>>
    BY DEF Popen
  <2>2. child' = [pc |-> "open", result |-> NoChild.result, clean |-> NoChild.clean, stop |-> NoChild.stop]
    BY DEF Popen, NoChild
  <2>3. NoChild.result \in Verdicts /\ NoChild.clean \in BOOLEAN /\ NoChild.stop \in BOOLEAN
    BY DEF NoChild, Verdicts
  <2>4. pc = "popen" /\ starts # 0
    BY DEF Popen, CustodyInv, Types
  <2> HIDE DEF Verdicts, NoChild
  <2> QED
    BY <2>1, <2>2, <2>3, <2>4 DEF CustodyInv, Types
<1>2. Numbered'
  BY DEF CustodyInv, Numbered, Types, Popen
<1>3. Locked'
  BY DEF CustodyInv, Locked, Types, Popen
<1>4. Piped'
  BY DEF CustodyInv, Piped, Types, Numbered, Popen
<1>5. Journalled'
  BY DEF CustodyInv, Journalled, Types, Numbered, Popen, Phases
<1>6. Restoring'
  BY DEF CustodyInv, Restoring, Types, Popen
<1>7. Kept'
  BY DEF CustodyInv, Kept, Types, Popen, Known, Completed
<1>8. RefusedOnlyWhenUnproven'
  BY DEF CustodyInv, RefusedOnlyWhenUnproven, Types, Popen
<1>9. HandedOver'
  BY DEF CustodyInv, HandedOver, Types, Popen
<1> QED
  BY <1>1, <1>2, <1>3, <1>4, <1>5, <1>6, <1>7, <1>8, <1>9 DEF CustodyInv

LEMMA SaveSpawnedKeeps ==
  ASSUME CustodyInv, SaveSpawned
  PROVE  CustodyInv'
<1>1. Prepared(starts) \in BOOLEAN
  BY DEF Prepared
<1>2. Types'
  BY <1>1 DEF CustodyInv, Types, SaveSpawned, Phases, Frames, Verdicts
<1>3. Numbered'
  BY <1>1 DEF CustodyInv, Numbered, Types, SaveSpawned
<1>4. Locked'
  BY <1>1 DEF CustodyInv, Locked, Types, SaveSpawned
<1>5. Piped'
  BY <1>1 DEF CustodyInv, Piped, Types, SaveSpawned
<1>6. Journalled'
  BY <1>1, Numbers DEF CustodyInv, Journalled, Types, Numbered, Locked, SaveSpawned, Phases
<1>7. Restoring'
  BY <1>1 DEF CustodyInv, Restoring, Types, SaveSpawned
<1>8. Kept'
  BY <1>1, Numbers DEF CustodyInv, Kept, Types, Numbered, Locked, Journalled, SaveSpawned, Known,
     Completed
<1>9. RefusedOnlyWhenUnproven'
  BY <1>1 DEF CustodyInv, RefusedOnlyWhenUnproven, Types, SaveSpawned
<1>10. HandedOver'
  BY <1>1 DEF CustodyInv, HandedOver, Types, SaveSpawned
<1> QED
  BY <1>2, <1>3, <1>4, <1>5, <1>6, <1>7, <1>8, <1>9, <1>10 DEF CustodyInv

LEMMA ReceivePreparedKeeps ==
  ASSUME CustodyInv, ReceivePrepared
  PROVE  CustodyInv'
<1>1. Types'
  BY DEF CustodyInv, Types, ReceivePrepared, Phases, Frames, Verdicts
<1>2. Numbered'
  BY Numbers, Shorter, Longer DEF CustodyInv, Numbered, Types, Piped, Locked, ReceivePrepared
<1>3. Locked'
  BY DEF CustodyInv, Locked, Types, ReceivePrepared
<1>4. Piped'
  BY DEF CustodyInv, Piped, Types, ReceivePrepared
<1>5. Journalled'
  BY DEF CustodyInv, Journalled, Types, ReceivePrepared, Phases
<1>6. Restoring'
  BY DEF CustodyInv, Restoring, Types, ReceivePrepared
<1>7. Kept'
  BY Numbers, Shorter, Longer DEF CustodyInv, Kept, Types, Numbered, Locked, Piped, Journalled,
     Restoring, RefusedOnlyWhenUnproven, ReceivePrepared, Known, Completed
<1>8. RefusedOnlyWhenUnproven'
  BY DEF CustodyInv, RefusedOnlyWhenUnproven, Types, ReceivePrepared
<1>9. HandedOver'
  BY DEF CustodyInv, HandedOver, Types, ReceivePrepared
<1> QED
  BY <1>1, <1>2, <1>3, <1>4, <1>5, <1>6, <1>7, <1>8, <1>9 DEF CustodyInv

LEMMA MakeDirectoryKeeps ==
  ASSUME CustodyInv, MakeDirectory
  PROVE  CustodyInv'
<1>1. /\ attempt = starts /\ starts \in IdsOf(ledger.entries) /\ attempt \in Starts
      /\ current.attempt = attempt /\ current.phase = "prepared"
  BY LastIsLatest, Numbers DEF MakeDirectory, CustodyInv, Types, Numbered, Journalled, HandedOver,
     Bound, Controlling
<1>2. /\ pc = "dir" /\ pc' \in {"dir", "attest"}
      /\ UNCHANGED <<allButDirs, work, node, faults, aux>>
  BY DEF MakeDirectory, Proceed
<1>3. /\ dirs' \in [Starts -> Stages]
      /\ \A a \in Starts : a # attempt => dirs'[a] = dirs[a]
      /\ pc' = "attest" => ~HalfMade(attempt)'
  <2>1. dirs \in [Starts -> Stages]
    BY DEF CustodyInv, Types
  <2>2. dirs' = [dirs EXCEPT ![attempt] = Further(dirs[attempt])]
    BY DEF MakeDirectory
  <2>3. Further(dirs[attempt]) \in Stages
    BY DEF Further, Stages
  <2>4. dirs' \in [Starts -> Stages] /\ \A a \in Starts : a # attempt => dirs'[a] = dirs[a]
    BY <1>1, <2>1, <2>2, <2>3
  <2>5. pc' = "attest" => dirs'[attempt] = "whole"
    BY DEF MakeDirectory, Proceed
  <2>6. UNCHANGED attempt
    BY <1>2 DEF work
  <2> QED
    BY <2>4, <2>5, <2>6
<1>4. Types'
  BY <1>1, <1>2, <1>3 DEF CustodyInv, Types, Phases, Frames, Verdicts
<1>5. Numbered'
  BY <1>1, <1>2 DEF CustodyInv, Numbered, Types
<1>6. Locked'
  BY <1>1, <1>2 DEF CustodyInv, Locked, Types
<1>7. Piped'
  BY <1>1, <1>2 DEF CustodyInv, Piped, Types
<1>8. Journalled'
  BY <1>1, <1>2 DEF CustodyInv, Journalled, Types, Phases
<1>9. Restoring'
  BY <1>1, <1>2 DEF CustodyInv, Restoring, Types
<1>10. Kept'
  BY <1>1, <1>2, <1>3 DEF CustodyInv, Kept, Types, Known, Completed
<1>11. RefusedOnlyWhenUnproven'
  BY <1>2 DEF RefusedOnlyWhenUnproven
<1>12. HandedOver'
  BY <1>1, <1>2, <1>3 DEF CustodyInv, HandedOver, Types
<1> QED
  BY <1>4, <1>5, <1>6, <1>7, <1>8, <1>9, <1>10, <1>11, <1>12 DEF CustodyInv

LEMMA AttestBeforeKeeps ==
  ASSUME CustodyInv, AttestBefore
  PROVE  CustodyInv'
<1>1. Types'
  BY DEF CustodyInv, Types, Numbered, AttestBefore, Phases, Frames, Verdicts
<1>2. Numbered'
  BY DEF CustodyInv, Numbered, Types, AttestBefore
<1>3. Locked'
  BY DEF CustodyInv, Locked, Types, AttestBefore
<1>4. Piped'
  BY DEF CustodyInv, Piped, Types, Numbered, AttestBefore
<1>5. Journalled'
  BY DEF CustodyInv, Journalled, Types, Numbered, AttestBefore, Phases
<1>6. Restoring'
  BY DEF CustodyInv, Restoring, Types, AttestBefore
<1>7. Kept'
  BY DEF CustodyInv, Kept, Types, AttestBefore, Known, Completed
<1>8. RefusedOnlyWhenUnproven'
  BY DEF CustodyInv, RefusedOnlyWhenUnproven, Types, AttestBefore
<1>9. HandedOver'
  BY DEF CustodyInv, HandedOver, Types, AttestBefore
<1> QED
  BY <1>1, <1>2, <1>3, <1>4, <1>5, <1>6, <1>7, <1>8, <1>9 DEF CustodyInv

LEMMA ReceiveArmedKeeps ==
  ASSUME CustodyInv, ReceiveArmed
  PROVE  CustodyInv'
<1>1. Types'
  BY DEF CustodyInv, Types, ReceiveArmed, Phases, Frames, Verdicts
<1>2. Numbered'
  BY DEF CustodyInv, Numbered, Types, ReceiveArmed
<1>3. Locked'
  BY DEF CustodyInv, Locked, Types, ReceiveArmed
<1>4. Piped'
  BY DEF CustodyInv, Piped, Types, ReceiveArmed
<1>5. Journalled'
  BY DEF CustodyInv, Journalled, Types, ReceiveArmed, Phases
<1>6. Restoring'
  BY DEF CustodyInv, Restoring, Types, ReceiveArmed
<1>7. Kept'
  BY DEF CustodyInv, Kept, Types, ReceiveArmed, Known, Completed
<1>8. RefusedOnlyWhenUnproven'
  BY DEF CustodyInv, RefusedOnlyWhenUnproven, Types, ReceiveArmed
<1>9. HandedOver'
  BY DEF CustodyInv, HandedOver, Types, ReceiveArmed
<1> QED
  BY <1>1, <1>2, <1>3, <1>4, <1>5, <1>6, <1>7, <1>8, <1>9 DEF CustodyInv

LEMMA IssueReadyKeeps ==
  ASSUME CustodyInv, IssueReady
  PROVE  CustodyInv'
<1>1. Types'
  BY DEF CustodyInv, Types, IssueReady, Phases, Frames, Verdicts
<1>2. Numbered'
  BY DEF CustodyInv, Numbered, Types, IssueReady
<1>3. Locked'
  BY DEF CustodyInv, Locked, Types, IssueReady
<1>4. Piped'
  BY DEF CustodyInv, Piped, Types, IssueReady
<1>5. Journalled'
  BY DEF CustodyInv, Journalled, Types, IssueReady, Phases
<1>6. Restoring'
  BY DEF CustodyInv, Restoring, Types, IssueReady
<1>7. Kept'
  BY DEF CustodyInv, Kept, Types, IssueReady, Known, Completed
<1>8. RefusedOnlyWhenUnproven'
  BY DEF CustodyInv, RefusedOnlyWhenUnproven, Types, IssueReady
<1>9. HandedOver'
  BY DEF CustodyInv, HandedOver, Types, IssueReady
<1> QED
  BY <1>1, <1>2, <1>3, <1>4, <1>5, <1>6, <1>7, <1>8, <1>9 DEF CustodyInv

LEMMA JournalArmedKeeps ==
  ASSUME CustodyInv, JournalArmed
  PROVE  CustodyInv'
<1>1. Types'
  BY DEF CustodyInv, Types, JournalArmed, Phases, Frames, Verdicts
<1>2. Numbered'
  BY DEF CustodyInv, Numbered, Types, JournalArmed
<1>3. Locked'
  BY DEF CustodyInv, Locked, Types, JournalArmed
<1>4. Piped'
  BY DEF CustodyInv, Piped, Types, JournalArmed
<1>5. Journalled'
  BY DEF CustodyInv, Journalled, Types, Numbered, JournalArmed, Phases
<1>6. Restoring'
  BY DEF CustodyInv, Restoring, Types, JournalArmed
<1>7. Kept'
  BY Numbers DEF CustodyInv, Kept, Types, Numbered, Locked, Journalled, JournalArmed, Known,
     Completed
<1>8. RefusedOnlyWhenUnproven'
  BY DEF CustodyInv, RefusedOnlyWhenUnproven, Types, JournalArmed
<1>9. HandedOver'
  BY DEF CustodyInv, HandedOver, Types, JournalArmed
<1> QED
  BY <1>1, <1>2, <1>3, <1>4, <1>5, <1>6, <1>7, <1>8, <1>9 DEF CustodyInv

LEMMA ReceiveObservedKeeps ==
  ASSUME CustodyInv, ReceiveObserved
  PROVE  CustodyInv'
<1>1. Types'
  BY DEF CustodyInv, Types, ReceiveObserved, Phases, Frames, Verdicts
<1>2. Numbered'
  BY DEF CustodyInv, Numbered, Types, ReceiveObserved
<1>3. Locked'
  BY DEF CustodyInv, Locked, Types, ReceiveObserved
<1>4. Piped'
  BY DEF CustodyInv, Piped, Types, ReceiveObserved
<1>5. Journalled'
  BY DEF CustodyInv, Journalled, Types, ReceiveObserved, Phases
<1>6. Restoring'
  BY DEF CustodyInv, Restoring, Types, ReceiveObserved
<1>7. Kept'
  BY DEF CustodyInv, Kept, Types, ReceiveObserved, Known, Completed
<1>8. RefusedOnlyWhenUnproven'
  BY DEF CustodyInv, RefusedOnlyWhenUnproven, Types, ReceiveObserved
<1>9. HandedOver'
  BY DEF CustodyInv, HandedOver, Types, ReceiveObserved
<1> QED
  BY <1>1, <1>2, <1>3, <1>4, <1>5, <1>6, <1>7, <1>8, <1>9 DEF CustodyInv

LEMMA AttestAfterKeeps ==
  ASSUME CustodyInv, AttestAfter
  PROVE  CustodyInv'
<1>1. Types'
  BY DEF CustodyInv, Types, Numbered, AttestAfter, Phases, Frames, Verdicts
<1>2. Numbered'
  BY DEF CustodyInv, Numbered, Types, AttestAfter
<1>3. Locked'
  BY DEF CustodyInv, Locked, Types, AttestAfter
<1>4. Piped'
  BY DEF CustodyInv, Piped, Types, AttestAfter
<1>5. Journalled'
  BY DEF CustodyInv, Journalled, Types, Numbered, AttestAfter, Phases
<1>6. Restoring'
  BY DEF CustodyInv, Restoring, Types, AttestAfter
<1>7. Kept'
  BY DEF CustodyInv, Kept, Types, AttestAfter, Known, Completed
<1>8. RefusedOnlyWhenUnproven'
  BY DEF CustodyInv, RefusedOnlyWhenUnproven, Types, AttestAfter
<1>9. HandedOver'
  BY DEF CustodyInv, HandedOver, Types, AttestAfter
<1> QED
  BY <1>1, <1>2, <1>3, <1>4, <1>5, <1>6, <1>7, <1>8, <1>9 DEF CustodyInv

LEMMA JournalObservedKeeps ==
  ASSUME CustodyInv, JournalObserved
  PROVE  CustodyInv'
<1>1. Types'
  BY DEF CustodyInv, Types, JournalObserved, Phases, Frames, Verdicts
<1>2. Numbered'
  BY DEF CustodyInv, Numbered, Types, JournalObserved
<1>3. Locked'
  BY DEF CustodyInv, Locked, Types, JournalObserved
<1>4. Piped'
  BY DEF CustodyInv, Piped, Types, Numbered, JournalObserved
<1>5. Journalled'
  BY DEF CustodyInv, Journalled, Types, Numbered, JournalObserved, Phases
<1>6. Restoring'
  BY DEF CustodyInv, Restoring, Types, JournalObserved
<1>7. Kept'
  BY Numbers DEF CustodyInv, Kept, Types, Numbered, Locked, Journalled, JournalObserved, Known,
     Completed
<1>8. RefusedOnlyWhenUnproven'
  BY DEF CustodyInv, RefusedOnlyWhenUnproven, Types, JournalObserved
<1>9. HandedOver'
  BY DEF CustodyInv, HandedOver, Types, JournalObserved
<1> QED
  BY <1>1, <1>2, <1>3, <1>4, <1>5, <1>6, <1>7, <1>8, <1>9 DEF CustodyInv

LEMMA ReceiveFinalizedKeeps ==
  ASSUME CustodyInv, ReceiveFinalized
  PROVE  CustodyInv'
<1>1. Types'
  BY DEF CustodyInv, Types, ReceiveFinalized, Phases, Frames, Verdicts
<1>2. Numbered'
  BY DEF CustodyInv, Numbered, Types, ReceiveFinalized
<1>3. Locked'
  BY DEF CustodyInv, Locked, Types, ReceiveFinalized
<1>4. Piped'
  BY DEF CustodyInv, Piped, Types, ReceiveFinalized
<1>5. Journalled'
  BY DEF CustodyInv, Journalled, Types, ReceiveFinalized, Phases
<1>6. Restoring'
  BY DEF CustodyInv, Restoring, Types, ReceiveFinalized
<1>7. Kept'
  BY DEF CustodyInv, Kept, Types, ReceiveFinalized, Known, Completed
<1>8. RefusedOnlyWhenUnproven'
  BY DEF CustodyInv, RefusedOnlyWhenUnproven, Types, ReceiveFinalized
<1>9. HandedOver'
  BY DEF CustodyInv, HandedOver, Types, ReceiveFinalized
<1> QED
  BY <1>1, <1>2, <1>3, <1>4, <1>5, <1>6, <1>7, <1>8, <1>9 DEF CustodyInv

LEMMA ReceiveCancelledKeeps ==
  ASSUME CustodyInv, ReceiveCancelled
  PROVE  CustodyInv'
<1>1. Types'
  BY DEF CustodyInv, Types, ReceiveCancelled, Phases, Frames, Verdicts
<1>2. Numbered'
  BY DEF CustodyInv, Numbered, Types, ReceiveCancelled
<1>3. Locked'
  BY DEF CustodyInv, Locked, Types, ReceiveCancelled
<1>4. Piped'
  BY DEF CustodyInv, Piped, Types, ReceiveCancelled
<1>5. Journalled'
  BY DEF CustodyInv, Journalled, Types, ReceiveCancelled, Phases
<1>6. Restoring'
  BY DEF CustodyInv, Restoring, Types, ReceiveCancelled
<1>7. Kept'
  BY DEF CustodyInv, Kept, Types, ReceiveCancelled, Known, Completed
<1>8. RefusedOnlyWhenUnproven'
  BY DEF CustodyInv, RefusedOnlyWhenUnproven, Types, ReceiveCancelled
<1>9. HandedOver'
  BY DEF CustodyInv, HandedOver, Types, ReceiveCancelled
<1> QED
  BY <1>1, <1>2, <1>3, <1>4, <1>5, <1>6, <1>7, <1>8, <1>9 DEF CustodyInv

LEMMA ReceiveUnexpectedKeeps ==
  ASSUME CustodyInv, ReceiveUnexpected
  PROVE  CustodyInv'
<1>1. Types'
  BY DEF CustodyInv, Types, ReceiveUnexpected, Phases, Frames, Verdicts
<1>2. Numbered'
  BY Numbers, Shorter, Longer DEF CustodyInv, Numbered, Types, Piped, Locked, ReceiveUnexpected
<1>3. Locked'
  BY DEF CustodyInv, Locked, Types, ReceiveUnexpected
<1>4. Piped'
  BY DEF CustodyInv, Piped, Types, ReceiveUnexpected
<1>5. Journalled'
  BY DEF CustodyInv, Journalled, Types, ReceiveUnexpected, Phases
<1>6. Restoring'
  BY DEF CustodyInv, Restoring, Types, ReceiveUnexpected
<1>7. Kept'
  BY DEF CustodyInv, Kept, Types, ReceiveUnexpected, Known, Completed
<1>8. RefusedOnlyWhenUnproven'
  BY DEF CustodyInv, RefusedOnlyWhenUnproven, Types, ReceiveUnexpected
<1>9. HandedOver'
  BY DEF CustodyInv, HandedOver, Types, ReceiveUnexpected
<1> QED
  BY <1>1, <1>2, <1>3, <1>4, <1>5, <1>6, <1>7, <1>8, <1>9 DEF CustodyInv

LEMMA ReceiveEndKeeps ==
  ASSUME CustodyInv, ReceiveEnd
  PROVE  CustodyInv'
<1>1. Types'
  BY DEF CustodyInv, Types, ReceiveEnd, Phases, Frames, Verdicts
<1>2. Numbered'
  BY DEF CustodyInv, Numbered, Types, ReceiveEnd
<1>3. Locked'
  BY DEF CustodyInv, Locked, Types, ReceiveEnd
<1>4. Piped'
  BY DEF CustodyInv, Piped, Types, ReceiveEnd
<1>5. Journalled'
  BY DEF CustodyInv, Journalled, Types, ReceiveEnd, Phases
<1>6. Restoring'
  BY DEF CustodyInv, Restoring, Types, ReceiveEnd
<1>7. Kept'
  BY DEF CustodyInv, Kept, Types, ReceiveEnd, Known, Completed
<1>8. RefusedOnlyWhenUnproven'
  BY DEF CustodyInv, RefusedOnlyWhenUnproven, Types, ReceiveEnd
<1>9. HandedOver'
  BY DEF CustodyInv, HandedOver, Types, ReceiveEnd
<1> QED
  BY <1>1, <1>2, <1>3, <1>4, <1>5, <1>6, <1>7, <1>8, <1>9 DEF CustodyInv

\* finish() takes the FIFO away and leaves the directory to the operator.
LEMMA FifoUnlinked ==
  ASSUME CustodyInv, UNCHANGED dirs \/ (Finishable /\ UnlinkFifo)
  PROVE  /\ dirs' \in [Starts -> Stages]
         /\ \A a \in Starts : dirs'[a] # "none" => dirs[a] # "none"
         /\ \A a \in Starts : HalfMade(a)' => HalfMade(a)
         /\ UNCHANGED dirs \/ dirs[attempt] = "whole"
<1>1. dirs \in [Starts -> Stages]
  BY DEF CustodyInv, Types
<1>2. CASE UNCHANGED dirs
  BY <1>1, <1>2
<1>3. CASE Finishable /\ UnlinkFifo
  BY <1>1, <1>3 DEF Finishable, UnlinkFifo, Stages
<1> QED
  BY <1>2, <1>3

LEMMA FinishKeeps ==
  ASSUME CustodyInv, Finish
  PROVE  CustodyInv'
<1>1. /\ Finishable => ~lock /\ ledger.form = "whole" /\ AllEnded(ledger.entries)
      /\ dirs' \in [Starts -> Stages]
      /\ \A a \in Starts : dirs'[a] # "none" => dirs[a] # "none"
      /\ \A a \in Starts : HalfMade(a)' => HalfMade(a)
  BY TerminalEntries, FifoUnlinked DEF Finish, Finishable, LedgerIsFinal, CustodyInv, Types, Ordered
<1>2. Types'
  BY <1>1 DEF CustodyInv, Types, Finish, Phases, Frames, Verdicts
<1>3. Numbered'
  BY <1>1 DEF CustodyInv, Numbered, Types, Finish
<1>4. Locked'
  BY <1>1 DEF CustodyInv, Locked, Types, Finish
<1>5. Piped'
  BY <1>1 DEF CustodyInv, Piped, Types, Finish
<1>6. Journalled'
  BY <1>1 DEF CustodyInv, Journalled, Types, Finish, Phases
<1>7. Restoring'
  BY <1>1 DEF CustodyInv, Restoring, Types, Finish
<1>8. Kept'
  BY <1>1 DEF CustodyInv, Kept, Types, Finish, Known, Completed
<1>9. RefusedOnlyWhenUnproven'
  BY <1>1 DEF CustodyInv, RefusedOnlyWhenUnproven, Types, Finish
<1>10. HandedOver'
  BY <1>1 DEF CustodyInv, HandedOver, Types, Finish
<1> QED
  BY <1>2, <1>3, <1>4, <1>5, <1>6, <1>7, <1>8, <1>9, <1>10 DEF CustodyInv

LEMMA UnlinkReadyKeeps ==
  ASSUME CustodyInv, UnlinkReady
  PROVE  CustodyInv'
<1>1. Types'
  BY DEF CustodyInv, Types, UnlinkReady, Phases, Frames, Verdicts
<1>2. Numbered'
  BY DEF CustodyInv, Numbered, Types, UnlinkReady
<1>3. Locked'
  BY DEF CustodyInv, Locked, Types, UnlinkReady
<1>4. Piped'
  BY DEF CustodyInv, Piped, Types, UnlinkReady
<1>5. Journalled'
  BY DEF CustodyInv, Journalled, Types, UnlinkReady, Phases
<1>6. Restoring'
  BY DEF CustodyInv, Restoring, Types, UnlinkReady
<1>7. Kept'
  BY DEF CustodyInv, Kept, Types, UnlinkReady, Known, Completed
<1>8. RefusedOnlyWhenUnproven'
  BY DEF CustodyInv, RefusedOnlyWhenUnproven, Types, UnlinkReady
<1>9. HandedOver'
  BY DEF CustodyInv, HandedOver, Types, UnlinkReady
<1> QED
  BY <1>1, <1>2, <1>3, <1>4, <1>5, <1>6, <1>7, <1>8, <1>9 DEF CustodyInv

LEMMA UnlinkDeploymentKeeps ==
  ASSUME CustodyInv, UnlinkDeployment
  PROVE  CustodyInv'
<1>1. Types'
  BY DEF CustodyInv, Types, UnlinkDeployment, Phases, Frames, Verdicts
<1>2. Numbered'
  BY DEF CustodyInv, Numbered, Types, UnlinkDeployment
<1>3. Locked'
  BY DEF CustodyInv, Locked, Types, UnlinkDeployment
<1>4. Piped'
  BY DEF CustodyInv, Piped, Types, UnlinkDeployment
<1>5. Journalled'
  BY DEF CustodyInv, Journalled, Types, UnlinkDeployment, Phases
<1>6. Restoring'
  BY DEF CustodyInv, Restoring, Types, UnlinkDeployment
<1>7. Kept'
  BY DEF CustodyInv, Kept, Types, UnlinkDeployment, Known, Completed
<1>8. RefusedOnlyWhenUnproven'
  BY DEF CustodyInv, RefusedOnlyWhenUnproven, Types, UnlinkDeployment
<1>9. HandedOver'
  BY DEF CustodyInv, HandedOver, Types, UnlinkDeployment
<1> QED
  BY <1>1, <1>2, <1>3, <1>4, <1>5, <1>6, <1>7, <1>8, <1>9 DEF CustodyInv

LEMMA CompleteKeeps ==
  ASSUME CustodyInv, Complete
  PROVE  CustodyInv'
<1>1. Types'
  BY DEF CustodyInv, Types, Complete, Phases, Frames, Verdicts
<1>2. Numbered'
  BY DEF CustodyInv, Numbered, Types, Complete
<1>3. Locked'
  BY DEF CustodyInv, Locked, Types, Complete
<1>4. Piped'
  BY DEF CustodyInv, Piped, Types, Complete
<1>5. Journalled'
  BY Numbers DEF CustodyInv, Journalled, Types, Numbered, Locked, Complete, Phases
<1>6. Restoring'
  BY DEF CustodyInv, Restoring, Types, Complete
<1>7. Kept'
  BY DEF CustodyInv, Kept, Types, Complete, Known, Completed
<1>8. RefusedOnlyWhenUnproven'
  BY DEF CustodyInv, RefusedOnlyWhenUnproven, Types, Complete
<1>9. HandedOver'
  BY DEF CustodyInv, HandedOver, Types, Complete
<1> QED
  BY <1>1, <1>2, <1>3, <1>4, <1>5, <1>6, <1>7, <1>8, <1>9 DEF CustodyInv

LEMMA TerminateKeeps ==
  ASSUME CustodyInv, Terminate
  PROVE  CustodyInv'
<1>1. /\ child' = [pc |-> child'.pc, result |-> child'.result, clean |-> child'.clean, stop |-> child'.stop]
      /\ child'.pc = child.pc /\ child'.result = child.result /\ child'.clean = child.clean
      /\ child'.stop = TRUE
  BY DEF CustodyInv, Types, Terminate, Pc
<1>2. Types'
  BY <1>1 DEF CustodyInv, Types, Terminate, Phases, Frames, Verdicts
<1>3. Numbered'
  BY <1>1 DEF CustodyInv, Numbered, Types, Terminate
<1>4. Locked'
  BY <1>1 DEF CustodyInv, Locked, Types, Terminate
<1>5. Piped'
  BY <1>1 DEF CustodyInv, Piped, Types, Terminate
<1>6. Journalled'
  BY <1>1 DEF CustodyInv, Journalled, Types, Terminate, Phases
<1>7. Restoring'
  BY <1>1 DEF CustodyInv, Restoring, Types, Terminate
<1>8. Kept'
  BY <1>1 DEF CustodyInv, Kept, Types, Terminate, Known, Completed
<1>9. RefusedOnlyWhenUnproven'
  BY <1>1 DEF CustodyInv, RefusedOnlyWhenUnproven, Types, Terminate
<1>10. HandedOver'
  BY <1>1 DEF CustodyInv, HandedOver, Types, Terminate
<1> QED
  BY <1>2, <1>3, <1>4, <1>5, <1>6, <1>7, <1>8, <1>9, <1>10 DEF CustodyInv

LEMMA AbortedKeeps ==
  ASSUME CustodyInv, Aborted
  PROVE  CustodyInv'
<1>1. /\ Finishable => ~lock /\ ledger.form = "whole" /\ AllEnded(ledger.entries)
      /\ dirs' \in [Starts -> Stages]
      /\ \A a \in Starts : dirs'[a] # "none" => dirs[a] # "none"
      /\ \A a \in Starts : HalfMade(a)' => HalfMade(a)
  BY TerminalEntries, FifoUnlinked DEF Aborted, Finishable, LedgerIsFinal, CustodyInv, Types, Ordered
<1>2. child' = child \/ (child' = NoChild /\ pc' = "off")
  BY DEF Aborted, Proceed
<1>3. /\ child' = [pc |-> child'.pc, result |-> child'.result, clean |-> child'.clean, stop |-> child'.stop]
      /\ child'.pc \in {"exited", "none"} /\ child'.result \in Verdicts
      /\ child'.clean \in BOOLEAN /\ child'.stop \in BOOLEAN
  <2>1. CASE child' = child
    BY <2>1 DEF Aborted, CustodyInv, Types
  <2>2. CASE child' = NoChild
    BY <2>2 DEF NoChild, Verdicts
  <2> QED
    BY <1>2, <2>1, <2>2
<1>4. Types'
  BY <1>1, <1>2, <1>3, NoEntries DEF CustodyInv, Types, Aborted, OrderlyCancelled, Phases, Frames,
     Verdicts
<1>5. Numbered'
  BY <1>1, <1>2, <1>3, NoEntries DEF CustodyInv, Numbered, Types, Aborted, OrderlyCancelled
<1>6. Locked'
  BY <1>1, <1>2, <1>3, NoEntries DEF CustodyInv, Locked, Types, Aborted, OrderlyCancelled
<1>7. Piped'
  BY <1>1, <1>2, <1>3, NoEntries DEF CustodyInv, Piped, Types, Aborted, OrderlyCancelled
<1>8. Journalled'
  BY <1>1, <1>2, <1>3, NoEntries DEF CustodyInv, Journalled, Types, Aborted, OrderlyCancelled, Phases
<1>9. Restoring'
  BY <1>1, <1>2, <1>3, NoEntries DEF CustodyInv, Restoring, Types, Aborted, OrderlyCancelled
<1>10. Kept'
  BY <1>1, <1>2, <1>3, NoEntries DEF CustodyInv, Kept, Types, Aborted, OrderlyCancelled, Known,
     Completed
<1>11. RefusedOnlyWhenUnproven'
  BY <1>1, <1>2, <1>3, NoEntries DEF CustodyInv, RefusedOnlyWhenUnproven, Types, Aborted,
     OrderlyCancelled
<1>12. HandedOver'
  <2>1. \A a \in Starts : HalfMade(a) => current.phase = "prepared" /\ current.attempt = a
    BY DEF CustodyInv, HandedOver
  <2>2. UNCHANGED current
    BY DEF Aborted
  <2>3. pc' = "off" \/ (pc' = "unlink_ready" /\ attempt # 0 /\ dirs[attempt] = "whole" /\ UnlinkFifo)
    BY DEF Aborted, OrderlyCancelled, Finishable
  <2>4. pc' = "unlink_ready" => \A a \in Starts : ~HalfMade(a)
    <3>1. pc' = "unlink_ready" => current.attempt = attempt
      BY <2>3 DEF Aborted, CustodyInv, Journalled
    <3>2. pc' = "unlink_ready" => ~HalfMade(attempt)
      BY <2>3
    <3> QED
      BY <2>1, <3>1, <3>2
  <2> QED
    BY <1>1, <2>1, <2>2, <2>3, <2>4 DEF HandedOver
<1> QED
  BY <1>4, <1>5, <1>6, <1>7, <1>8, <1>9, <1>10, <1>11, <1>12 DEF CustodyInv

-----------------------------------------------------------------------------
(* The child *)

LEMMA OpenLedgerKeeps ==
  ASSUME CustodyInv, OpenLedger
  PROVE  CustodyInv'
<1>1. AllEnded(ledger.entries) /\ starts \in Nat
  BY TerminalEntries, Numbers DEF OpenLedger, CustodyInv, Types, Ordered
<1>2. Types'
  BY <1>1 DEF CustodyInv, Types, OpenLedger, Phases, Frames, Verdicts
<1>3. Numbered'
  BY <1>1 DEF CustodyInv, Numbered, Types, OpenLedger
<1>4. Locked'
  BY <1>1 DEF CustodyInv, Locked, Types, OpenLedger
<1>5. Piped'
  BY <1>1 DEF CustodyInv, Piped, Types, OpenLedger
<1>6. Journalled'
  BY <1>1 DEF CustodyInv, Journalled, Types, OpenLedger, Phases
<1>7. Restoring'
  BY <1>1 DEF CustodyInv, Restoring, Types, OpenLedger
<1>8. Kept'
  BY <1>1 DEF CustodyInv, Kept, Types, OpenLedger, Known, Completed
<1>9. RefusedOnlyWhenUnproven'
  BY <1>1 DEF CustodyInv, RefusedOnlyWhenUnproven, Types, OpenLedger
<1>10. HandedOver'
  BY <1>1 DEF CustodyInv, HandedOver, Types, OpenLedger
<1> QED
  BY <1>2, <1>3, <1>4, <1>5, <1>6, <1>7, <1>8, <1>9, <1>10 DEF CustodyInv

LEMMA PrepareKeeps ==
  ASSUME CustodyInv, Prepare
  PROVE  CustodyInv'
<1>1. /\ ledger'.form = "whole" /\ ledger'.entries # <<>> /\ Ordered(ledger'.entries, starts)
      /\ EndsWith(ledger'.entries, starts) /\ starts \in IdsOf(ledger'.entries)
      /\ IdsOf(ledger.entries) \subseteq IdsOf(ledger'.entries)
      /\ ledger'.entries[Len(ledger'.entries)].id = starts
      /\ ~Terminal(ledger'.entries[Len(ledger'.entries)])
      /\ Counts(ledger'.entries) = Counts(ledger.entries)
  BY RecordMakes DEF CustodyInv, Prepare, Working, States, Verdicts
<1>2. attempt = 0 /\ starts \in Nat
  BY Numbers, Later DEF CustodyInv, Types, Numbered, Prepare, Serving, Controlling, NoChild
<1>3. Types'
  BY <1>1, <1>2, Numbers, Shorter, Longer DEF CustodyInv, Types, Numbered, Piped, Locked, Prepare,
     Phases, Frames, Verdicts
<1>4. Numbered'
  BY <1>1, <1>2 DEF CustodyInv, Numbered, Types, Prepare
<1>5. Locked'
  BY <1>1, <1>2 DEF CustodyInv, Locked, Types, Prepare
<1>6. Piped'
  BY <1>1, <1>2 DEF CustodyInv, Piped, Types, Prepare
<1>7. Journalled'
  BY <1>1, <1>2 DEF CustodyInv, Journalled, Types, Prepare, Phases
<1>8. Restoring'
  BY <1>1, <1>2 DEF CustodyInv, Restoring, Types, Prepare
<1>9. Kept'
  BY <1>1, <1>2, Numbers DEF CustodyInv, Kept, Types, Numbered, Locked, Journalled, Prepare, Known,
     Completed
<1>10. RefusedOnlyWhenUnproven'
  BY <1>1, <1>2 DEF CustodyInv, RefusedOnlyWhenUnproven, Types, Prepare
<1>11. HandedOver'
  BY <1>1, <1>2 DEF CustodyInv, HandedOver, Types, Prepare
<1> QED
  BY <1>3, <1>4, <1>5, <1>6, <1>7, <1>8, <1>9, <1>10, <1>11 DEF CustodyInv

LEMMA BeginArmKeeps ==
  ASSUME CustodyInv, BeginArm
  PROVE  CustodyInv'
<1>1. Types'
  BY DEF CustodyInv, Types, BeginArm, Phases, Frames, Verdicts
<1>2. Numbered'
  BY DEF CustodyInv, Numbered, Types, BeginArm
<1>3. Locked'
  BY DEF CustodyInv, Locked, Types, BeginArm
<1>4. Piped'
  BY DEF CustodyInv, Piped, Types, BeginArm
<1>5. Journalled'
  BY DEF CustodyInv, Journalled, Types, BeginArm, Phases
<1>6. Restoring'
  BY DEF CustodyInv, Restoring, Types, BeginArm
<1>7. Kept'
  BY DEF CustodyInv, Kept, Types, BeginArm, Known, Completed
<1>8. RefusedOnlyWhenUnproven'
  BY DEF CustodyInv, RefusedOnlyWhenUnproven, Types, BeginArm
<1>9. HandedOver'
  BY DEF CustodyInv, HandedOver, Types, BeginArm
<1> QED
  BY <1>1, <1>2, <1>3, <1>4, <1>5, <1>6, <1>7, <1>8, <1>9 DEF CustodyInv

LEMMA ArmKeeps ==
  ASSUME CustodyInv, Arm
  PROVE  CustodyInv'
<1>1. /\ ledger'.form = "whole" /\ ledger'.entries # <<>> /\ Ordered(ledger'.entries, starts)
      /\ EndsWith(ledger'.entries, starts) /\ starts \in IdsOf(ledger'.entries)
      /\ IdsOf(ledger.entries) \subseteq IdsOf(ledger'.entries)
      /\ ledger'.entries[Len(ledger'.entries)].id = starts
      /\ ~Terminal(ledger'.entries[Len(ledger'.entries)])
      /\ Counts(ledger'.entries) = Counts(ledger.entries)
  BY RecordMakes DEF CustodyInv, Arm, Working, States, Verdicts
<1>2. Types'
  BY <1>1, Numbers, Shorter, Longer DEF CustodyInv, Types, Numbered, Piped, Locked, Arm, Phases,
     Frames, Verdicts
<1>3. Numbered'
  BY <1>1 DEF CustodyInv, Numbered, Types, Arm
<1>4. Locked'
  BY <1>1 DEF CustodyInv, Locked, Types, Arm
<1>5. Piped'
  BY <1>1 DEF CustodyInv, Piped, Types, Arm
<1>6. Journalled'
  BY <1>1 DEF CustodyInv, Journalled, Types, Arm, Phases
<1>7. Restoring'
  BY <1>1 DEF CustodyInv, Restoring, Types, Arm
<1>8. Kept'
  BY <1>1, Numbers DEF CustodyInv, Kept, Types, Numbered, Locked, Journalled, Arm, Known, Completed
<1>9. RefusedOnlyWhenUnproven'
  BY <1>1 DEF CustodyInv, RefusedOnlyWhenUnproven, Types, Arm
<1>10. HandedOver'
  BY <1>1 DEF CustodyInv, HandedOver, Types, Arm
<1> QED
  BY <1>2, <1>3, <1>4, <1>5, <1>6, <1>7, <1>8, <1>9, <1>10 DEF CustodyInv

LEMMA ArmFailsKeeps ==
  ASSUME CustodyInv, ArmFails
  PROVE  CustodyInv'
<1>1. Types'
  BY DEF CustodyInv, Types, ArmFails, Phases, Frames, Verdicts
<1>2. Numbered'
  BY DEF CustodyInv, Numbered, Types, ArmFails
<1>3. Locked'
  BY DEF CustodyInv, Locked, Types, ArmFails
<1>4. Piped'
  BY DEF CustodyInv, Piped, Types, ArmFails
<1>5. Journalled'
  BY DEF CustodyInv, Journalled, Types, ArmFails, Phases
<1>6. Restoring'
  BY DEF CustodyInv, Restoring, Types, ArmFails
<1>7. Kept'
  BY DEF CustodyInv, Kept, Types, ArmFails, Known, Completed
<1>8. RefusedOnlyWhenUnproven'
  BY DEF CustodyInv, RefusedOnlyWhenUnproven, Types, ArmFails
<1>9. HandedOver'
  BY DEF CustodyInv, HandedOver, Types, ArmFails
<1> QED
  BY <1>1, <1>2, <1>3, <1>4, <1>5, <1>6, <1>7, <1>8, <1>9 DEF CustodyInv

LEMMA ConsumeEventKeeps ==
  ASSUME CustodyInv, ConsumeEvent
  PROVE  CustodyInv'
<1>1. /\ ledger'.form = "whole" /\ ledger'.entries # <<>> /\ Ordered(ledger'.entries, starts)
      /\ EndsWith(ledger'.entries, starts) /\ starts \in IdsOf(ledger'.entries)
      /\ IdsOf(ledger.entries) \subseteq IdsOf(ledger'.entries)
      /\ ledger'.entries[Len(ledger'.entries)].id = starts
      /\ ~Terminal(ledger'.entries[Len(ledger'.entries)])
      /\ Counts(ledger'.entries) = Counts(ledger.entries)
  BY RecordMakes DEF CustodyInv, ConsumeEvent, Working, States, Verdicts
<1>2. Types'
  BY <1>1 DEF CustodyInv, Types, ConsumeEvent, Phases, Frames, Verdicts
<1>3. Numbered'
  BY <1>1 DEF CustodyInv, Numbered, Types, ConsumeEvent
<1>4. Locked'
  BY <1>1 DEF CustodyInv, Locked, Types, ConsumeEvent
<1>5. Piped'
  BY <1>1 DEF CustodyInv, Piped, Types, ConsumeEvent
<1>6. Journalled'
  BY <1>1 DEF CustodyInv, Journalled, Types, ConsumeEvent, Phases
<1>7. Restoring'
  BY <1>1 DEF CustodyInv, Restoring, Types, ConsumeEvent
<1>8. Kept'
  BY <1>1, Numbers DEF CustodyInv, Kept, Types, Numbered, Locked, Journalled, ConsumeEvent, Known,
     Completed
<1>9. RefusedOnlyWhenUnproven'
  BY <1>1 DEF CustodyInv, RefusedOnlyWhenUnproven, Types, ConsumeEvent
<1>10. HandedOver'
  BY <1>1 DEF CustodyInv, HandedOver, Types, ConsumeEvent
<1> QED
  BY <1>2, <1>3, <1>4, <1>5, <1>6, <1>7, <1>8, <1>9, <1>10 DEF CustodyInv

LEMMA ObserveRunKeeps ==
  ASSUME CustodyInv, ObserveRun
  PROVE  CustodyInv'
<1>1. /\ child' = [pc |-> child'.pc, result |-> child'.result, clean |-> child'.clean, stop |-> child'.stop]
      /\ child'.pc = "seen" /\ child'.result \in Verdicts /\ child'.clean \in BOOLEAN
      /\ child'.stop = child.stop
  BY DEF CustodyInv, Types, ObserveRun, Pc
<1>2. Types'
  BY <1>1, Numbers, Shorter, Longer DEF CustodyInv, Types, Numbered, Piped, Locked, ObserveRun,
     Phases, Frames, Verdicts
<1>3. Numbered'
  BY <1>1 DEF CustodyInv, Numbered, Types, ObserveRun
<1>4. Locked'
  BY <1>1 DEF CustodyInv, Locked, Types, ObserveRun
<1>5. Piped'
  BY <1>1 DEF CustodyInv, Piped, Types, ObserveRun
<1>6. Journalled'
  BY <1>1 DEF CustodyInv, Journalled, Types, ObserveRun, Phases
<1>7. Restoring'
  BY <1>1 DEF CustodyInv, Restoring, Types, ObserveRun
<1>8. Kept'
  BY <1>1 DEF CustodyInv, Kept, Types, ObserveRun, Known, Completed
<1>9. RefusedOnlyWhenUnproven'
  BY <1>1 DEF CustodyInv, RefusedOnlyWhenUnproven, Types, ObserveRun
<1>10. HandedOver'
  BY <1>1 DEF CustodyInv, HandedOver, Types, ObserveRun
<1> QED
  BY <1>2, <1>3, <1>4, <1>5, <1>6, <1>7, <1>8, <1>9, <1>10 DEF CustodyInv

LEMMA FinalizeKeeps ==
  ASSUME CustodyInv, Finalize
  PROVE  CustodyInv'
<1>1. /\ child.pc = "seen" /\ cmd = "FINALIZE" /\ cmd' = "none"
      /\ UNCHANGED <<allButLedger, root, frames, auxUnclean, auxTorn>>
      /\ starts \in Nat /\ starts # 0
  BY Numbers DEF Finalize, CustodyInv, Types, Serving, Controlling, NoChild
<1>2. /\ ledger'.form = "whole" /\ ledger'.entries # <<>> /\ Ordered(ledger'.entries, starts)
      /\ EndsWith(ledger'.entries, starts) /\ starts \in IdsOf(ledger'.entries)
      /\ IdsOf(ledger.entries) \subseteq IdsOf(ledger'.entries)
      /\ ledger'.entries[Len(ledger'.entries)].id = starts
      /\ AllEnded(ledger'.entries)
      /\ Counts(ledger.entries) = Pairs(auxVerdict) => Counts(ledger'.entries) = Pairs(auxVerdict')
  <2>1. CASE Final = "INCONCLUSIVE"
    <3>1. Record("inconclusive", "INCONCLUSIVE") /\ UNCHANGED auxVerdict
      BY <2>1 DEF Finalize
    <3> QED
      BY <1>1, <3>1, RecordMakes DEF CustodyInv, Working, States, Verdicts
  <2>2. CASE Final # "INCONCLUSIVE"
    <3> DEFINE v == Final
    <3>1. /\ Record("completed", v) /\ v \in Verdicts
          /\ auxVerdict' = With(auxVerdict, starts, v)
      BY <2>2 DEF With, Finalize, Final, CustodyInv, Types
    <3> HIDE DEF v
    <3>2. /\ ledger'.form = "whole" /\ ledger'.entries # <<>>
          /\ Ordered(ledger'.entries, starts)
          /\ EndsWith(ledger'.entries, starts) /\ starts \in IdsOf(ledger'.entries)
          /\ IdsOf(ledger.entries) \subseteq IdsOf(ledger'.entries)
          /\ ledger'.entries[Len(ledger'.entries)].id = starts
          /\ AllEnded(ledger'.entries)
          /\ Counts(ledger'.entries) = Counts(ledger.entries) \cup {<<starts, v>>}
          /\ \A w : <<starts, w>> \notin Counts(ledger.entries)
      BY <1>1, <3>1, RecordMakes DEF CustodyInv, Working, States
    <3>3. Counts(ledger.entries) = Pairs(auxVerdict) =>
            Pairs(auxVerdict') = Pairs(auxVerdict) \cup {<<starts, v>>}
      <4> SUFFICES ASSUME Counts(ledger.entries) = Pairs(auxVerdict)
                   PROVE  Pairs(auxVerdict') = Pairs(auxVerdict) \cup {<<starts, v>>}
        OBVIOUS
      <4>1. \A w : <<starts, w>> \notin Pairs(auxVerdict)
        BY <3>2
      <4> QED
        BY <3>1, <4>1, OneMore
    <3> QED
      BY <3>2, <3>3
  <2> QED
    BY <2>1, <2>2
<1>3. /\ child' = [pc |-> child'.pc, result |-> child'.result, clean |-> child'.clean, stop |-> child'.stop]
      /\ child'.pc = "closing" /\ child'.result \in Verdicts /\ child'.clean = child.clean
      /\ child'.stop = child.stop
  BY DEF CustodyInv, Types, Finalize, Final, Verdicts
<1>4. Counts(ledger.entries) = Completed => Counts(ledger'.entries) = Completed'
  BY <1>2 DEF Completed, Pairs
<1>5. Types'
  BY <1>1, <1>2, <1>3, <1>4 DEF CustodyInv, Types, Phases, Frames, Verdicts
<1>6. Numbered'
  BY <1>1, <1>2, <1>3, <1>4 DEF CustodyInv, Numbered, Types
<1>7. Locked'
  BY <1>1, <1>2, <1>3, <1>4 DEF CustodyInv, Locked, Types
<1>8. Piped'
  BY <1>1, <1>2, <1>3, <1>4 DEF CustodyInv, Piped, Types
<1>9. Journalled'
  BY <1>1, <1>2, <1>3, <1>4 DEF CustodyInv, Journalled, Types, Phases
<1>10. Restoring'
  BY <1>1, <1>2, <1>3, <1>4 DEF CustodyInv, Restoring, Types
<1>11. Kept'
  BY <1>1, <1>2, <1>3, <1>4, Numbers DEF CustodyInv, Kept, Types, Numbered, Locked, Journalled,
     Known, Completed
<1>12. RefusedOnlyWhenUnproven'
  BY <1>1, <1>2, <1>3, <1>4 DEF CustodyInv, RefusedOnlyWhenUnproven, Types
<1>13. HandedOver'
  BY <1>1, <1>2, <1>3, <1>4 DEF CustodyInv, HandedOver, Types
<1> QED
  BY <1>5, <1>6, <1>7, <1>8, <1>9, <1>10, <1>11, <1>12, <1>13 DEF CustodyInv

LEMMA CloseFinalKeeps ==
  ASSUME CustodyInv, CloseFinal
  PROVE  CustodyInv'
<1>1. /\ child' = [pc |-> child'.pc, result |-> child'.result, clean |-> child'.clean, stop |-> child'.stop]
      /\ child'.pc = "reporting" /\ child'.result = child.result
      /\ child'.clean = child.clean /\ child'.stop = child.stop
  BY DEF CustodyInv, Types, CloseFinal, Pc, Close
<1>2. Types'
  BY <1>1 DEF CustodyInv, Types, CloseFinal, Close, Phases, Frames, Verdicts
<1>3. Numbered'
  BY <1>1 DEF CustodyInv, Numbered, Types, CloseFinal, Close
<1>4. Locked'
  BY <1>1 DEF CustodyInv, Locked, Types, CloseFinal, Close
<1>5. Piped'
  BY <1>1 DEF CustodyInv, Piped, Types, CloseFinal, Close
<1>6. Journalled'
  BY <1>1 DEF CustodyInv, Journalled, Types, CloseFinal, Close, Phases
<1>7. Restoring'
  BY <1>1 DEF CustodyInv, Restoring, Types, CloseFinal, Close
<1>8. Kept'
  BY <1>1 DEF CustodyInv, Kept, Types, CloseFinal, Close, Known, Completed
<1>9. RefusedOnlyWhenUnproven'
  BY <1>1 DEF CustodyInv, RefusedOnlyWhenUnproven, Types, CloseFinal, Close
<1>10. HandedOver'
  BY <1>1 DEF CustodyInv, HandedOver, Types, CloseFinal, Close
<1> QED
  BY <1>2, <1>3, <1>4, <1>5, <1>6, <1>7, <1>8, <1>9, <1>10 DEF CustodyInv

LEMMA CloseCancelKeeps ==
  ASSUME CustodyInv, CloseCancel
  PROVE  CustodyInv'
<1>1. /\ child' = [pc |-> child'.pc, result |-> child'.result, clean |-> child'.clean, stop |-> child'.stop]
      /\ child'.pc = "cancelled" /\ child'.result = child.result
      /\ child'.clean = child.clean /\ child'.stop = child.stop
  BY DEF CustodyInv, Types, CloseCancel, Pc, Close
<1>2. Types'
  BY <1>1 DEF CustodyInv, Types, CloseCancel, Close, Phases, Frames, Verdicts
<1>3. Numbered'
  BY <1>1 DEF CustodyInv, Numbered, Types, CloseCancel, Close
<1>4. Locked'
  BY <1>1 DEF CustodyInv, Locked, Types, CloseCancel, Close
<1>5. Piped'
  BY <1>1 DEF CustodyInv, Piped, Types, CloseCancel, Close
<1>6. Journalled'
  BY <1>1 DEF CustodyInv, Journalled, Types, CloseCancel, Close, Phases
<1>7. Restoring'
  BY <1>1 DEF CustodyInv, Restoring, Types, CloseCancel, Close
<1>8. Kept'
  BY <1>1 DEF CustodyInv, Kept, Types, CloseCancel, Close, Known, Completed
<1>9. RefusedOnlyWhenUnproven'
  BY <1>1 DEF CustodyInv, RefusedOnlyWhenUnproven, Types, CloseCancel, Close
<1>10. HandedOver'
  BY <1>1 DEF CustodyInv, HandedOver, Types, CloseCancel, Close
<1> QED
  BY <1>2, <1>3, <1>4, <1>5, <1>6, <1>7, <1>8, <1>9, <1>10 DEF CustodyInv

LEMMA ReportFinalKeeps ==
  ASSUME CustodyInv, ReportFinal
  PROVE  CustodyInv'
<1>1. Types'
  <2>1. frames' \in Seq(Frames) /\ Len(frames') <= 3
    <3>1. frames' = Append(frames, "FINALIZED") /\ frames \in Seq(Frames) /\ Len(frames) <= 2
      BY DEF CustodyInv, Types, Piped, ReportFinal
    <3>2. "FINALIZED" \in Frames
      BY DEF Frames
    <3> QED
      BY <3>1, <3>2
  <2>2. UNCHANGED <<disk, root, cmd, faults, aux>>
    BY DEF ReportFinal
  <2>3. /\ child' = [pc |-> child'.pc, result |-> child'.result, clean |-> child'.clean, stop |-> child'.stop]
        /\ child'.pc = "exited" /\ child'.result = child.result /\ child'.clean = child.clean
        /\ child'.stop = child.stop /\ child.pc = "reporting"
    BY DEF CustodyInv, Types, ReportFinal
  <2> QED
    BY <2>1, <2>2, <2>3 DEF CustodyInv, Types
<1>2. Numbered'
  BY DEF CustodyInv, Numbered, Types, ReportFinal
<1>3. Locked'
  BY DEF CustodyInv, Locked, Types, ReportFinal
<1>4. Piped'
  BY DEF CustodyInv, Piped, Types, ReportFinal
<1>5. Journalled'
  BY DEF CustodyInv, Journalled, Types, ReportFinal, Phases
<1>6. Restoring'
  BY DEF CustodyInv, Restoring, Types, ReportFinal
<1>7. Kept'
  BY DEF CustodyInv, Kept, Types, ReportFinal, Known, Completed
<1>8. RefusedOnlyWhenUnproven'
  BY DEF CustodyInv, RefusedOnlyWhenUnproven, Types, ReportFinal
<1>9. HandedOver'
  BY DEF CustodyInv, HandedOver, Types, ReportFinal
<1> QED
  BY <1>1, <1>2, <1>3, <1>4, <1>5, <1>6, <1>7, <1>8, <1>9 DEF CustodyInv

LEMMA InterruptKeeps ==
  ASSUME CustodyInv, Interrupt
  PROVE  CustodyInv'
<1>1. pc \in Serving
  BY DEF Serving, Awaits, CustodyInv, Types, NoChild, Interrupt
<1>2. /\ child.pc \in Awaits /\ (child'.pc = "cancelling" <=> child.pc = "prepared")
      /\ UNCHANGED <<disk, root, frames, cmd, aux>>
  BY DEF Abandon, Pc, CustodyInv, Types, Interrupt
<1>3. /\ child' = [pc |-> child'.pc, result |-> child'.result, clean |-> child'.clean, stop |-> child'.stop]
      /\ child'.pc \in {"settling", "cancelling"} /\ child'.result = child.result
      /\ child'.clean = child.clean /\ child'.stop = child.stop
  BY DEF CustodyInv, Types, Interrupt, Pc, Abandon
<1>4. Types'
  BY <1>1, <1>2, <1>3 DEF CustodyInv, Types, Abandon, Phases, Frames, Verdicts
<1>5. Numbered'
  BY <1>1, <1>2, <1>3 DEF CustodyInv, Numbered, Types, Abandon
<1>6. Locked'
  BY <1>1, <1>2, <1>3 DEF CustodyInv, Locked, Types, Abandon
<1>7. Piped'
  BY <1>1, <1>2, <1>3 DEF CustodyInv, Piped, Types, Abandon
<1>8. Journalled'
  BY <1>1, <1>2, <1>3 DEF CustodyInv, Journalled, Types, Abandon, Phases
<1>9. Restoring'
  BY <1>1, <1>2, <1>3 DEF CustodyInv, Restoring, Types, Abandon
<1>10. Kept'
  BY <1>1, <1>2, <1>3 DEF CustodyInv, Kept, Types, Abandon, Known, Completed
<1>11. RefusedOnlyWhenUnproven'
  BY <1>1, <1>2, <1>3 DEF CustodyInv, RefusedOnlyWhenUnproven, Types, Abandon
<1>12. HandedOver'
  BY <1>1, <1>2, <1>3 DEF CustodyInv, HandedOver, Types, Abandon
<1> QED
  BY <1>4, <1>5, <1>6, <1>7, <1>8, <1>9, <1>10, <1>11, <1>12 DEF CustodyInv

LEMMA CancelKeeps ==
  ASSUME CustodyInv, Cancel
  PROVE  CustodyInv'
<1>1. /\ ledger'.form = "whole" /\ ledger'.entries # <<>> /\ Ordered(ledger'.entries, starts)
      /\ EndsWith(ledger'.entries, starts) /\ starts \in IdsOf(ledger'.entries)
      /\ IdsOf(ledger.entries) \subseteq IdsOf(ledger'.entries)
      /\ ledger'.entries[Len(ledger'.entries)].id = starts
      /\ AllEnded(ledger'.entries)
      /\ Counts(ledger'.entries) = Counts(ledger.entries)
  BY RecordMakes DEF CustodyInv, Cancel, Working, States, Verdicts
<1>2. /\ child' = [pc |-> child'.pc, result |-> child'.result, clean |-> child'.clean, stop |-> child'.stop]
      /\ child'.pc = "retired" /\ child'.result = child.result /\ child'.clean \in BOOLEAN
      /\ child'.stop = child.stop
  BY DEF CustodyInv, Types, Cancel, Pc
<1>3. Types'
  BY <1>1, <1>2 DEF CustodyInv, Types, Cancel, Phases, Frames, Verdicts
<1>4. Numbered'
  BY <1>1, <1>2 DEF CustodyInv, Numbered, Types, Cancel
<1>5. Locked'
  BY <1>1, <1>2 DEF CustodyInv, Locked, Types, Cancel
<1>6. Piped'
  BY <1>1, <1>2 DEF CustodyInv, Piped, Types, Cancel
<1>7. Journalled'
  BY <1>1, <1>2 DEF CustodyInv, Journalled, Types, Cancel, Phases
<1>8. Restoring'
  BY <1>1, <1>2 DEF CustodyInv, Restoring, Types, Cancel
<1>9. Kept'
  BY <1>1, <1>2, Numbers DEF CustodyInv, Kept, Types, Numbered, Locked, Journalled, Cancel, Known,
     Completed
<1>10. RefusedOnlyWhenUnproven'
  BY <1>1, <1>2 DEF CustodyInv, RefusedOnlyWhenUnproven, Types, Cancel
<1>11. HandedOver'
  BY <1>1, <1>2 DEF CustodyInv, HandedOver, Types, Cancel
<1> QED
  BY <1>3, <1>4, <1>5, <1>6, <1>7, <1>8, <1>9, <1>10, <1>11 DEF CustodyInv

LEMMA ReportCancelKeeps ==
  ASSUME CustodyInv, ReportCancel
  PROVE  CustodyInv'
<1>1. /\ child' = [pc |-> child'.pc, result |-> child'.result, clean |-> child'.clean, stop |-> child'.stop]
      /\ child'.pc = "exited" /\ child'.result = child.result /\ child'.clean = child.clean
      /\ child'.stop = child.stop
  BY DEF CustodyInv, Types, ReportCancel, Pc
<1>2. Types'
  BY <1>1, Numbers, Shorter, Longer DEF CustodyInv, Types, Numbered, Piped, Locked, ReportCancel,
     Phases, Frames, Verdicts
<1>3. Numbered'
  BY <1>1 DEF CustodyInv, Numbered, Types, ReportCancel
<1>4. Locked'
  BY <1>1 DEF CustodyInv, Locked, Types, ReportCancel
<1>5. Piped'
  BY <1>1 DEF CustodyInv, Piped, Types, ReportCancel
<1>6. Journalled'
  BY <1>1 DEF CustodyInv, Journalled, Types, ReportCancel, Phases
<1>7. Restoring'
  BY <1>1 DEF CustodyInv, Restoring, Types, ReportCancel
<1>8. Kept'
  BY <1>1 DEF CustodyInv, Kept, Types, ReportCancel, Known, Completed
<1>9. RefusedOnlyWhenUnproven'
  BY <1>1 DEF CustodyInv, RefusedOnlyWhenUnproven, Types, ReportCancel
<1>10. HandedOver'
  BY <1>1 DEF CustodyInv, HandedOver, Types, ReportCancel
<1> QED
  BY <1>2, <1>3, <1>4, <1>5, <1>6, <1>7, <1>8, <1>9, <1>10 DEF CustodyInv

-----------------------------------------------------------------------------
(* Faults *)

LEMMA CrashKeeps ==
  ASSUME CustodyInv, Crash
  PROVE  CustodyInv'
<1>1. Types'
  BY NoEntries DEF CustodyInv, Types, Crash, Phases, Frames, Verdicts
<1>2. Numbered'
  BY NoEntries DEF CustodyInv, Numbered, Types, Crash
<1>3. Locked'
  BY NoEntries DEF CustodyInv, Locked, Types, Crash
<1>4. Piped'
  BY NoEntries DEF CustodyInv, Piped, Types, Crash
<1>5. Journalled'
  BY NoEntries DEF CustodyInv, Journalled, Types, Crash, Phases
<1>6. Restoring'
  BY NoEntries DEF CustodyInv, Restoring, Types, Crash
<1>7. Kept'
  BY NoEntries DEF CustodyInv, Kept, Types, Crash, Known, Completed
<1>8. RefusedOnlyWhenUnproven'
  BY NoEntries DEF CustodyInv, RefusedOnlyWhenUnproven, Types, Crash
<1>9. HandedOver'
  BY NoEntries DEF CustodyInv, HandedOver, Types, Crash
<1> QED
  BY <1>1, <1>2, <1>3, <1>4, <1>5, <1>6, <1>7, <1>8, <1>9 DEF CustodyInv

LEMMA StopKeeps ==
  ASSUME CustodyInv, Stop
  PROVE  CustodyInv'
<1>1. Types'
  BY DEF CustodyInv, Types, Stop, Phases, Frames, Verdicts
<1>2. Numbered'
  BY DEF CustodyInv, Numbered, Types, Stop
<1>3. Locked'
  BY DEF CustodyInv, Locked, Types, Stop
<1>4. Piped'
  BY DEF CustodyInv, Piped, Types, Stop
<1>5. Journalled'
  BY DEF CustodyInv, Journalled, Types, Stop, Phases
<1>6. Restoring'
  BY DEF CustodyInv, Restoring, Types, Stop
<1>7. Kept'
  BY DEF CustodyInv, Kept, Types, Stop, Known, Completed
<1>8. RefusedOnlyWhenUnproven'
  BY DEF CustodyInv, RefusedOnlyWhenUnproven, Types, Stop
<1>9. HandedOver'
  BY DEF CustodyInv, HandedOver, Types, Stop
<1> QED
  BY <1>1, <1>2, <1>3, <1>4, <1>5, <1>6, <1>7, <1>8, <1>9 DEF CustodyInv

LEMMA ChildDiesKeeps ==
  ASSUME CustodyInv, ChildDies
  PROVE  CustodyInv'
<1>1. Types'
  BY DEF CustodyInv, Types, ChildDies, Phases, Frames, Verdicts
<1>2. Numbered'
  BY DEF CustodyInv, Numbered, Types, ChildDies
<1>3. Locked'
  BY DEF CustodyInv, Locked, Types, ChildDies
<1>4. Piped'
  BY DEF CustodyInv, Piped, Types, ChildDies
<1>5. Journalled'
  BY DEF CustodyInv, Journalled, Types, ChildDies, Phases
<1>6. Restoring'
  BY DEF CustodyInv, Restoring, Types, ChildDies
<1>7. Kept'
  BY DEF CustodyInv, Kept, Types, ChildDies, Known, Completed
<1>8. RefusedOnlyWhenUnproven'
  BY DEF CustodyInv, RefusedOnlyWhenUnproven, Types, ChildDies
<1>9. HandedOver'
  BY DEF CustodyInv, HandedOver, Types, ChildDies
<1> QED
  BY <1>1, <1>2, <1>3, <1>4, <1>5, <1>6, <1>7, <1>8, <1>9 DEF CustodyInv

LEMMA SaveFailsKeeps ==
  ASSUME CustodyInv, SaveFails
  PROVE  CustodyInv'
<1>1. Holds(frames', "PREPARED") => Holds(frames, "PREPARED")
  <2>1. PICK f \in Frames \ {"PREPARED"} : frames' = Append(frames, f)
    BY DEF SaveFails, Emit, Frames
  <2> QED
    BY <2>1, Longer DEF CustodyInv, Types
<1>2. /\ child' = [pc |-> child'.pc, result |-> child'.result, clean |-> child'.clean, stop |-> child'.stop]
      /\ child'.pc = "exited" /\ child'.result = child.result /\ child'.clean = child.clean
      /\ child'.stop = child.stop
  BY DEF CustodyInv, Types, SaveFails, Pc
<1>3. Types'
  BY <1>1, <1>2, Numbers, Shorter, Longer DEF CustodyInv, Types, Numbered, Piped, Locked,
     SaveFails, Phases, Frames, Verdicts
<1>4. Numbered'
  BY <1>1, <1>2 DEF CustodyInv, Numbered, Types, SaveFails
<1>5. Locked'
  BY <1>1, <1>2 DEF CustodyInv, Locked, Types, SaveFails
<1>6. Piped'
  BY <1>1, <1>2 DEF CustodyInv, Piped, Types, SaveFails
<1>7. Journalled'
  BY <1>1, <1>2 DEF CustodyInv, Journalled, Types, SaveFails, Phases
<1>8. Restoring'
  BY <1>1, <1>2 DEF CustodyInv, Restoring, Types, SaveFails
<1>9. Kept'
  BY <1>1, <1>2 DEF CustodyInv, Kept, Types, SaveFails, Known, Completed
<1>10. RefusedOnlyWhenUnproven'
  BY <1>1, <1>2 DEF CustodyInv, RefusedOnlyWhenUnproven, Types, SaveFails
<1>11. HandedOver'
  BY <1>1, <1>2 DEF CustodyInv, HandedOver, Types, SaveFails
<1> QED
  BY <1>3, <1>4, <1>5, <1>6, <1>7, <1>8, <1>9, <1>10, <1>11 DEF CustodyInv

LEMMA ChildRefusesKeeps ==
  ASSUME CustodyInv, ChildRefuses
  PROVE  CustodyInv'
<1>1. Holds(frames', "PREPARED") => Holds(frames, "PREPARED")
  <2>1. PICK f \in Frames \ {"PREPARED"} : frames' = Append(frames, f)
    BY DEF ChildRefuses, Emit, Frames
  <2> QED
    BY <2>1, Longer DEF CustodyInv, Types
<1>2. Types'
  BY <1>1, Numbers, Shorter, Longer DEF CustodyInv, Types, Numbered, Piped, Locked, ChildRefuses,
     Phases, Frames, Verdicts
<1>3. Numbered'
  BY <1>1 DEF CustodyInv, Numbered, Types, ChildRefuses
<1>4. Locked'
  BY <1>1 DEF CustodyInv, Locked, Types, ChildRefuses
<1>5. Piped'
  BY <1>1 DEF CustodyInv, Piped, Types, ChildRefuses
<1>6. Journalled'
  BY <1>1 DEF CustodyInv, Journalled, Types, ChildRefuses, Phases
<1>7. Restoring'
  BY <1>1 DEF CustodyInv, Restoring, Types, ChildRefuses
<1>8. Kept'
  BY <1>1 DEF CustodyInv, Kept, Types, ChildRefuses, Known, Completed
<1>9. RefusedOnlyWhenUnproven'
  BY <1>1 DEF CustodyInv, RefusedOnlyWhenUnproven, Types, ChildRefuses
<1>10. HandedOver'
  BY <1>1 DEF CustodyInv, HandedOver, Types, ChildRefuses
<1> QED
  BY <1>2, <1>3, <1>4, <1>5, <1>6, <1>7, <1>8, <1>9, <1>10 DEF CustodyInv

LEMMA DeadlineKeeps ==
  ASSUME CustodyInv, Deadline
  PROVE  CustodyInv'
<1>1. pc \in Serving
  BY DEF Serving, Awaits, CustodyInv, Types, NoChild, Deadline
<1>2. /\ child.pc \in Awaits /\ (child'.pc = "cancelling" <=> child.pc = "prepared")
      /\ UNCHANGED <<disk, root, frames, cmd, aux>>
  BY DEF Abandon, Pc, CustodyInv, Types, Deadline
<1>3. /\ child' = [pc |-> child'.pc, result |-> child'.result, clean |-> child'.clean, stop |-> child'.stop]
      /\ child'.pc \in {"settling", "cancelling"} /\ child'.result = child.result
      /\ child'.clean = child.clean /\ child'.stop = child.stop
  BY DEF CustodyInv, Types, Deadline, Pc, Abandon
<1>4. Types'
  BY <1>1, <1>2, <1>3 DEF CustodyInv, Types, Abandon, Phases, Frames, Verdicts
<1>5. Numbered'
  BY <1>1, <1>2, <1>3 DEF CustodyInv, Numbered, Types, Abandon
<1>6. Locked'
  BY <1>1, <1>2, <1>3 DEF CustodyInv, Locked, Types, Abandon
<1>7. Piped'
  BY <1>1, <1>2, <1>3 DEF CustodyInv, Piped, Types, Abandon
<1>8. Journalled'
  BY <1>1, <1>2, <1>3 DEF CustodyInv, Journalled, Types, Abandon, Phases
<1>9. Restoring'
  BY <1>1, <1>2, <1>3 DEF CustodyInv, Restoring, Types, Abandon
<1>10. Kept'
  BY <1>1, <1>2, <1>3 DEF CustodyInv, Kept, Types, Abandon, Known, Completed
<1>11. RefusedOnlyWhenUnproven'
  BY <1>1, <1>2, <1>3 DEF CustodyInv, RefusedOnlyWhenUnproven, Types, Abandon
<1>12. HandedOver'
  BY <1>1, <1>2, <1>3 DEF CustodyInv, HandedOver, Types, Abandon
<1> QED
  BY <1>4, <1>5, <1>6, <1>7, <1>8, <1>9, <1>10, <1>11, <1>12 DEF CustodyInv

LEMMA DeadlineAfterFinalizeKeeps ==
  ASSUME CustodyInv, DeadlineAfterFinalize
  PROVE  CustodyInv'
<1>1. Holds(frames', "PREPARED") => Holds(frames, "PREPARED")
  <2>1. PICK f \in Frames \ {"PREPARED"} : frames' = Append(frames, f)
    BY DEF DeadlineAfterFinalize, Emit, Frames
  <2> QED
    BY <2>1, Longer DEF CustodyInv, Types
<1>2. Types'
  <2>1. frames' \in Seq(Frames) /\ Len(frames') <= 3
    <3>1. frames' = Append(frames, "RECONCILIATION") /\ frames \in Seq(Frames) /\ Len(frames) <= 2
      BY DEF CustodyInv, Types, Piped, DeadlineAfterFinalize
    <3>2. "RECONCILIATION" \in Frames
      BY DEF Frames
    <3> QED
      BY <3>1, <3>2
  <2>2. UNCHANGED <<disk, root, cmd, aux>>
    BY DEF DeadlineAfterFinalize
  <2>3. /\ child' = [pc |-> child'.pc, result |-> child'.result, clean |-> child'.clean, stop |-> child'.stop]
        /\ child'.pc = "exited" /\ child'.result = child.result /\ child'.clean = child.clean
        /\ child'.stop = child.stop /\ child.pc = "reporting"
    BY DEF CustodyInv, Types, DeadlineAfterFinalize
  <2> QED
    BY <2>1, <2>2, <2>3 DEF CustodyInv, Types
<1>3. Numbered'
  BY <1>1 DEF CustodyInv, Numbered, Types, DeadlineAfterFinalize
<1>4. Locked'
  BY <1>1 DEF CustodyInv, Locked, Types, DeadlineAfterFinalize
<1>5. Piped'
  BY <1>1 DEF CustodyInv, Piped, Types, DeadlineAfterFinalize
<1>6. Journalled'
  BY <1>1 DEF CustodyInv, Journalled, Types, DeadlineAfterFinalize, Phases
<1>7. Restoring'
  BY <1>1 DEF CustodyInv, Restoring, Types, DeadlineAfterFinalize
<1>8. Kept'
  BY <1>1 DEF CustodyInv, Kept, Types, DeadlineAfterFinalize, Known, Completed
<1>9. RefusedOnlyWhenUnproven'
  BY <1>1 DEF CustodyInv, RefusedOnlyWhenUnproven, Types, DeadlineAfterFinalize
<1>10. HandedOver'
  BY <1>1 DEF CustodyInv, HandedOver, Types, DeadlineAfterFinalize
<1> QED
  BY <1>2, <1>3, <1>4, <1>5, <1>6, <1>7, <1>8, <1>9, <1>10 DEF CustodyInv

HIDE DEF disk, work, root, node, aux, allButJournal, allButLock, allButPending, allButLedger,
        allButDirs, allButDeployment, allButReady, allButArchive, Proceed, Save, Pc, Emit,
        Fault, Read, NoChild, NoPlan, NoRecord, NoAuthority, Serving, Controlling, Working,
        Retired, Bound, Ending, Live, Recovering, Awaiting, Awaits, Saving, HalfMade

-----------------------------------------------------------------------------
(* The theorems *)

LEMMA CustodyStarts == CustodyInit => CustodyInv
<1> SUFFICES ASSUME CustodyInit PROVE CustodyInv
  OBVIOUS
<1> USE DEF CustodyInit
<1>1. Types
  <2>1. Ordered(ledger.entries, starts) /\ frames \in Seq(Frames) /\ Len(frames) = 0
    BY NoEntries
  <2>2. /\ child = [pc |-> child.pc, result |-> child.result, clean |-> child.clean, stop |-> child.stop]
        /\ child.pc = "none" /\ child.result \in Verdicts /\ child.clean \in BOOLEAN
        /\ child.stop \in BOOLEAN
    BY DEF NoChild, Verdicts
  <2>3. /\ current \in [phase : Phases, attempt : {0} \cup Starts, start : {0} \cup Starts,
                        late : BOOLEAN]
        /\ ledger.form = "absent" /\ ledger.entries = <<>>
    BY DEF Phases
  <2>4. /\ pc \notin Serving /\ starts = 0 /\ attempt = 0 /\ pc = "off" /\ cmd = "none"
        /\ dirs = [a \in Starts |-> "none"] /\ ready = 0
        /\ deployment = NoRecord /\ child = NoChild /\ lock = FALSE /\ pending = FALSE
        /\ auxTorn = FALSE
    BY DEF Serving, Controlling
  <2> HIDE DEF CustodyInit
  <2> QED
    <3>1. /\ ledger.form \in {"absent", "torn", "whole"}
          /\ (ledger.form = "whole" <=> ledger.entries # <<>>)
      BY <2>3
    <3>2. /\ starts \in {0} \cup Starts /\ attempt \in {0, starts}
          /\ (pc # "off" => starts # 0) /\ dirs \in [Starts -> Stages]
      BY <2>4 DEF Stages
    <3>3. pc \in {"off", "preflight", "recover", "spawn", "popen", "refused"} \cup Recovering
                 \cup Serving
      BY <2>4
    <3>4. child.pc \in {"none", "open", "opened", "exited"} \cup Working \cup Retired
      BY <2>2
    <3>5. (pc \notin Serving => child = NoChild) /\ (pc \in Serving => child.pc # "none")
      BY <2>4
    <3>6. /\ deployment \in [attempt : Starts, stage : {"before", "after"}] \cup {NoRecord}
          /\ ready \in {0} \cup Starts
      BY <2>4
    <3>7. /\ lock \in BOOLEAN /\ pending \in BOOLEAN /\ auxTorn \in BOOLEAN
          /\ cmd \in {"none", "ARM", "FINALIZE"}
      BY <2>4
    <3>8. Len(frames) <= 3
      BY <2>1
    <3> QED
      BY <2>1, <2>2, <2>3, <3>1, <3>2, <3>3, <3>4, <3>5, <3>6, <3>7, <3>8 DEF Types
<1>2. Numbered
  BY NoEntries DEF Numbered, NoChild, Serving, Controlling, Working, Retired, Bound
<1>3. Locked
  BY DEF Locked, NoChild, NoRecord, NoAuthority, Working, Retired, Serving, Controlling, Ending
<1>4. Piped
  BY DEF Piped, NoChild, Retired, Serving, Controlling, Ending
<1>5. Journalled
  BY NoEntries DEF Journalled, Live, NoAuthority, Serving, Controlling, Recovering
<1>6. Restoring
  BY NoEntries DEF Restoring, NoPlan, Recovering
<1>7. Kept
  <2>1. Completed = {}
    BY DEF Completed
  <2> QED
    BY <2>1, NoEntries DEF Kept, Known, Live
<1>8. HandedOver
  BY DEF HandedOver, HalfMade
<1> QED
  BY <1>1, <1>2, <1>3, <1>4, <1>5, <1>6, <1>7, <1>8 DEF CustodyInv, RefusedOnlyWhenUnproven

LEMMA CustodyKeeps ==
  ASSUME CustodyInv, [CustodyStep]_custodyVars
  PROVE  CustodyInv'
<1>1. CASE Start
  BY <1>1, StartKeeps
<1>2. CASE Recovery
  BY <1>2, RecoverPriorBootKeeps, RecoverUnarmedStartKeeps, MoveKeeps, CreateRestoredKeeps,
     WriteRestoredKeeps, RecoveryDoneKeeps, PreflightChecksKeeps, RefuseKeeps, ExitKeeps
     DEF Recovery
<1>3. CASE Cycle
  BY <1>3, SpawnKeeps, PopenKeeps, SaveSpawnedKeeps, ReceivePreparedKeeps, MakeDirectoryKeeps,
     AttestBeforeKeeps, ReceiveArmedKeeps, IssueReadyKeeps, JournalArmedKeeps,
     ReceiveObservedKeeps, AttestAfterKeeps, JournalObservedKeeps, ReceiveFinalizedKeeps,
     ReceiveCancelledKeeps, ReceiveUnexpectedKeeps, ReceiveEndKeeps, FinishKeeps,
     UnlinkReadyKeeps, UnlinkDeploymentKeeps, CompleteKeeps, TerminateKeeps, AbortedKeeps
     DEF Cycle
<1>4. CASE Child
  BY <1>4, OpenLedgerKeeps, PrepareKeeps, BeginArmKeeps, ArmKeeps, ArmFailsKeeps,
     ConsumeEventKeeps, ObserveRunKeeps, FinalizeKeeps, CloseFinalKeeps, CloseCancelKeeps,
     ReportFinalKeeps, InterruptKeeps, CancelKeeps, ReportCancelKeeps DEF Child
<1>5. CASE Faults
  BY <1>5, CrashKeeps, StopKeeps, ChildDiesKeeps, SaveFailsKeeps, ChildRefusesKeeps,
     DeadlineKeeps, DeadlineAfterFinalizeKeeps DEF Faults
<1>6. CASE UNCHANGED custodyVars
  <2> USE <1>6 DEF custodyVars, disk, work, root, node, aux
  <2>1. Types' /\ Numbered' /\ Locked' /\ Piped'
    BY DEF CustodyInv, Types, Numbered, Locked, Piped, NoAuthority
  <2>2. Journalled' /\ Restoring' /\ RefusedOnlyWhenUnproven'
    BY DEF CustodyInv, Journalled, Restoring, RefusedOnlyWhenUnproven, NoAuthority, HalfMade
  <2>3. Kept' /\ HandedOver'
    BY DEF CustodyInv, Kept, Known, Completed, HandedOver, HalfMade
  <2> QED
    BY <2>1, <2>2, <2>3 DEF CustodyInv
<1> QED
  BY <1>1, <1>2, <1>3, <1>4, <1>5, <1>6 DEF CustodyStep

(* What the disk, the controller and the child agree on at every step of   *)
(* auto-custodian.py, with any number of starts, crashes and failed writes.*)
THEOREM CustodyInductive == CustodySpec => []CustodyInv
BY CustodyStarts, CustodyKeeps, PTL DEF CustodySpec

LEMMA KeptFollows == CustodyInv => VerdictsAreKept
<1> SUFFICES ASSUME CustodyInv PROVE VerdictsAreKept
  OBVIOUS
<1>1. ledger.entries \in Seq(Entries) /\ frames \in Seq(Frames)
  BY DEF CustodyInv, Types, Ordered
<1>2. CustodyTypeOK
  <2>1. \A i \in DOMAIN ledger.entries :
          /\ ledger.entries[i] \in Entries
          /\ i < Len(ledger.entries) => Terminal(ledger.entries[i])
    BY <1>1 DEF CustodyInv, Types, Ordered
  <2> QED
    BY <2>1 DEF CustodyTypeOK, CustodyInv, Types, Entries
<1>3. CompletedIsClean
  BY <1>1, TerminalEntries DEF CompletedIsClean, CustodyInv, Journalled, Live, NoAuthority
<1>4. CountsAreKept
  <2>1. CompletedIn(ledger.entries) = Counts(ledger.entries)
    BY <1>1, CompletedAreCounted
  <2>2. LedgerIsOpen => Known = ledger.entries
    BY DEF LedgerIsOpen, Known, CustodyInv, Types, NoChild, Serving, Controlling
  <2> QED
    BY <2>1, <2>2 DEF CountsAreKept, CustodyInv, Kept
<1> QED
  BY <1>2, <1>3, <1>4 DEF VerdictsAreKept, CustodyInv

(* A journal that says completed leaves no lock, no half-written file and  *)
(* no root record (finish, recover_prior_boot); a child opens the ledger   *)
(* over exactly the verdicts that were completed, unless a recovery was    *)
(* itself cut off; and only such a recovery, or an attempt that cannot be  *)
(* bound to its start, is refused.                                         *)
THEOREM VerdictsKept == CustodySpec => []VerdictsAreKept
BY CustodyInductive, KeptFollows, PTL

\* Finalize counts a verdict, no other step does.
LEMMA OnlyFinalizeCounts ==
  ASSUME CustodyStep, ~Finalize
  PROVE  UNCHANGED auxVerdict
<1> USE DEF aux, Fault
<1>1. CASE Start
  BY <1>1 DEF Start
<1>2. CASE Recovery
  BY <1>2 DEF Recovery, RecoverPriorBoot, RecoverUnarmedStart, Move, CreateRestored,
     WriteRestored, RecoveryDone, PreflightChecks, Refuse, Exit
<1>3. CASE Cycle
  BY <1>3 DEF Cycle, Spawn, Popen, SaveSpawned, ReceivePrepared, MakeDirectory, AttestBefore,
     ReceiveArmed, IssueReady, JournalArmed, ReceiveObserved, AttestAfter, JournalObserved,
     ReceiveFinalized, ReceiveCancelled, ReceiveUnexpected, ReceiveEnd, Finish, UnlinkReady,
     UnlinkDeployment, Complete, Terminate, Aborted
<1>4. CASE Child
  <2>1. CASE OpenLedger \/ Prepare \/ BeginArm \/ Arm \/ ArmFails \/ ConsumeEvent
    BY <2>1 DEF OpenLedger, Prepare, BeginArm, Arm, ArmFails, ConsumeEvent
  <2>2. CASE ObserveRun
    BY <2>2 DEF ObserveRun
  <2>3. CASE CloseFinal \/ CloseCancel \/ ReportFinal \/ Interrupt \/ ReportCancel
    BY <2>3 DEF CloseFinal, CloseCancel, Close, ReportFinal, Interrupt, ReportCancel
  <2>4. CASE Cancel
    BY <2>4 DEF Cancel
  <2> QED
    BY <1>4, <2>1, <2>2, <2>3, <2>4 DEF Child
<1>5. CASE Faults
  BY <1>5 DEF Faults, Crash, Stop, ChildDies, SaveFails, ChildRefuses, Deadline,
     DeadlineAfterFinalize
<1> QED
  BY <1>1, <1>2, <1>3, <1>4, <1>5 DEF CustodyStep

(* finalize() counts a verdict only while the journal says observed and    *)
(* READY and the AFTER attestation of that attempt are in place.           *)
THEOREM CountedInCustody == CustodySpec => CountedUnderCustody
<1> DEFINE Watched == current.phase = "observed" /\ current.attempt = starts
           Admitted == ready = starts /\ deployment = [attempt |-> starts, stage |-> "after"]
<1>1. CustodyInv /\ [CustodyStep]_custodyVars /\ auxVerdict' # auxVerdict => Watched /\ Admitted
  <2> SUFFICES ASSUME CustodyInv, [CustodyStep]_custodyVars, auxVerdict' # auxVerdict
               PROVE  Watched /\ Admitted
    OBVIOUS
  <2>1. Finalize
    BY OnlyFinalizeCounts DEF custodyVars, aux
  <2>2. Final # "INCONCLUSIVE"
    BY <2>1 DEF Finalize
  <2>3. Admitted
    BY <2>2 DEF Final
  <2>4. Watched
    BY <2>1 DEF Finalize, CustodyInv, Piped
  <2> QED
    BY <2>3, <2>4
<1> QED
  BY <1>1, CustodyInductive, PTL DEF CustodySpec, CountedUnderCustody
=============================================================================
