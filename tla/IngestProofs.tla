---------------------------- MODULE IngestProofs ----------------------------
(***************************************************************************)
(* Theorems about Ingest, for any set of runs, any clock and any schedule. *)
(*                                                                         *)
(* The inductive invariant says who may still change what.  A connection   *)
(* with both ends alive is Live; a live run between lock() and unlock()    *)
(* holds the advisory lock, and so does a session with a lasting statement *)
(* on the wire or with an uncommitted publication.  Since only the holder  *)
(* can commit a publication, the baseline of a run inside its publication  *)
(* is still the latest snapshot, and the history grows at its head.        *)
(***************************************************************************)
EXTENDS Ingest, TLAPS

Live(r) == conn[r] = "up" /\ backend[r] = "open"

(* Program points at which a live run holds the lock.                      *)
UnderLock == Steps \ {"start", "lock", "exit", "exited"}

(* Program points before the row exists, before it is validated, after.    *)
Unstaged  == {"start", "lock", "baseline", "stageBegin", "stageWrite", "stageCommit"}
Staged    == {"staged", "pubBegin", "pubCheck", "pubWrite", "pubCommit"}
Resolved  == {"stageBegin", "stageWrite", "stageCommit", "resolve", "toValidating"} \cup Staged

(* A session that is not open has no transaction, no statement, no lock.   *)
SessionInv ==
  \A r \in Runs :
    /\ backend[r] # "open" => /\ tx[r] = "none" /\ writes[r] = "none"
                              /\ orphan[r] = "none" /\ lockHolder # r
    /\ orphan[r] # "none" => conn[r] = "closed" /\ pc[r] \in {"exit", "unlock", "fail", "exited"}
    /\ pc[r] = "start" => backend[r] = "none" /\ conn[r] = "none"
    /\ conn[r] = "none" => pc[r] \in {"start", "exit", "exited"}

(* Who holds the lock.                                                     *)
LockInv ==
  \A r \in Runs :
    /\ Live(r) /\ pc[r] \in UnderLock => lockHolder = r
    /\ orphan[r] \in Lasting \ {"lock"} => lockHolder = r
    /\ writes[r] = "publish" => lockHolder = r

(* How far the row and the uncommitted writes have got, by program point.  *)
RowInv ==
  \A r \in Runs :
    /\ pc[r] \in Unstaged => status[r] = "absent"
    /\ pc[r] = "resolve" => status[r] = IF r \in DryRuns THEN "absent" ELSE "building"
    /\ pc[r] = "toValidating" \/ orphan[r] = "toValidating" => status[r] = "building"
    /\ pc[r] \in Staged => status[r] = "validating"
    /\ pc[r] \in Staged \ {"pubCommit"} => writes[r] # "publish"
    /\ orphan[r] = "fail" \/ (Live(r) /\ pc[r] \in {"fail", "unlock"}) => writes[r] # "publish"
    /\ pc[r] \in {"start", "lock", "baseline", "stageBegin"} => writes[r] = "none"
    /\ writes[r] = "insert" => status[r] = "absent"
    /\ writes[r] = "publish" => status[r] = "validating"
    /\ orphan[r] = "stageCommit" \/ (Live(r) /\ pc[r] = "stageCommit") => writes[r] = "insert"
    /\ orphan[r] = "pubCommit" \/ (Live(r) /\ pc[r] = "pubCommit") => writes[r] = "publish"

(* The captured baseline is the latest snapshot until the run leaves, and  *)
(* an uncommitted publication is stamped later than everything published.  *)
Bound(r) == (Live(r) /\ pc[r] \in Resolved) \/ writes[r] = "publish"

BaselineInv ==
  \A r \in Runs :
    /\ Bound(r) => /\ IsLatest(previous[r].id)
                   /\ previous[r].id # None => previous[r].at = publishedAt[previous[r].id]
    /\ writes[r] = "publish" => \A q \in Published : publishedAt[q] < stamp[r]

(* The published snapshots form one history ordered by publishedAt.        *)
HistoryInv ==
  /\ HistoryOrderedByTime
  /\ \A r \in Published : previous[r].id = None \/ previous[r].id \in Published
  /\ \E p \in Runs \cup {None} : IsLatest(p)

(* What the reports of a run rest on.                                      *)
ReportInv ==
  \A r \in Runs :
    /\ pc[r] = "notify" \/ outcome[r] = "published" \/ notified[r] # "no" => r \in Published
    /\ outcome[r] = "refused" => /\ pc[r] \in {"exit", "exited"} /\ status[r] = "absent"
                                 /\ orphan[r] = "none" /\ writes[r] = "none"
    /\ outcome[r] = "checked" => r \in DryRuns
    /\ r \in DryRuns => /\ pc[r] \in {"start", "lock", "baseline", "resolve", "unlock", "exit", "exited"}
                        /\ orphan[r] \in {"none", "lock"} /\ writes[r] = "none"
                        /\ status[r] = "absent"

IInv ==
  TypeOK /\ SessionInv /\ LockInv /\ RowInv /\ BaselineInv /\ HistoryInv /\ ReportInv

-----------------------------------------------------------------------------
(* Where an error leads: never back into a publication.                    *)
LEMMA OnErrorTargets ==
  /\ \A s \in Statements : OnError(s) \in {"exit", "unlock", "rollback", "fail"}
  /\ \A s \in Lasting : OnError(s) \in {"exit", "unlock", "fail"}
  /\ OnError("fail") = "unlock" /\ OnError("unlock") = "exit" /\ OnError("lock") = "exit"
  /\ OnError("baseline") = "unlock"
BY DEF OnError, Statements, Lasting

(* Every action of Next is one of these, performed for one run.            *)
LEMMA NextActions ==
  ASSUME NEW r \in Runs, Client(r) \/ Kill(r) \/ Server(r)
  PROVE  \/ Connect(r) \/ TryLock(r) \/ ReadBaseline(r) \/ StageBegin(r) \/ StageWrite(r)
         \/ StageCommit(r) \/ ResolveBundle(r) \/ ToValidating(r)
         \/ CallPublish(r) \/ Abandon(r) \/ PublishBegin(r) \/ PublishCheck(r)
         \/ PublishWrite(r) \/ PublishCommit(r) \/ Notify(r)
         \/ Rollback(r) \/ Fail(r) \/ Unlock(r) \/ Exit(r)
         \/ Rejected(r) \/ ContextDone(r) \/ Lost(r) \/ NotConnected(r)
         \/ Kill(r) \/ RunOrphan(r) \/ EndSession(r)
BY DEF Client, Stage, Publish, Leave, Error, Server


(* Type correctness: the initial state and every action.                   *)
LEMMA TypeInit == Init => TypeOK
BY NoneIsNoRun DEF Init, TypeOK, Steps, Lasting


(* Where a run goes next is a step, and what it reports an outcome.        *)
LEMMA StepNames ==
  /\ Statements \subseteq Steps
  /\ {"start", "resolve", "staged", "notify", "exit", "exited"} \subseteq Steps
  /\ {"lock", "baseline", "stageBegin", "stageWrite", "stageCommit", "toValidating", "pubBegin",
      "pubCheck", "pubWrite", "pubCommit", "rollback", "fail", "unlock"} \subseteq Steps
  /\ \A s \in Steps : OnError(s) \in Steps
BY DEF Steps, Statements, OnError

LEMMA Gone ==
  ASSUME TypeOK, NEW r, NEW s \in Steps, Goto(r, s)
  PROVE  pc' \in [Runs -> Steps]
BY DEF TypeOK, Goto

LEMMA Reported ==
  ASSUME TypeOK, NEW r,
         NEW what \in {"none", "refused", "failed", "published", "checked", "killed"}, Report(r, what)
  PROVE  outcome' \in [Runs -> {"none", "refused", "failed", "published", "checked", "killed"}]
<1>1. CASE r \in Runs
  BY <1>1 DEF TypeOK, Report
<1>2. CASE r \notin Runs
  BY <1>2 DEF TypeOK, Report
<1> QED
  BY <1>1, <1>2

LEMMA Committed ==
  ASSUME TypeOK, NEW r \in Runs, CommitInServer(r)
  PROVE  /\ status' \in [Runs -> {"absent", "building", "validating", "published", "failed"}]
         /\ publishedAt' \in [Runs -> Nat] /\ stamp' \in [Runs -> Nat]
         /\ tx' \in [Runs -> {"none", "active", "aborted"}]
         /\ writes' \in [Runs -> {"none", "insert", "publish"}]
<1>1. stamp[r] \in Nat
  BY DEF TypeOK
<1>2. publishedAt' \in [Runs -> Nat] /\ stamp' \in [Runs -> Nat]
  BY <1>1 DEF TypeOK, CommitInServer
<1>3. status' \in [Runs -> {"absent", "building", "validating", "published", "failed"}]
  BY DEF TypeOK, CommitInServer
<1>4. tx' \in [Runs -> {"none", "active", "aborted"}] /\ writes' \in [Runs -> {"none", "insert", "publish"}]
  BY DEF TypeOK, CommitInServer
<1> QED
  BY <1>2, <1>3, <1>4

(* Type correctness of every step. *)
LEMMA TypeNext == TypeOK /\ [Next]_vars => TypeOK'
<1> SUFFICES ASSUME TypeOK, [Next]_vars PROVE TypeOK'
  OBVIOUS
<1> USE DEF TypeOK, database, session, process, Answered
<1>1. CASE UNCHANGED vars
  BY <1>1 DEF vars
<1>2. CASE Next
  <2>0. PICK r \in Runs : Client(r) \/ Kill(r) \/ Server(r)
    BY <1>2 DEF Next
  <2>1. CASE Connect(r)
    <3>1. pc' \in [Runs -> Steps] /\ outcome' \in [Runs -> {"none", "refused", "failed", "published", "checked", "killed"}]
      BY <2>1, StepNames, Gone, Reported DEF Connect
    <3>2. conn' \in [Runs -> {"none", "up", "closed"}] /\ backend' \in [Runs -> {"none", "open", "gone"}]
      BY <2>1 DEF Connect
    <3> QED
      BY <2>1, <3>1, <3>2 DEF Connect
  <2>2. CASE TryLock(r)
    BY <2>2, StepNames, Gone, Reported DEF TryLock
  <2>3. CASE ReadBaseline(r)
    BY <2>3, StepNames, Gone DEF ReadBaseline
  <2>4. CASE StageBegin(r)
    BY <2>4, StepNames, Gone DEF StageBegin
  <2>5. CASE StageWrite(r)
    BY <2>5, StepNames, Gone DEF StageWrite
  <2>6. CASE StageCommit(r)
    BY <2>6, StepNames, Gone, Committed DEF StageCommit
  <2>7. CASE ResolveBundle(r)
    BY <2>7, StepNames, Gone, Reported DEF ResolveBundle
  <2>8. CASE ToValidating(r)
    BY <2>8, StepNames, Gone DEF ToValidating
  <2>9. CASE CallPublish(r)
    BY <2>9, StepNames, Gone DEF CallPublish
  <2>10. CASE Abandon(r)
    BY <2>10, StepNames, Gone, Reported DEF Abandon
  <2>11. CASE PublishBegin(r)
    BY <2>11, StepNames, Gone DEF PublishBegin
  <2>12. CASE PublishCheck(r)
    BY <2>12, StepNames, Gone, Reported DEF PublishCheck
  <2>13. CASE PublishWrite(r)
    BY <2>13, TimesAreNaturals, StepNames, Gone, Reported DEF PublishWrite, PublicationTime
  <2>14. CASE PublishCommit(r)
    BY <2>14, StepNames, Gone, Reported, Committed DEF PublishCommit
  <2>15. CASE Notify(r)
    BY <2>15, StepNames, Gone DEF Notify
  <2>16. CASE Rollback(r)
    BY <2>16, StepNames, Gone DEF Rollback
  <2>17. CASE Fail(r)
    BY <2>17, StepNames, Gone DEF Fail, FailInServer
  <2>18. CASE Unlock(r)
    <3>1. CASE tx[r] # "aborted"
      <4>1. pc' \in [Runs -> Steps] /\ UNCHANGED <<status, publishedAt, backend, orphan, conn, previous, outcome, notified>>
        BY <2>18, <3>1, StepNames, Gone DEF Unlock
      <4>2. /\ lockHolder' \in Runs \cup {None} /\ stamp' \in [Runs -> Nat]
            /\ tx' \in [Runs -> {"none", "active", "aborted"}] /\ writes' \in [Runs -> {"none", "insert", "publish"}]
        BY <2>18, <3>1 DEF Unlock
      <4> QED
        BY <4>1, <4>2
    <3>2. CASE tx[r] = "aborted"
      BY <2>18, <3>2, StepNames, Gone DEF Unlock
    <3> QED
      BY <3>1, <3>2
  <2>19. CASE Exit(r)
    BY <2>19, StepNames, Gone DEF Exit
  <2>20. CASE Rejected(r)
    BY <2>20, StepNames, Gone, Reported DEF Rejected, Commits, ClosesOnError
  <2>21. CASE ContextDone(r)
    BY <2>21, StepNames, Gone, Reported DEF ContextDone, Commits, ClosesOnError, UnderRunContext
  <2>22. CASE Lost(r)
    BY <2>22, StepNames, Gone, Reported DEF Lost, Lasting
  <2>23. CASE NotConnected(r)
    BY <2>23, StepNames, Gone, Reported DEF NotConnected
  <2>24. CASE Kill(r)
    BY <2>24, StepNames, Gone, Reported DEF Kill, Lasting
  <2>25. CASE RunOrphan(r)
    <3>1. CASE orphan[r] = "lock"
      BY <2>25, <3>1, NoneIsNoRun DEF RunOrphan, Lasting
    <3>2. CASE orphan[r] \in {"stageCommit", "pubCommit"}
      BY <2>25, <3>2, Committed DEF RunOrphan, Lasting
    <3>3. CASE orphan[r] = "toValidating"
      BY <2>25, <3>3 DEF RunOrphan, Lasting
    <3>4. CASE orphan[r] = "fail"
      BY <2>25, <3>4 DEF RunOrphan, FailInServer, Lasting
    <3>5. QED
      BY <2>25, <3>1, <3>2, <3>3, <3>4 DEF RunOrphan
  <2>26. CASE EndSession(r)
    BY <2>26 DEF EndSession
  <2>90. QED
    BY <2>0, NextActions,
       <2>1, <2>2, <2>3, <2>4, <2>5, <2>6, <2>7, <2>8, <2>9, <2>10,
       <2>11, <2>12, <2>13, <2>14, <2>15, <2>16, <2>17, <2>18, <2>19, <2>20,
       <2>21, <2>22, <2>23, <2>24, <2>25, <2>26
<1>3. QED
  BY <1>1, <1>2

(* A dead session stays empty. *)
LEMMA SessionNext == IInv /\ [Next]_vars => SessionInv'
<1> SUFFICES ASSUME IInv, [Next]_vars PROVE SessionInv'
  OBVIOUS
<1> USE DEF IInv, TypeOK, database, session, process, Goto, Report, Answered, Live, SessionInv
<1>1. CASE UNCHANGED vars
  BY <1>1 DEF vars
<1>2. CASE Next
  <2>0. PICK r \in Runs : Client(r) \/ Kill(r) \/ Server(r)
    BY <1>2 DEF Next
  <2>1. CASE Connect(r)
    BY SMTT(30), <2>1 DEF Connect, Steps, Statements, Lasting
  <2>2. CASE TryLock(r)
    BY SMTT(30), <2>2, NoneIsNoRun DEF TryLock, Steps, Statements, Lasting
  <2>3. CASE ReadBaseline(r)
    BY SMTT(30), <2>3 DEF ReadBaseline, Steps, Statements, Lasting
  <2>4. CASE StageBegin(r)
    BY SMTT(30), <2>4 DEF StageBegin, Steps, Statements, Lasting
  <2>5. CASE StageWrite(r)
    BY SMTT(30), <2>5 DEF StageWrite, Steps, Statements, Lasting
  <2>6. CASE StageCommit(r)
    BY SMTT(30), <2>6 DEF StageCommit, CommitInServer, Steps, Statements, Lasting
  <2>7. CASE ResolveBundle(r)
    BY SMTT(30), <2>7 DEF ResolveBundle, Steps, Statements, Lasting
  <2>8. CASE ToValidating(r)
    BY SMTT(30), <2>8 DEF ToValidating, Steps, Statements, Lasting
  <2>9. CASE CallPublish(r)
    BY SMTT(30), <2>9 DEF CallPublish, Steps, Statements, Lasting
  <2>10. CASE Abandon(r)
    BY SMTT(30), <2>10 DEF Abandon, Steps, Statements, Lasting
  <2>11. CASE PublishBegin(r)
    BY SMTT(30), <2>11 DEF PublishBegin, Steps, Statements, Lasting
  <2>12. CASE PublishCheck(r)
    BY SMTT(30), <2>12 DEF PublishCheck, Steps, Statements, Lasting
  <2>13. CASE PublishWrite(r)
    BY SMTT(30), <2>13 DEF PublishWrite, Steps, Statements, Lasting
  <2>14. CASE PublishCommit(r)
    BY SMTT(30), <2>14 DEF PublishCommit, CommitInServer, Steps, Statements, Lasting
  <2>15. CASE Notify(r)
    BY SMTT(30), <2>15 DEF Notify, Steps, Statements, Lasting
  <2>16. CASE Rollback(r)
    BY SMTT(30), <2>16 DEF Rollback, Steps, Statements, Lasting
  <2>17. CASE Fail(r)
    BY SMTT(30), <2>17 DEF Fail, FailInServer, Steps, Statements, Lasting
  <2>18. CASE Unlock(r)
    BY SMTT(30), <2>18, NoneIsNoRun DEF Unlock, Steps, Statements, Lasting
  <2>19. CASE Exit(r)
    BY SMTT(30), <2>19 DEF Exit, Steps, Statements, Lasting
  <2>20. CASE Rejected(r)
    BY SMTT(30), <2>20, OnErrorTargets DEF Rejected, Commits, ClosesOnError, Steps, Statements, Lasting
  <2>21. CASE ContextDone(r)
    BY SMTT(30), <2>21, OnErrorTargets DEF ContextDone, Commits, ClosesOnError, UnderRunContext, Steps, Statements, Lasting
  <2>22. CASE Lost(r)
    BY SMTT(30), <2>22, OnErrorTargets DEF Lost, Steps, Statements, Lasting
  <2>23. CASE NotConnected(r)
    BY SMTT(30), <2>23, OnErrorTargets DEF NotConnected, Steps, Statements, Lasting
  <2>24. CASE Kill(r)
    BY SMTT(30), <2>24 DEF Kill, Steps, Statements, Lasting
  <2>25. CASE RunOrphan(r)
    <3>1. CASE orphan[r] = "lock"
      BY <2>25, <3>1, NoneIsNoRun DEF RunOrphan, Statements, Lasting
    <3>2. CASE orphan[r] \in {"stageCommit", "pubCommit"}
      BY SMTT(60), <2>25, <3>2 DEF RunOrphan, Statements, CommitInServer, Lasting
    <3>3. CASE orphan[r] = "toValidating"
      BY <2>25, <3>3 DEF RunOrphan, Statements, Lasting
    <3>4. CASE orphan[r] = "fail"
      BY <2>25, <3>4 DEF RunOrphan, Statements, FailInServer, Lasting
    <3>5. QED
      BY <2>25, <3>1, <3>2, <3>3, <3>4 DEF RunOrphan
  <2>26. CASE EndSession(r)
    BY SMTT(30), <2>26, NoneIsNoRun DEF EndSession, Steps, Statements, Lasting
  <2>90. QED
    BY <2>0, NextActions,
       <2>1, <2>2, <2>3, <2>4, <2>5, <2>6, <2>7, <2>8, <2>9, <2>10,
       <2>11, <2>12, <2>13, <2>14, <2>15, <2>16, <2>17, <2>18, <2>19, <2>20,
       <2>21, <2>22, <2>23, <2>24, <2>25, <2>26
<1>3. QED
  BY <1>1, <1>2

(* The lock moves only between runs that are not live under it. *)
LEMMA LockNext == IInv /\ [Next]_vars => LockInv'
<1> SUFFICES ASSUME IInv, [Next]_vars PROVE LockInv'
  OBVIOUS
<1> USE DEF IInv, TypeOK, database, session, process, Goto, Report, Answered, Live, SessionInv, LockInv, RowInv, UnderLock
<1>1. CASE UNCHANGED vars
  BY <1>1 DEF vars
<1>2. CASE Next
  <2>0. PICK r \in Runs : Client(r) \/ Kill(r) \/ Server(r)
    BY <1>2 DEF Next
  <2>1. CASE Connect(r)
    BY SMTT(30), <2>1 DEF Connect, Steps, Statements, Lasting
  <2>2. CASE TryLock(r)
    BY SMTT(30), <2>2, NoneIsNoRun DEF TryLock, Steps, Statements, Lasting
  <2>3. CASE ReadBaseline(r)
    BY SMTT(30), <2>3 DEF ReadBaseline, Steps, Statements, Lasting
  <2>4. CASE StageBegin(r)
    BY SMTT(30), <2>4 DEF StageBegin, Steps, Statements, Lasting
  <2>5. CASE StageWrite(r)
    BY SMTT(30), <2>5 DEF StageWrite, Steps, Statements, Lasting
  <2>6. CASE StageCommit(r)
    BY SMTT(30), <2>6 DEF StageCommit, CommitInServer, Steps, Statements, Lasting
  <2>7. CASE ResolveBundle(r)
    BY SMTT(30), <2>7 DEF ResolveBundle, Steps, Statements, Lasting
  <2>8. CASE ToValidating(r)
    BY SMTT(30), <2>8 DEF ToValidating, Steps, Statements, Lasting
  <2>9. CASE CallPublish(r)
    BY SMTT(30), <2>9 DEF CallPublish, Steps, Statements, Lasting
  <2>10. CASE Abandon(r)
    BY SMTT(30), <2>10 DEF Abandon, Steps, Statements, Lasting
  <2>11. CASE PublishBegin(r)
    BY SMTT(30), <2>11 DEF PublishBegin, Steps, Statements, Lasting
  <2>12. CASE PublishCheck(r)
    BY SMTT(30), <2>12 DEF PublishCheck, Steps, Statements, Lasting
  <2>13. CASE PublishWrite(r)
    BY SMTT(30), <2>13 DEF PublishWrite, Steps, Statements, Lasting
  <2>14. CASE PublishCommit(r)
    BY SMTT(30), <2>14 DEF PublishCommit, CommitInServer, Steps, Statements, Lasting
  <2>15. CASE Notify(r)
    BY SMTT(30), <2>15 DEF Notify, Steps, Statements, Lasting
  <2>16. CASE Rollback(r)
    BY SMTT(30), <2>16 DEF Rollback, Steps, Statements, Lasting
  <2>17. CASE Fail(r)
    BY SMTT(30), <2>17 DEF Fail, FailInServer, Steps, Statements, Lasting
  <2>18. CASE Unlock(r)
    BY SMTT(30), <2>18, NoneIsNoRun DEF Unlock, Steps, Statements, Lasting
  <2>19. CASE Exit(r)
    BY SMTT(30), <2>19 DEF Exit, Steps, Statements, Lasting
  <2>20. CASE Rejected(r)
    BY SMTT(30), <2>20, OnErrorTargets DEF Rejected, Commits, ClosesOnError, Steps, Statements, Lasting
  <2>21. CASE ContextDone(r)
    BY SMTT(30), <2>21, OnErrorTargets DEF ContextDone, Commits, ClosesOnError, UnderRunContext, Steps, Statements, Lasting
  <2>22. CASE Lost(r)
    BY SMTT(30), <2>22, OnErrorTargets DEF Lost, Steps, Statements, Lasting
  <2>23. CASE NotConnected(r)
    BY SMTT(30), <2>23, OnErrorTargets DEF NotConnected, Steps, Statements, Lasting
  <2>24. CASE Kill(r)
    BY SMTT(30), <2>24 DEF Kill, Steps, Statements, Lasting
  <2>25. CASE RunOrphan(r)
    <3>1. CASE orphan[r] = "lock"
      BY <2>25, <3>1, NoneIsNoRun DEF RunOrphan, Statements, Steps, Lasting
    <3>2. CASE orphan[r] \in {"stageCommit", "pubCommit"}
      BY SMTT(60), <2>25, <3>2 DEF RunOrphan, Statements, Steps, CommitInServer, Lasting
    <3>3. CASE orphan[r] = "toValidating"
      BY <2>25, <3>3 DEF RunOrphan, Statements, Steps, Lasting
    <3>4. CASE orphan[r] = "fail"
      BY <2>25, <3>4 DEF RunOrphan, Statements, Steps, FailInServer, Lasting
    <3>5. QED
      BY <2>25, <3>1, <3>2, <3>3, <3>4 DEF RunOrphan
  <2>26. CASE EndSession(r)
    BY SMTT(30), <2>26, NoneIsNoRun DEF EndSession, Steps, Statements, Lasting
  <2>90. QED
    BY <2>0, NextActions,
       <2>1, <2>2, <2>3, <2>4, <2>5, <2>6, <2>7, <2>8, <2>9, <2>10,
       <2>11, <2>12, <2>13, <2>14, <2>15, <2>16, <2>17, <2>18, <2>19, <2>20,
       <2>21, <2>22, <2>23, <2>24, <2>25, <2>26
<1>3. QED
  BY <1>1, <1>2

(* Rows and uncommitted writes keep step with the program. *)
LEMMA RowNext == IInv /\ [Next]_vars => RowInv'
<1> SUFFICES ASSUME IInv, [Next]_vars PROVE RowInv'
  OBVIOUS
<1> USE DEF IInv, TypeOK, database, session, process, Goto, Report, Answered, Live, SessionInv, RowInv, Unstaged, Staged
<1>1. CASE UNCHANGED vars
  BY <1>1, SMTT(30) DEF vars
<1>2. CASE Next
  <2>0. PICK r \in Runs : Client(r) \/ Kill(r) \/ Server(r)
    BY <1>2 DEF Next
  <2>1. CASE Connect(r)
    BY SMTT(30), <2>1 DEF Connect, Steps, Statements, Lasting
  <2>2. CASE TryLock(r)
    BY SMTT(30), <2>2, NoneIsNoRun DEF TryLock, Steps, Statements, Lasting
  <2>3. CASE ReadBaseline(r)
    BY SMTT(30), <2>3 DEF ReadBaseline, Steps, Statements, Lasting
  <2>4. CASE StageBegin(r)
    BY SMTT(30), <2>4 DEF StageBegin, Steps, Statements, Lasting
  <2>5. CASE StageWrite(r)
    BY SMTT(30), <2>5 DEF StageWrite, Steps, Statements, Lasting
  <2>6. CASE StageCommit(r)
    BY SMTT(30), <2>6 DEF StageCommit, CommitInServer, Steps, Statements, Lasting, ReportInv, Published
  <2>7. CASE ResolveBundle(r)
    BY SMTT(30), <2>7 DEF ResolveBundle, Steps, Statements, Lasting, ReportInv, Published
  <2>8. CASE ToValidating(r)
    BY SMTT(30), <2>8 DEF ToValidating, Steps, Statements, Lasting
  <2>9. CASE CallPublish(r)
    BY SMTT(30), <2>9 DEF CallPublish, Steps, Statements, Lasting
  <2>10. CASE Abandon(r)
    BY SMTT(30), <2>10 DEF Abandon, Steps, Statements, Lasting
  <2>11. CASE PublishBegin(r)
    BY SMTT(30), <2>11 DEF PublishBegin, Steps, Statements, Lasting
  <2>12. CASE PublishCheck(r)
    BY SMTT(30), <2>12 DEF PublishCheck, Steps, Statements, Lasting
  <2>13. CASE PublishWrite(r)
    BY SMTT(30), <2>13 DEF PublishWrite, Steps, Statements, Lasting
  <2>14. CASE PublishCommit(r)
    BY SMTT(30), <2>14 DEF PublishCommit, CommitInServer, Steps, Statements, Lasting
  <2>15. CASE Notify(r)
    BY SMTT(30), <2>15 DEF Notify, Steps, Statements, Lasting, ReportInv, Published
  <2>16. CASE Rollback(r)
    BY SMTT(30), <2>16 DEF Rollback, Steps, Statements, Lasting
  <2>17. CASE Fail(r)
    BY SMTT(30), <2>17 DEF Fail, FailInServer, Steps, Statements, Lasting
  <2>18. CASE Unlock(r)
    BY SMTT(30), <2>18, NoneIsNoRun DEF Unlock, Steps, Statements, Lasting
  <2>19. CASE Exit(r)
    BY SMTT(30), <2>19 DEF Exit, Steps, Statements, Lasting
  <2>20. CASE Rejected(r)
    BY SMTT(30), <2>20, OnErrorTargets DEF Rejected, Commits, ClosesOnError, Steps, Statements, Lasting
  <2>21. CASE ContextDone(r)
    BY SMTT(30), <2>21, OnErrorTargets DEF ContextDone, Commits, ClosesOnError, UnderRunContext, Steps, Statements, Lasting
  <2>22. CASE Lost(r)
    BY SMTT(30), <2>22, OnErrorTargets DEF Lost, Steps, Statements, Lasting
  <2>23. CASE NotConnected(r)
    BY SMTT(30), <2>23, OnErrorTargets DEF NotConnected, Steps, Statements, Lasting
  <2>24. CASE Kill(r)
    BY SMTT(30), <2>24 DEF Kill, Steps, Statements, Lasting
  <2>25. CASE RunOrphan(r)
    <3>1. CASE orphan[r] = "lock"
      BY <2>25, <3>1, NoneIsNoRun DEF RunOrphan, Statements, Lasting
    <3>2. CASE orphan[r] \in {"stageCommit", "pubCommit"}
      BY SMTT(60), <2>25, <3>2 DEF RunOrphan, Statements, CommitInServer, Lasting
    <3>3. CASE orphan[r] = "toValidating"
      BY <2>25, <3>3 DEF RunOrphan, Statements, Lasting
    <3>4. CASE orphan[r] = "fail"
      BY <2>25, <3>4 DEF RunOrphan, Statements, FailInServer, Lasting
    <3>5. QED
      BY <2>25, <3>1, <3>2, <3>3, <3>4 DEF RunOrphan
  <2>26. CASE EndSession(r)
    BY SMTT(30), <2>26, NoneIsNoRun DEF EndSession, Steps, Statements, Lasting
  <2>90. QED
    BY <2>0, NextActions,
       <2>1, <2>2, <2>3, <2>4, <2>5, <2>6, <2>7, <2>8, <2>9, <2>10,
       <2>11, <2>12, <2>13, <2>14, <2>15, <2>16, <2>17, <2>18, <2>19, <2>20,
       <2>21, <2>22, <2>23, <2>24, <2>25, <2>26
<1>3. QED
  BY <1>1, <1>2

(* Reports stay true. *)
LEMMA ReportNext == IInv /\ [Next]_vars => ReportInv'
<1> SUFFICES ASSUME IInv, [Next]_vars PROVE ReportInv'
  OBVIOUS
<1> USE DEF IInv, TypeOK, database, session, process, Goto, Report, Answered, Live, SessionInv, RowInv, ReportInv, Published, Unstaged, Staged
<1>1. CASE UNCHANGED vars
  BY <1>1 DEF vars
<1>2. CASE Next
  <2>0. PICK r \in Runs : Client(r) \/ Kill(r) \/ Server(r)
    BY <1>2 DEF Next
  <2>1. CASE Connect(r)
    BY SMTT(30), <2>1 DEF Connect, Steps, Statements, Lasting
  <2>2. CASE TryLock(r)
    BY SMTT(30), <2>2, NoneIsNoRun DEF TryLock, Steps, Statements, Lasting
  <2>3. CASE ReadBaseline(r)
    BY SMTT(30), <2>3 DEF ReadBaseline, Steps, Statements, Lasting
  <2>4. CASE StageBegin(r)
    BY SMTT(30), <2>4 DEF StageBegin, Steps, Statements, Lasting
  <2>5. CASE StageWrite(r)
    BY SMTT(30), <2>5 DEF StageWrite, Steps, Statements, Lasting
  <2>6. CASE StageCommit(r)
    BY SMTT(30), <2>6 DEF StageCommit, CommitInServer, Steps, Statements, Lasting
  <2>7. CASE ResolveBundle(r)
    BY SMTT(30), <2>7 DEF ResolveBundle, Steps, Statements, Lasting
  <2>8. CASE ToValidating(r)
    BY SMTT(30), <2>8 DEF ToValidating, Steps, Statements, Lasting
  <2>9. CASE CallPublish(r)
    BY SMTT(30), <2>9 DEF CallPublish, Steps, Statements, Lasting
  <2>10. CASE Abandon(r)
    BY SMTT(30), <2>10 DEF Abandon, Steps, Statements, Lasting
  <2>11. CASE PublishBegin(r)
    BY SMTT(30), <2>11 DEF PublishBegin, Steps, Statements, Lasting
  <2>12. CASE PublishCheck(r)
    BY SMTT(30), <2>12 DEF PublishCheck, Steps, Statements, Lasting
  <2>13. CASE PublishWrite(r)
    BY SMTT(30), <2>13 DEF PublishWrite, Steps, Statements, Lasting
  <2>14. CASE PublishCommit(r)
    BY SMTT(30), <2>14 DEF PublishCommit, CommitInServer, Steps, Statements, Lasting
  <2>15. CASE Notify(r)
    BY SMTT(30), <2>15 DEF Notify, Steps, Statements, Lasting
  <2>16. CASE Rollback(r)
    BY SMTT(30), <2>16 DEF Rollback, Steps, Statements, Lasting
  <2>17. CASE Fail(r)
    BY SMTT(30), <2>17 DEF Fail, FailInServer, Steps, Statements, Lasting
  <2>18. CASE Unlock(r)
    BY SMTT(30), <2>18, NoneIsNoRun DEF Unlock, Steps, Statements, Lasting
  <2>19. CASE Exit(r)
    BY SMTT(30), <2>19 DEF Exit, Steps, Statements, Lasting
  <2>20. CASE Rejected(r)
    BY SMTT(30), <2>20, OnErrorTargets DEF Rejected, Commits, ClosesOnError, Steps, Statements, Lasting
  <2>21. CASE ContextDone(r)
    BY SMTT(30), <2>21, OnErrorTargets DEF ContextDone, Commits, ClosesOnError, UnderRunContext, Steps, Statements, Lasting
  <2>22. CASE Lost(r)
    BY SMTT(30), <2>22, OnErrorTargets DEF Lost, Steps, Statements, Lasting
  <2>23. CASE NotConnected(r)
    BY SMTT(30), <2>23, OnErrorTargets DEF NotConnected, Steps, Statements, Lasting
  <2>24. CASE Kill(r)
    BY SMTT(30), <2>24 DEF Kill, Steps, Statements, Lasting
  <2>25. CASE RunOrphan(r)
    <3>1. CASE orphan[r] = "lock"
      BY <2>25, <3>1, NoneIsNoRun DEF RunOrphan, Statements, Lasting
    <3>2. CASE orphan[r] \in {"stageCommit", "pubCommit"}
      BY SMTT(60), <2>25, <3>2 DEF RunOrphan, Statements, CommitInServer, Lasting
    <3>3. CASE orphan[r] = "toValidating"
      BY <2>25, <3>3 DEF RunOrphan, Statements, Lasting
    <3>4. CASE orphan[r] = "fail"
      BY <2>25, <3>4 DEF RunOrphan, Statements, FailInServer, Lasting
    <3>5. QED
      BY <2>25, <3>1, <3>2, <3>3, <3>4 DEF RunOrphan
  <2>26. CASE EndSession(r)
    BY SMTT(30), <2>26, NoneIsNoRun DEF EndSession, Steps, Statements, Lasting
  <2>90. QED
    BY <2>0, NextActions,
       <2>1, <2>2, <2>3, <2>4, <2>5, <2>6, <2>7, <2>8, <2>9, <2>10,
       <2>11, <2>12, <2>13, <2>14, <2>15, <2>16, <2>17, <2>18, <2>19, <2>20,
       <2>21, <2>22, <2>23, <2>24, <2>25, <2>26
<1>3. QED
  BY <1>1, <1>2

(***************************************************************************)
(* The two kinds of steps, as far as the history is concerned: a step      *)
(* either leaves it alone or appends one publication.                      *)
(***************************************************************************)
Quiet ==
  /\ Published' = Published
  /\ publishedAt' = publishedAt
  /\ \A q \in Published : previous'[q] = previous[q]

Appends(r) ==
  /\ writes[r] = "publish"
  /\ status' = [status EXCEPT ![r] = "published"]
  /\ publishedAt' = [publishedAt EXCEPT ![r] = stamp[r]]
  /\ previous' = previous

(* The two kinds of commit: of staged rows and of a publication.           *)
LEMMA CommitKinds ==
  ASSUME IInv, NEW r \in Runs, CommitInServer(r), previous' = previous,
         writes[r] # "none"
  PROVE  Quiet \/ Appends(r)
<1>1. CASE writes[r] = "insert"
  <2>1. status[r] = "absent"
    BY <1>1 DEF IInv, RowInv
  <2>2. Published' = Published
    BY <1>1, <2>1 DEF CommitInServer, Published, IInv, TypeOK
  <2>3. publishedAt' = publishedAt
    BY <1>1 DEF CommitInServer, IInv, TypeOK
  <2>4. QED
    BY <2>2, <2>3 DEF Quiet
<1>2. CASE writes[r] = "publish"
  BY <1>2 DEF CommitInServer, Appends
<1>3. QED
  BY <1>1, <1>2 DEF IInv, TypeOK

(* Every step leaves the history alone or appends one snapshot to it.      *)
LEMMA StepKinds == IInv /\ [Next]_vars => Quiet \/ \E r \in Runs : Appends(r)
<1> SUFFICES ASSUME IInv, [Next]_vars PROVE Quiet \/ \E r \in Runs : Appends(r)
  OBVIOUS
<1> USE DEF database, session, process
<1>1. CASE UNCHANGED vars
  BY <1>1 DEF vars, Quiet, Published
<1>2. CASE Next
  <2>0. PICK r \in Runs : Client(r) \/ Kill(r) \/ Server(r)
    BY <1>2 DEF Next
  <2>1. CASE Connect(r)
    BY <2>1 DEF Connect, Quiet, Published
  <2>2. CASE TryLock(r)
    BY <2>2 DEF TryLock, Quiet, Published
  <2>3. CASE ReadBaseline(r)
    <3>1. r \notin Published
      BY <2>3 DEF ReadBaseline, Answered, IInv, RowInv, Unstaged, Published
    <3>2. QED
      BY <2>3, <3>1 DEF ReadBaseline, Quiet, Published, IInv, TypeOK
  <2>4. CASE StageBegin(r)
    BY <2>4 DEF StageBegin, Quiet, Published
  <2>5. CASE StageWrite(r)
    BY <2>5 DEF StageWrite, Quiet, Published
  <2>6. CASE StageCommit(r)
    <3>1. writes[r] # "none"
      BY <2>6 DEF StageCommit, Answered, IInv, RowInv, Live
    <3>2. QED
      BY <2>6, <3>1, CommitKinds DEF StageCommit
  <2>7. CASE ResolveBundle(r)
    BY <2>7 DEF ResolveBundle, Quiet, Published
  <2>8. CASE ToValidating(r)
    <3>1. status[r] = "building"
      BY <2>8 DEF ToValidating, Answered, IInv, RowInv
    <3>2. QED
      BY <2>8, <3>1 DEF ToValidating, Quiet, Published, IInv, TypeOK
  <2>9. CASE CallPublish(r)
    BY <2>9 DEF CallPublish, Quiet, Published
  <2>10. CASE Abandon(r)
    BY <2>10 DEF Abandon, Quiet, Published
  <2>11. CASE PublishBegin(r)
    BY <2>11 DEF PublishBegin, Quiet, Published
  <2>12. CASE PublishCheck(r)
    BY <2>12 DEF PublishCheck, Quiet, Published
  <2>13. CASE PublishWrite(r)
    BY <2>13 DEF PublishWrite, Quiet, Published
  <2>14. CASE PublishCommit(r)
    <3>1. writes[r] # "none"
      BY <2>14 DEF PublishCommit, Answered, IInv, RowInv, Live
    <3>2. QED
      BY <2>14, <3>1, CommitKinds DEF PublishCommit
  <2>15. CASE Notify(r)
    BY <2>15 DEF Notify, Quiet, Published
  <2>16. CASE Rollback(r)
    BY <2>16 DEF Rollback, Quiet, Published
  <2>17. CASE Fail(r)
    BY <2>17 DEF Fail, FailInServer, Quiet, Published, IInv, TypeOK
  <2>18. CASE Unlock(r)
    BY <2>18 DEF Unlock, Quiet, Published
  <2>19. CASE Exit(r)
    BY <2>19 DEF Exit, Quiet, Published
  <2>20. CASE Rejected(r)
    BY <2>20 DEF Rejected, Quiet, Published
  <2>21. CASE ContextDone(r)
    BY <2>21 DEF ContextDone, Quiet, Published
  <2>22. CASE Lost(r)
    BY <2>22 DEF Lost, Quiet, Published
  <2>23. CASE NotConnected(r)
    BY <2>23 DEF NotConnected, Quiet, Published
  <2>24. CASE Kill(r)
    BY <2>24 DEF Kill, Quiet, Published
  <2>25. CASE RunOrphan(r)
    <3>1. CASE orphan[r] = "lock"
      BY <2>25, <3>1 DEF RunOrphan, Quiet, Published
    <3>2. CASE orphan[r] \in {"stageCommit", "pubCommit"}
      <4>1. writes[r] # "none"
        BY <3>2 DEF IInv, RowInv
      <4>2. CommitInServer(r) /\ previous' = previous
        BY <2>25, <3>2 DEF RunOrphan
      <4>3. QED
        BY <4>1, <4>2, CommitKinds
    <3>3. CASE orphan[r] = "toValidating"
      <4>1. status[r] = "building"
        BY <3>3 DEF IInv, RowInv
      <4>2. QED
        BY <2>25, <3>3, <4>1 DEF RunOrphan, Quiet, Published, IInv, TypeOK
    <3>4. CASE orphan[r] = "fail"
      BY <2>25, <3>4 DEF RunOrphan, FailInServer, Quiet, Published, IInv, TypeOK
    <3>5. QED
      BY <2>25, <3>1, <3>2, <3>3, <3>4 DEF RunOrphan
  <2>26. CASE EndSession(r)
    BY <2>26 DEF EndSession, Quiet, Published
  <2>90. QED
    BY <2>0, NextActions,
       <2>1, <2>2, <2>3, <2>4, <2>5, <2>6, <2>7, <2>8, <2>9, <2>10,
       <2>11, <2>12, <2>13, <2>14, <2>15, <2>16, <2>17, <2>18, <2>19, <2>20,
       <2>21, <2>22, <2>23, <2>24, <2>25, <2>26
<1>3. QED
  BY <1>1, <1>2

(* An appended snapshot is newer than all others and sits on the newest.   *)
LEMMA AppendFacts ==
  ASSUME IInv, NEW r \in Runs, Appends(r)
  PROVE  /\ r \notin Published
         /\ Published' = Published \cup {r}
         /\ IsLatest(previous[r].id)
         /\ previous[r].id # r
         /\ previous[r].id # None => previous[r].id \in Published
         /\ publishedAt'[r] = stamp[r]
         /\ \A q \in Published : publishedAt'[q] = publishedAt[q] /\ publishedAt'[q] < publishedAt'[r]
<1>1. writes[r] = "publish"
  BY DEF Appends
<1>2. r \notin Published
  BY <1>1 DEF IInv, RowInv, Published
<1>3. Published' = Published \cup {r}
  BY DEF Appends, Published, IInv, TypeOK
<1>4. IsLatest(previous[r].id) /\ \A q \in Published : publishedAt[q] < stamp[r]
  BY <1>1 DEF IInv, BaselineInv, Bound
<1>5. \A q \in Published : publishedAt'[q] = publishedAt[q]
  BY <1>2 DEF Appends, Published, IInv, TypeOK
<1>6. publishedAt'[r] = stamp[r]
  BY DEF Appends, IInv, TypeOK
<1>7. previous[r].id # None => previous[r].id \in Published
  BY <1>4 DEF IsLatest
<1>8. previous[r].id # r
  BY <1>2, <1>7, NoneIsNoRun
<1>9. QED
  BY <1>2, <1>3, <1>4, <1>5, <1>6, <1>7, <1>8

(* The history stays one history.                                          *)
LEMMA HistoryNext == IInv /\ [Next]_vars => HistoryInv'
<1> SUFFICES ASSUME IInv, [Next]_vars PROVE HistoryInv'
  OBVIOUS
<1>1. CASE Quiet
  BY <1>1 DEF Quiet, IInv, HistoryInv, HistoryOrderedByTime, IsLatest
<1>2. ASSUME NEW r \in Runs, Appends(r) PROVE HistoryInv'
  <2> USE <1>2
  <2>1. /\ r \notin Published
        /\ Published' = Published \cup {r}
        /\ IsLatest(previous[r].id)
        /\ previous[r].id # r
        /\ previous[r].id # None => previous[r].id \in Published
        /\ publishedAt'[r] = stamp[r]
        /\ \A q \in Published : publishedAt'[q] = publishedAt[q] /\ publishedAt'[q] < publishedAt'[r]
    BY AppendFacts
  <2>2. previous' = previous
    BY DEF Appends
  <2>3. /\ publishedAt \in [Runs -> Nat] /\ stamp \in [Runs -> Nat]
        /\ Published \subseteq Runs
    BY DEF IInv, TypeOK, Published
  <2>4. HistoryInv
    BY DEF IInv
  <2>5. IsLatest(r)'
    BY <2>1, <2>3, NoneIsNoRun DEF IsLatest
  <2>6. \A s \in Published' : previous'[s].id = None \/ previous'[s].id \in Published'
    BY <2>1, <2>2, <2>4 DEF HistoryInv
  <2>7. HistoryOrderedByTime'
    <3>1. SUFFICES ASSUME NEW s \in Published'
          PROVE  /\ \A q \in Published' : q # s => publishedAt'[q] # publishedAt'[s]
                 /\ previous'[s].id # None =>
                      /\ publishedAt'[previous'[s].id] < publishedAt'[s]
                      /\ \A q \in Published' : publishedAt'[q] < publishedAt'[s] =>
                            publishedAt'[q] <= publishedAt'[previous'[s].id]
      BY DEF HistoryOrderedByTime
    <3>2. CASE s = r
      BY <3>2, <2>1, <2>2, <2>3 DEF IsLatest
    <3>3. CASE s # r
      <4>1. s \in Published
        BY <3>3, <2>1
      <4>2. /\ \A q \in Published : q # s => publishedAt[q] # publishedAt[s]
            /\ previous[s].id # None =>
                 /\ previous[s].id \in Published
                 /\ publishedAt[previous[s].id] < publishedAt[s]
                 /\ \A q \in Published : publishedAt[q] < publishedAt[s] =>
                       publishedAt[q] <= publishedAt[previous[s].id]
        BY <4>1, <2>4 DEF HistoryInv, HistoryOrderedByTime
      <4>3. QED
        BY <3>3, <4>1, <4>2, <2>1, <2>2, <2>3
    <3>4. QED
      BY <3>2, <3>3
  <2>8. QED
    BY <2>5, <2>6, <2>7 DEF HistoryInv
<1>3. QED
  BY <1>1, <1>2, StepKinds

(* Nobody but the publisher itself is bound to a baseline when it commits. *)
LEMMA OneBound ==
  ASSUME IInv, NEW r \in Runs, writes[r] = "publish", NEW q \in Runs, Bound(q)
  PROVE  q = r
BY DEF IInv, LockInv, UnderLock, Bound, Resolved, Staged, Steps, Statements

(* A step that neither touches the history nor binds a run to it keeps     *)
(* every baseline the latest snapshot.                                     *)
Calm ==
  /\ Published' = Published /\ publishedAt' = publishedAt /\ previous' = previous
  /\ \A q \in Runs : Bound(q)' => Bound(q)
  /\ \A q \in Runs : (writes'[q] = "publish" => writes[q] = "publish" /\ stamp'[q] = stamp[q])

(* A step that publishes nothing keeps every latest snapshot the latest.   *)
LEMMA CalmKeepsBaseline ==
  ASSUME IInv, Calm PROVE BaselineInv'
BY DEF IInv, BaselineInv, Calm, IsLatest

(* Whoever is bound to a baseline finds it unchanged.                      *)
LEMMA BaselineNext == IInv /\ [Next]_vars => BaselineInv'
<1> SUFFICES ASSUME IInv, [Next]_vars PROVE BaselineInv'
  OBVIOUS
<1> USE DEF database, session, process, Goto, Answered
<1>1. CASE UNCHANGED vars
  <2>1. Calm
    BY <1>1 DEF vars, Calm, Published, Bound, Live
  <2>2. QED
    BY <2>1, CalmKeepsBaseline
<1>2. CASE Next
  <2>0. PICK r \in Runs : Client(r) \/ Kill(r) \/ Server(r)
    BY <1>2 DEF Next
  <2>1. CASE Connect(r)
    <3>1. Calm
      BY <2>1 DEF Connect, Calm, Published, Bound, Live, Resolved, Staged, Statements, IInv, TypeOK, SessionInv
    <3>2. QED
      BY <3>1, CalmKeepsBaseline
  <2>2. CASE TryLock(r)
    <3>1. Calm
      BY <2>2 DEF TryLock, Calm, Published, Bound, Live, Resolved, Staged, Statements, IInv, TypeOK
    <3>2. QED
      BY <3>1, CalmKeepsBaseline
  <2>3. CASE ReadBaseline(r)
    <3>1. /\ Published' = Published /\ publishedAt' = publishedAt
          /\ writes' = writes /\ stamp' = stamp
      BY <2>3 DEF ReadBaseline, Published
    <3>2. writes[r] # "publish"
      BY <2>3 DEF ReadBaseline, IInv, RowInv
    <3>3. PICK p \in Runs \cup {None} :
            /\ IsLatest(p)
            /\ previous' = [previous EXCEPT ![r] =
                              [id |-> p, at |-> IF p = None THEN 0 ELSE publishedAt[p]]]
      BY <2>3 DEF ReadBaseline
    <3>4. ASSUME NEW q \in Runs
          PROVE  /\ Bound(q)' => /\ IsLatest(previous[q].id)'
                                 /\ previous'[q].id # None =>
                                      previous'[q].at = publishedAt'[previous'[q].id]
                 /\ writes'[q] = "publish" => \A s \in Published' : publishedAt'[s] < stamp'[q]
      <4>1. CASE q = r
        BY <4>1, <3>1, <3>2, <3>3 DEF IsLatest, IInv, TypeOK
      <4>2. CASE q # r
        <5>1. previous'[q] = previous[q] /\ (Bound(q)' => Bound(q))
          BY <4>2, <2>3, <3>3 DEF ReadBaseline, Bound, Live, IInv, TypeOK
        <5>2. QED
          BY <5>1, <3>1 DEF IInv, BaselineInv, IsLatest
      <4>3. QED
        BY <4>1, <4>2
    <3>5. QED
      BY <3>4 DEF BaselineInv
  <2>4. CASE StageBegin(r)
    <3>1. Calm
      BY <2>4 DEF StageBegin, Calm, Published, Bound, Live, Resolved, Staged, Statements, IInv, TypeOK
    <3>2. QED
      BY <3>1, CalmKeepsBaseline
  <2>5. CASE StageWrite(r)
    <3>1. Calm
      BY <2>5 DEF StageWrite, Calm, Published, Bound, Live, Resolved, Staged, Statements, IInv, TypeOK
    <3>2. QED
      BY <3>1, CalmKeepsBaseline
  <2>6. CASE StageCommit(r)
    <3>1. writes[r] # "none" /\ writes'[r] = "none"
      BY <2>6 DEF StageCommit, CommitInServer, IInv, RowInv, TypeOK, Live
    <3>2. CASE Quiet
      <4>1. Calm
        BY <2>6, <3>1, <3>2 DEF Quiet, StageCommit, CommitInServer, Calm, Published, Bound, Live, Resolved, Staged, Statements, IInv, TypeOK
      <4>2. QED
        BY <4>1, CalmKeepsBaseline
    <3>3. CASE Appends(r)
      <4>1. \A q \in Runs : ~Bound(q)'
        <5>1. \A q \in Runs : Bound(q) => q = r
          BY <3>3, OneBound DEF Appends
        <5>2. \A q \in Runs : q # r => (Bound(q)' => Bound(q))
          BY <2>6 DEF StageCommit, CommitInServer, Bound, Live, IInv, TypeOK
        <5>3. ~Bound(r)'
          BY <2>6, <3>1, <3>3 DEF StageCommit, Appends, Bound, Resolved, Staged, IInv, TypeOK, RowInv, Live
        <5>4. QED
          BY <5>1, <5>2, <5>3
      <4>2. QED
        BY <4>1 DEF BaselineInv, Bound
    <3>4. QED
      BY <2>6, <3>1, <3>2, <3>3, CommitKinds DEF StageCommit
  <2>7. CASE ResolveBundle(r)
    <3>1. Calm
      BY <2>7 DEF ResolveBundle, Calm, Published, Bound, Live, Resolved, Staged, Statements, IInv, TypeOK
    <3>2. QED
      BY <3>1, CalmKeepsBaseline
  <2>8. CASE ToValidating(r)
    <3>1. Calm
      BY <2>8 DEF ToValidating, Calm, Published, Bound, Live, Resolved, Staged, Statements, IInv, TypeOK, RowInv
    <3>2. QED
      BY <3>1, CalmKeepsBaseline
  <2>9. CASE CallPublish(r)
    <3>1. Calm
      BY <2>9 DEF CallPublish, Calm, Published, Bound, Live, Resolved, Staged, Statements, IInv, TypeOK
    <3>2. QED
      BY <3>1, CalmKeepsBaseline
  <2>10. CASE Abandon(r)
    <3>1. Calm
      BY <2>10 DEF Abandon, Calm, Published, Bound, Live, Resolved, Staged, Statements, IInv, TypeOK
    <3>2. QED
      BY <3>1, CalmKeepsBaseline
  <2>11. CASE PublishBegin(r)
    <3>1. Calm
      BY <2>11 DEF PublishBegin, Calm, Published, Bound, Live, Resolved, Staged, Statements, IInv, TypeOK
    <3>2. QED
      BY <3>1, CalmKeepsBaseline
  <2>12. CASE PublishCheck(r)
    <3>1. Calm
      BY <2>12 DEF PublishCheck, Calm, Published, Bound, Live, Resolved, Staged, Statements, IInv, TypeOK
    <3>2. QED
      BY <3>1, CalmKeepsBaseline
  <2>13. CASE PublishWrite(r)
    <3>1. CASE status[r] # "validating"
      <4>1. Calm
        BY <2>13, <3>1 DEF PublishWrite, Report, Calm, Published, Bound, Live, Resolved, Staged, Statements, IInv, TypeOK
      <4>2. QED
        BY <4>1, CalmKeepsBaseline
    <3>2. CASE status[r] = "validating"
      <4>1. PICK now \in Times : stamp' = [stamp EXCEPT ![r] = PublicationTime(now, previous[r])]
        BY <2>13, <3>2 DEF PublishWrite
      <4>2. /\ Published' = Published /\ publishedAt' = publishedAt /\ previous' = previous
            /\ \A q \in Runs : Bound(q)' => Bound(q)
            /\ \A q \in Runs : q # r => writes'[q] = writes[q] /\ stamp'[q] = stamp[q]
        BY <2>13, <3>2 DEF PublishWrite, Published, Bound, Live, Resolved, Staged, IInv, TypeOK
      <4>3. Bound(r)
        BY <2>13 DEF PublishWrite, Bound, Live, Resolved, Staged
      <4>4. \A q \in Published : publishedAt[q] < PublicationTime(now, previous[r])
        <5>1. /\ IsLatest(previous[r].id)
              /\ previous[r].id # None => previous[r].at = publishedAt[previous[r].id]
          BY <4>3 DEF IInv, BaselineInv
        <5>2. now \in Nat /\ publishedAt \in [Runs -> Nat] /\ Published \subseteq Runs
          BY TimesAreNaturals DEF IInv, TypeOK, Published
        <5>3. QED
          BY <5>1, <5>2 DEF IsLatest, PublicationTime
      <4>5. stamp'[r] = PublicationTime(now, previous[r])
        BY <4>1 DEF IInv, TypeOK
      <4>6. QED
        BY <4>2, <4>4, <4>5 DEF IInv, BaselineInv, IsLatest
    <3>3. QED
      BY <3>1, <3>2
  <2>14. CASE PublishCommit(r)
    <3>1. writes[r] # "none" /\ writes'[r] = "none"
      BY <2>14 DEF PublishCommit, CommitInServer, IInv, RowInv, TypeOK, Live
    <3>2. CASE Quiet
      <4>1. Calm
        BY <2>14, <3>1, <3>2 DEF Quiet, PublishCommit, CommitInServer, Calm, Published, Bound, Live, Resolved, Staged, Statements, IInv, TypeOK
      <4>2. QED
        BY <4>1, CalmKeepsBaseline
    <3>3. CASE Appends(r)
      <4>1. \A q \in Runs : ~Bound(q)'
        <5>1. \A q \in Runs : Bound(q) => q = r
          BY <3>3, OneBound DEF Appends
        <5>2. \A q \in Runs : q # r => (Bound(q)' => Bound(q))
          BY <2>14 DEF PublishCommit, CommitInServer, Bound, Live, IInv, TypeOK
        <5>3. ~Bound(r)'
          BY <2>14, <3>1, <3>3 DEF PublishCommit, Appends, Bound, Resolved, Staged, IInv, TypeOK, RowInv, Live
        <5>4. QED
          BY <5>1, <5>2, <5>3
      <4>2. QED
        BY <4>1 DEF BaselineInv, Bound
    <3>4. QED
      BY <2>14, <3>1, <3>2, <3>3, CommitKinds DEF PublishCommit
  <2>15. CASE Notify(r)
    <3>1. Calm
      BY <2>15 DEF Notify, Calm, Published, Bound, Live, Resolved, Staged, Statements, IInv, TypeOK
    <3>2. QED
      BY <3>1, CalmKeepsBaseline
  <2>16. CASE Rollback(r)
    <3>1. Calm
      BY <2>16 DEF Rollback, Calm, Published, Bound, Live, Resolved, Staged, Statements, IInv, TypeOK
    <3>2. QED
      BY <3>1, CalmKeepsBaseline
  <2>17. CASE Fail(r)
    <3>1. Calm
      BY <2>17 DEF Fail, FailInServer, Calm, Published, Bound, Live, Resolved, Staged, Statements, IInv, TypeOK, RowInv
    <3>2. QED
      BY <3>1, CalmKeepsBaseline
  <2>18. CASE Unlock(r)
    <3>1. Calm
      BY <2>18 DEF Unlock, Calm, Published, Bound, Live, Resolved, Staged, Statements, IInv, TypeOK
    <3>2. QED
      BY <3>1, CalmKeepsBaseline
  <2>19. CASE Exit(r)
    <3>1. Calm
      BY <2>19 DEF Exit, Calm, Published, Bound, Live, Resolved, Staged, Statements, IInv, TypeOK
    <3>2. QED
      BY <3>1, CalmKeepsBaseline
  <2>20. CASE Rejected(r)
    <3>1. Calm
      BY <2>20, OnErrorTargets DEF Rejected, Commits, ClosesOnError, Calm, Published, Bound, Live, Resolved, Staged, Statements, IInv, TypeOK
    <3>2. QED
      BY <3>1, CalmKeepsBaseline
  <2>21. CASE ContextDone(r)
    <3>1. Calm
      BY <2>21, OnErrorTargets DEF ContextDone, Commits, ClosesOnError, UnderRunContext, Calm, Published, Bound, Live, Resolved, Staged, Statements, IInv, TypeOK
    <3>2. QED
      BY <3>1, CalmKeepsBaseline
  <2>22. CASE Lost(r)
    <3>1. Calm
      BY <2>22, OnErrorTargets DEF Lost, Calm, Published, Bound, Live, Resolved, Staged, Statements, IInv, TypeOK
    <3>2. QED
      BY <3>1, CalmKeepsBaseline
  <2>23. CASE NotConnected(r)
    <3>1. Calm
      BY <2>23, OnErrorTargets DEF NotConnected, Calm, Published, Bound, Live, Resolved, Staged, Statements, IInv, TypeOK
    <3>2. QED
      BY <3>1, CalmKeepsBaseline
  <2>24. CASE Kill(r)
    <3>1. Calm
      BY <2>24 DEF Kill, Calm, Published, Bound, Live, Resolved, Staged, Statements, IInv, TypeOK
    <3>2. QED
      BY <3>1, CalmKeepsBaseline
  <2>25. CASE RunOrphan(r)
    <3>1. CASE orphan[r] = "lock"
      <4>1. Calm
        BY <2>25, <3>1 DEF RunOrphan, Calm, Published, Bound, Live, Resolved, Staged, Statements, IInv, TypeOK
      <4>2. QED
        BY <4>1, CalmKeepsBaseline
    <3>2. CASE orphan[r] \in {"stageCommit", "pubCommit"}
      <4>1. /\ writes[r] # "none" /\ conn[r] = "closed"
            /\ CommitInServer(r) /\ UNCHANGED <<backend, conn, pc, previous>>
        BY <2>25, <3>2 DEF RunOrphan, IInv, RowInv, SessionInv
      <4>2. writes'[r] = "none" /\ ~Bound(r)'
        BY <4>1 DEF CommitInServer, Bound, Live, IInv, TypeOK
      <4>3. \A q \in Runs : q # r => (Bound(q)' => Bound(q))
        BY <4>1 DEF CommitInServer, Bound, Live, IInv, TypeOK
      <4>4. CASE Quiet
        <5>1. Calm
          BY <4>1, <4>2, <4>3, <4>4 DEF Quiet, CommitInServer, Calm, IInv, TypeOK
        <5>2. QED
          BY <5>1, CalmKeepsBaseline
      <4>5. CASE Appends(r)
        <5>1. \A q \in Runs : Bound(q) => q = r
          BY <4>5, OneBound DEF Appends
        <5>2. \A q \in Runs : ~Bound(q)'
          BY <5>1, <4>2, <4>3
        <5>3. QED
          BY <5>2 DEF BaselineInv, Bound
      <4>6. QED
        BY <4>1, <4>4, <4>5, CommitKinds
    <3>3. CASE orphan[r] \in {"toValidating", "fail"}
      <4>1. Calm
        BY <2>25, <3>3 DEF RunOrphan, FailInServer, RowInv, Calm, Published, Bound, Live, Resolved, Staged, Statements, IInv, TypeOK
      <4>2. QED
        BY <4>1, CalmKeepsBaseline
    <3>4. QED
      BY <2>25, <3>1, <3>2, <3>3 DEF RunOrphan
  <2>26. CASE EndSession(r)
    <3>1. Calm
      BY <2>26 DEF EndSession, Calm, Published, Bound, Live, Resolved, Staged, Statements, IInv, TypeOK
    <3>2. QED
      BY <3>1, CalmKeepsBaseline
  <2>90. QED
    BY <2>0, NextActions,
       <2>1, <2>2, <2>3, <2>4, <2>5, <2>6, <2>7, <2>8, <2>9, <2>10,
       <2>11, <2>12, <2>13, <2>14, <2>15, <2>16, <2>17, <2>18, <2>19, <2>20,
       <2>21, <2>22, <2>23, <2>24, <2>25, <2>26
<1>3. QED
  BY <1>1, <1>2

-----------------------------------------------------------------------------
(* The initial state satisfies the inductive invariant.                    *)
LEMMA InitIInv == Init => IInv
<1> SUFFICES ASSUME Init PROVE IInv
  OBVIOUS
<1>1. TypeOK
  BY TypeInit
<1>2. Published = {}
  BY DEF Init, Published
<1>3. SessionInv /\ LockInv /\ RowInv /\ ReportInv
  BY <1>2, NoneIsNoRun, DryRunsAreRuns
     DEF Init, SessionInv, LockInv, RowInv, ReportInv, Live, Unstaged, Staged, UnderLock, Lasting
<1>4. BaselineInv
  BY DEF Init, BaselineInv, Bound, Live
<1>5. HistoryInv
  BY <1>2 DEF HistoryInv, HistoryOrderedByTime, IsLatest
<1>6. QED
  BY <1>1, <1>3, <1>4, <1>5 DEF IInv

(* Every step preserves the inductive invariant.                           *)
LEMMA NextIInv == IInv /\ [Next]_vars => IInv'
<1> SUFFICES ASSUME IInv, [Next]_vars PROVE IInv'
  OBVIOUS
<1>1. TypeOK'
  BY TypeNext DEF IInv
<1>2. SessionInv' /\ LockInv' /\ RowInv' /\ ReportInv'
  BY SessionNext, LockNext, RowNext, ReportNext
<1>3. BaselineInv' /\ HistoryInv'
  BY BaselineNext, HistoryNext
<1>4. QED
  BY <1>1, <1>2, <1>3 DEF IInv

(* The inductive invariant holds throughout.                               *)
LEMMA IInvHolds == Spec => []IInv
BY InitIInv, NextIInv, PTL DEF Spec

(* Type correctness of every reachable state.                              *)
THEOREM TypeCorrect == Spec => []TypeOK
<1>1. IInv => TypeOK
  BY DEF IInv
<1>2. QED
  BY <1>1, IInvHolds, PTL

(* The advisory lock fences publications: whoever may still commit one     *)
(* holds the lock, and its baseline is still the latest snapshot.          *)
THEOREM LockFences == Spec => []LockFencesPublication
<1>1. IInv => LockFencesPublication
  <2> SUFFICES ASSUME IInv, NEW r \in Runs, InsidePublication(r)
               PROVE  lockHolder = r /\ IsLatest(previous[r].id)
    BY DEF LockFencesPublication
  <2>1. Bound(r)
    BY DEF InsidePublication, Bound, Live, Resolved, Staged, IInv, RowInv
  <2>2. lockHolder = r
    BY <2>1 DEF Bound, IInv, LockInv, UnderLock, Resolved, Staged, Steps, Statements
  <2>3. QED
    BY <2>1, <2>2 DEF IInv, BaselineInv
<1>2. QED
  BY <1>1, IInvHolds, PTL

(* publishedAt orders the snapshots as they replaced one another.          *)
THEOREM HistoryOrdered == Spec => []HistoryOrderedByTime
<1>1. IInv => HistoryOrderedByTime
  BY DEF IInv, HistoryInv
<1>2. QED
  BY <1>1, IInvHolds, PTL

(* Exit status, notification and the database agree.                       *)
THEOREM Reports == Spec => []ReportsAreTrue
<1>1. IInv => ReportsAreTrue
  BY DEF IInv, ReportInv, ReportsAreTrue
<1>2. QED
  BY <1>1, IInvHolds, PTL

-----------------------------------------------------------------------------
(* The head is unique, so the refinement mapping is well defined.          *)
LEMMA HeadIsLatest == IInv => \A p \in Runs \cup {None} : IsLatest(p) => Head = p
<1> SUFFICES ASSUME IInv, NEW p \in Runs \cup {None}, IsLatest(p)
             PROVE  Head = p
  OBVIOUS
<1>1. IsLatest(Head) /\ Head \in Runs \cup {None}
  BY DEF Head
<1>2. \A x, y \in Published : publishedAt[x] = publishedAt[y] => x = y
  BY DEF IInv, HistoryInv, HistoryOrderedByTime
<1>3. publishedAt \in [Runs -> Nat] /\ Published \subseteq Runs
  BY DEF IInv, TypeOK, Published
<1>4. CASE p = None
  BY <1>1, <1>4 DEF IsLatest
<1>5. CASE p # None
  <2>1. Head # None
    BY <1>1, <1>5 DEF IsLatest
  <2>2. /\ p \in Published /\ Head \in Published
        /\ publishedAt[p] <= publishedAt[Head] /\ publishedAt[Head] <= publishedAt[p]
    BY <1>1, <1>5, <2>1 DEF IsLatest
  <2>3. publishedAt[p] = publishedAt[Head]
    BY <2>2, <1>3
  <2>4. QED
    BY <2>2, <2>3, <1>2
<1>6. QED
  BY <1>4, <1>5

(* Ingest implements SnapshotStore: runs, sessions, crashes and lost       *)
(* answers only ever append a snapshot to the head of the history.         *)
THEOREM Refinement == Spec => StoreSpec
<1>1. Init => Store!Init
  <2> SUFFICES ASSUME Init PROVE Store!Init
    OBVIOUS
  <2>1. Published = {}
    BY DEF Init, Published
  <2>2. IInv /\ IsLatest(None)
    BY <2>1, InitIInv DEF IsLatest
  <2>3. Head = None
    BY <2>2, HeadIsLatest
  <2>4. QED
    BY <2>1, <2>3 DEF Store!Init, After
<1>2. IInv /\ IInv' /\ [Next]_vars => [Store!Next]_(Store!vars)
  <2> SUFFICES ASSUME IInv, IInv', [Next]_vars
               PROVE  Store!Next \/ UNCHANGED <<Published, Head, After>>
    BY DEF Store!vars
  <2>0. (IInv => \A p \in Runs \cup {None} : IsLatest(p) => Head = p)'
    BY HeadIsLatest, PTL
  <2>1. CASE Quiet
    <3>1. \A p : IsLatest(p)' <=> IsLatest(p)
      BY <2>1 DEF Quiet, IsLatest
    <3>2. PICK p \in Runs \cup {None} : IsLatest(p)
      BY DEF IInv, HistoryInv
    <3>3. Head = p
      BY <3>2, HeadIsLatest
    <3>4. Head' = p
      BY <3>1, <3>2, <2>0
    <3>5. After' = After
      BY <2>1 DEF Quiet, After
    <3>6. QED
      BY <2>1, <3>3, <3>4, <3>5 DEF Quiet
  <2>2. ASSUME NEW r \in Runs, Appends(r) PROVE Store!Next
    <3>1. /\ r \notin Published /\ Published' = Published \cup {r}
          /\ IsLatest(previous[r].id)
          /\ publishedAt'[r] = stamp[r]
          /\ \A q \in Published : publishedAt'[q] < publishedAt'[r]
      BY <2>2, AppendFacts
    <3>2. Head = previous[r].id
      BY <3>1, HeadIsLatest DEF IInv, TypeOK
    <3>3. IsLatest(r)'
      <4>1. publishedAt' \in [Runs -> Nat] /\ Published \subseteq Runs
        BY DEF IInv, TypeOK, Published
      <4>2. QED
        BY <3>1, <4>1, NoneIsNoRun DEF IsLatest
    <3>4. Head' = r
      BY <3>3, <2>0
    <3>5. After' = [After EXCEPT ![r] = Head]
      BY <2>2, <3>1, <3>2 DEF After, Appends
    <3>6. QED
      BY <3>1, <3>4, <3>5 DEF Store!Next, Store!Publish
  <2>3. QED
    BY <2>1, <2>2, StepKinds
<1>3. QED
  BY <1>1, <1>2, IInvHolds, PTL DEF Spec, StoreSpec, Store!Spec
=============================================================================
