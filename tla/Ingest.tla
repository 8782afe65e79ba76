------------------------------- MODULE Ingest -------------------------------
(***************************************************************************)
(* cmd/ingest and internal/ingestion: one-shot processes that stage a      *)
(* prepared bundle and publish it as the next catalogue snapshot.          *)
(*                                                                         *)
(* A run talks to PostgreSQL over one dedicated connection.  What makes    *)
(* the publication hard is that the connection has two ends.  The client   *)
(* end may give up on a statement (deadline, signal, broken link) that the *)
(* server end still executes, the server end may disappear while the       *)
(* client believes it holds the session advisory lock, and the process may *)
(* be killed between any two statements.  So every run has a client        *)
(* (pc, conn, previous, outcome, notified) and a server session (backend,  *)
(* tx, writes, stamp, orphan), and the committed rows and the lock belong  *)
(* to the server.                                                          *)
(*                                                                         *)
(* A run creates at most one snapshot, under a fresh random id, so a       *)
(* snapshot is named by the run that creates it.                           *)
(***************************************************************************)
EXTENDS Naturals

CONSTANTS
  Runs,      \* invocations of cmd/ingest
  DryRuns,   \* those started without -apply
  None,      \* no run, no snapshot
  Times      \* readings of the database clock; successive readings may go back

ASSUME NoneIsNoRun == None \notin Runs
ASSUME DryRunsAreRuns == DryRuns \subseteq Runs
ASSUME TimesAreNaturals == Times \subseteq Nat

VARIABLES
  \* committed rows and server-wide state
  status,       \* status[r] of the snapshot row of run r, or "absent"
  publishedAt,  \* publishedAt[r], 0 while it is NULL
  lockHolder,   \* the session that holds AdvisoryLockKey, or None
  \* the server end of each connection
  backend,      \* "none", "open", "gone"
  tx,           \* "none", "active", "aborted"
  writes,       \* uncommitted: "none", "insert" (staged rows), "publish" (mark)
  stamp,        \* the publishedAt value inside those uncommitted writes
  orphan,       \* a statement on the wire whose answer nobody waits for
  \* the client end and the process
  conn,         \* "none", "up", "closed"
  pc,           \* the statement or step the process is about to perform
  previous,     \* the baseline captured by stage(): id and publishedAt
  outcome,      \* what the process reports when it exits
  notified      \* the frontend notification: "no", "success", "degraded"

database == <<status, publishedAt, lockHolder>>
session  == <<backend, tx, writes, stamp, orphan>>
process  == <<conn, pc, previous, outcome, notified>>
vars     == <<database, session, process>>

(***************************************************************************)
(* The statements a run sends, in program order; "fail" is Staged.fail,    *)
(* "unlock" is Ingestor.unlock, "rollback" the rollback closure of publish.*)
(***************************************************************************)
Statements ==
  {"lock", "baseline", "stageBegin", "stageWrite", "stageCommit",
   "toValidating", "pubBegin", "pubCheck", "pubWrite", "pubCommit",
   "rollback", "fail", "unlock"}

Steps == Statements \cup {"start", "resolve", "staged", "notify", "exit", "exited"}

(* Faulty variant: an error of COMMIT is taken for a success.              *)
OnError_CommitAssumed(s) ==
  CASE s = "lock"                                                  -> "exit"
    [] s \in {"baseline", "stageBegin", "stageWrite", "stageCommit"} -> "unlock"
    [] s \in {"pubCheck", "pubWrite"}                              -> "rollback"
    [] s = "pubCommit"                                             -> "notify"
    [] s \in {"toValidating", "pubBegin", "rollback"}              -> "fail"
    [] s = "fail"                                                  -> "unlock"
    [] OTHER                                                       -> "exit"

(* Faulty variant: fail() insists on recording the failure.                *)
OnError_FailRetried(s) ==
  CASE s = "lock"                                                  -> "exit"
    [] s \in {"baseline", "stageBegin", "stageWrite", "stageCommit"} -> "unlock"
    [] s \in {"pubCheck", "pubWrite"}                              -> "rollback"
    [] s \in {"toValidating", "pubBegin", "pubCommit", "rollback", "fail"} -> "fail"
    [] OTHER                                                       -> "exit"

(* Where the code goes when a statement returns an error.  lock() returns  *)
(* without unlocking, the other errors of stage() unlock, and from         *)
(* 'validating' on every error goes through fail() and Close().            *)
OnError(s) ==
  CASE s = "lock"                                                  -> "exit"
    [] s \in {"baseline", "stageBegin", "stageWrite", "stageCommit"} -> "unlock"
    [] s \in {"pubCheck", "pubWrite"}                              -> "rollback"
    [] s \in {"toValidating", "pubBegin", "pubCommit", "rollback"} -> "fail"
    [] s = "fail"                                                  -> "unlock"
    [] OTHER                                                       -> "exit"

(* Statements bound to the five-minute context of main().  fail, unlock    *)
(* and rollback run under contexts of their own.                           *)
UnderRunContext == Statements \ {"rollback", "fail", "unlock"}

(* Statements after whose error the driver (Begin, Rollback) or unlock()   *)
(* closes a connection that still works.  An error of Commit closes it     *)
(* only when the transaction is still open in the server.                  *)
Commits == {"stageCommit", "pubCommit"}
ClosesOnError == {"stageBegin", "pubBegin", "rollback", "unlock"}

(* Statements that change committed rows or the lock on their own; the     *)
(* others only touch a transaction that ends with the session.             *)
Lasting == {"lock", "stageCommit", "toValidating", "pubCommit", "fail"}

Published == {r \in Runs : status[r] = "published"}

(* ORDER BY "publishedAt" DESC LIMIT 1.                                    *)
IsLatest(p) ==
  IF p = None THEN Published = {}
  ELSE p \in Published /\ \A q \in Published : publishedAt[q] <= publishedAt[p]

Init ==
  /\ status = [r \in Runs |-> "absent"]
  /\ publishedAt = [r \in Runs |-> 0]
  /\ lockHolder = None
  /\ backend = [r \in Runs |-> "none"]
  /\ tx = [r \in Runs |-> "none"]
  /\ writes = [r \in Runs |-> "none"]
  /\ stamp = [r \in Runs |-> 0]
  /\ orphan = [r \in Runs |-> "none"]
  /\ conn = [r \in Runs |-> "none"]
  /\ pc = [r \in Runs |-> "start"]
  /\ previous = [r \in Runs |-> [id |-> None, at |-> 0]]
  /\ outcome = [r \in Runs |-> "none"]
  /\ notified = [r \in Runs |-> "no"]

(* The process is about to send statement s and gets an answer to it.      *)
Answered(r, s) == pc[r] = s /\ conn[r] = "up" /\ backend[r] = "open"

Goto(r, step) == pc' = [pc EXCEPT ![r] = step]

(* The first error of a run decides what it reports; later ones are        *)
(* ignored by Close() and by the deferred calls.                           *)
Report(r, what) == outcome' = [outcome EXCEPT ![r] = IF @ = "none" THEN what ELSE @]

-----------------------------------------------------------------------------
(* The run up to a staged, validated snapshot.                             *)

Connect(r) ==
  /\ pc[r] = "start"
  /\ \/ /\ conn' = [conn EXCEPT ![r] = "up"]
        /\ backend' = [backend EXCEPT ![r] = "open"]
        /\ Goto(r, "lock")
        /\ UNCHANGED outcome
     \/ /\ Goto(r, "exit")
        /\ Report(r, "failed")
        /\ UNCHANGED <<conn, backend>>
  /\ UNCHANGED <<database, tx, writes, stamp, orphan, previous, notified>>

(* Faulty variant: the boolean answer of pg_try_advisory_lock is not read. *)
TryLock_AnswerIgnored(r) ==
  /\ Answered(r, "lock")
  /\ lockHolder' = IF lockHolder = None THEN r ELSE lockHolder
  /\ Goto(r, "baseline")
  /\ UNCHANGED <<status, publishedAt, session, conn, previous, outcome, notified>>

(* pg_try_advisory_lock never waits: a held lock ends the run at once.     *)
TryLock(r) ==
  /\ Answered(r, "lock")
  /\ \/ /\ lockHolder = None
        /\ lockHolder' = r
        /\ Goto(r, "baseline")
        /\ UNCHANGED outcome
     \/ /\ lockHolder # None
        /\ Goto(r, "exit")
        /\ Report(r, "refused")
        /\ UNCHANGED lockHolder
  /\ UNCHANGED <<status, publishedAt, session, conn, previous, notified>>

ReadBaseline(r) ==
  /\ Answered(r, "baseline")
  /\ \E p \in Runs \cup {None} :
       /\ IsLatest(p)
       /\ previous' = [previous EXCEPT ![r] =
                         [id |-> p, at |-> IF p = None THEN 0 ELSE publishedAt[p]]]
  /\ Goto(r, IF r \in DryRuns THEN "resolve" ELSE "stageBegin")
  /\ UNCHANGED <<database, session, conn, outcome, notified>>

StageBegin(r) ==
  /\ Answered(r, "stageBegin")
  /\ tx' = [tx EXCEPT ![r] = "active"]
  /\ Goto(r, "stageWrite")
  /\ UNCHANGED <<database, backend, writes, stamp, orphan, conn, previous, outcome, notified>>

(* The snapshot row, its three source_runs and the batched raw_products.   *)
StageWrite(r) ==
  /\ Answered(r, "stageWrite")
  /\ writes' = [writes EXCEPT ![r] = "insert"]
  /\ Goto(r, "stageCommit")
  /\ UNCHANGED <<database, backend, tx, stamp, orphan, conn, previous, outcome, notified>>

(* What COMMIT does in the server, whoever still waits for its answer.     *)
CommitInServer(r) ==
  /\ status' = [status EXCEPT ![r] = IF writes[r] = "insert" THEN "building" ELSE "published"]
  /\ publishedAt' = [publishedAt EXCEPT ![r] = IF writes[r] = "insert" THEN @ ELSE stamp[r]]
  /\ tx' = [tx EXCEPT ![r] = "none"]
  /\ writes' = [writes EXCEPT ![r] = "none"]
  /\ stamp' = [stamp EXCEPT ![r] = 0]

StageCommit(r) ==
  /\ Answered(r, "stageCommit")
  /\ CommitInServer(r)
  /\ Goto(r, "resolve")
  /\ UNCHANGED <<lockHolder, backend, orphan, conn, previous, outcome, notified>>

(* resolve() is pure (Resolve.tla): it accepts the bundle or rejects it.   *)
ResolveBundle(r) ==
  /\ pc[r] = "resolve"
  /\ \/ /\ Goto(r, IF r \in DryRuns THEN "unlock" ELSE "toValidating")
        /\ IF r \in DryRuns THEN Report(r, "checked") ELSE UNCHANGED outcome
     \/ /\ Goto(r, IF r \in DryRuns THEN "unlock" ELSE "fail")
        /\ Report(r, "failed")
  /\ UNCHANGED <<database, session, conn, previous, notified>>

(* Faulty variant: the lock protects staging only.                         *)
ToValidating_Unlocks(r) ==
  /\ Answered(r, "toValidating")
  /\ status' = [status EXCEPT ![r] = "validating"]
  /\ lockHolder' = IF lockHolder = r THEN None ELSE lockHolder
  /\ Goto(r, "staged")
  /\ UNCHANGED <<publishedAt, session, conn, previous, outcome, notified>>

ToValidating(r) ==
  /\ Answered(r, "toValidating")
  /\ status' = [status EXCEPT ![r] = "validating"]
  /\ Goto(r, "staged")
  /\ UNCHANGED <<publishedAt, lockHolder, session, conn, previous, outcome, notified>>

-----------------------------------------------------------------------------
(* Publication of a staged snapshot, or its abandonment.                   *)

CallPublish(r) ==
  /\ pc[r] = "staged"
  /\ Goto(r, "pubBegin")
  /\ UNCHANGED <<database, session, conn, previous, outcome, notified>>

(* Close() without Publish(): fail("publication_abandoned"), then unlock.  *)
Abandon(r) ==
  /\ pc[r] = "staged"
  /\ Goto(r, "fail")
  /\ Report(r, "failed")
  /\ UNCHANGED <<database, session, conn, previous, notified>>

PublishBegin(r) ==
  /\ Answered(r, "pubBegin")
  /\ tx' = [tx EXCEPT ![r] = "active"]
  /\ Goto(r, "pubCheck")
  /\ UNCHANGED <<database, backend, writes, stamp, orphan, conn, previous, outcome, notified>>

(* The latest published snapshot is read again inside the transaction and  *)
(* must still be the baseline the bundle was resolved against.             *)
PublishCheck(r) ==
  /\ Answered(r, "pubCheck")
  /\ \E current \in Runs \cup {None} :
       /\ IsLatest(current)
       /\ \/ /\ current = previous[r].id
             /\ Goto(r, "pubWrite")
             /\ UNCHANGED outcome
          \/ /\ current # previous[r].id
             /\ Goto(r, "rollback")
             /\ Report(r, "failed")
  /\ UNCHANGED <<database, session, conn, previous, notified>>

(* Faulty variant: the millisecond that separates publications is missing. *)
PublicationTime_NoStep(now, base) ==
  IF base.id = None \/ now > base.at THEN now ELSE base.at

(* greatest(clock_timestamp(), previous + 1 ms): the database clock may    *)
(* stand still or step back between two publications.                      *)
PublicationTime(now, base) ==
  IF base.id = None \/ now > base.at THEN now ELSE base.at + 1

(* Canonical rows, mappings and offers, then the guarded status update.    *)
PublishWrite(r) ==
  /\ Answered(r, "pubWrite")
  /\ \/ /\ status[r] = "validating"
        /\ \E now \in Times : stamp' = [stamp EXCEPT ![r] = PublicationTime(now, previous[r])]
        /\ writes' = [writes EXCEPT ![r] = "publish"]
        /\ Goto(r, "pubCommit")
        /\ UNCHANGED outcome
     \/ /\ status[r] # "validating"
        /\ Goto(r, "rollback")
        /\ Report(r, "failed")
        /\ UNCHANGED <<stamp, writes>>
  /\ UNCHANGED <<database, backend, tx, orphan, conn, previous, notified>>

PublishCommit(r) ==
  /\ Answered(r, "pubCommit")
  /\ CommitInServer(r)
  /\ Goto(r, "notify")
  /\ Report(r, "published")
  /\ UNCHANGED <<lockHolder, backend, orphan, conn, previous, notified>>

(* PublishThenNotify: one attempt, after the commit, lock still held; its  *)
(* failure only degrades the report.  Then the deferred Close().           *)
Notify(r) ==
  /\ pc[r] = "notify"
  /\ \E answer \in {"success", "degraded"} : notified' = [notified EXCEPT ![r] = answer]
  /\ Goto(r, "unlock")
  /\ UNCHANGED <<database, session, conn, previous, outcome>>

-----------------------------------------------------------------------------
(* Leaving: rollback, retention of the failed row, unlock, disconnect.     *)

Rollback(r) ==
  /\ Answered(r, "rollback")
  /\ tx' = [tx EXCEPT ![r] = "none"]
  /\ writes' = [writes EXCEPT ![r] = "none"]
  /\ stamp' = [stamp EXCEPT ![r] = 0]
  /\ Goto(r, "fail")
  /\ UNCHANGED <<database, backend, orphan, conn, previous, outcome, notified>>

(* Faulty variant: a status that is no member of the SnapshotStatus enum.  *)
FailInServer_NewStatus(r) ==
  status' = [status EXCEPT ![r] = IF @ \in {"building", "validating"} THEN "abandoned" ELSE @]

FailInServer(r) ==
  status' = [status EXCEPT ![r] = IF @ \in {"building", "validating"} THEN "failed" ELSE @]

Fail(r) ==
  /\ Answered(r, "fail")
  /\ FailInServer(r)
  /\ Goto(r, "unlock")
  /\ UNCHANGED <<publishedAt, lockHolder, session, conn, previous, outcome, notified>>

(* Inside an aborted transaction the unlock query fails as well, so the    *)
(* connection is closed and the lock goes with the session.  The rollback  *)
(* that stage() has deferred runs after the unlock.                        *)
Unlock(r) ==
  /\ Answered(r, "unlock")
  /\ \/ /\ tx[r] # "aborted"
        /\ lockHolder' = IF lockHolder = r THEN None ELSE lockHolder
        /\ tx' = [tx EXCEPT ![r] = "none"]
        /\ writes' = [writes EXCEPT ![r] = "none"]
        /\ stamp' = [stamp EXCEPT ![r] = 0]
        /\ UNCHANGED conn
     \/ /\ tx[r] = "aborted"
        /\ conn' = [conn EXCEPT ![r] = "closed"]
        /\ UNCHANGED <<lockHolder, tx, writes, stamp>>
  /\ Goto(r, "exit")
  /\ UNCHANGED <<status, publishedAt, backend, orphan, previous, outcome, notified>>

(* The deferred conn.Close of main, and the exit of the process.           *)
Exit(r) ==
  /\ pc[r] = "exit"
  /\ conn' = [conn EXCEPT ![r] = IF @ = "none" THEN @ ELSE "closed"]
  /\ Goto(r, "exited")
  /\ UNCHANGED <<database, session, previous, outcome, notified>>

-----------------------------------------------------------------------------
(* Errors.                                                                 *)

(* The server refuses the statement (statement_timeout, lock_timeout, a    *)
(* constraint), or id generation or marshalling fails before it is sent.   *)
(* A refused COMMIT has ended the transaction.                             *)
Rejected(r) ==
  /\ pc[r] \in Statements
  /\ Answered(r, pc[r])
  /\ \/ /\ pc[r] \in Commits
        /\ tx' = [tx EXCEPT ![r] = "none"]
        /\ writes' = [writes EXCEPT ![r] = "none"]
        /\ stamp' = [stamp EXCEPT ![r] = 0]
     \/ /\ pc[r] \notin Commits
        /\ tx' = [tx EXCEPT ![r] = IF @ = "active" THEN "aborted" ELSE @]
        /\ UNCHANGED <<writes, stamp>>
     \/ /\ pc[r] \in {"baseline", "stageWrite", "pubWrite"}
        /\ UNCHANGED <<tx, writes, stamp>>
  /\ conn' = [conn EXCEPT ![r] = IF pc[r] \in ClosesOnError THEN "closed" ELSE @]
  /\ Goto(r, OnError(pc[r]))
  /\ Report(r, "failed")
  /\ UNCHANGED <<database, backend, orphan, previous, notified>>

(* The run context is over before the statement is sent.                   *)
ContextDone(r) ==
  /\ pc[r] \in UnderRunContext
  /\ conn[r] = "up"
  /\ conn' = [conn EXCEPT ![r] =
                IF pc[r] \in ClosesOnError \cup Commits THEN "closed" ELSE @]
  /\ Goto(r, OnError(pc[r]))
  /\ Report(r, "failed")
  /\ UNCHANGED <<database, session, previous, notified>>

(* The client gives up on a statement it has sent: the driver closes the   *)
(* connection, the server may execute the statement yet.                   *)
Lost(r) ==
  /\ pc[r] \in Statements
  /\ conn[r] = "up"
  /\ conn' = [conn EXCEPT ![r] = "closed"]
  /\ orphan' = [orphan EXCEPT ![r] =
                  IF backend[r] = "open" /\ pc[r] \in Lasting THEN pc[r] ELSE @]
  /\ Goto(r, OnError(pc[r]))
  /\ Report(r, "failed")
  /\ UNCHANGED <<database, backend, tx, writes, stamp, previous, notified>>

(* Every later statement on a closed connection fails without being sent.  *)
NotConnected(r) ==
  /\ pc[r] \in Statements
  /\ conn[r] = "closed"
  /\ Goto(r, OnError(pc[r]))
  /\ Report(r, "failed")
  /\ UNCHANGED <<database, session, conn, previous, notified>>

(* The process is killed, with or without a statement on the wire.         *)
Kill(r) ==
  /\ pc[r] \notin {"start", "exited"}
  /\ conn' = [conn EXCEPT ![r] = IF @ = "none" THEN @ ELSE "closed"]
  /\ \/ UNCHANGED orphan
     \/ /\ conn[r] = "up" /\ backend[r] = "open" /\ pc[r] \in Lasting
        /\ orphan' = [orphan EXCEPT ![r] = pc[r]]
  /\ Goto(r, "exited")
  /\ outcome' = [outcome EXCEPT ![r] = "killed"]
  /\ UNCHANGED <<database, backend, tx, writes, stamp, previous, notified>>

-----------------------------------------------------------------------------
(* The server.                                                             *)

(* A statement whose client has given up is executed after all.            *)
RunOrphan(r) ==
  /\ backend[r] = "open"
  /\ \/ /\ orphan[r] = "lock"
        /\ lockHolder' = IF lockHolder = None THEN r ELSE lockHolder
        /\ UNCHANGED <<status, publishedAt, tx, writes, stamp>>
     \/ /\ orphan[r] \in {"stageCommit", "pubCommit"}
        /\ CommitInServer(r)
        /\ UNCHANGED lockHolder
     \/ /\ orphan[r] = "toValidating"
        /\ status' = [status EXCEPT ![r] = "validating"]
        /\ UNCHANGED <<publishedAt, lockHolder, tx, writes, stamp>>
     \/ /\ orphan[r] = "fail"
        /\ FailInServer(r)
        /\ UNCHANGED <<publishedAt, lockHolder, tx, writes, stamp>>
  /\ orphan' = [orphan EXCEPT ![r] = "none"]
  /\ UNCHANGED <<backend, process>>

(* A session ends: its client has disconnected, or the server drops it     *)
(* (restart, failover, termination).  Open writes and the lock go with it. *)
EndSession(r) ==
  /\ backend[r] = "open"
  /\ backend' = [backend EXCEPT ![r] = "gone"]
  /\ tx' = [tx EXCEPT ![r] = "none"]
  /\ writes' = [writes EXCEPT ![r] = "none"]
  /\ stamp' = [stamp EXCEPT ![r] = 0]
  /\ orphan' = [orphan EXCEPT ![r] = "none"]
  /\ lockHolder' = IF lockHolder = r THEN None ELSE lockHolder
  /\ UNCHANGED <<status, publishedAt, process>>

-----------------------------------------------------------------------------
Stage(r) ==
  Connect(r) \/ TryLock(r) \/ ReadBaseline(r) \/ StageBegin(r) \/ StageWrite(r)
    \/ StageCommit(r) \/ ResolveBundle(r) \/ ToValidating(r)

Publish(r) ==
  CallPublish(r) \/ Abandon(r) \/ PublishBegin(r) \/ PublishCheck(r)
    \/ PublishWrite(r) \/ PublishCommit(r) \/ Notify(r)

Leave(r) == Rollback(r) \/ Fail(r) \/ Unlock(r) \/ Exit(r)

Error(r) == Rejected(r) \/ ContextDone(r) \/ Lost(r) \/ NotConnected(r)

Client(r) == Stage(r) \/ Publish(r) \/ Leave(r) \/ Error(r)

Server(r) == RunOrphan(r) \/ EndSession(r)

Next == \E r \in Runs : Client(r) \/ Kill(r) \/ Server(r)

Spec == Init /\ [][Next]_vars

(* The process is scheduled, each of its waits is bounded (statement       *)
(* timeouts and contexts), and the server notices a closed connection.     *)
Fairness ==
  \A r \in Runs :
    /\ WF_vars(Client(r))
    /\ WF_vars(conn[r] = "closed" /\ EndSession(r))

FairSpec == Spec /\ Fairness

-----------------------------------------------------------------------------
TypeOK ==
  /\ status \in [Runs -> {"absent", "building", "validating", "published", "failed"}]
  /\ publishedAt \in [Runs -> Nat]
  /\ lockHolder \in Runs \cup {None}
  /\ backend \in [Runs -> {"none", "open", "gone"}]
  /\ tx \in [Runs -> {"none", "active", "aborted"}]
  /\ writes \in [Runs -> {"none", "insert", "publish"}]
  /\ stamp \in [Runs -> Nat]
  /\ orphan \in [Runs -> Lasting \cup {"none"}]
  /\ conn \in [Runs -> {"none", "up", "closed"}]
  /\ pc \in [Runs -> Steps]
  /\ previous \in [Runs -> [id : Runs \cup {None}, at : Nat]]
  /\ outcome \in [Runs -> {"none", "refused", "failed", "published", "checked", "killed"}]
  /\ notified \in [Runs -> {"no", "success", "degraded"}]

(***************************************************************************)
(* The refinement of SnapshotStore: the published rows, the row the API    *)
(* would select, and the baseline each published row was resolved against. *)
(***************************************************************************)
Head == CHOOSE p \in Runs \cup {None} : IsLatest(p)

After == [r \in Runs |-> IF r \in Published THEN previous[r].id ELSE None]

Store == INSTANCE SnapshotStore WITH published <- Published, head <- Head, after <- After

(* Implementation of the abstract history: whatever the interleaving of    *)
(* runs, lost connections and kills, the database only ever appends the    *)
(* run's snapshot to the snapshot it was resolved against.                 *)
StoreSpec == Store!Spec

(* The advisory lock is a fence, not a hint: a session that can still      *)
(* change a snapshot that was resolved against a baseline holds the lock,  *)
(* even when its client has given up, has been killed or has gone on to    *)
(* its error path, and that baseline is still the latest snapshot.         *)
InsidePublication(r) ==
  /\ backend[r] = "open"
  /\ \/ writes[r] = "publish"
     \/ orphan[r] = "pubCommit"
     \/ conn[r] = "up" /\ pc[r] \in {"toValidating", "staged", "pubBegin", "pubCheck",
                                     "pubWrite", "pubCommit"}

LockFencesPublication ==
  \A r \in Runs : InsidePublication(r) => lockHolder = r /\ IsLatest(previous[r].id)

(* publishedAt orders the history strictly: readers that sort by           *)
(* publishedAt see each snapshot right above the baseline it replaced,     *)
(* also when the database clock stands still or steps back.                *)
HistoryOrderedByTime ==
  \A r \in Published :
    /\ \A q \in Published : q # r => publishedAt[q] # publishedAt[r]
    /\ previous[r].id # None =>
         /\ publishedAt[previous[r].id] < publishedAt[r]
         /\ \A q \in Published :
              publishedAt[q] < publishedAt[r] => publishedAt[q] <= publishedAt[previous[r].id]

(* What a finished run reports of the catalogue is true: exit status 0     *)
(* after -apply means the snapshot is published, a notification is only    *)
(* ever sent for a published snapshot, and a run that found the lock held  *)
(* or only checked a bundle left no row behind.                            *)
ReportsAreTrue ==
  \A r \in Runs :
    /\ outcome[r] = "published" \/ notified[r] # "no" => r \in Published
    /\ outcome[r] \in {"refused", "checked"} => status[r] = "absent"

(* Nobody waits for anybody: every run that starts ends, and an ended run  *)
(* has given up the lock, also after a lost connection.                    *)
RunsEnd == \A r \in Runs : pc[r] # "start" ~> pc[r] = "exited" /\ lockHolder # r

=============================================================================
