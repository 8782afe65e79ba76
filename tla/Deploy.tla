------------------------------- MODULE Deploy -------------------------------
(***************************************************************************)
(* scripts/deploy/auto_broker.py: one root broker process per submission   *)
(* receives a release image, journals RUNNING, forks a detached worker and *)
(* answers.  The worker takes the host through preflight, approval, load,  *)
(* closed cutover, checks, reopening and observation, or compensates.      *)
(*                                                                         *)
(* Everything the worker does may fail half way, SIGTERM or its budget     *)
(* alarm may raise an exception between any two steps (also inside the     *)
(* handler of another exception), and either process may be killed.        *)
(***************************************************************************)
EXTENDS Naturals, FiniteSets

CONSTANTS
  Submissions,  \* runs of the broker with operation submit
  Shas,         \* releases; each has one Owner approval
  Base,         \* the release that is live in the beginning
  MaxSignals    \* bound: signals delivered to one worker

ASSUME BaseIsRelease == Base \in Shas
ASSUME SignalsBounded == MaxSignals \in Nat

None == "none"

VARIABLES
  \* the host
  release,    \* the tag in release.env
  container,  \* the running image and whether the smoke test passed on it
  tunnel,     \* cloudflared: TRUE while it serves the public address
  \* /var/lib/adilbaga/deploy
  journal,    \* journal[sha]: status in <sha>.json
  previous,   \* previous[sha]: release saved in <sha>.previous.env
  used,       \* the approvals whose .used marker exists
  loads,      \* loads[sha]: attempted docker loads under the approval of sha
  archive,    \* archive[s]: the uploaded file exists
  \* the processes of a submission
  parent, worker,
  sha,        \* the release submitted
  prior,      \* the release preflight found: Host.old
  outcome,    \* the value of status in the worker
  signals     \* signals delivered to the worker

host  == <<release, container, tunnel>>
files == <<journal, previous, used, loads, archive>>
procs == <<parent, worker, sha, prior, outcome, signals>>
vars  == <<host, files, procs>>

(* The steps of rollout() and of Host.rollback(), in order.                *)
Preflight == {"preflight", "fresh", "authorize", "consume", "load", "recheck", "freshAgain"}
Cutover   == {"stop", "save", "replace", "recreate", "local", "open", "public", "observe"}
Rollback  == {"rbStop", "rbReplace", "rbRecreate", "rbLocal", "rbOpen", "rbPublic"}

(* Faulty variant: the marker is written when the load has succeeded.      *)
After_ConsumeLast ==
  [preflight |-> "fresh", fresh |-> "authorize", authorize |-> "load", load |-> "consume",
   consume |-> "recheck", recheck |-> "freshAgain", freshAgain |-> "stop", stop |-> "save",
   save |-> "replace", replace |-> "recreate", recreate |-> "local", local |-> "open",
   open |-> "public", public |-> "observe", observe |-> "returned", compensate |-> "rbStop",
   rbStop |-> "rbReplace", rbReplace |-> "rbRecreate", rbRecreate |-> "rbLocal",
   rbLocal |-> "rbOpen", rbOpen |-> "rbPublic", rbPublic |-> "returned", returned |-> "write"]

(* Faulty variant: the tunnel is reopened before the local smoke test.     *)
After_OpenFirst ==
  [preflight |-> "fresh", fresh |-> "authorize", authorize |-> "consume", consume |-> "load",
   load |-> "recheck", recheck |-> "freshAgain", freshAgain |-> "stop", stop |-> "save",
   save |-> "replace", replace |-> "recreate", recreate |-> "open", open |-> "local",
   local |-> "public", public |-> "observe", observe |-> "returned", compensate |-> "rbStop",
   rbStop |-> "rbReplace", rbReplace |-> "rbRecreate", rbRecreate |-> "rbLocal",
   rbLocal |-> "rbOpen", rbOpen |-> "rbPublic", rbPublic |-> "returned", returned |-> "write"]

(* Faulty variant: the rollback reference is saved after the release file. *)
After_SaveLate ==
  [preflight |-> "fresh", fresh |-> "authorize", authorize |-> "consume", consume |-> "load",
   load |-> "recheck", recheck |-> "freshAgain", freshAgain |-> "stop", stop |-> "replace",
   replace |-> "save", save |-> "recreate", recreate |-> "local", local |-> "open",
   open |-> "public", public |-> "observe", observe |-> "returned", compensate |-> "rbStop",
   rbStop |-> "rbReplace", rbReplace |-> "rbRecreate", rbRecreate |-> "rbLocal",
   rbLocal |-> "rbOpen", rbOpen |-> "rbPublic", rbPublic |-> "returned", returned |-> "write"]

After ==
  [preflight |-> "fresh", fresh |-> "authorize", authorize |-> "consume", consume |-> "load",
   load |-> "recheck", recheck |-> "freshAgain", freshAgain |-> "stop", stop |-> "save",
   save |-> "replace", replace |-> "recreate", recreate |-> "local", local |-> "open",
   open |-> "public", public |-> "observe", observe |-> "returned", compensate |-> "rbStop",
   rbStop |-> "rbReplace", rbReplace |-> "rbRecreate", rbRecreate |-> "rbLocal",
   rbLocal |-> "rbOpen", rbOpen |-> "rbPublic", rbPublic |-> "returned", returned |-> "write"]

Running == {"compensate", "lastStop", "returned", "write"} \cup Preflight \cup Cutover \cup Rollback

(* The flock lives in an open file description that parent and worker      *)
(* share; it is free when neither has it open any more.                    *)
HoldsLock(s) == parent[s] \in {"receiving", "received", "journaled", "forked"} \/ worker[s] \in Running

Init ==
  /\ release = Base
  /\ container = [sha |-> Base, checked |-> TRUE]
  /\ tunnel = TRUE
  /\ journal = [x \in Shas |-> None]
  /\ previous = [x \in Shas |-> None]
  /\ used = {}
  /\ loads = [x \in Shas |-> 0]
  /\ archive = [s \in Submissions |-> FALSE]
  /\ parent = [s \in Submissions |-> "idle"]
  /\ worker = [s \in Submissions |-> None]
  /\ sha \in [Submissions -> Shas]
  /\ prior = [s \in Submissions |-> None]
  /\ outcome = [s \in Submissions |-> None]
  /\ signals = [s \in Submissions |-> 0]

-----------------------------------------------------------------------------
(* The broker process.                                                     *)

Parent(s, from, to) == parent[s] = from /\ parent' = [parent EXCEPT ![s] = to]

(* Faulty variant: a journal left RUNNING does not block a submission.     *)
Submit_JournalIgnored(s) ==
  /\ \/ /\ \A t \in Submissions : ~HoldsLock(t)
        /\ Parent(s, "idle", "receiving")
        /\ archive' = [archive EXCEPT ![s] = TRUE]
     \/ /\ \E t \in Submissions : HoldsLock(t)
        /\ Parent(s, "idle", "done")
        /\ UNCHANGED archive
  /\ UNCHANGED <<host, journal, previous, used, loads, worker, sha, prior, outcome, signals>>

(* The lock is tried without waiting; under it, any RUNNING journal stops  *)
(* the submission for manual review.                                       *)
Submit(s) ==
  /\ \/ /\ \A t \in Submissions : ~HoldsLock(t)
        /\ \A x \in Shas : journal[x] # "RUNNING"
        /\ Parent(s, "idle", "receiving")
        /\ archive' = [archive EXCEPT ![s] = TRUE]
     \/ /\ (\E t \in Submissions : HoldsLock(t)) \/ \E x \in Shas : journal[x] = "RUNNING"
        /\ Parent(s, "idle", "done")
        /\ UNCHANGED archive
  /\ UNCHANGED <<host, journal, previous, used, loads, worker, sha, prior, outcome, signals>>

Receive(s) ==
  /\ Parent(s, "receiving", "received")
  /\ UNCHANGED <<host, files, worker, sha, prior, outcome, signals>>

Journal(s) ==
  /\ Parent(s, "received", "journaled")
  /\ journal' = [journal EXCEPT ![sha[s]] = "RUNNING"]
  /\ UNCHANGED <<host, previous, used, loads, archive, worker, sha, prior, outcome, signals>>

Fork(s) ==
  /\ Parent(s, "journaled", "forked")
  /\ worker' = [worker EXCEPT ![s] = "preflight"]
  /\ UNCHANGED <<host, files, sha, prior, outcome, signals>>

Accepted(s) ==
  /\ Parent(s, "forked", "done")
  /\ UNCHANGED <<host, files, worker, sha, prior, outcome, signals>>

(* A bad transfer, a failing write or fork, or the 180 s request deadline: *)
(* the archive is removed, even from under a worker already forked.        *)
ParentFails(s) ==
  /\ parent[s] \in {"receiving", "received", "journaled", "forked"}
  /\ parent' = [parent EXCEPT ![s] = "done"]
  /\ archive' = [archive EXCEPT ![s] = FALSE]
  /\ UNCHANGED <<host, journal, previous, used, loads, worker, sha, prior, outcome, signals>>

ParentKilled(s) ==
  /\ parent[s] \in {"receiving", "received", "journaled", "forked"}
  /\ parent' = [parent EXCEPT ![s] = "done"]
  /\ UNCHANGED <<host, files, worker, sha, prior, outcome, signals>>

-----------------------------------------------------------------------------
(* The worker: steps that succeed.                                         *)

At(s, step) == worker[s] = step
Goto(s, step) == worker' = [worker EXCEPT ![s] = step]
Return(s, status) == Goto(s, "returned") /\ outcome' = [outcome EXCEPT ![s] = status]

(* Faulty variant: preflight reads the release file and trusts it.         *)
FindPrior_FileOnly(s) ==
  /\ At(s, "preflight")
  /\ prior' = [prior EXCEPT ![s] = release]
  /\ IF release = sha[s] THEN Return(s, "NO_OP") ELSE Goto(s, After["preflight"]) /\ UNCHANGED outcome
  /\ UNCHANGED <<host, files, parent, sha, signals>>

(* preflight() wants a healthy container of the release and an open tunnel.*)
FindPrior(s) ==
  /\ At(s, "preflight")
  /\ tunnel /\ container.sha = release
  /\ prior' = [prior EXCEPT ![s] = release]
  /\ IF release = sha[s] THEN Return(s, "NO_OP") ELSE Goto(s, After["preflight"]) /\ UNCHANGED outcome
  /\ UNCHANGED <<host, files, parent, sha, signals>>

Stale(s) ==
  /\ worker[s] \in {"fresh", "freshAgain"}
  /\ Return(s, "SKIPPED_STALE")
  /\ UNCHANGED <<host, files, parent, sha, prior, signals>>

(* Read-only steps: they pass, or Blocked takes over.                      *)
Check(s) ==
  /\ worker[s] \in {"fresh", "authorize", "recheck", "freshAgain", "public", "rbPublic"}
  /\ worker[s] = "authorize" => archive[s]
  /\ Goto(s, After[worker[s]])
  /\ IF worker[s] = "rbPublic" THEN outcome' = [outcome EXCEPT ![s] = "BLOCKED_ROLLED_BACK"]
     ELSE UNCHANGED outcome
  /\ UNCHANGED <<host, files, parent, sha, prior, signals>>

(* The uploaded file is read once more before the marker is created with   *)
(* O_EXCL.                                                                 *)
Consume(s) ==
  /\ At(s, "consume")
  /\ archive[s] /\ sha[s] \notin used
  /\ used' = used \cup {sha[s]}
  /\ Goto(s, After["consume"])
  /\ UNCHANGED <<host, journal, previous, loads, archive, parent, sha, prior, outcome, signals>>

(* docker load and the comparison of the loaded image.                     *)
Load(s) ==
  /\ At(s, "load")
  /\ loads' = [loads EXCEPT ![sha[s]] = @ + 1]
  /\ Goto(s, After["load"])
  /\ UNCHANGED <<host, journal, previous, used, archive, parent, sha, prior, outcome, signals>>

CloseTunnel(s) ==
  /\ worker[s] \in {"stop", "rbStop"}
  /\ tunnel' = FALSE
  /\ Goto(s, After[worker[s]])
  /\ UNCHANGED <<release, container, files, parent, sha, prior, outcome, signals>>

SavePrevious(s) ==
  /\ At(s, "save")
  /\ previous' = [previous EXCEPT ![sha[s]] = prior[s]]
  /\ Goto(s, After["save"])
  /\ UNCHANGED <<host, journal, used, loads, archive, parent, sha, prior, outcome, signals>>

(* Faulty variant: rollback restores what <sha>.previous.env says.         *)
ReplaceRelease_FromSaved(s) ==
  /\ worker[s] \in {"replace", "rbReplace"}
  /\ release' = IF At(s, "replace") THEN sha[s] ELSE previous[sha[s]]
  /\ Goto(s, After[worker[s]])
  /\ UNCHANGED <<container, tunnel, files, parent, sha, prior, outcome, signals>>

ReplaceRelease(s) ==
  /\ worker[s] \in {"replace", "rbReplace"}
  /\ release' = IF At(s, "replace") THEN sha[s] ELSE prior[s]
  /\ Goto(s, After[worker[s]])
  /\ UNCHANGED <<container, tunnel, files, parent, sha, prior, outcome, signals>>

(* recreate(), ready(), unchanged(), hardening().                          *)
Recreate(s) ==
  /\ worker[s] \in {"recreate", "rbRecreate"}
  /\ container' = [sha |-> release, checked |-> FALSE]
  /\ Goto(s, After[worker[s]])
  /\ UNCHANGED <<release, tunnel, files, parent, sha, prior, outcome, signals>>

Smoke(s) ==
  /\ worker[s] \in {"local", "rbLocal"}
  /\ container' = [container EXCEPT !.checked = TRUE]
  /\ Goto(s, After[worker[s]])
  /\ UNCHANGED <<release, tunnel, files, parent, sha, prior, outcome, signals>>

OpenTunnel(s) ==
  /\ worker[s] \in {"open", "rbOpen"}
  /\ tunnel' = TRUE
  /\ Goto(s, After[worker[s]])
  /\ UNCHANGED <<release, container, files, parent, sha, prior, outcome, signals>>

(* Ten minutes of unchanged configuration, live probes and clean logs.     *)
Observe(s) ==
  /\ At(s, "observe")
  /\ Return(s, "DEPLOYED")
  /\ UNCHANGED <<host, files, parent, sha, prior, signals>>

(* Inside the handler of the cutover: entering the rollback, and the last  *)
(* attempt to close the tunnel, whose own errors are ignored.              *)
Compensate(s) ==
  /\ At(s, "compensate")
  /\ Goto(s, After["compensate"])
  /\ UNCHANGED <<host, files, parent, sha, prior, outcome, signals>>

LastStop(s) ==
  /\ At(s, "lastStop")
  /\ \/ tunnel' = FALSE
     \/ UNCHANGED tunnel
  /\ Return(s, "BLOCKED_ROLLBACK_FAILED")
  /\ UNCHANGED <<release, container, files, parent, sha, prior, signals>>

Leave(s) ==
  /\ At(s, "returned")
  /\ Goto(s, "write")
  /\ UNCHANGED <<host, files, parent, sha, prior, outcome, signals>>

(* Journal the result, remove the archive, release the lock, exit.         *)
WriteResult(s) ==
  /\ At(s, "write")
  /\ journal' = [journal EXCEPT ![sha[s]] = outcome[s]]
  /\ archive' = [archive EXCEPT ![s] = FALSE]
  /\ Goto(s, "exited")
  /\ UNCHANGED <<host, previous, used, loads, parent, sha, prior, outcome, signals>>

-----------------------------------------------------------------------------
(* The worker: steps that do not succeed.                                  *)

(* What a failing or interrupted step may leave behind.                    *)
Left == <<release, container, tunnel, loads, previous, used>>

PartialEffect(s) ==
  \/ UNCHANGED Left
  \/ /\ worker[s] \in {"stop", "rbStop", "open", "rbOpen"}
     /\ tunnel' = (worker[s] \in {"open", "rbOpen"})
     /\ UNCHANGED <<release, container, loads, previous, used>>
  \/ /\ worker[s] \in {"recreate", "rbRecreate"}
     /\ container' \in [sha : {release, None}, checked : {FALSE}]
     /\ UNCHANGED <<release, tunnel, loads, previous, used>>
  \/ /\ At(s, "consume") /\ archive[s]
     /\ used' = used \cup {sha[s]}
     /\ UNCHANGED <<release, container, tunnel, loads, previous>>
  \/ /\ At(s, "load")
     /\ loads' = [loads EXCEPT ![sha[s]] = @ + 1]
     /\ UNCHANGED <<release, container, tunnel, previous, used>>
  \/ /\ At(s, "save")
     /\ previous' = [previous EXCEPT ![sha[s]] = None]
     /\ UNCHANGED <<release, container, tunnel, loads, used>>

(* Faulty variant: only Blocked is caught during the cutover, as before    *)
(* it; anything else ends the worker.                                      *)
Raise_NotCompensated(s) ==
  \/ /\ worker[s] \in Preflight \cup Cutover
     /\ Return(s, "BLOCKED_PREFLIGHT")
  \/ /\ worker[s] \in Rollback
     /\ Goto(s, "lastStop")
     /\ UNCHANGED outcome

(* Faulty variant: a rollback that fails is tried again.                   *)
Raise_RollbackRetried(s) ==
  \/ /\ worker[s] \in Preflight
     /\ Return(s, "BLOCKED_PREFLIGHT")
  \/ /\ worker[s] \in Cutover \cup Rollback
     /\ Goto(s, "compensate")
     /\ UNCHANGED outcome

(* Where an exception raised by the current step is caught.                *)
Raise(s) ==
  \/ /\ worker[s] \in Preflight
     /\ Return(s, "BLOCKED_PREFLIGHT")
  \/ /\ worker[s] \in Cutover
     /\ Goto(s, "compensate")
     /\ UNCHANGED outcome
  \/ /\ worker[s] \in Rollback
     /\ Goto(s, "lastStop")
     /\ UNCHANGED outcome

Blocked(s) ==
  /\ PartialEffect(s)
  /\ Raise(s)
  /\ UNCHANGED <<journal, archive, parent, sha, prior, signals>>

(* write_result raises before or after it has replaced the journal: the    *)
(* worker ends without another try.                                        *)
WriteInterrupted(s) ==
  /\ At(s, "write")
  /\ \/ UNCHANGED journal
     \/ journal' = [journal EXCEPT ![sha[s]] = outcome[s]]
  /\ archive' = [archive EXCEPT ![s] = FALSE]
  /\ Goto(s, "exited")

WriteFails(s) ==
  /\ WriteInterrupted(s)
  /\ UNCHANGED <<Left, parent, sha, prior, outcome, signals>>

(* SIGTERM, SIGINT or the 1800 s alarm raises in whatever is executing: in *)
(* a step, in the handler around the rollback, or between the return of    *)
(* rollout() and the journal.                                              *)
Signal(s) ==
  /\ worker[s] \in Running
  /\ signals[s] < MaxSignals
  /\ signals' = [signals EXCEPT ![s] = @ + 1]
  /\ \/ PartialEffect(s) /\ Raise(s) /\ UNCHANGED <<journal, archive>>
     \/ /\ worker[s] \in {"compensate", "lastStop", "returned"}
        /\ Goto(s, "write")
        /\ outcome' = [outcome EXCEPT ![s] = "BLOCKED_PREFLIGHT"]
        /\ UNCHANGED <<Left, journal, archive>>
     \/ /\ At(s, "lastStop")
        /\ Return(s, "BLOCKED_ROLLBACK_FAILED")
        /\ UNCHANGED <<Left, journal, archive>>
     \/ WriteInterrupted(s) /\ UNCHANGED <<Left, outcome>>
  /\ UNCHANGED <<parent, sha, prior>>

(* SIGKILL: the step may be half done, nothing is compensated and the      *)
(* journal stays as it is.                                                 *)
WorkerKilled(s) ==
  /\ worker[s] \in Running
  /\ PartialEffect(s)
  /\ Goto(s, "killed")
  /\ UNCHANGED <<journal, archive, parent, sha, prior, outcome, signals>>

-----------------------------------------------------------------------------
Broker(s) == Submit(s) \/ Receive(s) \/ Journal(s) \/ Fork(s) \/ Accepted(s) \/ ParentFails(s)

Worker(s) ==
  \/ FindPrior(s) \/ Stale(s) \/ Check(s) \/ Consume(s) \/ Load(s) \/ CloseTunnel(s)
  \/ SavePrevious(s) \/ ReplaceRelease(s) \/ Recreate(s) \/ Smoke(s) \/ OpenTunnel(s)
  \/ Observe(s) \/ Compensate(s) \/ LastStop(s) \/ Leave(s) \/ WriteResult(s)
  \/ Blocked(s) \/ WriteFails(s)

Next ==
  \E s \in Submissions :
    Broker(s) \/ Worker(s) \/ ParentKilled(s) \/ Signal(s) \/ WorkerKilled(s)

Spec == Init /\ [][Next]_vars

(* Every command of the worker has a timeout, so it takes its next step.   *)
FairSpec == Spec /\ \A s \in Submissions : WF_vars(Broker(s)) /\ WF_vars(Worker(s))

-----------------------------------------------------------------------------
Statuses == {None, "RUNNING", "NO_OP", "SKIPPED_STALE", "DEPLOYED", "BLOCKED_PREFLIGHT",
             "BLOCKED_ROLLED_BACK", "BLOCKED_ROLLBACK_FAILED"}

TypeOK ==
  /\ release \in Shas
  /\ container \in [sha : Shas \cup {None}, checked : BOOLEAN]
  /\ tunnel \in BOOLEAN
  /\ journal \in [Shas -> Statuses]
  /\ previous \in [Shas -> Shas \cup {None}]
  /\ used \subseteq Shas
  /\ loads \in [Shas -> Nat]
  /\ archive \in [Submissions -> BOOLEAN]
  /\ parent \in [Submissions -> {"idle", "receiving", "received", "journaled", "forked", "done"}]
  /\ worker \in [Submissions -> Running \cup {None, "exited", "killed"}]
  /\ sha \in [Submissions -> Shas]
  /\ prior \in [Submissions -> Shas \cup {None}]
  /\ outcome \in [Submissions -> Statuses \ {"RUNNING"}]
  /\ signals \in [Submissions -> 0..MaxSignals]

(* One release transaction at a time, crashes included: while a worker is  *)
(* at work no other submission is past the lock, and a worker that was     *)
(* killed keeps every later one out until somebody has reviewed the host.  *)
OneTransaction ==
  \A s, t \in Submissions : s # t /\ worker[s] \in Running =>
    ~HoldsLock(t) /\ worker[t] # "killed"

(* The journal tells the truth: what DEPLOYED, BLOCKED_ROLLED_BACK, NO_OP  *)
(* and SKIPPED_STALE say of the host holds when the worker reports it.     *)
ResultIsTrue ==
  \A s \in Submissions : worker[s] \in {"returned", "write"} =>
    /\ outcome[s] = "DEPLOYED" =>
         release = sha[s] /\ container = [sha |-> sha[s], checked |-> TRUE] /\ tunnel
    /\ outcome[s] \in {"BLOCKED_ROLLED_BACK", "NO_OP", "SKIPPED_STALE"} =>
         release = prior[s] /\ container = [sha |-> prior[s], checked |-> TRUE] /\ tunnel

(* docs/production/AUTO_DEPLOY_SETUP.md: the tunnel stays closed until the *)
(* local smoke test has passed, on the way out and on the way back.        *)
NothingUncheckedIsPublic == tunnel => container.checked

(* One Owner approval permits one attempted docker load, also when a load  *)
(* fails, a worker is killed or the release is submitted again.            *)
OneLoadPerApproval == \A x \in Shas : loads[x] <= 1

(* The rollback reference is durable before it is needed: whoever finds a  *)
(* RUNNING journal and the new release file can read the release to        *)
(* restore from <sha>.previous.env.                                        *)
RollbackReferenceSurvives ==
  \A s \in Submissions :
    release = sha[s] /\ worker[s] = "killed" /\ prior[s] \notin {None, sha[s]}
      => previous[sha[s]] = prior[s]

(* rollout() owns the compensation from before the tunnel is stopped: a    *)
(* worker nobody has signalled answers BLOCKED_PREFLIGHT only when the     *)
(* host is as preflight found it.                                          *)
FailureIsCompensated ==
  \A s \in Submissions :
    worker[s] \in {"returned", "write"} /\ outcome[s] = "BLOCKED_PREFLIGHT"
      /\ prior[s] # None /\ signals[s] = 0
      => release = prior[s] /\ container = [sha |-> prior[s], checked |-> TRUE] /\ tunnel

(* Releases follow one another and each is loaded at most once             *)
(* (auto_broker.py:614, :287).                                             *)
OneAtATime == TypeOK /\ OneTransaction /\ OneLoadPerApproval

(* Whatever stops a rollout, the way back is known, and a worker nobody    *)
(* has signalled has gone it (auto_broker.py:448, :516).                   *)
WayBackIsKept == RollbackReferenceSurvives /\ FailureIsCompensated

(* An accepted rollout ends and gives the lock back, whatever fails.       *)
RolloutEnds == \A s \in Submissions : HoldsLock(s) ~> ~HoldsLock(s)

=============================================================================
