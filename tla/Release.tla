------------------------------- MODULE Release -------------------------------
(***************************************************************************)
(* The road of a release of the Go API to the host: the workflow           *)
(* .github/workflows/deploy-production.yml, whose runs follow one another, *)
(* with scripts/deploy/auto-gate.mjs, auto-build.mjs and auto-transport.mjs,*)
(* and the broker as they see it (Deploy models its inside).  A build is   *)
(* made once; a later run deploys its bytes.                               *)
(***************************************************************************)
EXTENDS Hub

CONSTANTS
  Approved,      \* approvedExceptions: pairs (active release, protected files of the next)
  MaxDispatches  \* bound: runs of the workflow

Idle == [phase |-> "idle", sha |-> 0, prior |-> 0]
NoRun == [mode |-> "none"]
NoArtifact == [sha |-> 0, head |-> 0, attempt |-> 0]

VARIABLES
  wf,         \* the run of the workflow
  artifacts,  \* images built: commit, head of the producing run, CI attempt
  active,     \* the release tag on the host
  broker,     \* the rollout under way
  journal,    \* journal[c]: the broker's result file of c
  rollouts,   \* what has been accepted: artifact and the release replaced
  dispatches

releaseVars == <<wf, artifacts, active, broker, journal, rollouts, dispatches>>

(* What a run does, by its mode; "run" and "main" are the two reads of     *)
(* check() that something can come between.                                *)
Steps ==
  [auto   |-> <<"run", "main">>,
   build  |-> <<"run", "main", "run", "main", "build">>,
   plan   |-> <<"artifact", "download", "run", "main", "status">>,
   deploy |-> <<"run", "main", "artifact", "download", "run", "main", "status",
                "run", "main", "status", "run", "main", "submit", "poll">>]

At(step)   == wf.mode \in DOMAIN Steps /\ Steps[wf.mode][wf.at] = step
Pass(w)    == wf' = IF w.at = Len(Steps[w.mode]) THEN NoRun ELSE [w EXCEPT !.at = @ + 1]
Stop       == wf' = NoRun
PassIf(ok) == IF ok THEN Pass(wf) ELSE Stop

-----------------------------------------------------------------------------
(* The gate: auto-gate.mjs, auto-build.mjs phase("gate").                  *)

\* An enabled flag is needed except to build and to plan; CI only starts the
\* gate, people start the rest and name the commit and the artifact.
Dispatch ==
  /\ wf = NoRun /\ dispatches < MaxDispatches
  /\ dispatches' = dispatches + 1
  /\ \E mode \in DOMAIN Steps, c \in 1 .. main, a \in artifacts \cup {NoArtifact} :
       /\ mode \in {"plan", "deploy"} <=> a # NoArtifact
       /\ mode = "auto" => ci[c].status = "success"
       /\ wf' = [mode |-> mode, at |-> 1, sha |-> c, head |-> main, artifact |-> a, attempt |-> 0]
  /\ UNCHANGED <<hubVars, artifacts, active, broker, journal, rollouts>>

\* check(): the run has to have succeeded, and with it the jobs of the same
\* attempt, which do not change any more.
ReadRun ==
  /\ At("run")
  /\ PassIf(ci[wf.sha].status = "success")
  /\ UNCHANGED <<hubVars, artifacts, active, broker, journal, rollouts, dispatches>>

\* check(): a commit that is not the head of main any more is stale.
ReadMain ==
  /\ At("main")
  /\ PassIf(main = wf.sha)
  /\ UNCHANGED <<hubVars, artifacts, active, broker, journal, rollouts, dispatches>>

-----------------------------------------------------------------------------
(* auto-build.mjs                                                          *)

\* build(): the manifest names the attempt read after the check.
Build ==
  /\ At("build")
  /\ artifacts' = artifacts \cup {[sha |-> wf.sha, head |-> wf.head, attempt |-> ci[wf.sha].attempt]}
  /\ Stop
  /\ UNCHANGED <<hubVars, active, broker, journal, rollouts, dispatches>>

\* artifactMetadata(): the identity of the producer, before the download.
ReadArtifact ==
  /\ At("artifact")
  /\ IF wf.artifact.head = wf.sha THEN Pass([wf EXCEPT !.attempt = ci[wf.sha].attempt]) ELSE Stop
  /\ UNCHANGED <<hubVars, artifacts, active, broker, journal, rollouts, dispatches>>

\* Mutant: the attempt of CI is not compared.
SameProducerAnyAttempt(w) == w.artifact.sha = w.sha

\* validateProducer(): the manifest names this commit and this attempt of CI.
SameProducer(w) == w.artifact.sha = w.sha /\ w.artifact.attempt = w.attempt

\* verifyDownloaded()
VerifyDownload ==
  /\ At("download")
  /\ PassIf(SameProducer(wf))
  /\ UNCHANGED <<hubVars, artifacts, active, broker, journal, rollouts, dispatches>>

-----------------------------------------------------------------------------
(* auto-transport.mjs and the broker it talks to.                          *)

\* verifyCompatibility(): no protected file differs between the releases, or
\* those that do are exactly those reviewed for this active release.
Compatible(a, c) == Differs(a, c, "protected") => <<a, Trees[c]["protected"]>> \in Approved

RuntimeChanged(a, c) == Differs(a, c, "runtime")

\* Mutant: the status is answered while a rollout is under way.
StatusAnsweredBusy == TRUE

\* auto_broker.py, status: refused while a journal says RUNNING.
StatusAnswered == \A c \in Commits : journal[c] # "RUNNING"

\* The broker's status, and what is verified with the active release in it.
ReadStatus ==
  /\ At("status")
  /\ PassIf(/\ StatusAnswered
            /\ active # wf.sha /\ Compatible(active, wf.sha) /\ RuntimeChanged(active, wf.sha))
  /\ UNCHANGED <<hubVars, artifacts, active, broker, journal, rollouts, dispatches>>

\* The upload is accepted, refused, or accepted with the answer lost.
Submit ==
  /\ At("submit")
  /\ \/ /\ broker = Idle /\ \A c \in Commits : journal[c] # "RUNNING"
        /\ broker' = [phase |-> "preflight", sha |-> wf.sha, prior |-> active]
        /\ journal' = [journal EXCEPT ![wf.sha] = "RUNNING"]
        /\ rollouts' = rollouts \cup {[artifact |-> wf.artifact, sha |-> wf.sha, replaced |-> active]}
        /\ Pass(wf) \/ Stop
     \/ Stop /\ UNCHANGED <<broker, journal, rollouts>>
  /\ UNCHANGED <<hubVars, artifacts, active, dispatches>>

\* Mutant: any result ends the wait well.
SucceededAny(status) == status # "RUNNING"

Succeeded(status) == status = "DEPLOYED"

\* One look at the result; after twenty minutes nobody looks any more.  Only
\* DEPLOYED is a success.
Poll ==
  /\ At("poll")
  /\ \/ journal[wf.sha] # "RUNNING"
        /\ IF Succeeded(journal[wf.sha]) THEN wf' = [mode |-> "deployed", sha |-> wf.sha] ELSE Stop
     \/ Stop
  /\ UNCHANGED <<hubVars, artifacts, active, broker, journal, rollouts, dispatches>>

\* The run has reported a deployed release, and ends.
Finish ==
  /\ wf.mode = "deployed"
  /\ Stop
  /\ UNCHANGED <<hubVars, artifacts, active, broker, journal, rollouts, dispatches>>

End(status) == broker' = Idle /\ journal' = [journal EXCEPT ![broker.sha] = status]

\* rollout(): the release tag changes in the cutover and is restored when the
\* cutover fails, unless that fails as well; a worker that is killed leaves its
\* journal RUNNING.
Rollout ==
  /\ \/ /\ broker.phase = "preflight"
        /\ \/ main # broker.sha /\ End("SKIPPED_STALE") /\ UNCHANGED active
           \/ main = broker.sha /\ broker' = [broker EXCEPT !.phase = "cutover"]
              /\ active' = broker.sha /\ UNCHANGED journal
           \/ End("BLOCKED_PREFLIGHT") /\ UNCHANGED active
     \/ /\ broker.phase = "cutover"
        /\ \/ End("DEPLOYED") /\ UNCHANGED active
           \/ End("BLOCKED_ROLLED_BACK") /\ active' = broker.prior
           \/ End("BLOCKED_ROLLBACK_FAILED") /\ active' \in {broker.sha, broker.prior}
     \/ /\ broker.phase \in {"preflight", "cutover"}
        /\ broker' = [broker EXCEPT !.phase = "killed"] /\ UNCHANGED <<active, journal>>
  /\ UNCHANGED <<hubVars, wf, artifacts, rollouts, dispatches>>

ReleaseInit ==
  /\ wf = NoRun /\ artifacts = {} /\ active = 1 /\ broker = Idle
  /\ journal = [c \in Commits |-> "none"] /\ rollouts = {} /\ dispatches = 0

HubStep ==
  /\ Push \/ \E c \in Commits : Rerun(c) \/ \E status \in {"success", "failure"} : Conclude(c, status)
  /\ UNCHANGED releaseVars

ReleaseNext ==
  \/ HubStep
  \/ Dispatch \/ ReadRun \/ ReadMain \/ Build \/ ReadArtifact \/ VerifyDownload
  \/ ReadStatus \/ Submit \/ Poll \/ Finish \/ Rollout

ReleaseSpec == HubInit /\ ReleaseInit /\ [][ReleaseNext]_<<hubVars, releaseVars>>

-----------------------------------------------------------------------------
\* docs/production/AUTO_DEPLOY_SETUP.md: "All nine CI jobs must succeed at the
\* current attempt": what is accepted was built for its commit and names an
\* attempt of CI that has succeeded, though CI may start again between any
\* two reads of auto-gate.mjs:55 and auto-build.mjs:43.
OnlyVerifiedIsReleased ==
  \A r \in rollouts : r.artifact.sha = r.sha /\ <<r.sha, r.artifact.attempt>> \in passed

\* auto-transport.mjs:53: the database, compose and contract paths do not
\* differ between a release and the one it really replaces, unless reviewed:
\* the active release read before the submission is still active then.
ReleasesAreCompatible == \A r \in rollouts : Compatible(r.replaced, r.sha)

\* auto-transport.mjs:149: a run that reports DEPLOYED speaks of its own
\* submission: the release is on the host.
DeployedIsActive == wf.mode = "deployed" => active = wf.sha

\* The three together: only what CI verified is submitted (auto-gate.mjs:55),
\* over a release it is compatible with, and reported only if it is active
\* (auto-transport.mjs:127).
ReleaseWasVerified == OnlyVerifiedIsReleased /\ ReleasesAreCompatible /\ DeployedIsActive
=============================================================================
