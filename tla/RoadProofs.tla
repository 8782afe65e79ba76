----------------------------- MODULE RoadProofs -----------------------------
(***************************************************************************)
(* Proofs about the roads to the two hosts, of a release of the Go API and *)
(* of a promotion of the publisher, for any history of commits.            *)
(*                                                                         *)
(* Release, for any reviewed exceptions: CI may start again between any    *)
(* two reads, so no read says by itself that the attempt an artifact names *)
(* has succeeded; that it has follows from the order of the reads          *)
(* (Checked).  What is submitted replaces the release that was compared    *)
(* with it because the status is refused while a rollout is under way and  *)
(* only this run starts one (Undisturbed).                                 *)
(*                                                                         *)
(* Promotion, for any number of runs: a build names an attempt of CI that  *)
(* was read while it stood as successful; the newest relevant commit is,   *)
(* from the success of its CI on, under way somewhere between the queue    *)
(* and the artifacts, or settled, or listed as lost (Coming).              *)
(*                                                                         *)
(* Promoter, for any packages, number of files and failures: HInv says of  *)
(* every step of a promotion (Forward) and of a rollback (Backward) what   *)
(* the host holds and what the journal on the disk says, and what is left  *)
(* of both when the process ends there (AtRest).                           *)
(*                                                                         *)
(* PairUpgrade, for any number of deaths: what lies on the disk beside     *)
(* what the journal names was made by the line under way (OnlyOfTheLine);  *)
(* what the journal names is there or went where it was meant to, and the  *)
(* phase is true of the pair (JournalIsTrue); and at each line of the      *)
(* upgrade (Going) and of its rollback (GoingBack) the pair is as the line *)
(* says.                                                                   *)
(***************************************************************************)
EXTENDS Release, Promotion, PublisherHost, TLAPS

LEMMA CommitsAreNumbers == /\ Commits = 1 .. Len(Trees) /\ Len(Trees) \in Nat
                           /\ 1 \in Commits /\ Commits \subseteq Nat
  BY HistoryIsNumbered DEF Commits

-----------------------------------------------------------------------------
(* Release *)

CIHeld ==
  /\ main \in Commits
  /\ ci \in [Commits -> [attempt : Nat, status : {"running", "success", "failure"}]]
  /\ \A c \in Commits : ci[c].status = "success" => <<c, ci[c].attempt>> \in passed

Artifact == [sha : Commits, head : Commits, attempt : Nat]
Statuses == {"none", "RUNNING", "SKIPPED_STALE", "BLOCKED_PREFLIGHT", "DEPLOYED", "BLOCKED_ROLLED_BACK",
             "BLOCKED_ROLLBACK_FAILED"}
Working  == [mode : DOMAIN Steps, at : Nat, sha : Commits, head : Commits,
             artifact : Artifact \cup {NoArtifact}, attempt : Nat]
Deployed == [mode : {"deployed"}, sha : Commits]

\* The types of the variables of Release; a run is at a step of its mode.
ReleaseTypeOK ==
  /\ wf \in {NoRun} \cup Working \cup Deployed
  /\ wf \in Working => wf.at \in 1 .. Len(Steps[wf.mode])
  /\ artifacts \subseteq Artifact
  /\ active \in Nat
  /\ broker \in {Idle} \cup [phase : {"preflight", "cutover", "killed"}, sha : Commits, prior : Nat]
  /\ journal \in [Commits -> Statuses]

(* An artifact does not name a later attempt than CI has come to.          *)
Attempted == \A a \in artifacts : a.attempt <= ci[a.sha].attempt

Deploying == wf \in Working /\ wf.mode = "deploy"

(* The first look at CI finds an attempt k that has passed and is no older *)
(* than the artifact; the attempt read next is no older than k; and if the *)
(* manifest names that attempt, the three are the same.                    *)
Known(k) ==
  /\ k <= ci[wf.sha].attempt /\ <<wf.sha, k>> \in passed
  /\ wf.artifact.sha = wf.sha => wf.artifact.attempt <= k
  /\ wf.at = 4 => k <= wf.attempt
Checked ==
  Deploying =>
    /\ wf.artifact \in artifacts
    /\ wf.at \in 2 .. 4 => \E k \in Nat : Known(k)
    /\ wf.at >= 5 => wf.artifact.sha = wf.sha /\ <<wf.sha, wf.artifact.attempt>> \in passed

BrokerOK ==
  broker # Idle => /\ journal[broker.sha] = "RUNNING"
                   /\ broker.phase = "cutover" => active = broker.sha

(* From the first status to the submission nobody rolls out.               *)
Undisturbed == Deploying /\ wf.at \in 8 .. 13 => broker = Idle /\ Compatible(active, wf.sha)

(* The rollout a run waits for is its own.                                 *)
Followed ==
  Deploying /\ wf.at = 14 =>
    /\ broker # Idle => broker.sha = wf.sha
    /\ journal[wf.sha] = "DEPLOYED" => active = wf.sha
Reported == wf.mode = "deployed" => broker = Idle /\ active = wf.sha

Rolling == BrokerOK /\ Undisturbed /\ Followed /\ Reported

RInv == /\ CIHeld /\ ReleaseTypeOK /\ Attempted /\ Checked /\ Rolling
        /\ OnlyVerifiedIsReleased /\ ReleasesAreCompatible

-----------------------------------------------------------------------------
(* The roads of the modes.                                                 *)
LEMMA Modes == DOMAIN Steps = {"auto", "build", "plan", "deploy"} /\ "deployed" \notin DOMAIN Steps /\ "none" \notin DOMAIN Steps
  BY DEF Steps

LEMMA DeployRoad ==
  /\ Len(Steps["deploy"]) = 14
  /\ Steps["deploy"][1] = "run" /\ Steps["deploy"][2] = "main" /\ Steps["deploy"][3] = "artifact"
  /\ Steps["deploy"][4] = "download" /\ Steps["deploy"][5] = "run" /\ Steps["deploy"][6] = "main"
  /\ Steps["deploy"][7] = "status" /\ Steps["deploy"][8] = "run" /\ Steps["deploy"][9] = "main"
  /\ Steps["deploy"][10] = "status" /\ Steps["deploy"][11] = "run" /\ Steps["deploy"][12] = "main"
  /\ Steps["deploy"][13] = "submit" /\ Steps["deploy"][14] = "poll"
  BY DEF Steps

LEMMA OtherRoads ==
  /\ Steps["auto"] = <<"run", "main">>
  /\ Steps["build"] = <<"run", "main", "run", "main", "build">>
  /\ Steps["plan"] = <<"artifact", "download", "run", "main", "status">>
<1>1. Steps["auto"] = <<"run", "main">>
  BY DEF Steps
<1>2. Steps["build"] = <<"run", "main", "run", "main", "build">>
  BY DEF Steps
<1>3. Steps["plan"] = <<"artifact", "download", "run", "main", "status">>
  BY DEF Steps
<1> QED
  BY <1>1, <1>2, <1>3

LEMMA OthersDeployNothing ==
  ASSUME NEW m \in DOMAIN Steps, m # "deploy", NEW i \in 1 .. Len(Steps[m])
  PROVE  Steps[m][i] \notin {"submit", "poll"}
<1>1. CASE m = "auto"
  BY <1>1, OtherRoads
<1>2. CASE m = "build"
  BY <1>2, OtherRoads
<1>3. CASE m = "plan"
  BY <1>3, OtherRoads
<1> QED
  BY <1>1, <1>2, <1>3, Modes

LEMMA Lengths == ASSUME NEW m \in DOMAIN Steps PROVE Len(Steps[m]) \in Nat \ {0}
<1>1. CASE m = "deploy"
  BY <1>1, DeployRoad
<1>2. CASE m = "auto"
  BY <1>2, OtherRoads
<1>3. CASE m = "build"
  BY <1>3, OtherRoads
<1>4. CASE m = "plan"
  BY <1>4, OtherRoads
<1> QED
  BY <1>1, <1>2, <1>3, <1>4, Modes

(* Only a run that deploys submits and polls, as its last two steps.       *)
LEMMA LastSteps ==
  ASSUME ReleaseTypeOK, NEW step \in {"submit", "poll"}, At(step)
  PROVE  Deploying /\ wf.at = IF step = "submit" THEN 13 ELSE 14
<1>1. wf \in Working
  BY Modes DEF ReleaseTypeOK, At, NoRun, Deployed
<1>2. wf.mode = "deploy"
  BY <1>1, OthersDeployNothing DEF ReleaseTypeOK, At, Working
<1>3. wf.at \in 1 .. 14
  BY <1>1, <1>2, DeployRoad DEF ReleaseTypeOK
<1> QED
  BY <1>1, <1>2, <1>3, DeployRoad DEF At, Deploying

(* How a run moves on.                                                     *)
LEMMA Passing ==
  ASSUME ReleaseTypeOK, wf.mode \in DOMAIN Steps, NEW w \in Working, Pass(w),
         w.mode = wf.mode, w.at = wf.at
  PROVE  \/ wf' = NoRun
         \/ /\ w.at + 1 <= Len(Steps[w.mode])
            /\ wf' = [w EXCEPT !.at = w.at + 1]
            /\ wf' \in Working
<1>1. wf \in Working
  BY Modes DEF ReleaseTypeOK, NoRun, Deployed
<1>2. w.at \in 1 .. Len(Steps[w.mode]) /\ Len(Steps[w.mode]) \in Nat
  BY <1>1, Lengths DEF ReleaseTypeOK, Working
<1> QED
  BY <1>2 DEF Pass, Working
-----------------------------------------------------------------------------
LEMMA ReleaseBegins == HubInit /\ ReleaseInit => RInv
<1> SUFFICES ASSUME HubInit, ReleaseInit PROVE RInv
  OBVIOUS
<1>1. CIHeld
  BY CommitsAreNumbers DEF HubInit, CIHeld
<1>2. wf = NoRun /\ wf \notin Working /\ wf.mode # "deployed"
  BY Modes DEF ReleaseInit, NoRun, Working
<1>3. ReleaseTypeOK
  BY <1>2 DEF ReleaseInit, ReleaseTypeOK, Statuses
<1>4. Attempted /\ Checked /\ Rolling /\ OnlyVerifiedIsReleased /\ ReleasesAreCompatible
  BY <1>2 DEF ReleaseInit, Attempted, Checked, Rolling, BrokerOK, Undisturbed, Followed, Reported,
     Deploying, OnlyVerifiedIsReleased, ReleasesAreCompatible
<1> QED
  BY <1>1, <1>3, <1>4 DEF RInv

(* GitHub: what has passed stays so, attempts only grow.                   *)
HubGrows ==
  /\ passed \subseteq passed'
  /\ \A c \in Commits : ci[c].attempt <= ci'[c].attempt

LEMMA HubMoves ==
  ASSUME RInv, HubStep
  PROVE  CIHeld' /\ HubGrows
<1> USE DEF RInv, CIHeld, HubGrows, hubVars
<1>1. CASE Push
  <2>1. main' \in Commits /\ ci' = ci /\ passed' = passed
    BY <1>1 DEF Push
  <2>2. \A c \in Commits : ci[c].attempt \in Nat
    OBVIOUS
  <2>3. HubGrows
    BY <2>1, <2>2
  <2> QED
    BY <2>1, <2>3
<1>2. ASSUME NEW c \in Commits, Rerun(c) PROVE CIHeld' /\ HubGrows
  <2>1. ci[c].attempt \in Nat /\ ci' = [ci EXCEPT ![c] = [attempt |-> ci[c].attempt + 1, status |-> "running"]]
    BY <1>2 DEF Rerun
  <2> QED
    BY <1>2, <2>1 DEF Rerun
<1>3. ASSUME NEW c \in Commits, NEW status \in {"success", "failure"}, Conclude(c, status)
      PROVE  CIHeld' /\ HubGrows
  BY <1>3 DEF Conclude
<1> QED
  BY <1>1, <1>2, <1>3 DEF HubStep

LEMMA HubKeeps ==
  ASSUME RInv, HubStep
  PROVE  RInv'
<1> USE HubMoves DEF RInv, HubStep, releaseVars
<1>1. ReleaseTypeOK' /\ Rolling' /\ ReleasesAreCompatible'
  BY DEF ReleaseTypeOK, Rolling, BrokerOK, Undisturbed, Followed, Reported, ReleasesAreCompatible, Deploying
<1>2. Attempted'
  <2> SUFFICES ASSUME NEW a \in artifacts PROVE a.attempt <= ci'[a.sha].attempt
    BY DEF Attempted
  <2>1. a.sha \in Commits /\ a.attempt \in Nat
    BY DEF ReleaseTypeOK, Artifact
  <2> QED
    BY <2>1 DEF Attempted, HubGrows, CIHeld
<1>3. Checked'
  <2> SUFFICES ASSUME Deploying PROVE Checked'
    BY DEF Checked, Deploying
  <2>1. wf.sha \in Commits
    BY DEF Deploying, Working
  <2>2. ASSUME NEW k \in Nat, Known(k) PROVE Known(k)'
    BY <2>1, <2>2 DEF Known, HubGrows, CIHeld
  <2> QED
    BY <2>2 DEF Checked, HubGrows, Deploying
<1>4. OnlyVerifiedIsReleased'
  BY DEF OnlyVerifiedIsReleased, HubGrows
<1> QED
  BY <1>1, <1>2, <1>3, <1>4

-----------------------------------------------------------------------------
(* A run that only reads: it ends, or knows what its next step needs.      *)
LEMMA Ending ==
  ASSUME RInv, Stop, UNCHANGED <<hubVars, artifacts, active, broker, journal, rollouts>>
  PROVE  RInv'
<1>1. wf' = NoRun /\ wf' \notin Working /\ wf'.mode # "deployed"
  BY Modes DEF Stop, NoRun, Working
<1>2. ~Deploying'
  BY <1>1 DEF Deploying
<1>3. CIHeld' /\ ReleaseTypeOK' /\ Attempted'
  BY <1>1 DEF RInv, CIHeld, ReleaseTypeOK, Attempted, hubVars
<1>4. Checked' /\ Rolling'
  BY <1>1, <1>2 DEF RInv, Checked, Rolling, BrokerOK, Undisturbed, Followed, Reported
<1>5. OnlyVerifiedIsReleased' /\ ReleasesAreCompatible'
  BY DEF RInv, OnlyVerifiedIsReleased, ReleasesAreCompatible, hubVars
<1> QED
  BY <1>3, <1>4, <1>5 DEF RInv

Reading == ReadRun \/ ReadMain \/ VerifyDownload \/ ReadStatus \/ ReadArtifact

LEMMA ReadingMoves ==
  ASSUME RInv, Reading
  PROVE  /\ UNCHANGED <<hubVars, artifacts, active, broker, journal, rollouts>>
         /\ wf \in Working /\ wf.mode \in DOMAIN Steps
         /\ \/ Stop
            \/ /\ wf' \in Working /\ wf'.at = wf.at + 1 /\ wf.at + 1 <= Len(Steps[wf.mode])
               /\ wf'.mode = wf.mode /\ wf'.sha = wf.sha /\ wf'.artifact = wf.artifact
               /\ At("artifact") \/ wf'.attempt = wf.attempt
<1>1. UNCHANGED <<hubVars, artifacts, active, broker, journal, rollouts>> /\ wf.mode \in DOMAIN Steps
  BY DEF Reading, ReadRun, ReadMain, VerifyDownload, ReadStatus, ReadArtifact, At
<1>2. wf \in Working
  BY <1>1, Modes DEF RInv, ReleaseTypeOK, NoRun, Deployed
<1>3. CASE ReadRun \/ ReadMain \/ VerifyDownload \/ ReadStatus
  <2>1. Stop \/ Pass(wf)
    BY <1>3 DEF ReadRun, ReadMain, VerifyDownload, ReadStatus, PassIf
  <2> QED
    BY <1>1, <1>2, <2>1, Passing DEF RInv, Stop, Working
<1>4. CASE ReadArtifact
  <2> DEFINE w == [wf EXCEPT !.attempt = ci[wf.sha].attempt]
  <2>1. w \in Working /\ w.mode = wf.mode /\ w.at = wf.at /\ w.sha = wf.sha /\ w.artifact = wf.artifact
    BY <1>2 DEF Working, RInv, CIHeld
  <2>2. Stop \/ Pass(w)
    BY <1>4 DEF ReadArtifact
  <2>3. At("artifact")
    BY <1>4 DEF ReadArtifact
  <2> HIDE DEF w
  <2> QED
    BY <1>1, <1>2, <2>1, <2>2, <2>3, Passing DEF RInv, Stop, Working
<1> QED
  BY <1>1, <1>2, <1>3, <1>4 DEF Reading

LEMMA ReadingKeeps ==
  ASSUME RInv, Reading
  PROVE  RInv'
<1> SUFFICES ASSUME ~Stop PROVE RInv'
  BY ReadingMoves, Ending
<1>1. /\ UNCHANGED <<hubVars, artifacts, active, broker, journal, rollouts>>
      /\ wf \in Working /\ wf.mode \in DOMAIN Steps /\ wf' \in Working
      /\ wf'.at = wf.at + 1 /\ wf.at + 1 <= Len(Steps[wf.mode])
      /\ wf'.mode = wf.mode /\ wf'.sha = wf.sha /\ wf'.artifact = wf.artifact
      /\ At("artifact") \/ wf'.attempt = wf.attempt
  BY ReadingMoves
<1>2. wf.at \in Nat /\ Len(Steps[wf.mode]) \in Nat /\ wf.at >= 1 /\ wf.sha \in Commits /\ wf.attempt \in Nat
  BY <1>1, Lengths DEF RInv, ReleaseTypeOK, Working
<1>3. CIHeld' /\ ReleaseTypeOK' /\ Attempted'
  BY <1>1, <1>2 DEF RInv, CIHeld, ReleaseTypeOK, Attempted, hubVars
<1>4. OnlyVerifiedIsReleased' /\ ReleasesAreCompatible' /\ BrokerOK'
  BY <1>1 DEF RInv, OnlyVerifiedIsReleased, ReleasesAreCompatible, hubVars, Rolling, BrokerOK
<1>5. wf.mode # "deployed" /\ wf'.mode # "deployed" /\ (Deploying' <=> wf.mode = "deploy")
  BY <1>1, Modes DEF Deploying
<1>6. Reported'
  BY <1>5 DEF Reported
<1>7. CASE wf.mode # "deploy"
  BY <1>3, <1>4, <1>5, <1>6, <1>7 DEF RInv, Checked, Rolling, Undisturbed, Followed
<1>8. CASE wf.mode = "deploy"
  <2>1. Deploying /\ Deploying' /\ wf.at \in 1 .. 13 /\ wf'.at = wf.at + 1
    BY <1>1, <1>2, <1>5, <1>8, DeployRoad DEF Deploying
  <2>2. wf.at # 13
    BY <1>8, <2>1, DeployRoad DEF Reading, ReadRun, ReadMain, VerifyDownload, ReadStatus, ReadArtifact, At
  <2>3. Checked'
    <3>1. wf.artifact \in artifacts /\ wf.artifact \in Artifact
      BY <2>1 DEF RInv, Checked, ReleaseTypeOK
    <3>2. ci[wf.sha].attempt \in Nat /\ wf.artifact.attempt \in Nat
      BY <1>2, <3>1 DEF RInv, CIHeld, Artifact
    <3>3. CASE wf.at = 1
      <4>1. ReadRun /\ ci[wf.sha].status = "success"
        BY <1>8, <3>3, DeployRoad DEF Reading, ReadRun, ReadMain, VerifyDownload, ReadStatus, ReadArtifact, At,
           PassIf
      <4>2. ASSUME NEW k \in Nat, k = ci[wf.sha].attempt PROVE Known(k)'
        BY <4>2, <1>1, <1>2, <2>1, <3>1, <3>2, <3>3, <4>1 DEF Known, RInv, CIHeld, Attempted, hubVars
      <4> QED
        BY <1>1, <2>1, <3>1, <3>2, <3>3, <4>2 DEF Checked
    <3>4. CASE wf.at \in {2, 3}
      <4>1. PICK k \in Nat : Known(k)
        BY <2>1, <3>4 DEF RInv, Checked
      <4>2. CASE wf.at = 2
        <5>1. Known(k)'
          BY <1>1, <2>1, <4>1, <4>2 DEF Known, hubVars
        <5> QED
          BY <1>1, <2>1, <3>1, <4>2, <5>1 DEF Checked
      <4>3. CASE wf.at = 3
        <5>1. ReadArtifact
          BY <1>8, <4>3, DeployRoad DEF Reading, ReadRun, ReadMain, VerifyDownload, ReadStatus, ReadArtifact, At
        <5>2. wf'.attempt = ci[wf.sha].attempt
          <6> DEFINE w == [wf EXCEPT !.attempt = ci[wf.sha].attempt]
          <6>1. w \in Working /\ w.mode = wf.mode /\ w.at = wf.at /\ w.attempt = ci[wf.sha].attempt
            BY <1>1, <3>2 DEF Working
          <6>2. Pass(w)
            BY <5>1 DEF ReadArtifact
          <6> HIDE DEF w
          <6> QED
            BY <1>1, <6>1, <6>2, Passing DEF RInv, Working, Stop
        <5>3. Known(k)'
          BY <1>1, <2>1, <4>1, <4>3, <5>2 DEF Known, hubVars
        <5> QED
          BY <1>1, <2>1, <3>1, <4>3, <5>3 DEF Checked
      <4> QED
        BY <3>4, <4>2, <4>3
    <3>5. CASE wf.at = 4
      <4>1. PICK k \in Nat : Known(k)
        BY <2>1, <3>5 DEF RInv, Checked
      <4>2. VerifyDownload /\ SameProducer(wf)
        BY <1>8, <3>5, DeployRoad DEF Reading, ReadRun, ReadMain, VerifyDownload, ReadStatus, ReadArtifact, At,
           PassIf
      <4>3. wf.artifact.sha = wf.sha /\ wf.artifact.attempt = k
        BY <1>2, <3>2, <3>5, <4>1, <4>2 DEF SameProducer, Known
      <4> QED
        BY <1>1, <2>1, <3>1, <3>5, <4>1, <4>3 DEF Checked, Known, hubVars
    <3>6. CASE wf.at >= 5
      BY <1>1, <2>1, <3>1, <3>6 DEF RInv, Checked, hubVars
    <3> QED
      BY <2>1, <3>3, <3>4, <3>5, <3>6
  <2>4. Undisturbed'
    <3>1. CASE wf.at = 7
      <4>1. ReadStatus /\ StatusAnswered /\ Compatible(active, wf.sha)
        BY <1>8, <3>1, DeployRoad DEF Reading, ReadRun, ReadMain, VerifyDownload, ReadStatus, ReadArtifact, At,
           PassIf
      <4>2. broker = Idle
        BY <4>1 DEF StatusAnswered, RInv, Rolling, BrokerOK, ReleaseTypeOK
      <4> QED
        BY <1>1, <4>1, <4>2 DEF Undisturbed, Compatible, Differs
    <3>2. CASE wf.at # 7
      BY <1>1, <2>1, <3>2 DEF RInv, Rolling, Undisturbed, Compatible, Differs
    <3> QED
      BY <3>1, <3>2
  <2>5. Followed'
    BY <2>1, <2>2 DEF Followed
  <2> QED
    BY <1>3, <1>4, <1>6, <2>3, <2>4, <2>5 DEF RInv, Rolling
<1> QED
  BY <1>7, <1>8

-----------------------------------------------------------------------------
LEMMA DispatchKeeps ==
  ASSUME RInv, Dispatch
  PROVE  RInv'
<1>1. UNCHANGED <<hubVars, artifacts, active, broker, journal, rollouts>>
  BY DEF Dispatch
<1>2. PICK mode \in DOMAIN Steps, c \in 1 .. main, a \in artifacts \cup {NoArtifact} :
        /\ mode \in {"plan", "deploy"} <=> a # NoArtifact
        /\ wf' = [mode |-> mode, at |-> 1, sha |-> c, head |-> main, artifact |-> a, attempt |-> 0]
  BY DEF Dispatch
<1>3. wf' \in Working /\ wf'.at = 1 /\ wf'.mode # "deployed"
  <2>1. c \in Commits /\ main \in Commits
    BY <1>2, CommitsAreNumbers DEF RInv, CIHeld
  <2>2. a \in Artifact \cup {NoArtifact} /\ mode # "deployed"
    BY <1>2, Modes DEF RInv, ReleaseTypeOK
  <2> QED
    BY <1>2, <2>1, <2>2 DEF Working
<1>4. CIHeld' /\ ReleaseTypeOK' /\ Attempted'
  <2>1. CIHeld' /\ Attempted'
    BY <1>1 DEF RInv, CIHeld, Attempted, hubVars
  <2>2. wf'.at \in 1 .. Len(Steps[wf'.mode])
    BY <1>3, Lengths DEF Working
  <2> QED
    BY <1>1, <1>3, <2>1, <2>2 DEF RInv, ReleaseTypeOK
<1>5. Checked'
  BY <1>1, <1>2, <1>3 DEF Checked, Deploying
<1>6. Rolling'
  BY <1>1, <1>3 DEF RInv, Rolling, BrokerOK, Undisturbed, Followed, Reported, Deploying
<1>7. OnlyVerifiedIsReleased' /\ ReleasesAreCompatible'
  BY <1>1 DEF RInv, OnlyVerifiedIsReleased, ReleasesAreCompatible, hubVars
<1> QED
  BY <1>4, <1>5, <1>6, <1>7 DEF RInv

LEMMA BuildKeeps ==
  ASSUME RInv, Build
  PROVE  RInv'
<1>1. UNCHANGED <<hubVars, active, broker, journal, rollouts>> /\ Stop
  BY DEF Build
<1>2. wf \in Working
  BY Modes DEF Build, At, RInv, ReleaseTypeOK, NoRun, Deployed
<1> DEFINE a == [sha |-> wf.sha, head |-> wf.head, attempt |-> ci[wf.sha].attempt]
<1>3. a \in Artifact /\ a.attempt <= ci[a.sha].attempt /\ artifacts' = artifacts \cup {a}
  BY <1>2 DEF Build, Working, Artifact, RInv, CIHeld
<1> HIDE DEF a
<1>4. wf' = NoRun /\ wf' \notin Working /\ wf'.mode # "deployed" /\ ~Deploying'
  BY <1>1, Modes DEF Stop, NoRun, Working, Deploying
<1>5. CIHeld' /\ ReleaseTypeOK' /\ Attempted'
  BY <1>1, <1>3, <1>4 DEF RInv, CIHeld, ReleaseTypeOK, Attempted, hubVars
<1>6. Checked' /\ Rolling'
  BY <1>1, <1>4 DEF RInv, Checked, Rolling, BrokerOK, Undisturbed, Followed, Reported
<1>7. OnlyVerifiedIsReleased' /\ ReleasesAreCompatible'
  BY <1>1 DEF RInv, OnlyVerifiedIsReleased, ReleasesAreCompatible, hubVars
<1> QED
  BY <1>5, <1>6, <1>7 DEF RInv

LEMMA SubmitKeeps ==
  ASSUME RInv, Submit
  PROVE  RInv'
<1>1. UNCHANGED <<hubVars, artifacts, active>> /\ At("submit")
  BY DEF Submit
<1>2. Deploying /\ wf.at = 13 /\ wf.sha \in Commits /\ wf.mode \in DOMAIN Steps
  BY <1>1, LastSteps DEF RInv, Deploying, Working
<1>3. /\ wf.artifact.sha = wf.sha /\ <<wf.sha, wf.artifact.attempt>> \in passed
      /\ Compatible(active, wf.sha) /\ active \in Nat
  BY <1>2 DEF RInv, Checked, Rolling, Undisturbed, ReleaseTypeOK
<1>4. SUFFICES ASSUME /\ broker = Idle
                      /\ broker' = [phase |-> "preflight", sha |-> wf.sha, prior |-> active]
                      /\ journal' = [journal EXCEPT ![wf.sha] = "RUNNING"]
                      /\ rollouts' = rollouts \cup {[artifact |-> wf.artifact, sha |-> wf.sha, replaced |-> active]}
                      /\ Pass(wf) \/ Stop
               PROVE  RInv'
  BY <1>1, Ending DEF Submit
<1>5. \/ wf' = NoRun /\ wf' \notin Working /\ wf'.mode # "deployed"
      \/ /\ wf' \in Working /\ wf'.mode = "deploy" /\ wf'.at = 14 /\ wf'.sha = wf.sha
         /\ wf'.artifact = wf.artifact
  <2>1. CASE Stop
    BY <2>1, Modes DEF Stop, NoRun, Working
  <2>2. CASE Pass(wf)
    BY <1>2, <2>2, Passing, Modes DEF RInv, Deploying, Working, NoRun
  <2> QED
    BY <1>4, <2>1, <2>2
<1>6. journal'[wf.sha] = "RUNNING" /\ journal' \in [Commits -> Statuses]
  BY <1>2, <1>4 DEF RInv, ReleaseTypeOK, Statuses
<1>7. ReleaseTypeOK'
  <2>1. broker' \in [phase : {"preflight", "cutover", "killed"}, sha : Commits, prior : Nat]
    BY <1>2, <1>3, <1>4
  <2>2. wf' \in {NoRun} \cup Working /\ (wf' \in Working => wf'.at \in 1 .. Len(Steps[wf'.mode]))
    <3>1. 14 \in 1 .. Len(Steps["deploy"])
      BY DeployRoad
    <3> QED
      BY <1>5, <3>1, Zenon
  <2> QED
    BY <1>1, <1>6, <2>1, <2>2 DEF RInv, ReleaseTypeOK
<1>8. CIHeld' /\ Attempted'
  BY <1>1 DEF RInv, CIHeld, Attempted, hubVars
<1>9. Checked'
  BY <1>1, <1>2, <1>3, <1>5 DEF RInv, Checked, Deploying, hubVars
<1>10. Rolling'
  BY <1>4, <1>5, <1>6 DEF Rolling, BrokerOK, Undisturbed, Followed, Reported, Deploying
<1>11. OnlyVerifiedIsReleased' /\ ReleasesAreCompatible'
  <2> DEFINE new == [artifact |-> wf.artifact, sha |-> wf.sha, replaced |-> active]
  <2>1. rollouts' = rollouts \cup {new} /\ passed' = passed
    BY <1>1, <1>4 DEF hubVars
  <2>2. /\ new.artifact.sha = new.sha /\ <<new.sha, new.artifact.attempt>> \in passed
        /\ Compatible(new.replaced, new.sha)
    BY <1>3
  <2> HIDE DEF new
  <2> QED
    BY <2>1, <2>2 DEF RInv, OnlyVerifiedIsReleased, ReleasesAreCompatible
<1> QED
  BY <1>7, <1>8, <1>9, <1>10, <1>11 DEF RInv

LEMMA PollKeeps ==
  ASSUME RInv, Poll
  PROVE  RInv'
<1>1. UNCHANGED <<hubVars, artifacts, active, broker, journal, rollouts>> /\ At("poll")
  BY DEF Poll
<1>2. Deploying /\ wf.at = 14 /\ wf.sha \in Commits
  BY <1>1, LastSteps DEF RInv, Deploying, Working
<1>3. SUFFICES ASSUME journal[wf.sha] = "DEPLOYED", wf' = [mode |-> "deployed", sha |-> wf.sha]
               PROVE  RInv'
  BY <1>1, Ending DEF Poll, Succeeded
<1>4. broker = Idle /\ active = wf.sha
  BY <1>2, <1>3 DEF RInv, Rolling, BrokerOK, Followed
<1>5. wf' \in Deployed /\ wf' \notin Working /\ wf'.mode = "deployed" /\ wf'.sha = wf.sha
  BY <1>2, <1>3, Modes DEF Deployed, Working
<1>6. CIHeld' /\ ReleaseTypeOK' /\ Attempted'
  BY <1>1, <1>5 DEF RInv, CIHeld, ReleaseTypeOK, Attempted, hubVars
<1>7. Checked' /\ Rolling'
  BY <1>1, <1>4, <1>5 DEF RInv, Checked, Rolling, BrokerOK, Undisturbed, Followed, Reported, Deploying
<1>8. OnlyVerifiedIsReleased' /\ ReleasesAreCompatible'
  BY <1>1 DEF RInv, OnlyVerifiedIsReleased, ReleasesAreCompatible, hubVars
<1> QED
  BY <1>6, <1>7, <1>8 DEF RInv

LEMMA RolloutKeeps ==
  ASSUME RInv, Rollout
  PROVE  RInv'
<1>1. UNCHANGED <<hubVars, wf, artifacts, rollouts>>
  BY DEF Rollout
<1>2. broker # Idle /\ broker \in [phase : {"preflight", "cutover", "killed"}, sha : Commits, prior : Nat]
  BY DEF Rollout, RInv, ReleaseTypeOK, Idle
<1>3. journal[broker.sha] = "RUNNING" /\ journal \in [Commits -> Statuses] /\ active \in Nat
  BY <1>2 DEF RInv, ReleaseTypeOK, Rolling, BrokerOK
<1>4. /\ ~(Deploying /\ wf.at \in 8 .. 13) /\ wf.mode # "deployed"
      /\ Deploying /\ wf.at = 14 => broker.sha = wf.sha
  BY <1>2 DEF RInv, Rolling, Undisturbed, Followed, Reported
<1>5. \/ /\ broker' = [broker EXCEPT !.phase = "cutover"] /\ active' = broker.sha /\ journal' = journal
      \/ /\ broker' = [broker EXCEPT !.phase = "killed"] /\ active' = active /\ journal' = journal
      \/ \E status \in Statuses \ {"RUNNING"} :
           /\ End(status) /\ active' \in {active, broker.sha, broker.prior}
           /\ status = "DEPLOYED" => active' = active /\ broker.phase = "cutover"
  BY <1>2 DEF Rollout, Statuses, End
<1>6. ReleaseTypeOK'
  <2>1. active' \in Nat
    BY <1>2, <1>3, <1>5, CommitsAreNumbers
  <2>2. /\ broker' \in {Idle} \cup [phase : {"preflight", "cutover", "killed"}, sha : Commits, prior : Nat]
        /\ journal' \in [Commits -> Statuses]
    BY <1>2, <1>3, <1>5 DEF End
  <2> QED
    BY <1>1, <2>1, <2>2 DEF RInv, ReleaseTypeOK
<1>7. BrokerOK' /\ Undisturbed' /\ Reported'
  BY <1>1, <1>2, <1>3, <1>4, <1>5 DEF BrokerOK, Undisturbed, Reported, Deploying, End
<1>8. Followed'
  <2> SUFFICES ASSUME Deploying, wf.at = 14
               PROVE  /\ broker' # Idle => broker'.sha = wf.sha
                      /\ journal'[wf.sha] = "DEPLOYED" => active' = wf.sha
    BY <1>1 DEF Followed, Deploying
  <2>1. broker.sha = wf.sha
    BY <1>4
  <2>2. CASE journal' = journal
    BY <1>2, <1>3, <1>5, <2>1, <2>2 DEF End
  <2>3. ASSUME NEW status \in Statuses \ {"RUNNING"}, End(status), status = "DEPLOYED" => active' = active /\ broker.phase = "cutover"
        PROVE  /\ broker' # Idle => broker'.sha = wf.sha
               /\ journal'[wf.sha] = "DEPLOYED" => active' = wf.sha
    BY <1>2, <1>3, <2>1, <2>3 DEF End, RInv, Rolling, BrokerOK
  <2> QED
    BY <1>5, <2>2, <2>3
<1>9. CIHeld' /\ Attempted' /\ Checked' /\ OnlyVerifiedIsReleased' /\ ReleasesAreCompatible'
  BY <1>1 DEF RInv, CIHeld, Attempted, Checked, Known, OnlyVerifiedIsReleased, ReleasesAreCompatible, hubVars,
     Deploying, Compatible, Differs
<1> QED
  BY <1>6, <1>7, <1>8, <1>9 DEF RInv, Rolling

LEMMA ReleaseStays ==
  ASSUME RInv, UNCHANGED <<hubVars, releaseVars>>
  PROVE  RInv'
<1> USE DEF RInv, hubVars, releaseVars, Deploying
<1>1. CIHeld' /\ ReleaseTypeOK'
  BY DEF CIHeld, ReleaseTypeOK
<1>2. Attempted' /\ Checked'
  BY DEF Attempted, Checked, Known
<1>3. Rolling'
  BY DEF Rolling, BrokerOK, Undisturbed, Followed, Reported
<1>4. OnlyVerifiedIsReleased' /\ ReleasesAreCompatible'
  BY DEF OnlyVerifiedIsReleased, ReleasesAreCompatible, Compatible, Differs
<1> QED
  BY <1>1, <1>2, <1>3, <1>4

LEMMA ReleaseInductive == ReleaseSpec => []RInv
<1>1. RInv /\ [ReleaseNext]_<<hubVars, releaseVars>> => RInv'
  <2> SUFFICES ASSUME RInv, [ReleaseNext]_<<hubVars, releaseVars>> PROVE RInv'
    OBVIOUS
  <2>1. CASE Finish
    BY <2>1, Ending DEF Finish
  <2> QED
    BY <2>1, HubKeeps, DispatchKeeps, ReadingKeeps, BuildKeeps, SubmitKeeps, PollKeeps, RolloutKeeps,
       ReleaseStays DEF ReleaseNext, Reading
<1> QED
  BY <1>1, ReleaseBegins, PTL DEF ReleaseSpec

-----------------------------------------------------------------------------
\* The variables keep their types: a run is always at a step of its mode.
THEOREM ReleaseTyped == ReleaseSpec => []ReleaseTypeOK
  BY ReleaseInductive, PTL DEF RInv

\* Whatever CI, main and the broker do between the reads of a run
\* (auto-gate.mjs:55, auto-build.mjs:43, auto-transport.mjs:127): what is
\* submitted was built from its commit and names an attempt of CI that has
\* succeeded, it is compatible with the release it replaces, and a run that
\* reports DEPLOYED reports what is active.
THEOREM VerifiedReleases == ReleaseSpec => []ReleaseWasVerified
<1>1. RInv => ReleaseWasVerified
  BY DEF RInv, ReleaseWasVerified, Rolling, Reported, DeployedIsActive
<1> QED
  BY <1>1, ReleaseInductive, PTL

-----------------------------------------------------------------------------
(* Promotion *)

HubOK ==
  /\ main \in Commits
  /\ ci \in [Commits -> [attempt : Nat, status : {"running", "success", "failure"}]]
  /\ \A c \in Commits : /\ ci[c].status = "success" => <<c, ci[c].attempt>> \in passed
                        /\ c > main => ci[c].status = "running"

GateRun == [mode : {"auto", "skipped", "build-only", "manual-artifact", "promote"},
            at : {"run", "jobs", "main", "build"}, sha : Commits, attempt : Nat]
Package == [sha : Commits, attempt : Nat, kind : {"build-only", "promote"}]

\* The types of the variables of Promotion; what is promoted has been built.
TypeOK ==
  /\ gate \in {NoGate} \cup GateRun /\ waiting \in {NoGate} \cup GateRun
  /\ waiting \in GateRun => waiting.at = "run"
  /\ lost \subseteq Commits
  /\ builds \subseteq Package
  /\ offered \in {NoBuild} \cup builds /\ transport \in {NoBuild} \cup builds
  /\ admitted \in BOOLEAN
  /\ admitted => transport \in builds /\ transport.kind = "promote" /\ transport.sha \in 1 .. main
  /\ publisher \in 1 .. main

Read     == gate \in GateRun /\ gate.at # "run" => <<gate.sha, gate.attempt>> \in passed
Verified == \A b \in builds : <<b.sha, b.attempt>> \in passed

Built(c)  == \E b \in builds : b.sha = c /\ b.kind = "promote"
Queued(g) == g \in GateRun /\ g.mode = "auto" /\ g.sha = main
Wanted    == main \notin lost /\ main > 1 /\ ci[main].status = "success" /\ Relevant(main - 1, main)

(* The newest commit needs no run: it is built, or the host has what it    *)
(* has, or has lost it to an older commit.                                 *)
Settled   == Built(main) \/ ~Relevant(publisher, main) \/ (main \in late /\ Restores(main))
Coming    == Wanted => Settled \/ Queued(gate) \/ Queued(waiting)

Published == publisher # 1 => \E b \in builds : b.sha = publisher /\ b.kind = "promote"

IInv == HubOK /\ TypeOK /\ Read /\ Verified /\ Coming /\ Published

-----------------------------------------------------------------------------
LEMMA NoGateIsNone == NoGate \notin GateRun /\ NoBuild \notin Package /\ Automatic(NoGate) = {}
  BY DEF NoGate, GateRun, NoBuild, Package, Automatic

LEMMA Initial == HubInit /\ PromotionInit => IInv
<1> SUFFICES ASSUME HubInit, PromotionInit PROVE IInv
  OBVIOUS
<1>1. HubOK
  BY CommitsAreNumbers DEF HubInit, HubOK
<1>2. TypeOK /\ Read /\ Verified /\ Published
  <2>1. gate = NoGate /\ waiting = NoGate /\ lost = {} /\ builds = {} /\ offered = NoBuild /\ transport = NoBuild
    BY DEF PromotionInit
  <2>2. admitted = FALSE /\ publisher = 1 /\ main = 1
    BY DEF PromotionInit, HubInit
  <2>3. publisher \in 1 .. main
    BY <2>2
  <2> QED
    BY NoGateIsNone, <2>1, <2>2, <2>3 DEF TypeOK, Read, Verified, Published
<1>3. Coming
  BY DEF HubInit, Coming, Wanted
<1> QED
  BY <1>1, <1>2, <1>3 DEF IInv

(* What the queue does to the newest commit: its run is not lost unless it *)
(* is listed, and a new run of it takes it from the list.                  *)
LEMMA QueueKeeps ==
  ASSUME TypeOK, NEW mode \in {"auto", "skipped", "build-only", "manual-artifact", "promote"}, NEW c \in Commits,
         Queue(mode, c)
  PROVE  /\ gate' \in {NoGate} \cup GateRun /\ waiting' \in {NoGate} \cup GateRun
         /\ lost' \subseteq Commits
         /\ main \notin lost' => main \notin lost \/ (mode = "auto" /\ c = main)
         /\ gate' # gate => gate'.at = "run"
         /\ waiting' # waiting => waiting'.at = "run"
         /\ main' = main /\ Queued(gate) => Queued(gate)'
         /\ main' = main /\ main \notin lost' /\ Queued(waiting) => Queued(waiting)'
         /\ main' = main /\ mode = "auto" /\ c = main => Queued(gate)' \/ Queued(waiting)'
<1> DEFINE g == [mode |-> mode, at |-> "run", sha |-> c, attempt |-> 0]
<1>1. g \in GateRun /\ g.at = "run" /\ g.mode = mode /\ g.sha = c
  BY DEF GateRun
<1>2. /\ \/ gate = NoGate /\ waiting = NoGate /\ gate' = g /\ waiting' = waiting
         \/ waiting' = g /\ gate' = gate
      /\ lost' = (lost \cup Automatic(waiting)) \ Automatic(g)
  BY DEF Queue
<1>3. Automatic(g) = IF mode = "auto" THEN {c} ELSE {}
  BY <1>1 DEF Automatic
<1> HIDE DEF g
<1>4. Automatic(waiting) \subseteq Commits
  BY NoGateIsNone DEF TypeOK, GateRun, Automatic
<1>5. lost' \subseteq Commits /\ (main \notin lost' => main \notin lost \/ (mode = "auto" /\ c = main))
  BY <1>2, <1>3, <1>4 DEF TypeOK
<1>6. ASSUME main' = main, main \notin lost', Queued(waiting)
      PROVE  Queued(waiting)'
  <2>1. Automatic(waiting) = {main} /\ waiting # NoGate
    BY <1>6, NoGateIsNone DEF Queued, Automatic
  <2>2. waiting' = g /\ mode = "auto" /\ c = main
    BY <1>2, <1>3, <1>6, <2>1
  <2> QED
    BY <1>1, <1>6, <2>2 DEF Queued
<1>7. main' = main /\ Queued(gate) => Queued(gate)'
  BY <1>2, NoGateIsNone DEF Queued
<1>8. main' = main /\ mode = "auto" /\ c = main => Queued(gate)' \/ Queued(waiting)'
  BY <1>1, <1>2 DEF Queued
<1> QED
  BY <1>1, <1>2, <1>5, <1>6, <1>7, <1>8 DEF TypeOK

-----------------------------------------------------------------------------
LEMMA PushKeeps ==
  ASSUME IInv, Push \/ \E c \in Commits : Rerun(c), UNCHANGED promotionVars
  PROVE  IInv'
<1> USE CommitsAreNumbers DEF promotionVars, hostVars
<1>1. CASE Push
  <2>1. /\ ci' = ci /\ passed' = passed /\ main' = main + 1 /\ main' \in Commits
        /\ main \in Nat /\ \A c \in Commits : c > main => ci[c].status = "running"
    BY <1>1 DEF IInv, HubOK, Push
  <2>4. HubOK' /\ ci'[main'].status = "running"
    BY <2>1 DEF IInv, HubOK
  <2>2. TypeOK' /\ Read' /\ Verified' /\ Published'
    BY <2>1 DEF IInv, HubOK, TypeOK, Read, Verified, Published
  <2>3. Coming'
    BY <2>4 DEF Coming, Wanted
  <2> QED
    BY <2>2, <2>3, <2>4 DEF IInv
<1>2. ASSUME NEW c \in Commits, Rerun(c) PROVE IInv'
  <2>1. HubOK' /\ (ci'[main].status = "success" => ci[main].status = "success") /\ passed' = passed /\ main' = main
    BY <1>2 DEF IInv, HubOK, Rerun
  <2>2. TypeOK' /\ Read' /\ Verified' /\ Published'
    BY <2>1 DEF IInv, TypeOK, Read, Verified, Published
  <2>3. Coming'
    BY <2>1 DEF IInv, Coming, Wanted, Settled, Built, Queued, Relevant, Restores, Differs
  <2> QED
    BY <2>1, <2>2, <2>3 DEF IInv
<1> QED
  BY <1>1, <1>2

LEMMA CIEndsKeeps ==
  ASSUME IInv, NEW c \in Commits, NEW status \in {"success", "failure"}, CIEnds(c, status)
  PROVE  IInv'
<1> USE CommitsAreNumbers
<1>1. Conclude(c, status) /\ UNCHANGED <<builds, offered, transport, admitted, publisher, late, manuals>>
  BY DEF CIEnds, hostVars
<1>2. /\ HubOK' /\ main' = main /\ passed \subseteq passed'
      /\ ci' = [ci EXCEPT ![c].status = status] /\ ci[c].status = "running"
  BY <1>1 DEF IInv, HubOK, Conclude
<1>3. PICK mode \in {"auto", "skipped"} : Queue(mode, c) /\ (mode = "auto" <=> status = "success")
  BY DEF CIEnds
<1>4. TypeOK' /\ Read' /\ Verified' /\ Published'
  <2>1. TypeOK'
    BY <1>1, <1>2, <1>3, QueueKeeps DEF IInv, TypeOK
  <2>2. Read' /\ Verified' /\ Published'
    BY <1>1, <1>2, <1>3, QueueKeeps DEF IInv, TypeOK, Read, Verified, Published
  <2> QED
    BY <2>1, <2>2
<1>5. Settled => Settled'
  BY <1>1, <1>2 DEF Settled, Built, Relevant, Restores, Differs
<1>6. Coming'
  <2>1. CASE c = main /\ status = "success"
    BY <1>2, <1>3, <2>1, QueueKeeps DEF IInv, Coming, Wanted
  <2>2. CASE ~(c = main /\ status = "success")
    <3>1. Wanted' => Wanted /\ main \notin lost'
      BY <1>2, <1>3, <2>2, QueueKeeps DEF IInv, HubOK, Wanted, Relevant, Differs
    <3> QED
      BY <1>2, <1>3, <1>5, <3>1, QueueKeeps DEF IInv, Coming
  <2> QED
    BY <2>1, <2>2
<1> QED
  BY <1>2, <1>4, <1>6 DEF IInv

LEMMA StartByHandKeeps ==
  ASSUME IInv, StartByHand
  PROVE  IInv'
<1>1. UNCHANGED <<hubVars, builds, offered, transport, admitted, publisher, late>>
  BY DEF StartByHand, hostVars
<1>2. PICK mode \in {"build-only", "manual-artifact", "promote"}, c \in 1 .. main : Queue(mode, c)
  BY DEF StartByHand
<1>3. c \in Commits
  BY CommitsAreNumbers DEF IInv, HubOK
<1>4. HubOK' /\ TypeOK' /\ Read' /\ Verified' /\ Published'
  BY <1>1, <1>2, <1>3, QueueKeeps DEF IInv, HubOK, TypeOK, Read, Verified, Published, hubVars
<1>5. (Wanted' => Wanted /\ main \notin lost') /\ (Settled => Settled')
  BY <1>1, <1>2, <1>3, QueueKeeps DEF IInv, Wanted, Settled, Built, hubVars, Relevant, Restores, Differs
<1>6. Coming'
  BY <1>1, <1>2, <1>3, <1>5, QueueKeeps DEF IInv, Coming, hubVars
<1> QED
  BY <1>4, <1>6 DEF IInv

-----------------------------------------------------------------------------
(* A step of the gate keeps the invariant if it keeps what was read and    *)
(* does not lose the newest commit.                                        *)
LEMMA GateKeeps ==
  ASSUME IInv, UNCHANGED <<hubVars, hostVars>>,
         lost' \subseteq Commits, lost \subseteq lost',
         gate' \in {NoGate} \cup GateRun, waiting' \in {NoGate} \cup GateRun,
         waiting' \in GateRun => waiting'.at = "run",
         gate' \in GateRun /\ gate'.at # "run" => <<gate'.sha, gate'.attempt>> \in passed,
         Wanted /\ main \notin lost' /\ ~Settled => Queued(gate)' \/ Queued(waiting)'
  PROVE  IInv'
<1> USE DEF hubVars, hostVars
<1>1. HubOK' /\ TypeOK' /\ Read' /\ Verified' /\ Published'
  BY DEF IInv, HubOK, TypeOK, Read, Verified, Published
<1>2. (Wanted' => Wanted /\ main \notin lost') /\ (Settled => Settled')
  BY DEF Wanted, Settled, Built, Relevant, Restores, Differs
<1> QED
  BY <1>1, <1>2 DEF IInv, Coming

LEMMA StartWaitingKeeps ==
  ASSUME IInv, StartWaiting
  PROVE  IInv'
<1>1. /\ gate' = waiting /\ waiting' = NoGate /\ waiting \in GateRun /\ gate = NoGate
      /\ UNCHANGED <<hubVars, hostVars>> /\ lost' = lost /\ lost \subseteq Commits
  BY DEF StartWaiting, IInv, TypeOK
<1>2. waiting.at = "run"
  BY <1>1 DEF IInv, TypeOK
<1>3. Wanted /\ ~Settled => Queued(gate)'
  BY <1>1, NoGateIsNone DEF IInv, Coming, Queued, hubVars
<1> QED
  BY <1>1, <1>2, <1>3, NoGateIsNone, GateKeeps

(* A run that fails is listed, unless another of its commit waits.         *)
LEMMA RunFailsKeeps ==
  ASSUME IInv, RunFails
  PROVE  IInv'
<1>1. /\ gate \in GateRun /\ gate.sha \in Commits /\ gate' = NoGate /\ waiting' = waiting
      /\ lost' = lost \cup (Automatic(gate) \ Automatic(waiting))
      /\ UNCHANGED <<hubVars, hostVars>> /\ lost \subseteq Commits
  BY DEF RunFails, IInv, TypeOK, GateRun
<1>2. waiting \in {NoGate} \cup GateRun /\ (waiting \in GateRun => waiting.at = "run")
  BY DEF IInv, TypeOK
<1>3. Automatic(gate) \subseteq Commits
  BY <1>1 DEF Automatic
<1>4. ASSUME main \notin lost', Queued(gate)
      PROVE  Queued(waiting)
  <2>1. main \in Automatic(gate)
    BY <1>4 DEF Queued, Automatic
  <2>2. main \in Automatic(waiting)
    BY <1>1, <1>4, <2>1
  <2> QED
    BY <1>2, <2>2, NoGateIsNone DEF Queued, Automatic
<1>5. Wanted /\ main \notin lost' /\ ~Settled => Queued(waiting)'
  BY <1>1, <1>4 DEF IInv, Coming, Queued, hubVars
<1> QED
  BY <1>1, <1>2, <1>3, <1>5, NoGateIsNone, GateKeeps

LEMMA ReadCIKeeps ==
  ASSUME IInv, ReadCI
  PROVE  IInv'
<1>1. /\ gate \in GateRun /\ gate.sha \in Commits
      /\ UNCHANGED <<hubVars, hostVars>> /\ waiting' = waiting /\ lost' = lost /\ lost \subseteq Commits
  BY DEF ReadCI, IInv, TypeOK, GateRun
<1>2. waiting' \in {NoGate} \cup GateRun /\ (waiting' \in GateRun => waiting'.at = "run")
  BY <1>1 DEF IInv, TypeOK
<1>3. Queued(waiting) => Queued(waiting)'
  BY <1>1 DEF Queued, hubVars
<1>4. CASE gate.mode = "skipped" \/ ci[gate.sha].status # "success"
  <2>1. gate' = NoGate
    BY <1>4 DEF ReadCI
  <2>2. Wanted => ~Queued(gate)
    BY <1>4 DEF Wanted, Queued
  <2> QED
    BY <1>1, <1>2, <1>3, <2>1, <2>2, NoGateIsNone, GateKeeps DEF IInv, Coming
<1>5. CASE gate.mode # "skipped" /\ ci[gate.sha].status = "success"
  <2>1. <<gate.sha, ci[gate.sha].attempt>> \in passed /\ ci[gate.sha].attempt \in Nat
    BY <1>1, <1>5 DEF IInv, HubOK
  <2>2. \/ gate.at = "run" /\ gate' = [gate EXCEPT !.at = "jobs", !.attempt = ci[gate.sha].attempt]
        \/ gate.at = "jobs" /\ gate' = [gate EXCEPT !.at = "main"]
    BY <1>5 DEF ReadCI
  <2>3. /\ gate' \in GateRun /\ gate'.mode = gate.mode /\ gate'.sha = gate.sha
        /\ <<gate'.sha, gate'.attempt>> \in passed
    BY <1>1, <2>1, <2>2 DEF GateRun, IInv, Read
  <2>4. Queued(gate) => Queued(gate)'
    BY <1>1, <2>3 DEF Queued, hubVars
  <2> QED
    BY <1>1, <1>2, <1>3, <2>3, <2>4, GateKeeps DEF IInv, Coming
<1> QED
  BY <1>4, <1>5

(* A wanted head that is not settled differs from what the host has, so    *)
(* the gate lets it through.                                               *)
LEMMA WantedIsEligible ==
  ASSUME IInv, Wanted, ~Settled, Queued(gate), NEW aligned \in BOOLEAN
  PROVE  main = gate.sha /\ Eligible(gate, aligned)
<1>1. gate.mode = "auto" /\ gate.sha = main /\ WorthAsking(gate)
  BY CommitsAreNumbers DEF Queued, Wanted, WorthAsking, IInv, HubOK
<1>2. Relevant(publisher, main) /\ publisher # main
  BY DEF Settled, Relevant, Differs
<1> QED
  BY <1>1, <1>2 DEF Eligible

LEMMA DecideKeeps ==
  ASSUME IInv, Decide
  PROVE  IInv'
<1>1. /\ gate \in GateRun /\ gate.at = "main"
      /\ UNCHANGED <<hubVars, hostVars>> /\ waiting' = waiting /\ lost' = lost /\ lost \subseteq Commits
  BY DEF Decide, IInv, TypeOK
<1>2. waiting' \in {NoGate} \cup GateRun /\ (waiting' \in GateRun => waiting'.at = "run")
  BY <1>1 DEF IInv, TypeOK
<1>3. Queued(waiting) => Queued(waiting)'
  BY <1>1 DEF Queued, hubVars
<1>4. PICK aligned \in BOOLEAN :
        gate' = IF main = gate.sha /\ Eligible(gate, aligned) THEN [gate EXCEPT !.at = "build"] ELSE NoGate
  BY DEF Decide
<1>5. [gate EXCEPT !.at = "build"] \in GateRun
  BY <1>1 DEF GateRun
<1>6. gate' \in GateRun => gate'.sha = gate.sha /\ gate'.attempt = gate.attempt /\ gate'.mode = gate.mode
  BY <1>1, <1>4, NoGateIsNone DEF GateRun
<1>7. gate' \in {NoGate} \cup GateRun
  BY <1>4, <1>5
<1>8. gate' \in GateRun => <<gate'.sha, gate'.attempt>> \in passed
  BY <1>1, <1>6 DEF IInv, Read
<1>9. Wanted /\ ~Settled /\ Queued(gate) => Queued(gate)'
  <2> SUFFICES ASSUME Wanted, ~Settled, Queued(gate) PROVE Queued(gate)'
    OBVIOUS
  <2>1. gate' = [gate EXCEPT !.at = "build"]
    BY <1>4, WantedIsEligible
  <2> QED
    BY <1>1, <1>5, <1>6, <2>1 DEF Queued, hubVars
<1> QED
  BY <1>1, <1>2, <1>3, <1>7, <1>8, <1>9, GateKeeps DEF IInv, Coming

LEMMA BuildArtifactKeeps ==
  ASSUME IInv, BuildArtifact
  PROVE  IInv'
<1> DEFINE b == [sha |-> gate.sha, attempt |-> gate.attempt,
                 kind |-> IF gate.mode = "build-only" THEN "build-only" ELSE "promote"]
<1>1. /\ gate \in GateRun /\ gate.at = "build" /\ gate' = NoGate
      /\ builds' = builds \cup {b} /\ offered' = b
      /\ UNCHANGED <<hubVars, waiting, lost, transport, admitted, publisher, late>>
  BY DEF BuildArtifact, IInv, TypeOK
<1>2. /\ b \in Package /\ b.sha = gate.sha /\ (gate.mode = "auto" => b.kind = "promote")
      /\ <<b.sha, b.attempt>> \in passed
  BY <1>1 DEF Package, GateRun, IInv, Read
<1> HIDE DEF b
<1>3. HubOK' /\ TypeOK' /\ Read' /\ Verified' /\ Published'
  BY <1>1, <1>2, NoGateIsNone DEF IInv, HubOK, TypeOK, Read, Verified, Published, hubVars
<1>4. (Wanted' => Wanted) /\ (Settled => Settled') /\ (Queued(waiting) => Queued(waiting)')
  BY <1>1 DEF Wanted, Settled, Built, Queued, hubVars, Relevant, Restores, Differs
<1>5. Queued(gate) => Settled'
  BY <1>1, <1>2 DEF Queued, Settled, Built, hubVars
<1> QED
  BY <1>3, <1>4, <1>5 DEF IInv, Coming

-----------------------------------------------------------------------------
(* The promotion takes nothing but what was built.                         *)
LEMMA AdmitKeeps ==
  ASSUME IInv, StartPromote \/ Admit
  PROVE  IInv'
<1>1. UNCHANGED <<hubVars, waiting, lost, gate, builds, publisher, late>>
  BY DEF StartPromote, Admit
<1>2. main \in Nat /\ main >= 1
  BY CommitsAreNumbers DEF IInv, HubOK
<1>3. /\ offered' \in {NoBuild} \cup builds /\ transport' \in {NoBuild} \cup builds
      /\ admitted' \in BOOLEAN
      /\ admitted' => transport' \in builds /\ transport'.kind = "promote" /\ transport'.sha \in 1 .. main
  <2>1. CASE StartPromote
    BY <2>1, NoGateIsNone DEF StartPromote, IInv, TypeOK
  <2>2. CASE Admit
    BY <1>2, <2>2 DEF Admit, Promotable, IInv, TypeOK
  <2> QED
    BY <2>1, <2>2
<1>4. HubOK' /\ TypeOK' /\ Read' /\ Verified' /\ Published'
  BY <1>1, <1>3 DEF IInv, HubOK, TypeOK, Read, Verified, Published, hubVars
<1>5. Coming'
  BY <1>1 DEF IInv, Coming, Wanted, Settled, Built, Queued, hubVars, Relevant, Restores, Differs
<1> QED
  BY <1>4, <1>5 DEF IInv

(* The host takes an older commit than the head only if the head is built, *)
(* or was what the host had and gives back what an older one had.          *)
LEMMA PromoteKeeps ==
  ASSUME IInv, Promote
  PROVE  IInv'
<1>1. UNCHANGED <<hubVars, waiting, lost, gate, builds, offered>> /\ transport' = NoBuild /\ admitted' = FALSE
  BY DEF Promote
<1>2. \/ /\ admitted /\ publisher' = transport.sha
         /\ late' = IF transport.sha # main THEN late \cup {main} ELSE late
      \/ publisher' = publisher /\ late' = late
  BY DEF Promote
<1>3. publisher' \in 1 .. main /\ (publisher' # publisher => Built(publisher'))
  BY <1>2 DEF IInv, TypeOK, Built
<1>4. HubOK' /\ TypeOK' /\ Read' /\ Verified' /\ Published'
  BY <1>1, <1>3 DEF IInv, HubOK, TypeOK, Read, Verified, Published, hubVars, Built
<1>5. main' = main /\ (Built(main) => Built(main)') /\ late \subseteq late'
  BY <1>1, <1>2 DEF Built, hubVars
<1>6. Wanted /\ Settled => Settled'
  <2> SUFFICES ASSUME Wanted, ~Relevant(publisher, main), ~Built(main), publisher' # publisher
               PROVE  Settled'
    BY <1>5 DEF Settled, Relevant, Restores, Differs
  <2>1. CASE publisher' = main
    BY <1>5, <2>1 DEF Settled, Relevant, Differs
  <2>2. CASE publisher' # main
    <3>1. main \in late'
      BY <1>2, <2>2
    <3>2. publisher \in 1 .. main - 1
      <4>1. publisher # main
        BY DEF IInv, Published, Built, Wanted
      <4> QED
        BY <4>1, CommitsAreNumbers DEF IInv, HubOK, TypeOK
    <3>3. Restores(main)
      BY <3>2 DEF Restores
    <3> QED
      BY <1>5, <3>1, <3>3 DEF Settled, Restores, Relevant, Differs
  <2> QED
    BY <2>1, <2>2
<1>7. (Wanted' => Wanted) /\ (Queued(gate) => Queued(gate)') /\ (Queued(waiting) => Queued(waiting)')
  BY <1>1 DEF Wanted, Queued, hubVars, Relevant, Differs
<1> QED
  BY <1>4, <1>6, <1>7 DEF IInv, Coming

LEMMA StutterKeeps ==
  ASSUME IInv, UNCHANGED <<hubVars, promotionVars>>
  PROVE  IInv'
  BY DEF IInv, HubOK, TypeOK, Read, Verified, Published, Coming, Wanted, Settled, Built, Queued, hubVars,
     promotionVars, hostVars, Relevant, Restores, Differs

LEMMA Inductive == PromotionSpec => []IInv
<1>1. IInv /\ [PromotionNext]_<<hubVars, promotionVars>> => IInv'
  BY PushKeeps, CIEndsKeeps, StartByHandKeeps, StartWaitingKeeps, RunFailsKeeps, ReadCIKeeps, DecideKeeps,
     BuildArtifactKeeps, AdmitKeeps, PromoteKeeps, StutterKeeps DEF PromotionNext
<1> QED
  BY <1>1, Initial, PTL DEF PromotionSpec

-----------------------------------------------------------------------------
\* The variables keep their types: what waits for promotion has been built.
THEOREM TypeCorrect == PromotionSpec => []TypeOK
  BY Inductive, PTL DEF IInv

\* What the host runs was built to be promoted, for a commit and an attempt
\* of CI that succeeded, whatever moves between the reads
\* (sync-promotion.mjs:83, :112).
LEMMA VerifiedPublisher == PromotionSpec => []PublishedWasVerified
<1>1. IInv => PublishedWasVerified
  BY DEF IInv, Published, Verified, PublishedWasVerified
<1> QED
  BY <1>1, Inductive, PTL

\* No push, rerun, manual run or decision of the gate passes the newest
\* relevant commit over (sync-promotion.mjs:73): when no run is left it has
\* been built or is what the host has, unless its own run was cancelled or
\* failed, or the host was switched late to a commit that it takes back.
LEMMA NewestIsBuilt == PromotionSpec => []RelevantHeadIsBuilt
<1>1. IInv => RelevantHeadIsBuilt
  BY NoGateIsNone DEF IInv, Coming, Wanted, Settled, Built, Queued, RelevantHeadIsBuilt
<1> QED
  BY <1>1, Inductive, PTL

\* Both (sync-promotion.mjs:73, :107): only a verified build gets to the host,
\* and the gate passes no relevant head over but for the reasons above.
THEOREM VerifiedAndBuilt == PromotionSpec => []PromotionWasVerified
<1>1. PublishedWasVerified /\ RelevantHeadIsBuilt => PromotionWasVerified
  BY DEF PromotionWasVerified
<1> QED
  BY <1>1, VerifiedPublisher, NewestIsBuilt, PTL

-----------------------------------------------------------------------------
(* Promoter: the host.                                                     *)

Versions == Nat \ {Torn}
Journals == [id : Ids, old : Versions, new : Versions, ledger : Nat, saved : SUBSET All, was : [All -> Versions]]
Releases == [made : BOOLEAN, junk : BOOLEAN, receipt : Journals \cup {NoJournal}, undone : BOOLEAN]
PromoterSteps    == {"off", "intent", "mkdir", "save", "saved", "prepare", "switch", "install", "verify", "receipt",
             "last", "remove", "leave", "reopen", "check", "back", "restore", "undone", "record", "release", "over"}
Process  == [pc : PromoterSteps, mode : {"none", "promote", "recover", "last"}, j : Journals \cup {NoJournal}, at : All,
             reply : {"none", "ALIGNED", "ROLLED_BACK", "BLOCKED", "killed"}]

\* The types of the variables of Promoter.
HostTypeOK ==
  /\ checkout \in Versions \cup {Torn} /\ installed \in [All -> Versions]
  /\ interlock \in Journals \cup {NoJournal} /\ kept \in [Ids -> Releases]
  /\ lastDone \in Ids \cup {0} /\ ledger \in Nat /\ serving \in BOOLEAN
  /\ op \in Process /\ unguarded \in BOOLEAN /\ faults \in Nat

\* A journal that names every backup has those of a whole host.
Sound(j) ==
  j.saved = All =>
    /\ \A f \in All : j.was[f] = j.was[Files]
    /\ j.was[Files] \in {j.old} \cup (IF j.old = 1 THEN {0} ELSE {})

AsBefore(j) == j.saved = All /\ checkout = j.old /\ \A f \in All : installed[f] = j.was[f]
AsAfter(j)  == j.saved = All /\ checkout = j.new /\ \A f \in All : installed[f] = j.new
Early(i, j) == i \in Journals /\ i.id = j.id /\ i.old = j.old /\ i.ledger = j.ledger /\ i.saved = {}
WayBack(j)  == checkout = Torn \/ Untouched(j) \/ (Admitted(j) /\ ~kept[j.id].undone)

\* What the journals say is true of the directories and of the ledger.
Records ==
  /\ Held => op.j \in Journals /\ Sound(op.j) /\ ledger = op.j.ledger /\ ~serving
  /\ interlock # NoJournal => Sound(interlock) /\ ledger = interlock.ledger /\ ~serving
  /\ interlock # NoJournal /\ kept[interlock.id].undone => AsBefore(interlock)
  /\ interlock # NoJournal /\ interlock.saved = All => kept[interlock.id].made
  /\ Held /\ op.j.saved = All => kept[op.j.id].made
  /\ \A n \in Ids :
       /\ kept[n].undone => kept[n].made
       /\ kept[n].receipt # NoJournal =>
            kept[n].receipt.id = n /\ kept[n].receipt.saved = All /\ Sound(kept[n].receipt) /\ kept[n].made
  /\ lastDone # 0 => kept[lastDone].receipt # NoJournal

\* The host and the disk at each step of a promotion.
Forward ==
  /\ op.pc = "intent" =>
       /\ interlock = NoJournal /\ checkout = op.j.old /\ Whole /\ op.j.saved = {} /\ ~kept[op.j.id].undone
  /\ op.pc \in {"mkdir", "save", "saved"} =>
       /\ Early(interlock, op.j) /\ checkout = op.j.old /\ Whole /\ ~kept[op.j.id].undone
       /\ \A f \in op.j.saved : op.j.was[f] = installed[f]
       /\ op.j.saved = IF op.pc = "mkdir" THEN {} ELSE IF op.pc = "save" THEN 1 .. op.at - 1 ELSE All
  /\ op.pc \in {"save", "saved"} => kept[op.j.id].made
  /\ op.pc \in {"prepare", "switch"} => interlock = op.j /\ AsBefore(op.j) /\ ~kept[op.j.id].undone
  /\ op.pc = "install" =>
       /\ interlock = op.j /\ op.j.saved = All /\ checkout = op.j.new /\ ~kept[op.j.id].undone
       /\ \A f \in All : installed[f] = IF f < op.at THEN op.j.new ELSE op.j.was[f]
  /\ op.pc \in {"verify", "receipt", "last", "remove", "leave"} =>
       /\ interlock = IF op.pc = "leave" THEN NoJournal ELSE op.j
       /\ AsAfter(op.j) /\ ~kept[op.j.id].undone
  /\ op.pc \in {"last", "remove", "leave"} => kept[op.j.id].receipt # NoJournal
  /\ op.pc \in {"remove", "leave"} => lastDone = op.j.id

\* What the journal on the disk is while a rollback holds j: none once it was
\* removed, and the one without backups when that with them was not written.
OnDisk(j) == interlock \in {j, NoJournal} \/ (Early(interlock, j) /\ AsBefore(j))

\* The host and the disk at each step of a rollback.
Backward ==
  /\ op.pc = "reopen" =>
       interlock = NoJournal /\ AsAfter(op.j) /\ lastDone = op.j.id /\ ~kept[op.j.id].undone
  /\ op.pc \in {"check", "back", "restore", "undone"} =>
       /\ OnDisk(op.j)
       /\ kept[op.j.id].undone => AsBefore(op.j)
  /\ op.pc = "check" =>
       /\ interlock = NoJournal => AsAfter(op.j) /\ lastDone = op.j.id
       /\ interlock = op.j => WayBack(op.j)
  /\ op.pc = "back" => Admitted(op.j)
  /\ op.pc = "restore" =>
       /\ op.j.saved = All /\ checkout = op.j.old
       /\ \A f \in All : installed[f] \in {op.j.was[f], op.j.new} /\ (f < op.at => installed[f] = op.j.was[f])
  /\ op.pc \in {"undone", "record", "release", "over"} => AsBefore(op.j)
  /\ op.pc \in {"record", "release"} => interlock = op.j
  /\ op.pc = "over" => interlock = NoJournal
  /\ op.pc \in {"release", "over"} => kept[op.j.id].undone

\* The host and the disk while no process is at work.
AtRest ==
  ~Held => /\ interlock = NoJournal => Whole \/ unguarded
           /\ interlock # NoJournal => WayBack(interlock)

HInv == HostTypeOK /\ Records /\ Forward /\ Backward /\ AtRest /\ OutcomeIsTrue

-----------------------------------------------------------------------------
LEMMA HostFacts ==
  /\ Files \in Nat \ {0} /\ All = 1 .. Files /\ Files \in All /\ 1 \in All /\ All # {}
  /\ 0 \in Versions /\ 1 \in Versions /\ Torn \notin Versions /\ Torn \in Nat /\ 0 \notin Ids /\ Ids \subseteq Nat
  /\ NoJournal \notin Journals /\ \A n \in Ids : Packages[n] \in Versions
BY PackagesAreVersions DEF All, Versions, Torn, NoJournal, Journals

LEMMA Continues ==
  ASSUME op \in Process, NEW to \in PromoterSteps, Continue(to)
  PROVE  /\ op' \in Process /\ op'.pc = to /\ op'.at = 1
         /\ op'.j = op.j /\ op'.mode = op.mode /\ op'.reply = op.reply
BY HostFacts DEF Continue, Process

LEMMA Answers ==
  ASSUME op \in Process, NEW reply \in {"ALIGNED", "ROLLED_BACK", "BLOCKED", "killed"}, Answer(reply)
  PROVE  /\ op' \in Process /\ op'.pc = "off" /\ op'.reply = reply
         /\ op'.j = op.j /\ op'.mode = op.mode
BY HostFacts DEF Answer, Process, PromoterSteps

LEMMA IntentKeeps == HInv /\ Intent /\ UNCHANGED <<ledger, serving, unguarded, faults>> => HInv'
<1> SUFFICES ASSUME HInv, Intent, UNCHANGED <<ledger, serving, unguarded, faults>> PROVE HInv'
  OBVIOUS
<1> USE HostFacts DEF HInv
<1>1. /\ op' \in Process /\ op'.pc = "mkdir" /\ op'.at = 1
     /\ op'.j = op.j /\ op'.mode = op.mode /\ op'.reply = op.reply
  BY Continues DEF Intent, HostTypeOK, PromoterSteps
<1>2. HostTypeOK'
  BY <1>1 DEF HostTypeOK, Records, Held, Intent, WriteJournal
<1>3. Records'
  BY <1>1 DEF Records, Intent, WriteJournal, Held, Forward
<1>4. Forward'
  BY <1>1 DEF Records, Intent, WriteJournal, Held, Forward, Early, Whole, Closed
<1>5. Backward'
  BY <1>1 DEF Backward
<1>6. AtRest' /\ OutcomeIsTrue'
  BY <1>1 DEF AtRest, OutcomeIsTrue, Held
<1> QED
  BY <1>2, <1>3, <1>4, <1>5, <1>6

(* What the promoter notes about one release, the others are as they were.  *)
LEMMA KeptSet ==
  ASSUME kept \in [Ids -> Releases], NEW i \in Ids, NEW x \in Releases, kept' = [kept EXCEPT ![i] = x]
  PROVE  kept' \in [Ids -> Releases] /\ \A n \in Ids : kept'[n] = IF n = i THEN x ELSE kept[n]
  OBVIOUS

LEMMA KeptMade ==
  ASSUME kept \in [Ids -> Releases], NEW i \in Ids, kept' = [kept EXCEPT ![i].made = TRUE]
  PROVE  /\ kept' \in [Ids -> Releases]
         /\ \A n \in Ids : /\ kept'[n].made = IF n = i THEN TRUE ELSE kept[n].made
                           /\ kept'[n].receipt = kept[n].receipt
                           /\ kept'[n].undone = kept[n].undone
<1> DEFINE x == [kept[i] EXCEPT !.made = TRUE]
<1>1. x \in Releases /\ x.made = TRUE /\ x.receipt = kept[i].receipt /\ x.undone = kept[i].undone
  BY DEF Releases
<1>2. kept' = [kept EXCEPT ![i] = x]
  OBVIOUS
<1> HIDE DEF x
<1>3. kept' \in [Ids -> Releases] /\ \A n \in Ids : kept'[n] = IF n = i THEN x ELSE kept[n]
  BY <1>1, <1>2, KeptSet
<1> QED
  BY <1>1, <1>3

LEMMA KeptReceipt ==
  ASSUME kept \in [Ids -> Releases], NEW i \in Ids, NEW j \in Journals, kept' = [kept EXCEPT ![i].receipt = j]
  PROVE  /\ kept' \in [Ids -> Releases]
         /\ \A n \in Ids : /\ kept'[n].made = kept[n].made
                           /\ kept'[n].receipt = IF n = i THEN j ELSE kept[n].receipt
                           /\ kept'[n].undone = kept[n].undone
<1> DEFINE x == [kept[i] EXCEPT !.receipt = j]
<1>1. x \in Releases /\ x.made = kept[i].made /\ x.receipt = j /\ x.undone = kept[i].undone
  BY DEF Releases
<1>2. kept' = [kept EXCEPT ![i] = x]
  OBVIOUS
<1> HIDE DEF x
<1>3. kept' \in [Ids -> Releases] /\ \A n \in Ids : kept'[n] = IF n = i THEN x ELSE kept[n]
  BY <1>1, <1>2, KeptSet
<1> QED
  BY <1>1, <1>3

LEMMA KeptUndone ==
  ASSUME kept \in [Ids -> Releases], NEW i \in Ids, kept' = [kept EXCEPT ![i].undone = TRUE]
  PROVE  /\ kept' \in [Ids -> Releases]
         /\ \A n \in Ids : /\ kept'[n].made = kept[n].made
                           /\ kept'[n].receipt = kept[n].receipt
                           /\ kept'[n].undone = IF n = i THEN TRUE ELSE kept[n].undone
<1> DEFINE x == [kept[i] EXCEPT !.undone = TRUE]
<1>1. x \in Releases /\ x.made = kept[i].made /\ x.receipt = kept[i].receipt /\ x.undone = TRUE
  BY DEF Releases
<1>2. kept' = [kept EXCEPT ![i] = x]
  OBVIOUS
<1> HIDE DEF x
<1>3. kept' \in [Ids -> Releases] /\ \A n \in Ids : kept'[n] = IF n = i THEN x ELSE kept[n]
  BY <1>1, <1>2, KeptSet
<1> QED
  BY <1>1, <1>3

LEMMA KeptJunk ==
  ASSUME kept \in [Ids -> Releases], NEW i \in Ids, kept' = [kept EXCEPT ![i].junk = TRUE]
  PROVE  /\ kept' \in [Ids -> Releases]
         /\ \A n \in Ids : /\ kept'[n].made = kept[n].made
                           /\ kept'[n].receipt = kept[n].receipt
                           /\ kept'[n].undone = kept[n].undone
<1> DEFINE x == [kept[i] EXCEPT !.junk = TRUE]
<1>1. x \in Releases /\ x.made = kept[i].made /\ x.receipt = kept[i].receipt /\ x.undone = kept[i].undone
  BY DEF Releases
<1>2. kept' = [kept EXCEPT ![i] = x]
  OBVIOUS
<1> HIDE DEF x
<1>3. kept' \in [Ids -> Releases] /\ \A n \in Ids : kept'[n] = IF n = i THEN x ELSE kept[n]
  BY <1>1, <1>2, KeptSet
<1> QED
  BY <1>1, <1>3

LEMMA EmptyIsSound == ASSUME NEW i, i.saved = {} PROVE Sound(i)
BY HostFacts DEF Sound

LEMMA MkdirKeeps == HInv /\ Mkdir /\ UNCHANGED <<ledger, serving, unguarded, faults>> => HInv'
<1> SUFFICES ASSUME HInv, Mkdir, UNCHANGED <<ledger, serving, unguarded, faults>> PROVE HInv'
  OBVIOUS
<1> USE HostFacts DEF HInv
<1>0. /\ kept' \in [Ids -> Releases] /\ \A n \in Ids : kept'[n].undone = kept[n].undone /\ kept'[n].receipt = kept[n].receipt
     /\ \A n \in Ids : kept'[n].made = IF n = op.j.id THEN TRUE ELSE kept[n].made
  <2>1. op.j \in Journals /\ op.j.id \in Ids
    BY DEF Records, Mkdir, Held, Journals
  <2> QED
    BY <2>1, KeptMade DEF HostTypeOK, Mkdir
<1>1. /\ op' \in Process /\ op'.pc = "save" /\ op'.at = 1
     /\ op'.j = op.j /\ op'.mode = op.mode /\ op'.reply = op.reply
  BY Continues DEF Mkdir, HostTypeOK, PromoterSteps
<1>2. HostTypeOK'
  BY <1>1, <1>0 DEF HostTypeOK, Mkdir
<1>3. Records'
  <2>1. /\ op.j \in Journals /\ Sound(op.j) /\ ledger = op.j.ledger /\ ~serving
        /\ op.j.saved = {} /\ interlock.id = op.j.id /\ interlock.saved = {}
        /\ Sound(interlock) /\ ledger = interlock.ledger /\ ~kept[op.j.id].undone
    <3>1. op.j \in Journals /\ Sound(op.j) /\ ledger = op.j.ledger /\ ~serving
      BY DEF Records, Mkdir, Held
    <3>2. Early(interlock, op.j) /\ ~kept[op.j.id].undone /\ op.j.saved = {}
      BY DEF Mkdir, Forward
    <3>3. interlock \in Journals /\ interlock.id = op.j.id /\ interlock.saved = {} /\ ledger = interlock.ledger
      BY <3>1, <3>2 DEF Early
    <3>4. Sound(interlock)
      BY <3>3, EmptyIsSound
    <3> QED
      BY <3>1, <3>2, <3>3, <3>4
  <2>2. UNCHANGED <<checkout, installed, interlock, lastDone, ledger, serving>>
    BY DEF Mkdir
  <2>3. /\ op'.j \in Journals /\ Sound(op'.j) /\ ledger' = op'.j.ledger /\ ~serving' /\ kept'[op'.j.id].made
    <3>1. op'.j = op.j /\ ledger' = ledger /\ serving' = serving /\ kept'[op.j.id].made
      BY <1>0, <1>1, <2>1, <2>2 DEF Journals
    <3>2. op'.j \in Journals /\ ledger' = op'.j.ledger /\ kept'[op'.j.id].made
      BY <2>1, <3>1
    <3>3. ~serving'
      <4>1. ~serving /\ serving' = serving
        BY <2>1, <3>1
      <4> QED
        BY ONLY <4>1, Zenon
    <3>4. Sound(op.j)'
      BY <2>1, <3>1 DEF Sound
    <3> QED
      BY <3>2, <3>3, <3>4
  <2>4. /\ Sound(interlock') /\ ledger' = interlock'.ledger
        /\ ~kept'[interlock'.id].undone /\ kept'[interlock'.id].made
    BY <1>0, <2>1, <2>2 DEF Journals
  <2>5. \A n \in Ids :
          /\ kept[n].undone => kept[n].made
          /\ kept[n].receipt # NoJournal =>
               kept[n].receipt.id = n /\ kept[n].receipt.saved = All /\ Sound(kept[n].receipt) /\ kept[n].made
    BY DEF Records
  <2>6. \A n \in Ids :
          /\ kept'[n].undone => kept'[n].made
          /\ kept'[n].receipt # NoJournal =>
               kept'[n].receipt.id = n /\ kept'[n].receipt.saved = All /\ Sound(kept'[n].receipt) /\ kept'[n].made
    <3> SUFFICES ASSUME NEW n \in Ids
                 PROVE  /\ kept'[n].undone => kept'[n].made
                        /\ kept'[n].receipt # NoJournal =>
                             /\ kept'[n].receipt.id = n /\ kept'[n].receipt.saved = All
                             /\ Sound(kept'[n].receipt) /\ kept'[n].made
      BY Zenon
    <3>1. kept'[n].undone = kept[n].undone /\ kept'[n].receipt = kept[n].receipt /\ (kept[n].made => kept'[n].made)
      BY <1>0
    <3> QED
      BY <2>5, <3>1, Zenon
  <2>7. lastDone # 0 => kept[lastDone].receipt # NoJournal
    BY DEF Records
  <2>8. lastDone' # 0 => kept'[lastDone'].receipt # NoJournal
    BY <1>0, <2>2, <2>7 DEF HostTypeOK
  <2> QED
    BY <2>3, <2>4, <2>6, <2>8 DEF Records
<1>4. Forward'
  BY <1>1, <1>0 DEF Mkdir, Forward, Whole, Closed
<1>5. Backward'
  BY <1>1, <1>0 DEF Backward
<1>6. AtRest' /\ OutcomeIsTrue'
  BY <1>1, <1>0 DEF AtRest, OutcomeIsTrue, Held
<1> QED
  BY <1>2, <1>3, <1>4, <1>5, <1>6

LEMMA SavedKeeps == HInv /\ Saved /\ UNCHANGED <<ledger, serving, unguarded, faults>> => HInv'
<1> SUFFICES ASSUME HInv, Saved, UNCHANGED <<ledger, serving, unguarded, faults>> PROVE HInv'
  OBVIOUS
<1> USE HostFacts DEF HInv
<1>1. /\ op' \in Process /\ op'.pc = "prepare" /\ op'.at = 1
     /\ op'.j = op.j /\ op'.mode = op.mode /\ op'.reply = op.reply
  BY Continues DEF Saved, HostTypeOK, PromoterSteps
<1>2. HostTypeOK'
  BY <1>1 DEF HostTypeOK, Records, Held, Saved, WriteJournal
<1>3. Records'
  BY <1>1 DEF Records, Saved, WriteJournal, Held, Forward
<1>4. Forward'
  BY <1>1 DEF Saved, WriteJournal, Forward, AsBefore
<1>5. Backward'
  BY <1>1 DEF Backward
<1>6. AtRest' /\ OutcomeIsTrue'
  BY <1>1 DEF AtRest, OutcomeIsTrue, Held
<1> QED
  BY <1>2, <1>3, <1>4, <1>5, <1>6

LEMMA PrepareKeeps == HInv /\ Prepare /\ UNCHANGED <<ledger, serving, unguarded, faults>> => HInv'
<1> SUFFICES ASSUME HInv, Prepare, UNCHANGED <<ledger, serving, unguarded, faults>> PROVE HInv'
  OBVIOUS
<1> USE HostFacts DEF HInv
<1>1. /\ op' \in Process /\ op'.pc = "switch" /\ op'.at = 1
     /\ op'.j = op.j /\ op'.mode = op.mode /\ op'.reply = op.reply
  BY Continues DEF Prepare, HostTypeOK, PromoterSteps
<1>2. HostTypeOK'
  BY <1>1 DEF HostTypeOK, Prepare
<1>3. Records'
  BY <1>1 DEF Records, Prepare, Held, AsBefore
<1>4. Forward'
  BY <1>1 DEF Prepare, Forward, AsBefore
<1>5. Backward'
  BY <1>1 DEF Backward
<1>6. AtRest' /\ OutcomeIsTrue'
  BY <1>1 DEF AtRest, OutcomeIsTrue, Held
<1> QED
  BY <1>2, <1>3, <1>4, <1>5, <1>6

LEMMA SwitchKeeps == HInv /\ Switch /\ UNCHANGED <<ledger, serving, unguarded, faults>> => HInv'
<1> SUFFICES ASSUME HInv, Switch, UNCHANGED <<ledger, serving, unguarded, faults>> PROVE HInv'
  OBVIOUS
<1> USE HostFacts DEF HInv
<1>0. op.j \in Journals /\ op.j.id \in Ids /\ op.j.old \in Versions /\ op.j.new \in Versions
  BY DEF Records, Switch, Held, Journals
<1>1. /\ op' \in Process /\ op'.pc = "install" /\ op'.at = 1
     /\ op'.j = op.j /\ op'.mode = op.mode /\ op'.reply = op.reply
  BY Continues DEF Switch, HostTypeOK, PromoterSteps
<1>2. HostTypeOK'
  BY <1>1, <1>0 DEF HostTypeOK, Switch
<1>3. Records'
  BY <1>1, <1>0 DEF Records, Switch, Forward
<1>4. Forward'
  BY <1>1, <1>0 DEF Switch, Forward, AsBefore
<1>5. Backward'
  BY <1>1, <1>0 DEF Backward
<1>6. AtRest' /\ OutcomeIsTrue'
  BY <1>1, <1>0 DEF AtRest, OutcomeIsTrue, Held
<1> QED
  BY <1>2, <1>3, <1>4, <1>5, <1>6

LEMMA VerifyKeeps == HInv /\ Verify /\ UNCHANGED <<ledger, serving, unguarded, faults>> => HInv'
<1> SUFFICES ASSUME HInv, Verify, UNCHANGED <<ledger, serving, unguarded, faults>> PROVE HInv'
  OBVIOUS
<1> USE HostFacts DEF HInv
<1>1. /\ op' \in Process /\ op'.pc = "receipt" /\ op'.at = 1
     /\ op'.j = op.j /\ op'.mode = op.mode /\ op'.reply = op.reply
  BY Continues DEF Verify, HostTypeOK, PromoterSteps
<1>2. HostTypeOK'
  BY <1>1 DEF HostTypeOK, Verify
<1>3. Records'
  BY <1>1 DEF Records, Verify, Held, AsBefore
<1>4. Forward'
  BY <1>1 DEF Verify, Forward, AsAfter
<1>5. Backward'
  BY <1>1 DEF Backward
<1>6. AtRest' /\ OutcomeIsTrue'
  BY <1>1 DEF AtRest, OutcomeIsTrue, Held
<1> QED
  BY <1>2, <1>3, <1>4, <1>5, <1>6

LEMMA ReceiptKeeps == HInv /\ Receipt /\ UNCHANGED <<ledger, serving, unguarded, faults>> => HInv'
<1> SUFFICES ASSUME HInv, Receipt, UNCHANGED <<ledger, serving, unguarded, faults>> PROVE HInv'
  OBVIOUS
<1> USE HostFacts DEF HInv
<1>0. /\ kept' \in [Ids -> Releases] /\ \A n \in Ids : kept'[n].made = kept[n].made /\ kept'[n].undone = kept[n].undone
     /\ \A n \in Ids : kept'[n].receipt = IF n = op.j.id THEN op.j ELSE kept[n].receipt
  <2>1. op.j \in Journals /\ op.j.id \in Ids
    BY DEF Records, Receipt, Held, Journals
  <2> QED
    <3>1. kept \in [Ids -> Releases] /\ kept' = [kept EXCEPT ![op.j.id].receipt = op.j]
      BY DEF HostTypeOK, Receipt
    <3>2. /\ kept' \in [Ids -> Releases]
          /\ \A n \in Ids : /\ kept'[n].made = kept[n].made
                            /\ kept'[n].receipt = IF n = op.j.id THEN op.j ELSE kept[n].receipt
                            /\ kept'[n].undone = kept[n].undone
      BY <2>1, <3>1, KeptReceipt
    <3> QED
      BY <3>2
<1>1. /\ op' \in Process /\ op'.pc = "last" /\ op'.at = 1
     /\ op'.j = op.j /\ op'.mode = op.mode /\ op'.reply = op.reply
  BY Continues DEF Receipt, HostTypeOK, PromoterSteps
<1>2. HostTypeOK'
  BY <1>1, <1>0 DEF HostTypeOK, Receipt
<1>3. Records'
  BY <1>1, <1>0 DEF Records, Receipt, Held, Forward, AsAfter
<1>4. Forward'
  BY <1>1, <1>0 DEF Records, Receipt, Held, Forward, AsAfter
<1>5. Backward'
  BY <1>1, <1>0 DEF Backward
<1>6. AtRest' /\ OutcomeIsTrue'
  BY <1>1, <1>0 DEF AtRest, OutcomeIsTrue, Held
<1> QED
  BY <1>2, <1>3, <1>4, <1>5, <1>6

LEMMA LastKeeps == HInv /\ Last /\ UNCHANGED <<ledger, serving, unguarded, faults>> => HInv'
<1> SUFFICES ASSUME HInv, Last, UNCHANGED <<ledger, serving, unguarded, faults>> PROVE HInv'
  OBVIOUS
<1> USE HostFacts DEF HInv
<1>0. op.j \in Journals /\ op.j.id \in Ids /\ op.j.old \in Versions /\ op.j.new \in Versions
  BY DEF Records, Last, Held, Journals
<1>1. /\ op' \in Process /\ op'.pc = "remove" /\ op'.at = 1
     /\ op'.j = op.j /\ op'.mode = op.mode /\ op'.reply = op.reply
  BY Continues DEF Last, HostTypeOK, PromoterSteps
<1>2. HostTypeOK'
  BY <1>1, <1>0 DEF HostTypeOK, Last
<1>3. Records'
  BY <1>1, <1>0 DEF Records, Last, Forward
<1>4. Forward'
  BY <1>1, <1>0 DEF Last, Forward, AsAfter
<1>5. Backward'
  BY <1>1, <1>0 DEF Backward
<1>6. AtRest' /\ OutcomeIsTrue'
  BY <1>1, <1>0 DEF AtRest, OutcomeIsTrue, Held
<1> QED
  BY <1>2, <1>3, <1>4, <1>5, <1>6

LEMMA RemoveKeeps == HInv /\ Remove /\ UNCHANGED <<ledger, serving, unguarded, faults>> => HInv'
<1> SUFFICES ASSUME HInv, Remove, UNCHANGED <<ledger, serving, unguarded, faults>> PROVE HInv'
  OBVIOUS
<1> USE HostFacts DEF HInv
<1>1. /\ op' \in Process /\ op'.pc = "leave" /\ op'.at = 1
     /\ op'.j = op.j /\ op'.mode = op.mode /\ op'.reply = op.reply
  BY Continues DEF Remove, HostTypeOK, PromoterSteps
<1>2. HostTypeOK'
  BY <1>1 DEF HostTypeOK, Remove
<1>3. Records'
  BY <1>1 DEF Records, Remove, Held, Backward
<1>4. Forward'
  BY <1>1 DEF Remove, Forward, AsAfter
<1>5. Backward'
  BY <1>1 DEF Backward
<1>6. AtRest' /\ OutcomeIsTrue'
  BY <1>1 DEF AtRest, OutcomeIsTrue, Held
<1> QED
  BY <1>2, <1>3, <1>4, <1>5, <1>6

LEMMA ReopenKeeps == HInv /\ Reopen /\ UNCHANGED <<ledger, serving, unguarded, faults>> => HInv'
<1> SUFFICES ASSUME HInv, Reopen, UNCHANGED <<ledger, serving, unguarded, faults>> PROVE HInv'
  OBVIOUS
<1> USE HostFacts DEF HInv
<1>1. /\ op' \in Process /\ op'.pc = "check" /\ op'.at = 1
     /\ op'.j = op.j /\ op'.mode = op.mode /\ op'.reply = op.reply
  BY Continues DEF Reopen, HostTypeOK, PromoterSteps
<1>2. HostTypeOK'
  BY <1>1 DEF HostTypeOK, Records, Held, Reopen, WriteJournal
<1>3. Records'
  BY <1>1 DEF Records, Reopen, WriteJournal, Held, Backward
<1>4. Forward'
  BY <1>1 DEF Forward
<1>5. Backward'
  BY <1>1 DEF Records, Reopen, WriteJournal, Held, Backward, AsAfter, OnDisk, WayBack, Admitted
<1>6. AtRest' /\ OutcomeIsTrue'
  BY <1>1 DEF AtRest, OutcomeIsTrue, Held
<1> QED
  BY <1>2, <1>3, <1>4, <1>5, <1>6

LEMMA BackKeeps == HInv /\ Back /\ UNCHANGED <<ledger, serving, unguarded, faults>> => HInv'
<1> SUFFICES ASSUME HInv, Back, UNCHANGED <<ledger, serving, unguarded, faults>> PROVE HInv'
  OBVIOUS
<1> USE HostFacts DEF HInv
<1>0. op.j \in Journals /\ op.j.id \in Ids /\ op.j.old \in Versions /\ op.j.new \in Versions
  BY DEF Records, Back, Held, Journals
<1>1. /\ op' \in Process /\ op'.pc = "restore" /\ op'.at = 1
     /\ op'.j = op.j /\ op'.mode = op.mode /\ op'.reply = op.reply
  BY Continues DEF Back, HostTypeOK, PromoterSteps
<1>2. HostTypeOK'
  BY <1>1, <1>0 DEF HostTypeOK, Back
<1>3. Records'
  BY <1>1, <1>0 DEF Records, Back, Held, Backward, AsBefore, OnDisk
<1>4. Forward'
  BY <1>1, <1>0 DEF Forward
<1>5. Backward'
  BY <1>1, <1>0 DEF Back, Backward, AsBefore, OnDisk, Admitted
<1>6. AtRest' /\ OutcomeIsTrue'
  BY <1>1, <1>0 DEF AtRest, OutcomeIsTrue, Held
<1> QED
  BY <1>2, <1>3, <1>4, <1>5, <1>6

LEMMA UndoneKeeps == HInv /\ Undone /\ UNCHANGED <<ledger, serving, unguarded, faults>> => HInv'
<1> SUFFICES ASSUME HInv, Undone, UNCHANGED <<ledger, serving, unguarded, faults>> PROVE HInv'
  OBVIOUS
<1> USE HostFacts DEF HInv
<1>1. /\ op' \in Process /\ op'.pc = "record" /\ op'.at = 1
     /\ op'.j = op.j /\ op'.mode = op.mode /\ op'.reply = op.reply
  BY Continues DEF Undone, HostTypeOK, PromoterSteps
<1>2. HostTypeOK'
  BY <1>1 DEF HostTypeOK, Records, Held, Undone, WriteJournal
<1>3. Records'
  BY <1>1 DEF Records, Undone, WriteJournal, Held, Backward, AsBefore
<1>4. Forward'
  BY <1>1 DEF Forward
<1>5. Backward'
  BY <1>1 DEF Undone, WriteJournal, Backward, AsBefore
<1>6. AtRest' /\ OutcomeIsTrue'
  BY <1>1 DEF AtRest, OutcomeIsTrue, Held
<1> QED
  BY <1>2, <1>3, <1>4, <1>5, <1>6

LEMMA UnlockKeeps == HInv /\ Unlock /\ UNCHANGED <<ledger, serving, unguarded, faults>> => HInv'
<1> SUFFICES ASSUME HInv, Unlock, UNCHANGED <<ledger, serving, unguarded, faults>> PROVE HInv'
  OBVIOUS
<1> USE HostFacts DEF HInv
<1>1. /\ op' \in Process /\ op'.pc = "over" /\ op'.at = 1
     /\ op'.j = op.j /\ op'.mode = op.mode /\ op'.reply = op.reply
  BY Continues DEF Unlock, HostTypeOK, PromoterSteps
<1>2. HostTypeOK'
  BY <1>1 DEF HostTypeOK, Unlock
<1>3. Records'
  BY <1>1 DEF Records, Unlock, Held
<1>4. Forward'
  BY <1>1 DEF Forward
<1>5. Backward'
  BY <1>1 DEF Unlock, Backward, AsBefore
<1>6. AtRest' /\ OutcomeIsTrue'
  BY <1>1 DEF AtRest, OutcomeIsTrue, Held
<1> QED
  BY <1>2, <1>3, <1>4, <1>5, <1>6

(* What has been saved of a checkout and its files is a version of both.   *)
LEMMA SavedIsSound ==
  ASSUME NEW j, Whole, j.old = checkout, \A f \in j.saved : j.was[f] = installed[f]
  PROVE  Sound(j)
<1> SUFFICES ASSUME j.saved = All
             PROVE  /\ \A f \in All : j.was[f] = j.was[Files]
                    /\ j.was[Files] \in {j.old} \cup (IF j.old = 1 THEN {0} ELSE {})
  BY DEF Sound
<1>1. /\ \A f \in All : installed[f] = installed[Files]
      /\ installed[Files] \in {checkout} \cup (IF checkout = 1 THEN {0} ELSE {})
  BY DEF Whole, Closed
<1>2. Files \in All
  BY HostFacts
<1> QED
  BY <1>1, <1>2

LEMMA SaveFileKeeps == HInv /\ SaveFile /\ UNCHANGED <<ledger, serving, unguarded, faults>> => HInv'
<1> SUFFICES ASSUME HInv, SaveFile, UNCHANGED <<ledger, serving, unguarded, faults>> PROVE HInv'
  OBVIOUS
<1> USE HostFacts DEF HInv
<1>0. op.pc = "save" /\ op.j \in Journals /\ op.at \in 1 .. Files /\ op \in Process
  BY DEF HostTypeOK, Records, SaveFile, Held, Process
<1> DEFINE j == [op.j EXCEPT !.saved = @ \cup {op.at}, !.was[op.at] = installed[op.at]]
<1>1. /\ j \in Journals /\ j.id = op.j.id /\ j.old = op.j.old /\ j.new = op.j.new /\ j.ledger = op.j.ledger
      /\ j.saved = op.j.saved \cup {op.at}
      /\ \A f \in All : j.was[f] = IF f = op.at THEN installed[f] ELSE op.j.was[f]
  BY <1>0 DEF HostTypeOK, Journals
<1> HIDE DEF j
<1>2. /\ op' \in Process /\ op'.j = j /\ op'.mode = op.mode /\ op'.reply = op.reply
      /\ op.at < Files => op'.pc = "save" /\ op'.at = op.at + 1
      /\ ~(op.at < Files) => op'.pc = "saved" /\ op.at = Files
  <2>1. CASE op.at < Files
    <3>1. op' = [op EXCEPT !.j = j, !.at = op.at + 1]
      BY <2>1 DEF SaveFile, j
    <3>2. op.at + 1 \in All
      BY <1>0, <2>1
    <3>3. op' \in Process
      BY <1>0, <1>1, <3>1, <3>2 DEF Process
    <3> QED
      BY <1>0, <2>1, <3>1, <3>3 DEF Process
  <2>2. CASE ~(op.at < Files)
    <3>1. op' = [op EXCEPT !.j = j, !.at = 1, !.pc = "saved"]
      BY <2>2 DEF SaveFile, j
    <3>2. op' \in Process
      BY <1>0, <1>1, <2>2, <3>1 DEF Process, PromoterSteps
    <3> QED
      BY <1>0, <2>2, <3>1, <3>2 DEF Process
  <2> QED
    BY <2>1, <2>2
<1>3. /\ op.pc = "save" /\ op.j.saved = 1 .. op.at - 1 /\ Whole /\ checkout = op.j.old /\ Early(interlock, op.j)
      /\ kept[op.j.id].made /\ ~kept[op.j.id].undone
      /\ \A f \in op.j.saved : op.j.was[f] = installed[f]
  BY DEF SaveFile, Forward
<1>4. HostTypeOK'
  BY <1>2 DEF HostTypeOK, SaveFile
<1>5. j.saved = 1 .. op.at /\ \A f \in j.saved : j.was[f] = installed[f]
  <2>1. op.at \in Nat /\ op.at >= 1 /\ op.at <= Files
    BY <1>0
  <2>2. j.saved = 1 .. op.at
    BY <1>1, <1>3, <2>1
  <2>3. ASSUME NEW f \in j.saved PROVE j.was[f] = installed[f]
    <3>1. f \in All /\ (f # op.at => f \in op.j.saved)
      BY <1>3, <2>1, <2>2
    <3> QED
      BY <1>1, <1>3, <3>1
  <2> QED
    BY <2>2, <2>3
<1>6. Sound(op.j)'
  <2>1. Sound(j)
    BY <1>1, <1>3, <1>5, SavedIsSound
  <2> QED
    BY <1>2, <2>1 DEF Sound
<1>7. Records'
  <2>1. /\ UNCHANGED <<checkout, installed, interlock, kept, lastDone>>
        /\ interlock # NoJournal => interlock.id = op.j.id
    BY <1>3 DEF SaveFile, Early
  <2>2. ledger = j.ledger /\ ~serving
    BY <1>1, <1>3 DEF Records, Held
  <2>3. interlock # NoJournal => Sound(interlock)' /\ ledger = interlock.ledger
    BY <2>1 DEF Records, Sound
  <2>4. ~(interlock # NoJournal /\ kept[interlock.id].undone)
    BY <1>3, <2>1
  <2>5. \A n \in Ids :
          /\ kept[n].undone => kept[n].made
          /\ kept[n].receipt # NoJournal =>
               kept[n].receipt.id = n /\ kept[n].receipt.saved = All /\ Sound(kept[n].receipt) /\ kept[n].made
    BY DEF Records
  <2>6. /\ interlock # NoJournal /\ interlock.saved = All => kept[interlock.id].made
        /\ lastDone # 0 => kept[lastDone].receipt # NoJournal
    BY DEF Records
  <2>7. op'.j \in Journals /\ Sound(op'.j) /\ ledger' = op'.j.ledger /\ ~serving' /\ kept'[op'.j.id].made
    BY <1>1, <1>2, <1>3, <1>6, <2>1, <2>2
  <2>8. \A n \in Ids :
          /\ kept'[n].undone => kept'[n].made
          /\ kept'[n].receipt # NoJournal =>
               kept'[n].receipt.id = n /\ kept'[n].receipt.saved = All /\ Sound(kept'[n].receipt) /\ kept'[n].made
    BY <2>1, <2>5
  <2>9. interlock' # NoJournal => Sound(interlock') /\ ledger' = interlock'.ledger /\ ~serving'
    BY <2>1, <2>2, <2>3
  <2>10. ~(interlock' # NoJournal /\ kept'[interlock'.id].undone)
    BY <2>1, <2>4
  <2>11. /\ interlock' # NoJournal /\ interlock'.saved = All => kept'[interlock'.id].made
         /\ lastDone' # 0 => kept'[lastDone'].receipt # NoJournal
    BY <2>1, <2>6, Zenon
  <2> QED
    BY <2>7, <2>8, <2>9, <2>10, <2>11, Zenon DEF Records
<1>8. Forward'
  <2>1. /\ UNCHANGED <<checkout, installed, interlock, kept, lastDone>>
        /\ op'.pc \in {"save", "saved"} /\ op'.j = j
    BY <1>2 DEF SaveFile
  <2>2. j.saved = IF op'.pc = "save" THEN 1 .. op'.at - 1 ELSE All
    BY <1>0, <1>2, <1>5
  <2>3. Whole'
    BY <1>3, <2>1 DEF Whole, Closed
  <2>4. Early(interlock, op.j)'
    BY <1>1, <1>3, <2>1 DEF Early
  <2>5. /\ checkout' = op'.j.old /\ kept'[op'.j.id].made /\ ~kept'[op'.j.id].undone
        /\ \A f \in op'.j.saved : op'.j.was[f] = installed'[f]
    BY <1>1, <1>3, <1>5, <2>1
  <2> QED
    BY <2>1, <2>2, <2>3, <2>4, <2>5 DEF Forward
<1>9. Backward' /\ AtRest' /\ OutcomeIsTrue'
  BY <1>2 DEF Backward, AtRest, OutcomeIsTrue, Held
<1> QED
  BY <1>4, <1>7, <1>8, <1>9

LEMMA NextsFile ==
  ASSUME op \in Process, NEW to \in PromoterSteps, NextFile(to)
  PROVE  /\ op' \in Process /\ op'.j = op.j /\ op'.mode = op.mode /\ op'.reply = op.reply
         /\ op.at < Files => op'.pc = op.pc /\ op'.at = op.at + 1
         /\ ~(op.at < Files) => op'.pc = to /\ op'.at = 1 /\ op.at = Files
<1>1. CASE op.at < Files
  BY <1>1, HostFacts DEF NextFile, Process
<1>2. CASE ~(op.at < Files)
  BY <1>2, HostFacts, Continues DEF NextFile, Process
<1> QED
  BY <1>1, <1>2

LEMMA InstallKeeps == HInv /\ Install /\ UNCHANGED <<ledger, serving, unguarded, faults>> => HInv'
<1> SUFFICES ASSUME HInv, Install, UNCHANGED <<ledger, serving, unguarded, faults>> PROVE HInv'
  OBVIOUS
<1> USE HostFacts DEF HInv
<1>0. /\ op \in Process /\ op.j \in Journals /\ op.at \in 1 .. Files /\ op.j.new \in Versions
      /\ op.pc = "install" /\ NextFile("verify") /\ installed' = [installed EXCEPT ![op.at] = op.j.new]
  BY DEF HostTypeOK, Records, Install, Held, Process, Journals
<1>1. /\ op' \in Process /\ op'.j = op.j /\ op'.mode = op.mode /\ op'.reply = op.reply
      /\ op.at < Files => op'.pc = "install" /\ op'.at = op.at + 1
      /\ ~(op.at < Files) => op'.pc = "verify" /\ op'.at = 1 /\ op.at = Files
  BY <1>0, NextsFile DEF PromoterSteps
<1>2. /\ installed' \in [All -> Versions]
      /\ \A f \in All : installed'[f] = IF f = op.at THEN op.j.new ELSE installed[f]
  BY <1>0 DEF HostTypeOK
<1>3. HostTypeOK'
  BY <1>1, <1>2 DEF HostTypeOK, Install
<1>4. /\ interlock = op.j /\ op.j.saved = All /\ checkout = op.j.new /\ ~kept[op.j.id].undone
      /\ \A f \in All : installed[f] = IF f < op.at THEN op.j.new ELSE op.j.was[f]
  BY <1>0 DEF Forward
<1>5. Records'
  BY <1>0, <1>1, <1>4 DEF Records, Install, Held, Sound, AsBefore
<1>6. Forward'
  BY <1>0, <1>1, <1>2, <1>4 DEF Forward, Install, AsAfter
<1>7. Backward' /\ AtRest' /\ OutcomeIsTrue'
  BY <1>1 DEF Backward, AtRest, OutcomeIsTrue, Held
<1> QED
  BY <1>3, <1>5, <1>6, <1>7

LEMMA RestoreKeeps == HInv /\ Restore /\ UNCHANGED <<ledger, serving, unguarded, faults>> => HInv'
<1> SUFFICES ASSUME HInv, Restore, UNCHANGED <<ledger, serving, unguarded, faults>> PROVE HInv'
  OBVIOUS
<1> USE HostFacts DEF HInv
<1>0. /\ op \in Process /\ op.j \in Journals /\ op.at \in 1 .. Files /\ op.j.was \in [All -> Versions]
      /\ op.pc = "restore" /\ NextFile("undone") /\ installed' = [installed EXCEPT ![op.at] = op.j.was[op.at]]
  BY DEF HostTypeOK, Records, Restore, Held, Process, Journals
<1>1. /\ op' \in Process /\ op'.j = op.j /\ op'.mode = op.mode /\ op'.reply = op.reply
      /\ op.at < Files => op'.pc = "restore" /\ op'.at = op.at + 1
      /\ ~(op.at < Files) => op'.pc = "undone" /\ op'.at = 1 /\ op.at = Files
  BY <1>0, NextsFile DEF PromoterSteps
<1>2. /\ installed' \in [All -> Versions]
      /\ \A f \in All : installed'[f] = IF f = op.at THEN op.j.was[f] ELSE installed[f]
  BY <1>0 DEF HostTypeOK
<1>3. HostTypeOK'
  BY <1>1, <1>2 DEF HostTypeOK, Restore
<1>4. /\ OnDisk(op.j) /\ (kept[op.j.id].undone => AsBefore(op.j)) /\ op.j.saved = All /\ checkout = op.j.old
      /\ \A f \in All : installed[f] \in {op.j.was[f], op.j.new} /\ (f < op.at => installed[f] = op.j.was[f])
  BY <1>0 DEF Backward
<1>5. AsBefore(op.j) => AsBefore(op.j)'
  BY <1>1, <1>2 DEF AsBefore, Restore
<1>6. interlock # NoJournal /\ kept[interlock.id].undone => AsBefore(interlock)'
  <2> SUFFICES ASSUME interlock # NoJournal, kept[interlock.id].undone PROVE AsBefore(interlock)'
    OBVIOUS
  <2>1. interlock = op.j
    BY <1>4 DEF OnDisk, Early, Records, AsBefore
  <2> QED
    BY <1>0, <1>1, <1>2, <1>4, <2>1 DEF Restore, AsBefore
<1>7. Records'
  BY <1>0, <1>1, <1>6 DEF Records, Restore, Held, Sound, AsBefore
<1>8. Forward' /\ AtRest' /\ OutcomeIsTrue'
  BY <1>1 DEF Forward, AtRest, OutcomeIsTrue, Held
<1>9. Backward'
  <2>1. OnDisk(op.j)' /\ (kept'[op.j.id].undone => AsBefore(op.j)')
    BY <1>1, <1>4, <1>5 DEF Restore, OnDisk, Early, AsBefore
  <2>2. op.at < Files => \A f \in All :
          /\ installed'[f] \in {op.j.was[f], op.j.new}
          /\ f < op.at + 1 => installed'[f] = op.j.was[f]
    BY <1>0, <1>2, <1>4
  <2>3. op.at = Files => \A f \in All : installed'[f] = op.j.was[f]
    BY <1>0, <1>2, <1>4
  <2> QED
    BY <1>0, <1>1, <1>4, <2>1, <2>2, <2>3 DEF Backward, Restore, AsBefore
<1> QED
  BY <1>3, <1>7, <1>8, <1>9

\* What remains when a step neither writes nor holds anything more.
LEMMA LeaveKeeps == HInv /\ Leave /\ UNCHANGED <<ledger, serving, unguarded, faults>> => HInv'
<1> SUFFICES ASSUME HInv, Leave, UNCHANGED <<ledger, serving, unguarded, faults>> PROVE HInv'
  OBVIOUS
<1> USE HostFacts DEF HInv
<1>0. op \in Process /\ op.j \in Journals /\ op.pc = "leave" /\ AsAfter(op.j) /\ interlock = NoJournal /\ lastDone = op.j.id
  BY DEF HostTypeOK, Records, Leave, Held, Forward
<1>1. op' \in Process /\ op'.pc = "off" /\ op'.reply = "ALIGNED" /\ op'.j = op.j
  BY <1>0, Answers DEF Leave
<1>2. HostTypeOK'
  BY <1>1 DEF HostTypeOK, Leave
<1>3. Records'
  BY <1>0, <1>1 DEF Records, Leave, Held, AsBefore
<1>4. Forward' /\ Backward'
  BY <1>1 DEF Forward, Backward
<1>5. Whole /\ Aligned(op.j.new)
  BY <1>0 DEF Whole, Closed, AsAfter, Aligned
<1>6. AtRest'
  BY <1>0, <1>1, <1>5 DEF AtRest, Leave, Held, Whole, Closed
<1>7. OutcomeIsTrue'
  BY <1>0, <1>1, <1>5 DEF OutcomeIsTrue, Leave, Held, Aligned
<1> QED
  BY <1>2, <1>3, <1>4, <1>6, <1>7

LEMMA OverKeeps == HInv /\ Over /\ UNCHANGED <<ledger, serving, unguarded, faults>> => HInv'
<1> SUFFICES ASSUME HInv, Over, UNCHANGED <<ledger, serving, unguarded, faults>> PROVE HInv'
  OBVIOUS
<1> USE HostFacts DEF HInv
<1>0. /\ op \in Process /\ op.j \in Journals /\ op.pc = "over" /\ AsBefore(op.j)
      /\ interlock = NoJournal /\ kept[op.j.id].undone /\ Sound(op.j)
  BY DEF HostTypeOK, Records, Over, Held, Backward
<1>1. op' \in Process /\ op'.pc = "off" /\ op'.reply \in {"BLOCKED", "ROLLED_BACK"} /\ op'.j = op.j
  BY <1>0, Answers DEF Over
<1>2. HostTypeOK'
  BY <1>1 DEF HostTypeOK, Over
<1>3. Records'
  BY <1>0, <1>1 DEF Records, Over, Held, AsBefore
<1>4. Forward' /\ Backward'
  BY <1>1 DEF Forward, Backward
<1>5. Whole /\ Untouched(op.j)
  BY <1>0 DEF Whole, Closed, AsBefore, Untouched, Sound
<1>6. AtRest'
  BY <1>0, <1>1, <1>5 DEF AtRest, Over, Held, Whole, Closed
<1>7. OutcomeIsTrue'
  BY <1>0, <1>1, <1>5 DEF OutcomeIsTrue, Over, Held, Untouched
<1> QED
  BY <1>2, <1>3, <1>4, <1>6, <1>7

LEMMA RecheckKeeps == HInv /\ Recheck /\ UNCHANGED <<ledger, serving, unguarded, faults>> => HInv'
<1> SUFFICES ASSUME HInv, Recheck, UNCHANGED <<ledger, serving, unguarded, faults>> PROVE HInv'
  OBVIOUS
<1> USE HostFacts DEF HInv
<1>0. /\ op \in Process /\ op.j \in Journals /\ op.pc = "check" /\ OnDisk(op.j)
      /\ (kept[op.j.id].undone => AsBefore(op.j)) /\ (interlock = op.j => WayBack(op.j))
      /\ (interlock = NoJournal => AsAfter(op.j) /\ lastDone = op.j.id)
  BY DEF HostTypeOK, Records, Recheck, Held, Backward
<1>1. CASE Admitted(op.j)
  <2>1. op' \in Process /\ op'.pc = "back" /\ op'.at = 1 /\ op'.j = op.j /\ op'.mode = op.mode /\ op'.reply = op.reply
    BY <1>0, <1>1, Continues DEF Recheck, PromoterSteps
  <2>2. HostTypeOK' /\ Records'
    BY <1>0, <2>1 DEF HostTypeOK, Records, Recheck, Held, AsBefore, Sound
  <2>3. Forward' /\ AtRest' /\ OutcomeIsTrue'
    BY <2>1 DEF Forward, AtRest, OutcomeIsTrue, Held
  <2>4. Backward'
    BY <1>0, <1>1, <2>1 DEF Backward, Recheck, OnDisk, Early, AsBefore, Admitted
  <2> QED
    BY <2>2, <2>3, <2>4
<1>2. CASE ~Admitted(op.j)
  <2>1. op' \in Process /\ op'.pc = "off" /\ op'.reply = "BLOCKED" /\ op'.j = op.j
    BY <1>0, <1>2, Answers DEF Recheck
  <2>2. HostTypeOK' /\ Records'
    BY <1>0, <2>1 DEF HostTypeOK, Records, Recheck, Held, AsBefore, Sound
  <2>3. Forward' /\ Backward'
    BY <2>1 DEF Forward, Backward
  <2>4. /\ interlock = NoJournal => Whole /\ Aligned(op.j.new)
        /\ interlock # NoJournal => WayBack(interlock)
    BY <1>0 DEF Whole, Closed, AsAfter, Aligned, OnDisk, WayBack, Untouched, Early, AsBefore
  <2>5. AtRest'
    BY <2>1, <2>4 DEF AtRest, Recheck, Held, Whole, Closed, WayBack, Untouched, Admitted
  <2>6. OutcomeIsTrue'
    BY <1>0, <2>1, <2>4 DEF OutcomeIsTrue, Recheck, Held, Aligned
  <2> QED
    BY <2>2, <2>3, <2>5, <2>6
<1> QED
  BY <1>1, <1>2

LEMMA RecordKeeps == HInv /\ Record /\ UNCHANGED <<ledger, serving, unguarded, faults>> => HInv'
<1> SUFFICES ASSUME HInv, Record, UNCHANGED <<ledger, serving, unguarded, faults>> PROVE HInv'
  OBVIOUS
<1> USE HostFacts DEF HInv
<1>0. /\ op \in Process /\ op.j \in Journals /\ op.j.id \in Ids /\ op.pc = "record" /\ AsBefore(op.j)
      /\ interlock = op.j /\ kept[op.j.id].made /\ Sound(op.j)
  BY DEF HostTypeOK, Records, Record, Held, Backward, Journals, AsBefore
<1>1. CASE kept[op.j.id].undone
  <2>1. op' \in Process /\ op'.pc = "off" /\ op'.reply = "BLOCKED" /\ op'.j = op.j /\ UNCHANGED kept
    BY <1>0, <1>1, Answers DEF Record
  <2>2. HostTypeOK' /\ Records'
    BY SMTT(30), <1>0, <2>1 DEF HostTypeOK, Records, Record, Held, AsBefore, Sound
  <2>3. Forward' /\ Backward'
    BY <2>1 DEF Forward, Backward
  <2>4. WayBack(interlock)
    BY <1>0 DEF AsBefore, WayBack, Untouched
  <2>5. AtRest'
    BY <1>0, <2>1, <2>4 DEF AtRest, Record, Held, WayBack, Untouched, Admitted
  <2>6. OutcomeIsTrue'
    BY <1>0, <2>1 DEF OutcomeIsTrue, Record, Held
  <2> QED
    BY <2>2, <2>3, <2>5, <2>6
<1>2. CASE ~kept[op.j.id].undone
  <2>1. /\ op' \in Process /\ op'.pc = "release" /\ op'.at = 1 /\ op'.j = op.j /\ op'.mode = op.mode /\ op'.reply = op.reply
        /\ kept' = [kept EXCEPT ![op.j.id].undone = TRUE]
    BY <1>0, <1>2, Continues DEF Record, PromoterSteps
  <2>2. /\ kept' \in [Ids -> Releases]
        /\ \A n \in Ids : /\ kept'[n].made = kept[n].made /\ kept'[n].receipt = kept[n].receipt
                          /\ kept'[n].undone = IF n = op.j.id THEN TRUE ELSE kept[n].undone
    BY <1>0, <2>1, KeptUndone DEF HostTypeOK
  <2>3. HostTypeOK'
    BY <2>1, <2>2 DEF HostTypeOK, Record
  <2>4. Records'
    <3>1. lastDone # 0 => lastDone \in Ids
      BY DEF HostTypeOK
    <3>2. /\ Held' => op'.j \in Journals /\ Sound(op'.j) /\ ledger' = op'.j.ledger /\ ~serving'
          /\ interlock' # NoJournal => Sound(interlock') /\ ledger' = interlock'.ledger /\ ~serving'
      BY <1>0, <2>1 DEF Records, Record, Held, Sound
    <3>3. /\ interlock' # NoJournal /\ kept'[interlock'.id].undone => AsBefore(interlock)'
          /\ interlock' # NoJournal /\ interlock'.saved = All => kept'[interlock'.id].made
          /\ Held' /\ op'.j.saved = All => kept'[op'.j.id].made
      BY <1>0, <2>1, <2>2 DEF HostTypeOK, Records, Record, Held, AsBefore
    <3>4. \A n \in Ids : /\ kept'[n].undone => kept'[n].made
                         /\ kept'[n].receipt # NoJournal =>
                              kept'[n].receipt.id = n /\ kept'[n].receipt.saved = All
                              /\ Sound(kept'[n].receipt) /\ kept'[n].made
      BY SMTT(30), <1>0, <2>1, <2>2 DEF Records, Record
    <3>5. lastDone' # 0 => kept'[lastDone'].receipt # NoJournal
      BY <1>0, <2>1, <2>2, <3>1 DEF Records, Record
    <3> QED
      BY <3>2, <3>3, <3>4, <3>5 DEF Records, Sound, AsBefore
  <2>5. Forward' /\ AtRest' /\ OutcomeIsTrue'
    BY <2>1 DEF Forward, AtRest, OutcomeIsTrue, Held
  <2>6. Backward'
    BY <1>0, <2>1, <2>2 DEF Backward, Record, AsBefore
  <2> QED
    BY <2>3, <2>4, <2>5, <2>6
<1> QED
  BY <1>1, <1>2

LEMMA CutOff ==
  ASSUME HInv, HalfDone
  PROVE  /\ op.j \in Journals /\ Held /\ UNCHANGED <<installed, interlock, lastDone, ledger, serving>>
         /\ faults' \in Nat /\ checkout' \in {checkout, Torn} /\ kept' \in [Ids -> Releases]
         /\ \A n \in Ids : /\ kept'[n].made = kept[n].made /\ kept'[n].receipt = kept[n].receipt
                           /\ kept'[n].undone = kept[n].undone
         /\ op.pc \notin {"switch", "back"} => checkout' = checkout
         /\ op.pc = "back" /\ checkout = op.j.old => checkout' = checkout
<1> USE HostFacts DEF HInv
<1>1. /\ op.j \in Journals /\ op.j.id \in Ids /\ Held /\ UNCHANGED <<installed, interlock, lastDone, ledger, serving>>
      /\ faults' \in Nat /\ checkout' \in {checkout, Torn}
  BY DEF HalfDone, HostTypeOK, Records, Journals
<1>2. /\ op.pc \notin {"switch", "back"} => checkout' = checkout
      /\ op.pc = "back" /\ checkout = op.j.old => checkout' = checkout
  BY DEF HalfDone
<1>3. kept' \in {kept, [kept EXCEPT ![op.j.id].junk = TRUE]}
  BY DEF HalfDone
<1>4. /\ kept' \in [Ids -> Releases]
      /\ \A n \in Ids : /\ kept'[n].made = kept[n].made /\ kept'[n].receipt = kept[n].receipt
                        /\ kept'[n].undone = kept[n].undone
  <2>1. kept \in [Ids -> Releases]
    BY DEF HostTypeOK
  <2>2. CASE kept' = [kept EXCEPT ![op.j.id].junk = TRUE]
    BY <1>1, <2>1, <2>2, KeptJunk
  <2> QED
    BY <1>3, <2>1, <2>2
<1> QED
  BY <1>1, <1>2, <1>4

LEMMA WayBackStays ==
  ASSUME HInv, HalfDone
  PROVE  /\ interlock # NoJournal /\ kept[interlock.id].undone => AsBefore(interlock)'
         /\ interlock # NoJournal => WayBack(interlock)'
         /\ interlock = NoJournal => Whole' \/ op.pc \in {"back", "restore", "undone"}
<1> USE HostFacts DEF HInv
<1>0. /\ op \in Process /\ op.j \in Journals /\ op.j.id \in Ids /\ Held /\ ledger = op.j.ledger /\ Sound(op.j)
      /\ interlock # NoJournal => interlock \in Journals /\ interlock.id \in Ids
  BY CutOff DEF HostTypeOK, Records, Journals
<1>1. CASE op.pc \in {"intent", "leave", "reopen"}
  <2>1. interlock = NoJournal /\ Whole
    BY <1>1 DEF Forward, Backward, AsAfter, Whole, Closed
  <2> QED
    BY <1>1, <2>1, CutOff DEF Whole, Closed
<1>2. CASE op.pc \in {"mkdir", "save", "saved"}
  <2>1. /\ Early(interlock, op.j) /\ checkout = op.j.old /\ interlock # NoJournal /\ ~kept[interlock.id].undone
    BY <1>2 DEF Forward, Early
  <2> QED
    BY <1>2, <2>1, CutOff DEF Early, WayBack, Untouched
<1>3. CASE op.pc \in {"prepare", "switch"}
  <2>1. interlock = op.j /\ AsBefore(op.j) /\ ~kept[op.j.id].undone
    BY <1>3 DEF Forward
  <2> QED
    BY <1>0, <1>3, <2>1, CutOff DEF AsBefore, WayBack, Untouched
<1>4. CASE op.pc \in {"install", "verify", "receipt", "last", "remove"}
  <2>1. interlock = op.j /\ Admitted(op.j) /\ ~kept[op.j.id].undone
    BY <1>0, <1>4 DEF Forward, AsAfter, Admitted
  <2> QED
    BY <1>0, <1>4, <2>1, CutOff DEF WayBack, Admitted
<1>5. CASE op.pc \in {"check", "back", "restore", "undone"}
  <2>1. OnDisk(op.j) /\ (kept[op.j.id].undone => AsBefore(op.j))
    BY <1>5 DEF Backward
  <2>2. CASE interlock = NoJournal
    BY <1>5, <2>2, CutOff DEF Backward, AsAfter, Whole, Closed
  <2>3. CASE interlock # NoJournal /\ AsBefore(op.j)
    <3>1. checkout' = checkout
      BY <1>5, <2>3, CutOff DEF AsBefore
    <3>2. interlock.old = op.j.old /\ (interlock = op.j \/ interlock.saved = {})
      BY <2>1, <2>3 DEF OnDisk, Early
    <3>3. Untouched(interlock)'
      BY <2>3, <3>1, <3>2, CutOff DEF AsBefore, Untouched
    <3>4. kept[interlock.id].undone => AsBefore(interlock)'
      BY <2>3, <3>1, CutOff DEF Records, AsBefore
    <3> QED
      BY <2>3, <3>3, <3>4 DEF WayBack
  <2>4. CASE interlock = op.j /\ ~kept[op.j.id].undone
    <3>1. checkout' = Torn \/ Untouched(op.j) \/ Admitted(op.j)
      BY <1>0, <1>5, <2>4, CutOff DEF Backward, WayBack, Admitted, AsBefore, Untouched
    <3> QED
      BY <1>0, <1>5, <2>4, <3>1, CutOff, ZenonT(30) DEF WayBack, Untouched, Admitted, Backward, AsBefore
  <2> QED
    BY <2>1, <2>2, <2>3, <2>4 DEF OnDisk
<1>6. CASE op.pc \in {"record", "release"}
  <2>1. interlock = op.j /\ AsBefore(op.j) /\ checkout' = checkout
    BY <1>6, CutOff DEF Backward
  <2> QED
    BY <1>0, <1>6, <2>1, CutOff DEF AsBefore, WayBack, Untouched
<1>7. CASE op.pc = "over"
  <2>1. interlock = NoJournal /\ Whole /\ checkout' = checkout
    BY <1>0, <1>7, CutOff DEF Backward, AsBefore, Sound, Whole, Closed
  <2> QED
    BY <1>7, <2>1, CutOff DEF Whole, Closed
<1> QED
  BY <1>0, <1>1, <1>2, <1>3, <1>4, <1>5, <1>6, <1>7 DEF Process, PromoterSteps, Held

LEMMA CutOffTypes == HInv /\ HalfDone /\ op' \in Process /\ unguarded' \in BOOLEAN => HostTypeOK'
BY HostFacts, CutOff DEF HInv, HostTypeOK

LEMMA CutOffRecords ==
  ASSUME HInv, HalfDone, op'.j = op.j
  PROVE  Records'
<1> USE HostFacts DEF HInv
<1>0. op.j.id \in Ids /\ (interlock # NoJournal => interlock.id \in Ids) /\ lastDone \in Ids \cup {0}
  BY CutOff DEF HostTypeOK, Journals
<1>1. Records
  OBVIOUS
<1>2. /\ op.j \in Journals /\ Sound(op.j) /\ ledger' = op.j.ledger /\ ~serving'
      /\ op.j.saved = All => kept'[op.j.id].made
  <2>1. Held /\ UNCHANGED <<ledger, serving>> /\ kept'[op.j.id].made = kept[op.j.id].made
    BY <1>0, CutOff
  <2> QED
    BY <2>1, <1>1 DEF Records
<1>5. /\ interlock # NoJournal => Sound(interlock) /\ ledger' = interlock.ledger /\ ~serving'
      /\ interlock # NoJournal /\ interlock.saved = All => kept'[interlock.id].made
  <2>1. /\ UNCHANGED <<ledger, serving>>
        /\ interlock # NoJournal => kept'[interlock.id].made = kept[interlock.id].made
    BY <1>0, CutOff
  <2> QED
    BY <2>1, <1>1 DEF Records
<1>3. interlock # NoJournal /\ kept'[interlock.id].undone => AsBefore(interlock)'
  BY <1>0, CutOff, WayBackStays
<1>4. /\ \A n \in Ids :
           /\ kept'[n].undone => kept'[n].made
           /\ kept'[n].receipt # NoJournal =>
                kept'[n].receipt.id = n /\ kept'[n].receipt.saved = All /\ Sound(kept'[n].receipt) /\ kept'[n].made
      /\ lastDone # 0 => kept'[lastDone].receipt # NoJournal
  BY <1>0, <1>1, CutOff DEF Records
<1>6. UNCHANGED <<interlock, lastDone>>
  BY CutOff
<1>7. /\ op'.j \in Journals /\ Sound(op'.j) /\ ledger' = op'.j.ledger /\ ~serving'
      /\ op'.j.saved = All => kept'[op'.j.id].made
  BY <1>2
<1>8. /\ interlock' # NoJournal => Sound(interlock') /\ ledger' = interlock'.ledger /\ ~serving'
      /\ interlock' # NoJournal /\ interlock'.saved = All => kept'[interlock'.id].made
  BY <1>5, <1>6
<1>9. /\ interlock' # NoJournal /\ kept'[interlock'.id].undone => AsBefore(interlock)'
      /\ lastDone' # 0 => kept'[lastDone'].receipt # NoJournal
  BY <1>3, <1>4, <1>6
<1> QED
  BY <1>4, <1>7, <1>8, <1>9 DEF Records

LEMMA EndsKeeps ==
  ASSUME HInv, HalfDone, Dies, NEW reply \in {"BLOCKED", "killed"}, Answer(reply),
         reply = "BLOCKED" => \/ RollingBack \/ op.pc \in {"intent", "prepare", "switch"} \/ op.j.saved # All
  PROVE  HInv'
<1> USE HostFacts DEF HInv
<1>0. op \in Process /\ unguarded \in BOOLEAN /\ unguarded' \in BOOLEAN
  BY DEF HostTypeOK, Dies
<1>1. op' \in Process /\ op'.pc = "off" /\ op'.reply = reply /\ op'.j = op.j
  BY <1>0, Answers
<1>2. HostTypeOK'
  BY <1>0, <1>1, CutOffTypes
<1>3. Records'
  BY <1>1, CutOffRecords
<1>4. Forward' /\ Backward'
  BY <1>1 DEF Forward, Backward
<1>5. interlock = NoJournal /\ op.pc \in {"back", "restore", "undone"} => unguarded'
  BY DEF Dies, RollingBack
<1>6. AtRest'
  BY <1>1, <1>5, CutOff, WayBackStays DEF AtRest, Held
<1>7. OutcomeIsTrue'
  <2> SUFFICES ASSUME interlock = NoJournal, reply = "BLOCKED", ~unguarded'
               PROVE  Untouched(op.j)' \/ (Aligned(op.j.new) /\ lastDone = op.j.id)'
    BY <1>1, CutOff DEF OutcomeIsTrue, Held
  <2>1. op.pc \in {"intent", "reopen", "check", "over"}
    BY <1>0, <1>5, CutOff DEF Process, PromoterSteps, Held, RollingBack, Forward, Backward, AsAfter, Early, Records
  <2>2. CASE op.pc = "intent"
    BY <1>1, <2>2, CutOff DEF Forward, Untouched
  <2>3. CASE op.pc \in {"reopen", "check"}
    BY <1>1, <2>3, CutOff DEF Backward, AsAfter, Aligned
  <2>4. CASE op.pc = "over"
    BY <1>1, <2>4, CutOff DEF Backward, AsBefore, Untouched
  <2> QED
    BY <2>1, <2>2, <2>3, <2>4
<1> QED
  BY <1>2, <1>3, <1>4, <1>6, <1>7

LEMMA UndoesKeeps ==
  ASSUME HInv, HalfDone, ~RollingBack, op.pc # "intent", op.j.saved = All, Continue("check"), UNCHANGED unguarded
  PROVE  HInv'
<1> USE HostFacts DEF HInv
<1>0. op \in Process /\ unguarded \in BOOLEAN /\ op.at \in 1 .. Files
  BY DEF HostTypeOK, Process
<1>1. op' \in Process /\ op'.pc = "check" /\ op'.j = op.j
  BY <1>0, Continues DEF PromoterSteps
<1>2. HostTypeOK'
  BY <1>0, <1>1, CutOffTypes
<1>3. Records'
  BY <1>1, CutOffRecords
<1>4. Forward' /\ AtRest' /\ OutcomeIsTrue'
  BY <1>1 DEF Forward, AtRest, OutcomeIsTrue, Held
<1>5. op.pc \in {"saved", "prepare", "switch", "install", "verify", "receipt", "last", "remove", "leave"}
  <2>1. op.pc # "mkdir" /\ op.pc # "save"
    <3>1. op.j.saved # {} /\ op.at \notin 1 .. op.at - 1
      BY <1>0
    <3> QED
      BY <1>0, <3>1 DEF Forward
  <2> QED
    BY <1>0, <2>1, CutOff DEF Process, PromoterSteps, Held, RollingBack
<1>6. ~kept[op.j.id].undone /\ op.j.id \in Ids
  BY <1>5, CutOff DEF Forward, Journals
<1>7. Backward'
  <2>1. CASE op.pc = "saved"
    <3>1. /\ Early(interlock, op.j) /\ AsBefore(op.j) /\ checkout' = checkout
          /\ interlock # NoJournal /\ interlock # op.j
      BY <2>1, CutOff DEF Forward, Early, AsBefore
    <3> QED
      BY <1>1, <1>6, <3>1, CutOff DEF Backward, OnDisk, Early, AsBefore
  <2>2. CASE op.pc = "leave"
    <3>1. interlock = NoJournal /\ op.j # NoJournal /\ AsAfter(op.j) /\ lastDone = op.j.id /\ checkout' = checkout
      BY <2>2, CutOff DEF Forward
    <3> QED
      BY <1>1, <1>6, <3>1, CutOff DEF Backward, OnDisk, AsAfter
  <2>3. CASE op.pc \notin {"saved", "leave"}
    <3>1. interlock = op.j /\ op.j # NoJournal
      BY <1>5, <2>3, CutOff DEF Forward
    <3> QED
      BY <1>1, <1>6, <3>1, CutOff, WayBackStays DEF Backward, OnDisk
  <2> QED
    BY <2>1, <2>2, <2>3
<1> QED
  BY <1>2, <1>3, <1>4, <1>7

LEMMA FailKeeps == HInv /\ Fail => HInv'
<1> SUFFICES ASSUME HInv, Fail PROVE HInv'
  OBVIOUS
<1>1. CASE ~RollingBack /\ op.pc # "intent" /\ op.j.saved = All /\ Continue("check") /\ UNCHANGED unguarded
  BY <1>1, UndoesKeeps DEF Fail
<1>2. CASE /\ RollingBack \/ op.pc \in {"intent", "prepare", "switch"} \/ op.j.saved # All
           /\ Answer("BLOCKED") /\ Dies
  BY <1>2, EndsKeeps DEF Fail
<1> QED
  BY <1>1, <1>2 DEF Fail

LEMMA KillKeeps == HInv /\ Kill => HInv'
BY EndsKeeps DEF Kill

\* A process begins with the journal j.
LEMMA Begins ==
  ASSUME NEW mode \in {"promote", "recover", "last"}, NEW to \in PromoterSteps, NEW j \in Journals, Begin(mode, to, j)
  PROVE  op' \in Process /\ op'.pc = to /\ op'.j = j
BY HostFacts DEF Begin, Process

LEMMA StartPromotionKeeps == \A n \in Ids : HInv /\ StartPromotion(n) => HInv'
<1> SUFFICES ASSUME NEW n \in Ids, HInv, StartPromotion(n) PROVE HInv'
  OBVIOUS
<1> USE HostFacts DEF HInv
<1>0. /\ ~Held /\ ~serving /\ interlock = NoJournal /\ Whole /\ ~kept[n].made /\ ~kept[n].undone
      /\ Begin("promote", "intent", Journal(n))
      /\ UNCHANGED <<checkout, installed, interlock, kept, lastDone, ledger, serving, unguarded, faults>>
  BY DEF StartPromotion, Admissible, Whole, Closed, Records
<1>1. checkout \in Versions /\ ledger \in Nat
  BY <1>0 DEF HostTypeOK, Whole, Closed
<1>2. /\ Journal(n) \in Journals /\ Journal(n).id = n /\ Journal(n).old = checkout
      /\ Journal(n).saved = {} /\ Journal(n).ledger = ledger
  BY <1>1 DEF Journal, Journals
<1>3. op' \in Process /\ op'.pc = "intent" /\ op'.j = Journal(n)
  BY <1>0, <1>2, Begins DEF PromoterSteps
<1>4. HostTypeOK'
  BY <1>0, <1>3 DEF HostTypeOK
<1>5. Records'
  <2>1. Sound(Journal(n)) /\ Journal(n).saved # All
    BY <1>2 DEF Sound
  <2> QED
    BY <1>0, <1>2, <1>3, <2>1 DEF Records
<1>6. Forward'
  BY <1>0, <1>2, <1>3 DEF Forward, Whole, Closed
<1>7. Backward' /\ AtRest' /\ OutcomeIsTrue'
  BY <1>3 DEF Backward, AtRest, OutcomeIsTrue, Held
<1> QED
  BY <1>4, <1>5, <1>6, <1>7

LEMMA StartRecoveryKeeps == HInv /\ StartRecovery => HInv'
<1> SUFFICES ASSUME HInv, StartRecovery PROVE HInv'
  OBVIOUS
<1> USE HostFacts DEF HInv
<1>0. /\ ~Held /\ ~serving /\ interlock \in Journals /\ Begin("recover", "check", interlock)
      /\ UNCHANGED <<checkout, installed, interlock, kept, lastDone, ledger, serving, unguarded, faults>>
  BY DEF StartRecovery, HostTypeOK
<1>1. op' \in Process /\ op'.pc = "check" /\ op'.j = interlock
  BY <1>0, Begins DEF PromoterSteps
<1>2. HostTypeOK'
  BY <1>0, <1>1 DEF HostTypeOK
<1>3. Records'
  BY <1>0, <1>1 DEF Records, Held, Sound, AsBefore
<1>4. Backward'
  BY <1>0, <1>1 DEF Backward, Records, AtRest, OnDisk, WayBack, AsBefore, Untouched, Admitted
<1>5. Forward' /\ AtRest' /\ OutcomeIsTrue'
  BY <1>1 DEF Forward, AtRest, OutcomeIsTrue, Held
<1> QED
  BY <1>2, <1>3, <1>4, <1>5

LEMMA StartRollbackKeeps == HInv /\ StartRollback => HInv'
<1> SUFFICES ASSUME HInv, StartRollback PROVE HInv'
  OBVIOUS
<1> USE HostFacts DEF HInv
<1> DEFINE r == kept[lastDone].receipt
           j == [r EXCEPT !.ledger = ledger]
<1>0. /\ ~Held /\ ~serving /\ interlock = NoJournal /\ lastDone \in Ids /\ ~kept[lastDone].undone
      /\ checkout = r.new /\ (\A f \in All : installed[f] = r.new) /\ Begin("last", "reopen", j)
      /\ UNCHANGED <<checkout, installed, interlock, kept, lastDone, ledger, serving, unguarded, faults>>
  BY DEF StartRollback, Admissible, HostTypeOK
<1>1. r \in Journals /\ r.id = lastDone /\ r.saved = All /\ Sound(r) /\ kept[lastDone].made /\ ledger \in Nat
  BY <1>0 DEF Records, HostTypeOK, Releases
<1> HIDE DEF r
<1>2. /\ j \in Journals /\ j.id = lastDone /\ j.saved = All /\ j.new = r.new /\ j.old = r.old /\ j.was = r.was
      /\ j.ledger = ledger
  BY <1>1 DEF Journals
<1> HIDE DEF j
<1>3. op' \in Process /\ op'.pc = "reopen" /\ op'.j = j
  BY <1>0, <1>2, Begins DEF PromoterSteps
<1>4. HostTypeOK'
  BY <1>0, <1>3 DEF HostTypeOK
<1>5. Sound(j)
  BY <1>1, <1>2 DEF Sound
<1>6. Records'
  BY <1>0, <1>1, <1>2, <1>3, <1>5 DEF Records, Held, Sound, AsBefore
<1>7. Backward'
  BY <1>0, <1>2, <1>3 DEF Backward, AsAfter
<1>8. Forward' /\ AtRest' /\ OutcomeIsTrue'
  BY <1>3 DEF Forward, AtRest, OutcomeIsTrue, Held
<1> QED
  BY <1>4, <1>6, <1>7, <1>8

LEMMA ServiceKeeps == HInv /\ (StartService \/ StopService) => HInv'
<1> SUFFICES ASSUME HInv, StartService \/ StopService PROVE HInv'
  OBVIOUS
<1> USE HostFacts DEF HInv
<1>1. /\ ~Held /\ interlock = NoJournal /\ ledger' \in Nat /\ serving' \in BOOLEAN
      /\ UNCHANGED <<checkout, installed, interlock, kept, lastDone, op, unguarded, faults>>
  <2>1. CASE StartService
    BY <2>1 DEF StartService, HostTypeOK
  <2>2. CASE StopService
    <3>1. ~Held /\ interlock = NoJournal
      BY <2>2 DEF StopService, Records
    <3>2. /\ ledger' \in {ledger, ledger + 1} /\ serving' = FALSE
          /\ UNCHANGED <<checkout, installed, interlock, kept, lastDone, op, unguarded, faults>>
      BY <2>2 DEF StopService
    <3>3. ledger \in Nat
      BY DEF HostTypeOK
    <3>4. serving' \in BOOLEAN
      BY <3>2, Zenon
    <3>5. ledger' \in Nat
      BY <3>2, <3>3
    <3> QED
      BY <3>1, <3>2, <3>4, <3>5
  <2> QED
    BY <2>1, <2>2
<1>2. HostTypeOK'
  BY <1>1 DEF HostTypeOK
<1>3. Records'
  BY <1>1 DEF Records, Held, Sound
<1>4. Forward' /\ Backward'
  BY <1>1 DEF Forward, Backward, Held
<1>5. AtRest' /\ OutcomeIsTrue'
  BY <1>1 DEF AtRest, OutcomeIsTrue, Held, Whole, Closed, Aligned, Untouched
<1> QED
  BY <1>2, <1>3, <1>4, <1>5

LEMMA HostInit == PromoterInit => HInv
<1> SUFFICES ASSUME PromoterInit PROVE HInv
  OBVIOUS
<1> USE HostFacts DEF PromoterInit, Free, NoRelease
<1>1. NoRelease \in Releases /\ Free \in Process
  BY DEF Releases, Process, PromoterSteps
<1>2. HostTypeOK
  BY <1>1 DEF HostTypeOK
<1>3. Records /\ Forward /\ Backward
  BY DEF Records, Forward, Backward, Held
<1>4. AtRest /\ OutcomeIsTrue
  BY DEF AtRest, OutcomeIsTrue, Held, Whole, Closed
<1> QED
  BY <1>2, <1>3, <1>4 DEF HInv

LEMMA HostKeeps == HInv /\ PromoterStep => HInv'
BY IntentKeeps, MkdirKeeps, SaveFileKeeps, SavedKeeps, PrepareKeeps, SwitchKeeps, InstallKeeps, VerifyKeeps,
   ReceiptKeeps, LastKeeps, RemoveKeeps, LeaveKeeps, ReopenKeeps, RecheckKeeps, BackKeeps, RestoreKeeps,
   UndoneKeeps, RecordKeeps, UnlockKeeps, OverKeeps DEF PromoterStep

LEMMA HostStays == HInv /\ UNCHANGED promoterVars => HInv'
<1> SUFFICES ASSUME HInv, UNCHANGED promoterVars PROVE HInv'
  OBVIOUS
<1>0. HostTypeOK /\ Records /\ Forward /\ Backward /\ AtRest /\ OutcomeIsTrue
  BY DEF HInv
<1>c. UNCHANGED <<checkout, installed, interlock, kept, lastDone, op, ledger, serving, unguarded, faults>>
  BY DEF promoterVars
<1> USE <1>c
<1>1. HostTypeOK'
  <2>1. HostTypeOK
    BY <1>0
  <2> QED
    BY <2>1 DEF HostTypeOK
<1>2. Records'
  <2>1. Records
    BY <1>0
  <2> QED
    BY <2>1 DEF Records, Held, AsBefore
<1>3. Forward'
  <2>1. Forward
    BY <1>0
  <2> QED
    BY <2>1 DEF Forward, Whole, Closed, AsBefore, AsAfter
<1>4. Backward'
  <2>1. Backward
    BY <1>0
  <2> QED
    BY <2>1 DEF Backward, Untouched, Admitted, WayBack, OnDisk, AsBefore, AsAfter
<1>5. AtRest'
  <2>1. AtRest
    BY <1>0
  <2> QED
    BY <2>1 DEF AtRest, Held, Whole, Closed, Untouched, Admitted, WayBack
<1>6. OutcomeIsTrue'
  <2>1. OutcomeIsTrue
    BY <1>0
  <2>2. /\ (~Held /\ interlock = NoJournal) <=> (~Held' /\ interlock' = NoJournal)
        /\ Aligned(op.j.new) <=> Aligned(op.j.new)'
        /\ Untouched(op.j) <=> Untouched(op.j)'
    BY DEF Held, Aligned, Untouched
  <2>3. /\ op' = op /\ kept' = kept /\ lastDone' = lastDone /\ unguarded' = unguarded
    OBVIOUS
  <2> QED
    BY <2>1, <2>2, <2>3 DEF OutcomeIsTrue
<1> QED
  BY <1>1, <1>2, <1>3, <1>4, <1>5, <1>6 DEF HInv

LEMMA HostSteps == HInv /\ [PromoterNext]_promoterVars => HInv'
BY FailKeeps, KillKeeps, StartPromotionKeeps, StartRecoveryKeeps, StartRollbackKeeps, ServiceKeeps,
   HostKeeps, HostStays DEF PromoterNext

LEMMA HostIsSafe == HInv => PromotionIsAllOrNothing
<1> SUFFICES ASSUME HInv PROVE PromotionIsAllOrNothing
  OBVIOUS
<1>1. NoServiceOnAMixture
  BY DEF HInv, NoServiceOnAMixture, Records, AtRest
<1>2. WayBackExists
  BY DEF HInv, WayBackExists, AtRest, WayBack
<1> QED
  BY <1>1, <1>2 DEF HInv, PromotionIsAllOrNothing

\* At every moment, for every set of packages and files, the host and the disk
\* are as the step and the journals say.
THEOREM HostAsJournalled == PromoterSpec => []HInv
BY HostInit, HostSteps, PTL DEF PromoterSpec

\* publisher-promotion.py:719, :776: no service runs on a mixture, a way back
\* exists after a promotion that was cut off, and the answer is true.
THEOREM AllOrNothing == PromoterSpec => []PromotionIsAllOrNothing
BY HostAsJournalled, HostIsSafe, PTL

-----------------------------------------------------------------------------
(* The upgrade of the promoter and its policy (PairUpgrade)                *)

\* What of a line is next.  A file that was made waits for its registration
\* while it is Pending.
Points     == {"act", "stage", "commit", "unlink", "check"}
\* Line n has changed the disk; line n is in the journal.
DoneAt(n)  == line > n \/ (line = n /\ point # "act")
PastAt(n)  == line > n \/ (line = n /\ point = "check")
Pending    == point \in {"stage", "commit"}

\* A target is one of its three inodes, and a point is one its line has.
PairTypeOK ==
  /\ pair = [k \in Targets |-> pair[k]]
  /\ \A k \in Targets : pair[k] \in {OldOf(k), NewOf(k), RestoredOf(k)}
  /\ line \in 0 .. 16 /\ point \in Points /\ (point = "check" => line # 0 /\ Plan[line].checked)
  /\ point = "unlink" => line = FirstLine

\* What is on the disk beside what the journal names is what the line under way made.
OnlyOfTheLine ==
  line # 0 =>
    /\ temporary <=> point \in {"commit", "unlink"}
    /\ \A r \in files : r \in written.resources \/ (Plan[line].do = "make" /\ Pending /\ r = Plan[line].what)
    /\ Plan[line].do = "make" /\ Pending => Plan[line].what \in files
    /\ backup = written.backup \/ (Plan[line].do = "mkdir" /\ Pending)

\* What the journal names and the phase it gives is true of the pair.
JournalIsTrue ==
  /\ \A r \in written.resources : r \in files \/ WentThere(r)
  /\ \A k \in Targets : pair[k] = OldOf(k) \/ pair[k] \in written.resources
  /\ \A k \in Targets : RestoredOf(k) \in written.resources => written.phase \in RollbackPhases
  /\ written.phase = "verified" => \A k \in Targets : pair[k] = NewOf(k)
  /\ written.phase = "rolled_back" => \A k \in Targets : pair[k] # NewOf(k)

PolicyIsNotNewer == pair["policy"] = NewOf("policy") => pair["executor"] = NewOf("executor")

\* The pair and the journal at each line of the upgrade.
Going ==
  line \in 1 .. VerifiedLine =>
    /\ pair["executor"] = IF DoneAt(8) THEN NewOf("executor") ELSE OldOf("executor")
    /\ pair["policy"] = IF DoneAt(9) THEN NewOf("policy") ELSE OldOf("policy")
    /\ PastAt(5) => NewOf("executor") \in written.resources
    /\ PastAt(6) => NewOf("policy") \in written.resources
    /\ \A k \in Targets : RestoredOf(k) \notin written.resources
    /\ written.phase \notin RollbackPhases

\* The pair at each line of the rollback: what is still new can be put back,
\* the policy before its executor.
GoingBack ==
  line >= RollbackLine =>
    /\ PastAt(12) /\ pair["executor"] = NewOf("executor") => RestoredOf("executor") \in written.resources
    /\ PastAt(13) /\ pair["policy"] = NewOf("policy") => RestoredOf("policy") \in written.resources
    /\ DoneAt(14) => pair["policy"] # NewOf("policy")
    /\ DoneAt(15) => pair["executor"] # NewOf("executor")

\* Nothing has moved beside a process, and what the last one said is so.
SaidIsTrue ==
  /\ moved => NoUpgrade /\ Pinned
  /\ NoUpgrade /\ said = "verified" => \A k \in Targets : pair[k] = NewOf(k)
  /\ NoUpgrade /\ said = "rolled_back" => \A k \in Targets : pair[k] # NewOf(k)

UInv == PairTypeOK /\ OnlyOfTheLine /\ JournalIsTrue /\ PolicyIsNotNewer /\ Going /\ GoingBack /\ SaidIsTrue

\* No two files of the upgrade are the same.
LEMMA Names ==
  /\ \A j, k \in Targets : OldOf(j) # NewOf(k) /\ OldOf(j) # RestoredOf(k) /\ NewOf(j) # RestoredOf(k)
  /\ \A j, k \in Targets : j # k => OldOf(j) # OldOf(k) /\ NewOf(j) # NewOf(k) /\ RestoredOf(j) # RestoredOf(k)
  /\ \A k \in Targets : RestoredOf(k) # ReceiptFile /\ RestoredOf(k) # NoFile /\ NewOf(k) # ReceiptFile
  /\ "executor" \in Targets /\ "policy" \in Targets /\ "executor" # "policy"
  /\ \A k \in Targets : k = "executor" \/ k = "policy"
BY DEF Targets, OldOf, NewOf, RestoredOf, ReceiptFile, NoFile

\* Line n of the plan reads so.
Reads(n, do, what, k, phase, checked) ==
  /\ Plan[n].do = do /\ Plan[n].what = what /\ Plan[n].target = k
  /\ Plan[n].phase = phase /\ Plan[n].checked = checked

LEMMA PlanIs ==
  /\ Reads(1, "nothing", NoFile, "none", "intent", FALSE)
  /\ Reads(2, "mkdir", NoFile, "none", "backup_created", TRUE)
  /\ Reads(3, "make", OldOf("executor"), "none", "backup_created", TRUE)
  /\ Reads(4, "make", OldOf("policy"), "none", "backed_up", TRUE)
  /\ Reads(5, "make", NewOf("executor"), "none", "staged_executor", TRUE)
  /\ Reads(6, "make", NewOf("policy"), "none", "staged_policy", TRUE)
  /\ Reads(7, "nothing", NoFile, "none", "prepared", TRUE)
  /\ Reads(8, "rename", NewOf("executor"), "executor", "executor_replaced", FALSE)
  /\ Reads(9, "rename", NewOf("policy"), "policy", "pair_replaced", TRUE)
  /\ Reads(10, "make", ReceiptFile, "none", "pair_replaced", TRUE)
  /\ Reads(11, "nothing", NoFile, "none", "verified", FALSE)
  /\ Reads(12, "make", RestoredOf("executor"), "none", "rollback_prepared", TRUE)
  /\ Reads(13, "make", RestoredOf("policy"), "none", "rollback_prepared", TRUE)
  /\ Reads(14, "rename", RestoredOf("policy"), "policy", "rollback_policy_replaced", FALSE)
  /\ Reads(15, "rename", RestoredOf("executor"), "executor", "rollback_executor_replaced", FALSE)
  /\ Reads(16, "examine", NoFile, "none", "rolled_back", FALSE)
BY DEF Reads, Plan, Line, Journalled, Store, MoveInto

\* What the lines do, as their numbers tell it.
LEMMA TheLine ==
  ASSUME line \in 1 .. 16
  PROVE  /\ Plan[line].do = "make" <=> line \in {3, 4, 5, 6, 10, 12, 13}
         /\ Plan[line].do = "rename" <=> line \in {8, 9, 14, 15}
         /\ Plan[line].do = "mkdir" <=> line = 2
         /\ Plan[line].do = "nothing" <=> line \in {1, 7, 11}
         /\ Plan[line].do = "examine" <=> line = 16
         /\ Plan[line].checked <=> line \notin {1, 8, 11, 14, 15, 16}
<1>1. line \in {1, 2, 3, 4, 5, 6, 7, 8, 9, 10, 11, 12, 13, 14, 15, 16}
  OBVIOUS
<1>2. CASE line \in {1, 7, 11}
  BY <1>2, PlanIs DEF Reads
<1>3. CASE line \in {8, 9, 14, 15}
  BY <1>3, PlanIs DEF Reads
<1>4. CASE line \in {3, 4, 5, 6, 10, 12, 13}
  BY <1>4, PlanIs DEF Reads
<1>5. CASE line \in {2, 16}
  BY <1>5, PlanIs DEF Reads
<1> QED
  BY <1>1, <1>2, <1>3, <1>4, <1>5

LEMMA ThePhase ==
  ASSUME line \in 1 .. 16
  PROVE  /\ line < 12 => Plan[line].phase \notin RollbackPhases
         /\ line >= 12 => Plan[line].phase \in RollbackPhases
         /\ Plan[line].phase = "verified" <=> line = 11
         /\ Plan[line].phase = "rolled_back" <=> line = 16
<1>1. line \in {1, 2, 3, 4, 5, 6, 7, 8, 9, 10, 11, 12, 13, 14, 15, 16}
  OBVIOUS
<1> QED
  BY <1>1, PlanIs DEF Reads, RollbackPhases

LEMMA TheCall ==
  ASSUME line \in 1 .. 16
  PROVE  Called(Plan[line]) <=>
           /\ line = 12 => pair["executor"] = NewOf("executor") /\ RestoredOf("executor") \notin written.resources
           /\ line = 13 => pair["policy"] = NewOf("policy") /\ RestoredOf("policy") \notin written.resources
           /\ line = 14 => pair["policy"] = NewOf("policy")
           /\ line = 15 => pair["executor"] = NewOf("executor")
<1>1. line \in {1, 2, 3, 4, 5, 6, 7, 8, 9, 10, 11, 12, 13, 14, 15, 16}
  OBVIOUS
<1>2. CASE line \in {1, 2, 3, 4, 5, 6, 7, 8, 9, 10, 11, 16}
  BY <1>2, PlanIs, Names DEF Reads, Called
<1>3. CASE line = 12
  BY <1>3, PlanIs, Names DEF Reads, Called
<1>4. CASE line = 13
  BY <1>4, PlanIs, Names DEF Reads, Called
<1>5. CASE line = 14
  BY <1>5, PlanIs, Names DEF Reads, Called
<1>6. CASE line = 15
  BY <1>6, PlanIs, Names DEF Reads, Called
<1> QED
  BY <1>1, <1>2, <1>3, <1>4, <1>5, <1>6

LEMMA JournalStays ==
  ASSUME UInv, UNCHANGED <<pair, written>>, \A r \in files : r \in files'
  PROVE  JournalIsTrue' /\ PolicyIsNotNewer'
<1>1. JournalIsTrue /\ PolicyIsNotNewer
  BY DEF UInv
<1>2. \A r : WentThere(r) => WentThere(r)'
  BY DEF WentThere
<1> QED
  BY <1>1, <1>2 DEF JournalIsTrue, PolicyIsNotNewer

\* The process ends, and what it says is so.
LEMMA EndsSo ==
  ASSUME UInv, UNCHANGED <<pair, files, backup, temporary, written, moved>>, GoTo(0, "act"),
         ~NoUpgrade \/ ~moved,
         said' = "verified" => \A k \in Targets : pair[k] = NewOf(k),
         said' = "rolled_back" => \A k \in Targets : pair[k] # NewOf(k)
  PROVE  UInv'
<1>1. line' = 0 /\ point' = "act" /\ ~moved
  BY DEF GoTo, UInv, SaidIsTrue
<1>2. PairTypeOK'
  BY <1>1 DEF UInv, PairTypeOK, Points, FirstLine
<1>3. OnlyOfTheLine' /\ Going' /\ GoingBack'
  BY <1>1 DEF OnlyOfTheLine, Going, GoingBack, VerifiedLine, RollbackLine
<1>4. JournalIsTrue' /\ PolicyIsNotNewer'
  BY JournalStays
<1>5. SaidIsTrue'
  <2>1. ~moved'
    BY <1>1
  <2>2. /\ said' = "verified" => \A k \in Targets : pair'[k] = NewOf(k)
        /\ said' = "rolled_back" => \A k \in Targets : pair'[k] # NewOf(k)
    OBVIOUS
  <2> QED
    BY <2>1, <2>2 DEF SaidIsTrue
<1> QED
  BY <1>2, <1>3, <1>4, <1>5 DEF UInv

\* While a process is at work there is nothing to say.
LEMMA SaysNothing == ASSUME line' # 0, ~moved' PROVE SaidIsTrue'
BY DEF SaidIsTrue, NoUpgrade

LEMMA AtWork == ASSUME UInv, ~NoUpgrade PROVE line \in 1 .. 16 /\ ~moved
BY DEF UInv, PairTypeOK, SaidIsTrue, NoUpgrade

LEMMA StageKeeps == ASSUME UInv, ~NoUpgrade, StageJournal, UNCHANGED moved PROVE UInv'
<1>1. /\ line' = line /\ line \in 1 .. 16 /\ ~moved /\ point = "stage" /\ point' = "commit" /\ temporary' = TRUE
      /\ UNCHANGED <<pair, files, backup, written>>
  BY AtWork DEF StageJournal, GoTo
<1>m. ~moved'
  BY <1>1, Zenon
<1>2. PairTypeOK'
  BY <1>1 DEF UInv, PairTypeOK, Points, FirstLine
<1>3. OnlyOfTheLine'
  BY <1>1 DEF UInv, OnlyOfTheLine, Pending
<1>4. JournalIsTrue' /\ PolicyIsNotNewer'
  BY <1>1, JournalStays
<1>5. Going'
  BY <1>1 DEF UInv, Going, DoneAt, PastAt
<1>6. GoingBack'
  BY <1>1 DEF UInv, GoingBack, DoneAt, PastAt
<1>7. SaidIsTrue'
  BY <1>1, <1>m, SaysNothing
<1> QED
  BY <1>2, <1>3, <1>4, <1>5, <1>6, <1>7 DEF UInv

\* A line has done what it does to the disk, and goes on to the journal.
LEMMA PointMoves ==
  ASSUME UInv, ~NoUpgrade, point = "act", GoTo(line, "stage"), UNCHANGED <<pair, written, moved>>
  PROVE  /\ line \in 1 .. 16 /\ line' = line /\ point' = "stage" /\ PairTypeOK' /\ SaidIsTrue'
         /\ line \notin {8, 9} => Going'
         /\ line \notin {14, 15} => GoingBack'
<1>1. line \in 1 .. 16 /\ line' = line /\ ~moved /\ point' = "stage" /\ UNCHANGED <<pair, written, moved>>
  BY AtWork DEF GoTo
<1>2. PairTypeOK'
  BY <1>1 DEF UInv, PairTypeOK, Points, FirstLine
<1>3. line \notin {8, 9} => Going'
  BY <1>1 DEF UInv, Going, DoneAt, PastAt
<1>4. line \notin {14, 15} => GoingBack'
  BY <1>1 DEF UInv, GoingBack, DoneAt, PastAt
<1>5. ~moved'
  <2>1. moved' = moved /\ ~moved
    BY <1>1
  <2> QED
    BY ONLY <2>1, Zenon
<1>6. SaidIsTrue'
  BY <1>1, <1>5, SaysNothing
<1> QED
  BY <1>1, <1>2, <1>3, <1>4, <1>6

LEMMA MakeFileKeeps ==
  ASSUME UInv, ~NoUpgrade, point = "act", MakeFile(Plan[line]), UNCHANGED <<temporary, written, moved>>
  PROVE  UInv'
<1>1. /\ UNCHANGED <<pair, backup, written, temporary>> /\ files' = files \cup {Plan[line].what} /\ Plan[line].do = "make"
      /\ line \in 1 .. 16 /\ line' = line /\ point' = "stage" /\ PairTypeOK' /\ SaidIsTrue'
      /\ line \notin {8, 9, 14, 15}
  BY PointMoves, TheLine DEF MakeFile
<1>2. Going' /\ GoingBack'
  BY <1>1, PointMoves DEF MakeFile
<1>3. OnlyOfTheLine'
  BY <1>1 DEF UInv, OnlyOfTheLine, Pending
<1>4. JournalIsTrue' /\ PolicyIsNotNewer'
  BY <1>1, JournalStays
<1> QED
  BY <1>1, <1>2, <1>3, <1>4 DEF UInv

LEMMA MakeBackupKeeps ==
  ASSUME UInv, ~NoUpgrade, point = "act", MakeBackup(Plan[line]), UNCHANGED <<temporary, written, moved>>
  PROVE  UInv'
<1>1. /\ UNCHANGED <<pair, files, written, temporary>> /\ Plan[line].do = "mkdir"
      /\ line \in 1 .. 16 /\ line' = line /\ point' = "stage" /\ PairTypeOK' /\ SaidIsTrue'
      /\ line \notin {8, 9, 14, 15}
  BY PointMoves, TheLine DEF MakeBackup
<1>2. Going' /\ GoingBack'
  BY <1>1, PointMoves DEF MakeBackup
<1>3. OnlyOfTheLine'
  BY <1>1 DEF UInv, OnlyOfTheLine, Pending
<1>4. JournalIsTrue' /\ PolicyIsNotNewer'
  BY <1>1, JournalStays
<1> QED
  BY <1>1, <1>2, <1>3, <1>4 DEF UInv

LEMMA GoesOnKeeps ==
  ASSUME UInv, ~NoUpgrade, point = "act", line \notin {8, 9, 14, 15}, Plan[line].do # "make", GoTo(line, "stage"),
         UNCHANGED <<pair, files, backup, temporary, written, moved>>
  PROVE  UInv'
<1>1. /\ line \in 1 .. 16 /\ line' = line /\ point' = "stage" /\ PairTypeOK' /\ SaidIsTrue' /\ Going' /\ GoingBack'
  BY PointMoves
<1>3. OnlyOfTheLine'
  BY <1>1 DEF UInv, OnlyOfTheLine, Pending
<1>4. JournalIsTrue' /\ PolicyIsNotNewer'
  BY <1>1, JournalStays
<1> QED
  BY <1>1, <1>3, <1>4 DEF UInv

LEMMA TheFile ==
  ASSUME line \in 1 .. 16
  PROVE  /\ line < 12 => \A k \in Targets : Plan[line].what # RestoredOf(k)
         /\ line = 5 => Plan[line].what = NewOf("executor")
         /\ line = 6 => Plan[line].what = NewOf("policy")
         /\ line = 8 => Plan[line].what = NewOf("executor") /\ Plan[line].target = "executor"
         /\ line = 9 => Plan[line].what = NewOf("policy") /\ Plan[line].target = "policy"
         /\ line = 12 => Plan[line].what = RestoredOf("executor")
         /\ line = 13 => Plan[line].what = RestoredOf("policy")
         /\ line = 14 => Plan[line].what = RestoredOf("policy") /\ Plan[line].target = "policy"
         /\ line = 15 => Plan[line].what = RestoredOf("executor") /\ Plan[line].target = "executor"
<1>1. line \in {1, 2, 3, 4, 5, 6, 7, 8, 9, 10, 11, 12, 13, 14, 15, 16}
  OBVIOUS
<1>2. line < 12 => \A k \in Targets : Plan[line].what # RestoredOf(k)
  <2>1. line \in {1, 2, 3, 4} => \A k \in Targets : Plan[line].what # RestoredOf(k)
    BY PlanIs, Names DEF Reads
  <2>2. line \in {5, 6, 7, 8} => \A k \in Targets : Plan[line].what # RestoredOf(k)
    BY PlanIs, Names DEF Reads
  <2>3. line \in {9, 10, 11} => \A k \in Targets : Plan[line].what # RestoredOf(k)
    BY PlanIs, Names DEF Reads
  <2> QED
    BY <1>1, <2>1, <2>2, <2>3
<1>3. /\ line = 5 => Plan[line].what = NewOf("executor")
      /\ line = 6 => Plan[line].what = NewOf("policy")
      /\ line = 8 => Plan[line].what = NewOf("executor") /\ Plan[line].target = "executor"
      /\ line = 9 => Plan[line].what = NewOf("policy") /\ Plan[line].target = "policy"
  BY PlanIs DEF Reads
<1>4. /\ line = 12 => Plan[line].what = RestoredOf("executor")
      /\ line = 13 => Plan[line].what = RestoredOf("policy")
      /\ line = 14 => Plan[line].what = RestoredOf("policy") /\ Plan[line].target = "policy"
      /\ line = 15 => Plan[line].what = RestoredOf("executor") /\ Plan[line].target = "executor"
  BY PlanIs DEF Reads
<1> QED
  BY <1>2, <1>3, <1>4

\* What a line renames is the file that takes the place of its target.
LEMMA Renamed ==
  ASSUME UInv, ~NoUpgrade, point = "act", RenameFile(Plan[line])
  PROVE  /\ line \in {8, 9, 14, 15}
         /\ \E k \in Targets :
              /\ pair' = [pair EXCEPT ![k] = Plan[line].what]
              /\ Plan[line].what \in written.resources
              /\ line \in {8, 15} => k = "executor"
              /\ line \in {9, 14} => k = "policy"
              /\ line \in {8, 9} => Plan[line].what = NewOf(k)
              /\ line \in {14, 15} => Plan[line].what = RestoredOf(k)
              /\ \/ Plan[line].what = NewOf(k) /\ pair[k] = OldOf(k) /\ written.phase \notin RollbackPhases
                 \/ Plan[line].what = RestoredOf(k) /\ pair[k] = NewOf(k)
<1>1. line \in 1 .. 16 /\ line \in {8, 9, 14, 15} /\ Called(Plan[line])
  BY AtWork, TheLine DEF RenameFile
<1>2. pair' = [pair EXCEPT ![Plan[line].target] = Plan[line].what]
  BY DEF RenameFile
<1>3. "executor" \in Targets /\ "policy" \in Targets
  BY Names
<1>4. CASE line = 8
  <2>1. /\ pair["executor"] = OldOf("executor") /\ NewOf("executor") \in written.resources
        /\ written.phase \notin RollbackPhases
    BY <1>4 DEF UInv, Going, DoneAt, PastAt, VerifiedLine
  <2> QED
    BY <1>1, <1>2, <1>3, <1>4, <2>1, TheFile
<1>5. CASE line = 9
  <2>1. /\ pair["policy"] = OldOf("policy") /\ NewOf("policy") \in written.resources
        /\ written.phase \notin RollbackPhases
    BY <1>5 DEF UInv, Going, DoneAt, PastAt, VerifiedLine
  <2> QED
    BY <1>1, <1>2, <1>3, <1>5, <2>1, TheFile
<1>6. CASE line = 14
  <2>1. pair["policy"] = NewOf("policy")
    BY <1>1, <1>6, TheCall
  <2>2. RestoredOf("policy") \in written.resources
    BY <1>6, <2>1 DEF UInv, GoingBack, PastAt, RollbackLine
  <2> QED
    BY <1>1, <1>2, <1>3, <1>6, <2>1, <2>2, TheFile
<1>7. CASE line = 15
  <2>1. pair["executor"] = NewOf("executor")
    BY <1>1, <1>7, TheCall
  <2>2. RestoredOf("executor") \in written.resources
    BY <1>7, <2>1 DEF UInv, GoingBack, PastAt, RollbackLine
  <2> QED
    BY <1>1, <1>2, <1>3, <1>7, <2>1, <2>2, TheFile
<1> QED
  BY <1>1, <1>4, <1>5, <1>6, <1>7

LEMMA RenameFileKeeps ==
  ASSUME UInv, ~NoUpgrade, point = "act", RenameFile(Plan[line]), UNCHANGED <<temporary, written, moved>>
  PROVE  UInv'
<1> DEFINE w == Plan[line].what
<1>1. PICK k \in Targets :
        /\ pair' = [pair EXCEPT ![k] = w] /\ w \in written.resources
        /\ (line \in {8, 15} => k = "executor") /\ (line \in {9, 14} => k = "policy")
        /\ (line \in {8, 9} => w = NewOf(k)) /\ (line \in {14, 15} => w = RestoredOf(k))
        /\ \/ w = NewOf(k) /\ pair[k] = OldOf(k) /\ written.phase \notin RollbackPhases
           \/ w = RestoredOf(k) /\ pair[k] = NewOf(k)
  BY Renamed
<1>2. /\ line \in {8, 9, 14, 15} /\ line \in 1 .. 16 /\ line' = line /\ point' = "stage" /\ files' = files \ {w}
      /\ UNCHANGED <<backup, temporary, written, moved>> /\ ~moved
  BY Renamed, AtWork DEF RenameFile, GoTo
<1>3. Plan[line].do = "rename" /\ point = "act"
  BY DEF RenameFile
<1> HIDE DEF w
<1>4. pair' = [j \in Targets |-> IF j = k THEN w ELSE pair[j]]
  BY <1>1 DEF UInv, PairTypeOK
<1>5. PairTypeOK'
  BY <1>1, <1>2, <1>4 DEF UInv, PairTypeOK, Points, FirstLine
<1>6. OnlyOfTheLine'
  <2>1. (temporary' <=> point' \in {"commit", "unlink"}) /\ backup' = written'.backup
    BY <1>2, <1>3 DEF UInv, OnlyOfTheLine, Pending
  <2>2. \A r \in files' : r \in written'.resources
    BY <1>2, <1>3 DEF UInv, OnlyOfTheLine, Pending
  <2> QED
    BY <1>2, <1>3, <2>1, <2>2 DEF OnlyOfTheLine
<1>7. JournalIsTrue'
  <2>1. \A j \in Targets : pair'[j] = IF j = k THEN w ELSE pair[j]
    BY <1>4
  <2>2. ASSUME NEW r \in written.resources, r \notin files' PROVE WentThere(r)'
    <3>1. CASE r = w
      BY <1>1, <1>2, <2>1, <3>1 DEF WentThere
    <3>2. CASE r # w
      <4>1. WentThere(r)
        BY <1>2, <2>2, <3>2 DEF UInv, JournalIsTrue
      <4>2. PICK j \in Targets :
              \/ r = NewOf(j) /\ pair[j] = NewOf(j)
              \/ r = NewOf(j) /\ pair[j] = RestoredOf(j) /\ written.phase \in RollbackPhases
              \/ r = RestoredOf(j) /\ pair[j] = RestoredOf(j)
        BY <4>1 DEF WentThere
      <4>3. CASE j # k
        BY <1>2, <2>1, <4>2, <4>3 DEF WentThere
      <4>4. CASE j = k
        <5>1. w = RestoredOf(k) /\ pair[k] = NewOf(k) /\ r = NewOf(k)
          BY <1>1, <4>2, <4>4, Names
        <5>2. written.phase \in RollbackPhases
          BY <1>1, <5>1 DEF UInv, JournalIsTrue
        <5> QED
          BY <1>2, <2>1, <5>1, <5>2 DEF WentThere
      <4> QED
        BY <4>3, <4>4
    <3> QED
      BY <3>1, <3>2
  <2>3. \A j \in Targets : pair'[j] = OldOf(j) \/ pair'[j] \in written.resources
    BY <1>1, <2>1 DEF UInv, JournalIsTrue
  <2>4. \A j \in Targets : RestoredOf(j) \in written.resources => written.phase \in RollbackPhases
    BY DEF UInv, JournalIsTrue
  <2>5. written.phase # "verified"
    <3>1. pair[k] # NewOf(k) \/ written.phase \in RollbackPhases
      BY <1>1, <2>4, Names
    <3> QED
      BY <3>1 DEF UInv, JournalIsTrue, RollbackPhases
  <2>6. written.phase = "rolled_back" => \A j \in Targets : pair'[j] # NewOf(j)
    <3>1. "rolled_back" \in RollbackPhases
      BY DEF RollbackPhases
    <3> QED
      BY <1>1, <2>1, <3>1, Names DEF UInv, JournalIsTrue
  <2> QED
    BY <1>2, <2>2, <2>3, <2>4, <2>5, <2>6 DEF JournalIsTrue
<1>8. PolicyIsNotNewer' /\ Going' /\ GoingBack'
  <2>1. /\ pair'["executor"] = IF k = "executor" THEN w ELSE pair["executor"]
        /\ pair'["policy"] = IF k = "policy" THEN w ELSE pair["policy"]
    BY <1>4, Names
  <2>2. CASE line = 8
    <3>1. k = "executor" /\ w = NewOf("executor") /\ pair["policy"] = OldOf("policy")
      BY <1>1, <2>2 DEF UInv, Going, DoneAt, VerifiedLine
    <3>2. pair'["executor"] = NewOf("executor") /\ pair'["policy"] = OldOf("policy")
      BY <2>1, <3>1, Names
    <3>3. PolicyIsNotNewer' /\ GoingBack'
      BY <1>2, <2>2, <3>2, Names DEF PolicyIsNotNewer, GoingBack, RollbackLine
    <3>4. Going'
      BY <1>2, <1>3, <2>2, <3>2 DEF UInv, Going, DoneAt, PastAt, VerifiedLine
    <3> QED
      BY <3>3, <3>4
  <2>3. CASE line = 9
    <3>1. k = "policy" /\ w = NewOf("policy") /\ pair["executor"] = NewOf("executor")
      BY <1>1, <2>3 DEF UInv, Going, DoneAt, VerifiedLine
    <3>2. pair'["executor"] = NewOf("executor") /\ pair'["policy"] = NewOf("policy")
      BY <2>1, <3>1, Names
    <3>3. PolicyIsNotNewer' /\ GoingBack'
      BY <1>2, <2>3, <3>2, Names DEF PolicyIsNotNewer, GoingBack, RollbackLine
    <3>4. Going'
      BY <1>2, <1>3, <2>3, <3>2 DEF UInv, Going, DoneAt, PastAt, VerifiedLine
    <3> QED
      BY <3>3, <3>4
  <2>4. CASE line = 14
    <3>1. k = "policy" /\ w = RestoredOf("policy")
      BY <1>1, <2>4
    <3>2. pair'["executor"] = pair["executor"] /\ pair'["policy"] = RestoredOf("policy")
      BY <2>1, <3>1, Names
    <3>3. PolicyIsNotNewer' /\ Going'
      BY <1>2, <2>4, <3>2, Names DEF PolicyIsNotNewer, Going, VerifiedLine
    <3>4. GoingBack'
      BY <1>2, <1>3, <2>4, <3>2, Names DEF UInv, GoingBack, DoneAt, PastAt, RollbackLine
    <3> QED
      BY <3>3, <3>4
  <2>5. CASE line = 15
    <3>1. k = "executor" /\ w = RestoredOf("executor") /\ pair["policy"] # NewOf("policy")
      BY <1>1, <2>5 DEF UInv, GoingBack, DoneAt, RollbackLine
    <3>2. pair'["executor"] = RestoredOf("executor") /\ pair'["policy"] = pair["policy"]
      BY <2>1, <3>1, Names
    <3>3. PolicyIsNotNewer' /\ Going'
      BY <1>2, <2>5, <3>1, <3>2, Names DEF PolicyIsNotNewer, Going, VerifiedLine
    <3>4. GoingBack'
      BY <1>2, <1>3, <2>5, <3>1, <3>2, Names DEF UInv, GoingBack, DoneAt, PastAt, RollbackLine
    <3> QED
      BY <3>3, <3>4
  <2> QED
    BY <1>2, <2>2, <2>3, <2>4, <2>5
<1>9. SaidIsTrue'
  <2>1. moved' = moved /\ ~moved
    BY <1>2
  <2>2. ~moved'
    BY ONLY <2>1, Zenon
  <2>3. line' # 0
    BY <1>2
  <2> QED
    BY <2>2, <2>3, SaysNothing
<1> QED
  BY <1>5, <1>6, <1>7, <1>8, <1>9 DEF UInv

\* A process that is at work and whose disk stays as it is goes to another line.
LEMMA AnotherLine ==
  ASSUME UInv, line \in 1 .. 16, ~moved, point \in {"act", "check"},
         line' = line + 1, point' = "act", line + 1 \in 2 .. 16,
         UNCHANGED <<pair, files, backup, temporary, written, moved>>,
         line # 11,
         point = "act" => line >= RollbackLine /\ ~Called(Plan[line])
  PROVE  UInv'
<1>1. PairTypeOK'
  BY DEF UInv, PairTypeOK, Points, FirstLine
<1>2. OnlyOfTheLine'
  BY DEF UInv, OnlyOfTheLine, Pending
<1>3. JournalIsTrue' /\ PolicyIsNotNewer'
  BY JournalStays
<1>4. Going'
  <2>1. CASE line < 12
    BY <2>1 DEF UInv, Going, DoneAt, PastAt, VerifiedLine, RollbackLine
  <2>2. CASE line >= 12
    BY <2>2 DEF Going, VerifiedLine
  <2> QED
    BY <2>1, <2>2
<1>5. GoingBack'
  <2>1. CASE point = "check"
    <3>1. line < 12 \/ line \in {12, 13}
      BY <2>1, TheLine DEF UInv, PairTypeOK
    <3> QED
      BY <2>1, <3>1 DEF UInv, GoingBack, DoneAt, PastAt, RollbackLine
  <2>2. CASE point = "act"
    <3>1. /\ line = 12 => pair["executor"] # NewOf("executor") \/ RestoredOf("executor") \in written.resources
          /\ line = 13 => pair["policy"] # NewOf("policy") \/ RestoredOf("policy") \in written.resources
          /\ line = 14 => pair["policy"] # NewOf("policy")
          /\ line = 15 => pair["executor"] # NewOf("executor")
          /\ line \in 12 .. 16
      BY <2>2, TheCall DEF RollbackLine
    <3> QED
      BY <2>2, <3>1 DEF UInv, GoingBack, DoneAt, PastAt, RollbackLine
  <2> QED
    BY <2>1, <2>2
<1>6. SaidIsTrue'
  <2>1. moved' = moved /\ ~moved
    OBVIOUS
  <2>2. ~moved'
    BY ONLY <2>1, Zenon
  <2>3. line' # 0
    OBVIOUS
  <2> QED
    BY <2>2, <2>3, SaysNothing
<1> QED
  BY <1>1, <1>2, <1>3, <1>4, <1>5, <1>6 DEF UInv

LEMMA BlockedKeeps ==
  ASSUME UInv, ~NoUpgrade, NEW answer \in {"blocked", "dead"}, EndWith(answer),
         UNCHANGED <<pair, files, backup, temporary, written, moved>>
  PROVE  UInv'
<1>1. GoTo(0, "act") /\ said' = answer /\ ~moved
  BY AtWork DEF EndWith
<1> QED
  BY <1>1, EndsSo

LEMMA SkipKeeps ==
  ASSUME UInv, ~NoUpgrade, point = "act", SkipLine, UNCHANGED <<temporary, written, moved>>
  PROVE  UInv'
<1>1. line \in 1 .. 16 /\ ~moved /\ UNCHANGED <<pair, files, backup, temporary, written, moved>>
  BY AtWork DEF SkipLine
<1>2. line \in 12 .. 15 /\ ~Called(Plan[line])
  BY <1>1, TheCall DEF SkipLine
<1>3. line' = line + 1 /\ point' = "act"
  BY <1>2 DEF SkipLine, Onward, GoTo, VerifiedLine, RolledBackLine
<1> QED
  BY <1>1, <1>2, <1>3, AnotherLine DEF RollbackLine

LEMMA CheckKeeps == ASSUME UInv, ~NoUpgrade, CheckLine, UNCHANGED moved PROVE UInv'
<1>1. /\ line \in 1 .. 16 /\ ~moved /\ point = "check"
      /\ UNCHANGED <<pair, files, backup, temporary, written, moved>>
  BY AtWork DEF CheckLine, TakeInventory
<1>2. line \notin {11, 16}
  BY <1>1, TheLine DEF UInv, PairTypeOK
<1>3. CASE EndWith("blocked")
  BY <1>1, <1>3, BlockedKeeps
<1>4. CASE GoTo(line + 1, "act")
  BY <1>1, <1>2, <1>4, AnotherLine DEF GoTo
<1> QED
  BY <1>3, <1>4 DEF CheckLine, TakeInventory

LEMMA ExamineKeeps ==
  ASSUME UInv, ~NoUpgrade, point = "act", Plan[line].do = "examine", TakeInventory(line, "stage"),
         UNCHANGED <<temporary, written, moved>>
  PROVE  UInv'
<1>1. UNCHANGED <<pair, files, backup, temporary, written, moved>>
  BY DEF TakeInventory
<1>2. CASE EndWith("blocked")
  BY <1>1, <1>2, BlockedKeeps
<1>3. CASE GoTo(line, "stage")
  <2>1. line = 16
    BY AtWork, TheLine
  <2> QED
    BY <1>1, <1>3, <2>1, GoesOnKeeps
<1> QED
  BY <1>2, <1>3 DEF TakeInventory

LEMMA JustJournalKeeps ==
  ASSUME UInv, ~NoUpgrade, point = "act", JustJournal(Plan[line]), UNCHANGED <<temporary, written, moved>>
  PROVE  UInv'
<1>1. line \in {1, 7, 11}
  BY AtWork, TheLine DEF JustJournal
<1> QED
  BY <1>1, GoesOnKeeps DEF JustJournal

\* What the journal says when it is renamed into place.
LEMMA CommittedJournal ==
  ASSUME UInv, ~NoUpgrade, CommitJournal, UNCHANGED moved
  PROVE  JournalIsTrue'
<1> DEFINE i == Plan[line]
           new == IF i.do = "make" THEN {i.what} ELSE {}
<1>1. /\ line \in 1 .. 16 /\ point = "commit" /\ UNCHANGED <<pair, files>>
      /\ written'.phase = i.phase /\ written'.resources = written.resources \cup new
  BY AtWork DEF CommitJournal
<1>2. ASSUME NEW r \in new PROVE r \in files
  BY <1>1, <1>2 DEF UInv, OnlyOfTheLine, Pending
<1>3. line < 12 => \A k \in Targets : RestoredOf(k) \notin written.resources /\ RestoredOf(k) \notin new
  BY <1>1, TheFile DEF UInv, Going, VerifiedLine
<1> HIDE DEF new
<1>4. /\ \A r \in written.resources : r \in files \/ WentThere(r)
      /\ \A k \in Targets : pair[k] = OldOf(k) \/ pair[k] \in written.resources
  BY DEF UInv, JournalIsTrue
<1>5. \A k \in Targets : RestoredOf(k) \in written'.resources => written'.phase \in RollbackPhases
  BY <1>1, <1>3, ThePhase DEF i
<1>6. \A k \in Targets : pair'[k] = OldOf(k) \/ pair'[k] \in written'.resources
  BY <1>1, <1>4
<1>7. ASSUME NEW r \in written.resources, r \notin files PROVE WentThere(r)'
  <2>1. PICK k \in Targets :
          \/ r = NewOf(k) /\ pair[k] = NewOf(k)
          \/ r = NewOf(k) /\ pair[k] = RestoredOf(k) /\ written.phase \in RollbackPhases
          \/ r = RestoredOf(k) /\ pair[k] = RestoredOf(k)
    BY <1>4, <1>7 DEF WentThere
  <2>2. pair[k] = RestoredOf(k) => written'.phase \in RollbackPhases
    BY <1>1, <1>4, <1>5, Names
  <2> QED
    BY <1>1, <2>1, <2>2 DEF WentThere
<1>8. written'.phase = "verified" => \A k \in Targets : pair'[k] = NewOf(k)
  <2>1. SUFFICES ASSUME i.phase = "verified" PROVE \A k \in Targets : pair[k] = NewOf(k)
    BY <1>1
  <2>2. line = 11
    BY <1>1, <2>1, ThePhase
  <2> QED
    BY <2>2, Names DEF UInv, Going, DoneAt, VerifiedLine
<1>9. written'.phase = "rolled_back" => \A k \in Targets : pair'[k] # NewOf(k)
  <2>1. SUFFICES ASSUME i.phase = "rolled_back" PROVE \A k \in Targets : pair[k] # NewOf(k)
    BY <1>1
  <2>2. line = 16
    BY <1>1, <2>1, ThePhase
  <2> QED
    BY <2>2, Names DEF UInv, GoingBack, DoneAt, RollbackLine
<1>10. \A r \in written'.resources : r \in files' \/ WentThere(r)'
  BY <1>1, <1>2, <1>7
<1> QED
  BY <1>5, <1>6, <1>8, <1>9, <1>10 DEF JournalIsTrue

LEMMA CommitKeeps == ASSUME UInv, ~NoUpgrade, CommitJournal, UNCHANGED moved PROVE UInv'
<1> DEFINE i == Plan[line]
           new == IF i.do = "make" THEN {i.what} ELSE {}
<1>1. /\ line \in 1 .. 16 /\ ~moved /\ point = "commit" /\ UNCHANGED <<pair, files, backup, moved>>
      /\ temporary' = (line = FirstLine)
      /\ written'.phase = i.phase /\ written'.resources = written.resources \cup new /\ written'.backup = backup
      /\ line = FirstLine => GoTo(line, "unlink")
      /\ line # FirstLine /\ i.checked => GoTo(line, "check")
      /\ line # FirstLine /\ ~i.checked => Onward
  BY AtWork DEF CommitJournal
<1>2. JournalIsTrue' /\ PolicyIsNotNewer'
  BY <1>1, CommittedJournal DEF UInv, PolicyIsNotNewer
<1>3. /\ line = 5 => NewOf("executor") \in written'.resources
      /\ line = 6 => NewOf("policy") \in written'.resources
      /\ line = 12 => RestoredOf("executor") \in written'.resources
      /\ line = 13 => RestoredOf("policy") \in written'.resources
  BY <1>1, TheLine, TheFile
<1>4. line < 12 => written'.phase \notin RollbackPhases /\ \A k \in Targets : RestoredOf(k) \notin written'.resources
  BY <1>1, TheFile, ThePhase DEF UInv, Going, VerifiedLine
<1>5. \A r \in files' : r \in written'.resources
  BY <1>1 DEF UInv, OnlyOfTheLine
<1>6. \A r \in written.resources : r \in written'.resources
  BY <1>1
<1>7. ~moved'
  <2>1. moved' = moved /\ ~moved
    BY <1>1
  <2> QED
    BY ONLY <2>1, Zenon
<1> HIDE DEF new, i
<1>8. CASE line \in {11, 16}
  <2>1. line' = 0 /\ point' = "act" /\ said' = i.phase
    BY <1>1, <1>8, TheLine DEF Onward, EndWith, GoTo, FirstLine, VerifiedLine, RolledBackLine, i
  <2>2. PairTypeOK'
    BY <1>1, <2>1 DEF UInv, PairTypeOK, Points, FirstLine
  <2>3. OnlyOfTheLine' /\ Going' /\ GoingBack'
    BY <2>1 DEF OnlyOfTheLine, Going, GoingBack, VerifiedLine, RollbackLine
  <2>4. SaidIsTrue'
    BY <1>1, <1>2, <1>7, <2>1 DEF SaidIsTrue, JournalIsTrue
  <2> QED
    BY <1>2, <2>2, <2>3, <2>4 DEF UInv
<1>9. CASE line \notin {11, 16}
  <2>1. \/ line # 1 /\ i.checked /\ line' = line /\ point' = "check"
        \/ line \in {8, 14, 15} /\ line' = line + 1 /\ point' = "act"
        \/ line = 1 /\ line' = line /\ point' = "unlink"
    BY <1>1, <1>9, TheLine DEF Onward, GoTo, FirstLine, VerifiedLine, RolledBackLine, i
  <2>2. PairTypeOK'
    BY <1>1, <2>1 DEF UInv, PairTypeOK, Points, FirstLine, i
  <2>3. OnlyOfTheLine'
    <3>1. temporary' <=> line = 1
      BY <1>1 DEF FirstLine
    <3> QED
      BY <1>1, <1>5, <2>1, <3>1 DEF OnlyOfTheLine, Pending
  <2>4. SaidIsTrue'
    <3>1. line' # 0
      BY <1>1, <2>1
    <3> QED
      BY <1>7, <3>1, SaysNothing
  <2>5. Going'
    <3>1. CASE line < 12
      BY <1>1, <1>3, <1>4, <1>6, <1>9, <2>1, <3>1 DEF UInv, Going, DoneAt, PastAt, VerifiedLine
    <3>2. CASE line >= 12
      BY <1>1, <2>1, <3>2 DEF Going, VerifiedLine
    <3> QED
      BY <1>1, <3>1, <3>2
  <2>6. GoingBack'
    BY <1>1, <1>3, <1>6, <1>9, <2>1 DEF UInv, GoingBack, DoneAt, PastAt, RollbackLine
  <2> QED
    BY <1>2, <2>2, <2>3, <2>4, <2>5, <2>6 DEF UInv
<1> QED
  BY <1>8, <1>9

LEMMA UnlinkKeeps == ASSUME UInv, ~NoUpgrade, UnlinkTemporary, UNCHANGED moved PROVE UInv'
<1>1. line = 1 /\ ~moved /\ point = "unlink" /\ UNCHANGED <<pair, files, backup, written, moved>> /\ temporary' = FALSE
  BY AtWork DEF UInv, PairTypeOK, UnlinkTemporary, FirstLine
<1>2. line' = 2 /\ point' = "act"
  BY <1>1 DEF UnlinkTemporary, Onward, GoTo, VerifiedLine, RolledBackLine
<1>3. PairTypeOK'
  BY <1>1, <1>2 DEF UInv, PairTypeOK, Points, FirstLine
<1>4. OnlyOfTheLine'
  <2>1. Plan[1].do # "make" /\ Plan[1].do # "mkdir"
    BY PlanIs DEF Reads
  <2> QED
    BY <1>1, <1>2, <2>1 DEF UInv, OnlyOfTheLine, Pending
<1>5. JournalIsTrue' /\ PolicyIsNotNewer'
  BY <1>1, JournalStays
<1>6. Going' /\ GoingBack'
  BY <1>1, <1>2 DEF UInv, Going, GoingBack, DoneAt, PastAt, VerifiedLine, RollbackLine
<1>7. SaidIsTrue'
  <2>1. moved' = moved /\ ~moved
    BY <1>1
  <2>2. ~moved'
    BY ONLY <2>1, Zenon
  <2> QED
    BY <1>2, <2>2, SaysNothing
<1> QED
  BY <1>3, <1>4, <1>5, <1>6, <1>7 DEF UInv

LEMMA UpgradeStepKeeps == UInv /\ UpgradeStep => UInv'
<1> SUFFICES ASSUME UInv, UpgradeStep PROVE UInv'
  OBVIOUS
<1>1. ~NoUpgrade /\ UNCHANGED moved
  BY DEF UpgradeStep
<1>2. CASE ActOnDisk
  <2>1. point = "act" /\ UNCHANGED <<temporary, written, moved>>
    BY <1>1, <1>2 DEF ActOnDisk
  <2>2. \/ SkipLine \/ MakeFile(Plan[line]) \/ MakeBackup(Plan[line]) \/ RenameFile(Plan[line])
        \/ JustJournal(Plan[line]) \/ (Plan[line].do = "examine" /\ TakeInventory(line, "stage"))
    BY <1>2 DEF ActOnDisk
  <2> QED
    BY <1>1, <2>1, <2>2, SkipKeeps, MakeFileKeeps, MakeBackupKeeps, RenameFileKeeps, JustJournalKeeps, ExamineKeeps
<1>3. CASE StageJournal \/ CommitJournal \/ UnlinkTemporary \/ CheckLine
  BY <1>1, <1>3, StageKeeps, CommitKeeps, UnlinkKeeps, CheckKeeps
<1> QED
  BY <1>2, <1>3 DEF UpgradeStep

LEMMA UpgradeDiesKeeps == UInv /\ UpgradeDies => UInv'
BY BlockedKeeps DEF UpgradeDies

LEMMA StartUpgradeKeeps == UInv /\ StartUpgrade => UInv'
<1> SUFFICES ASSUME UInv, StartUpgrade PROVE UInv'
  OBVIOUS
<1>1. /\ line' = 1 /\ point' = "act" /\ moved' = FALSE /\ UNCHANGED <<pair, files, backup, temporary, written>>
      /\ written.resources = {} /\ written.phase = "none" /\ ~temporary /\ backup = written.backup
      /\ \A r \in files : r \in written.resources
  BY DEF StartUpgrade, GoTo, FirstLine, Unwritten, Inventoried
<1>2. \A k \in Targets : pair[k] = OldOf(k)
  BY <1>1 DEF UInv, JournalIsTrue
<1>3. PairTypeOK'
  BY <1>1 DEF UInv, PairTypeOK, Points, FirstLine
<1>4. OnlyOfTheLine'
  <2>1. ~temporary /\ temporary' = temporary
    BY <1>1
  <2>2. ~temporary'
    BY ONLY <2>1, Zenon
  <2> QED
    BY <1>1, <2>2 DEF OnlyOfTheLine, Pending
<1>5. JournalIsTrue' /\ PolicyIsNotNewer'
  BY <1>1, JournalStays
<1>6. Going'
  BY <1>1, <1>2, Names DEF Going, DoneAt, PastAt, RollbackPhases
<1>7. GoingBack'
  BY <1>1 DEF GoingBack, RollbackLine
<1>8. SaidIsTrue'
  BY <1>1, SaysNothing
<1> QED
  BY <1>3, <1>4, <1>5, <1>6, <1>7, <1>8 DEF UInv

LEMMA StartUpgradeRecoveryKeeps == ASSUME UInv, NEW mode, StartUpgradeRecovery(mode) PROVE UInv'
<1>1. /\ UNCHANGED <<pair, files, backup, temporary, written, moved>> /\ ~moved /\ ~temporary
      /\ backup = written.backup /\ \A r \in files : r \in written.resources
  BY DEF StartUpgradeRecovery, Inventoried
<1>2. CASE EndWith(written.phase)
  <2>1. GoTo(0, "act") /\ said' = written.phase
    BY <1>2 DEF EndWith
  <2>2. /\ said' = "verified" => \A k \in Targets : pair[k] = NewOf(k)
        /\ said' = "rolled_back" => \A k \in Targets : pair[k] # NewOf(k)
    BY <2>1 DEF UInv, JournalIsTrue
  <2> QED
    BY <1>1, <2>1, <2>2, EndsSo
<1>3. CASE GoTo(RollbackLine, "act")
  <2>1. line' = 12 /\ point' = "act"
    BY <1>3 DEF GoTo, RollbackLine
  <2>2. PairTypeOK'
    BY <1>1, <2>1 DEF UInv, PairTypeOK, Points, FirstLine
  <2>3. OnlyOfTheLine'
    <3>1. ~temporary /\ temporary' = temporary
      BY <1>1
    <3>2. ~temporary'
      BY ONLY <3>1, Zenon
    <3> QED
      BY <1>1, <2>1, <3>2 DEF OnlyOfTheLine, Pending
  <2>4. JournalIsTrue' /\ PolicyIsNotNewer'
    BY <1>1, JournalStays
  <2>5. Going' /\ GoingBack'
    BY <2>1 DEF Going, GoingBack, DoneAt, PastAt, VerifiedLine
  <2>6. ~moved'
    <3>1. moved' = moved /\ ~moved
      BY <1>1
    <3> QED
      BY ONLY <3>1, Zenon
  <2>7. SaidIsTrue'
    BY <2>1, <2>6, SaysNothing
  <2> QED
    BY <2>2, <2>3, <2>4, <2>5, <2>7 DEF UInv
<1> QED
  BY <1>2, <1>3 DEF StartUpgradeRecovery

LEMMA PromotionRunsKeeps == UInv /\ PromotionRuns => UInv'
<1> SUFFICES ASSUME UInv, PromotionRuns PROVE UInv'
  OBVIOUS
<1>1. NoUpgrade /\ Pinned /\ UNCHANGED <<pair, files, backup, temporary, written, line, point, said>>
  BY DEF PromotionRuns
<1>2. PairTypeOK'
  BY <1>1 DEF UInv, PairTypeOK, Points, FirstLine
<1>3. OnlyOfTheLine' /\ Going' /\ GoingBack'
  BY <1>1 DEF NoUpgrade, OnlyOfTheLine, Going, GoingBack, VerifiedLine, RollbackLine
<1>4. JournalIsTrue' /\ PolicyIsNotNewer'
  BY <1>1, JournalStays
<1>5. SaidIsTrue'
  <2>1. NoUpgrade' /\ Pinned'
    BY <1>1 DEF NoUpgrade, Pinned
  <2>2. SaidIsTrue
    BY DEF UInv
  <2> QED
    BY <1>1, <2>1, <2>2 DEF SaidIsTrue
<1> QED
  BY <1>2, <1>3, <1>4, <1>5 DEF UInv

LEMMA PairStays == UInv /\ UNCHANGED pairVars => UInv'
<1> SUFFICES ASSUME UInv, UNCHANGED pairVars PROVE UInv'
  OBVIOUS
<1>1. UNCHANGED <<pair, files, backup, temporary, written, line, point, said, moved>>
  BY DEF pairVars
<1>2. PairTypeOK'
  BY <1>1 DEF UInv, PairTypeOK, Points, FirstLine
<1>3. OnlyOfTheLine'
  BY <1>1 DEF UInv, OnlyOfTheLine, Pending
<1>4. JournalIsTrue' /\ PolicyIsNotNewer'
  BY <1>1, JournalStays
<1>5. Going'
  BY <1>1 DEF UInv, Going, DoneAt, PastAt
<1>6. GoingBack'
  BY <1>1 DEF UInv, GoingBack, DoneAt, PastAt
<1>7. SaidIsTrue'
  BY <1>1 DEF UInv, SaidIsTrue, NoUpgrade, Pinned
<1> QED
  BY <1>2, <1>3, <1>4, <1>5, <1>6, <1>7 DEF UInv

LEMMA PairBegins == PairInit => UInv
<1> SUFFICES ASSUME PairInit PROVE UInv
  OBVIOUS
<1>1. /\ line = 0 /\ point = "act" /\ moved = FALSE /\ said = "none" /\ files = {}
      /\ written.resources = {} /\ written.phase = "none" /\ pair = [k \in Targets |-> OldOf(k)]
  BY DEF PairInit, Unwritten
<1>2. PairTypeOK
  BY <1>1 DEF PairTypeOK, Points
<1>3. OnlyOfTheLine /\ Going /\ GoingBack
  BY <1>1 DEF OnlyOfTheLine, Going, GoingBack, VerifiedLine, RollbackLine
<1>4. JournalIsTrue /\ PolicyIsNotNewer
  BY <1>1, Names DEF JournalIsTrue, PolicyIsNotNewer
<1>5. SaidIsTrue
  BY <1>1 DEF SaidIsTrue
<1> QED
  BY <1>2, <1>3, <1>4, <1>5 DEF UInv

LEMMA PairSteps == UInv /\ [PairNext]_pairVars => UInv'
BY StartUpgradeKeeps, StartUpgradeRecoveryKeeps, UpgradeStepKeeps, UpgradeDiesKeeps, PromotionRunsKeeps, PairStays DEF PairNext

LEMMA PairIsSafe == UInv => PairIsRecoverable
<1> SUFFICES ASSUME UInv PROVE PairIsRecoverable
  OBVIOUS
<1>1. Classified
  BY DEF UInv, JournalIsTrue, PolicyIsNotNewer, Classified
<1>2. ~Leftover => Inventoried
  BY DEF UInv, JournalIsTrue, Leftover, Inventoried
<1> QED
  BY <1>1, <1>2 DEF UInv, SaidIsTrue, PairIsRecoverable

\* Wherever the upgrade of the promoter or its rollback died, however often,
\* the pair is told from its inodes, recovery is admitted unless a file was left
\* unregistered, and the answer of a process that ended is true of the pair.
THEOREM PairSafe == PairSpec => []PairIsRecoverable
BY PairBegins, PairSteps, PairIsSafe, PTL DEF PairSpec

\* Whatever the two tools do to the publisher's host and wherever they are cut
\* off, it is left old, new, or as the recovery of the one cut off can undo.
THEOREM HostSafe == HostSpec => []HostIsOldOrNew
<1>1. PromoterInit /\ PairInit => HInv /\ UInv
  BY HostInit, PairBegins
<1>2. HInv /\ [PromoterNext]_promoterVars => HInv'
  BY HostSteps
<1>3. UInv /\ [PairNext]_pairVars => UInv'
  BY PairSteps
<1>4. /\ HInv /\ UInv
      /\ [(PromoterNext /\ UNCHANGED pairVars) \/ (PairNext /\ UNCHANGED promoterVars)]_HostVars
      => HInv' /\ UInv'
  <2> SUFFICES ASSUME HInv, UInv,
                      [(PromoterNext /\ UNCHANGED pairVars) \/ (PairNext /\ UNCHANGED promoterVars)]_HostVars
               PROVE  HInv' /\ UInv'
    OBVIOUS
  <2>1. [PromoterNext]_promoterVars /\ [PairNext]_pairVars
    BY DEF HostVars
  <2> QED
    BY <1>2, <1>3, <2>1
<1>5. HInv /\ UInv => HostIsOldOrNew
  BY HostIsSafe, PairIsSafe DEF HostIsOldOrNew
<1> QED
  BY <1>1, <1>4, <1>5, PTL DEF HostSpec
=============================================================================
