------------------------------ MODULE Promotion ------------------------------
(***************************************************************************)
(* scripts/ops/sync-promotion.mjs: the sync publisher and C2 follow main   *)
(* through two workflows.  The first, started by a CI run that ends or by  *)
(* hand, decides whether a commit is worth a build and builds it; the      *)
(* second, started by the first, takes the build to the host, where        *)
(* ops/c2/publisher-promotion.py looks at main once more.  Runs of one     *)
(* workflow follow one another, and of those that wait only the last stays.*)
(* Any run may fail, and nothing starts it again.                          *)
(***************************************************************************)
EXTENDS Hub

CONSTANT MaxManual  \* bound: runs started by hand

NoGate == [mode |-> "none"]

VARIABLES
  gate,       \* the run of the gate, with the CI attempt it has read
  waiting,    \* the run that waits for it
  lost,       \* history: commits whose last automatic run was cancelled or failed
  builds,     \* artifacts: commit, CI attempt and kind
  offered,    \* the build whose promotion waits
  transport,  \* the build being promoted
  admitted,   \* the root side has looked at main for it
  publisher,  \* the commit on the host
  late,       \* history: heads of main when an older commit was put on the host
  manuals

hostVars == <<builds, offered, transport, admitted, publisher, late>>
promotionVars == <<gate, waiting, lost, hostVars, manuals>>
NoBuild == [sha |-> 0, attempt |-> 0, kind |-> "none"]

Relevant(a, c) == Differs(a, c, "sync")

-----------------------------------------------------------------------------
(* gate()                                                                  *)

\* The commit an automatic run is for.
Automatic(g) == IF g.mode = "auto" THEN {g.sha} ELSE {}

\* The concurrency group of the workflow: one run at work, one that waits.
Queue(mode, c) ==
  LET g == [mode |-> mode, at |-> "run", sha |-> c, attempt |-> 0]
  IN  /\ IF gate = NoGate /\ waiting = NoGate
         THEN gate' = g /\ UNCHANGED waiting
         ELSE waiting' = g /\ UNCHANGED gate
      /\ lost' = (lost \cup Automatic(waiting)) \ Automatic(g)

\* CI ends and starts the workflow for its commit; the run of one that did not
\* end well takes its place in the queue all the same.
CIEnds(c, status) ==
  /\ Conclude(c, status)
  /\ Queue(IF status = "success" THEN "auto" ELSE "skipped", c)
  /\ UNCHANGED <<hostVars, manuals>>

StartByHand ==
  /\ manuals < MaxManual /\ manuals' = manuals + 1
  /\ \E mode \in {"build-only", "manual-artifact", "promote"}, c \in 1 .. main : Queue(mode, c)
  /\ UNCHANGED <<hubVars, hostVars>>

StartWaiting ==
  /\ gate = NoGate /\ waiting # NoGate
  /\ gate' = waiting /\ waiting' = NoGate
  /\ UNCHANGED <<hubVars, lost, hostVars, manuals>>

\* A request to GitHub or to the host fails, or the git of the runner, the
\* build or its upload, or the runner itself.
RunFails ==
  /\ gate # NoGate
  /\ gate' = NoGate
  /\ lost' = lost \cup (Automatic(gate) \ Automatic(waiting))
  /\ UNCHANGED <<hubVars, waiting, hostVars, manuals>>

\* The run of CI, and then the jobs of its latest attempt.
ReadCI ==
  /\ gate # NoGate /\ gate.at \in {"run", "jobs"}
  /\ gate' = IF gate.mode = "skipped" \/ ci[gate.sha].status # "success" THEN NoGate
             ELSE IF gate.at = "run" THEN [gate EXCEPT !.at = "jobs", !.attempt = ci[gate.sha].attempt]
             ELSE [gate EXCEPT !.at = "main"]
  /\ UNCHANGED <<hubVars, waiting, lost, hostVars, manuals>>

\* Mutant: a push is compared with the oldest commit, not with its parent.
WorthAskingOldest(g) == Relevant(1, g.sha)

\* A push that changes nothing in its parent is not worth asking the host;
\* the first commit is taken to be like its parent.
WorthAsking(g) == g.sha # 1 /\ Relevant(g.sha - 1, g.sha)

\* A build asked for by name is made; else the host has an older relevant
\* commit, or this one with root records that do not match it.
Eligible(g, aligned) ==
  \/ g.mode \in {"build-only", "manual-artifact"}
  \/ /\ g.mode = "auto" => WorthAsking(g)
     /\ IF publisher = g.sha THEN ~aligned ELSE Relevant(publisher, g.sha)

\* validateCI: the commit is the head of main.  Then the decision.
Decide ==
  /\ gate # NoGate /\ gate.at = "main"
  /\ \E aligned \in BOOLEAN :
       gate' = IF main = gate.sha /\ Eligible(gate, aligned) THEN [gate EXCEPT !.at = "build"] ELSE NoGate
  /\ UNCHANGED <<hubVars, waiting, lost, hostVars, manuals>>

\* The second job: the attempt is the one the gate has read.
BuildArtifact ==
  /\ gate # NoGate /\ gate.at = "build"
  /\ LET b == [sha |-> gate.sha, attempt |-> gate.attempt,
               kind |-> IF gate.mode = "build-only" THEN "build-only" ELSE "promote"]
     IN  builds' = builds \cup {b} /\ offered' = b
  /\ gate' = NoGate
  /\ UNCHANGED <<hubVars, waiting, lost, transport, admitted, publisher, late, manuals>>

-----------------------------------------------------------------------------
(* promote()                                                               *)

\* A build started this run, or a person names an earlier one.
StartPromote ==
  /\ transport = NoBuild
  /\ \/ offered # NoBuild /\ transport' = offered /\ offered' = NoBuild /\ UNCHANGED manuals
     \/ /\ manuals < MaxManual /\ manuals' = manuals + 1
        /\ transport' \in builds /\ UNCHANGED offered
  /\ UNCHANGED <<hubVars, waiting, lost, gate, builds, admitted, publisher, late>>

\* Mutant: what was built for review is promoted as well.
PromotableAnyKind(b) == main = b.sha /\ ci[b.sha].status = "success"

\* What the client looks at: the head of main, the kind of the package, CI.
Promotable(b) == main = b.sha /\ b.kind = "promote" /\ ci[b.sha].status = "success"

\* The root side looks at main again, and at what it replaces.
Admit ==
  /\ transport # NoBuild /\ ~admitted
  /\ Promotable(transport)
  /\ admitted' = TRUE
  /\ UNCHANGED <<hubVars, waiting, lost, gate, builds, offered, transport, publisher, late, manuals>>

\* It switches, while main may move on; or refuses or fails, the host as it was.
Promote ==
  /\ transport # NoBuild
  /\ transport' = NoBuild /\ admitted' = FALSE
  /\ \/ /\ admitted
        /\ publisher' = transport.sha
        /\ late' = IF transport.sha # main THEN late \cup {main} ELSE late
     \/ UNCHANGED <<publisher, late>>
  /\ UNCHANGED <<hubVars, waiting, lost, gate, builds, offered, manuals>>

PromotionInit ==
  /\ gate = NoGate /\ waiting = NoGate /\ lost = {} /\ builds = {} /\ offered = NoBuild /\ transport = NoBuild
  /\ admitted = FALSE /\ publisher = 1 /\ late = {} /\ manuals = 0

PromotionNext ==
  \/ (Push \/ \E c \in Commits : Rerun(c)) /\ UNCHANGED promotionVars
  \/ \E c \in Commits, status \in {"success", "failure"} : CIEnds(c, status)
  \/ StartByHand \/ StartWaiting \/ RunFails \/ ReadCI \/ Decide \/ BuildArtifact
  \/ StartPromote \/ Admit \/ Promote

PromotionSpec == HubInit /\ PromotionInit /\ [][PromotionNext]_<<hubVars, promotionVars>>

-----------------------------------------------------------------------------
\* docs/production/BACKEND2_SYNC_C2_AUTOMATED_PROMOTION_HANDOFF.md:249: automatic
\* builds follow successful CI of main when relevant paths change.  When no run
\* is left, a head of main that passed CI and changed its parent has been built
\* or is what the host has (sync-promotion.mjs:92), whatever was pushed or run
\* again before.  Unless its run was cancelled by GitHub or failed, which
\* nothing makes good; or it takes back what an older commit did, and the host
\* was switched to that one after the gate had looked at it.
Restores(c) == \E p \in 1 .. c - 1 : ~Relevant(p, c)
RelevantHeadIsBuilt ==
  /\ gate = NoGate /\ waiting = NoGate /\ main \notin lost
  /\ main > 1 /\ ci[main].status = "success" /\ Relevant(main - 1, main)
  => \/ \E b \in builds : b.sha = main /\ b.kind = "promote"
     \/ ~Relevant(publisher, main)
     \/ main \in late /\ Restores(main)

\* What the host runs was built to be promoted, for a commit and an attempt of
\* CI that succeeded, whatever moved between the reads (sync-promotion.mjs:83,
\* :112).
PublishedWasVerified ==
  publisher # 1 => \E b \in builds : b.sha = publisher /\ b.kind = "promote" /\ <<b.sha, b.attempt>> \in passed

\* The two together: only what was verified gets to the host, and no head is
\* passed over.
PromotionWasVerified == PublishedWasVerified /\ RelevantHeadIsBuilt
=============================================================================
