-------------------------------- MODULE MCOps --------------------------------
(* The tools around production: the monitor (Monitor), the road of a        *)
(* release of the API (Release) and of the publisher (Promotion).  The two  *)
(* roads read the same GitHub but share nothing else, so a behaviour        *)
(* follows one of the three.                                                *)
EXTENDS Monitor, Release, Promotion

VARIABLE tool

(* The third commit takes back what the second did to the sync and C2.      *)
MCTrees ==
  LET tree(runtime, protected, sync) == [runtime |-> runtime, protected |-> protected, sync |-> sync]
  IN  <<tree(0, 0, 0), tree(1, 1, 1), tree(2, 2, 0)>>
MCApproved == {<<1, 1>>, <<2, 2>>}

\* The gate where nobody follows it: every run it had was lost.
NoPromotion ==
  /\ gate = NoGate /\ waiting = NoGate /\ lost = Commits /\ builds = {} /\ offered = NoBuild /\ transport = NoBuild
  /\ admitted = FALSE /\ publisher = 1 /\ late = {} /\ manuals = 0

MCInit ==
  /\ tool \in {"monitor", "release", "promotion"}
  /\ HubInit /\ MonitorInit /\ ReleaseInit
  /\ IF tool = "promotion" THEN PromotionInit ELSE NoPromotion

MCNext ==
  /\ UNCHANGED tool
  /\ \/ tool = "monitor" /\ MonitorNext /\ UNCHANGED <<hubVars, releaseVars, promotionVars>>
     \/ tool = "release" /\ ReleaseNext /\ UNCHANGED <<monitorVars, promotionVars>>
     \/ tool = "promotion" /\ PromotionNext /\ UNCHANGED <<monitorVars, releaseVars>>

MCSpec == MCInit /\ [][MCNext]_<<monitorVars, hubVars, releaseVars, promotionVars, tool>>

=============================================================================
