--------------------------- MODULE PublisherHost ---------------------------
(***************************************************************************)
(* The two tools that change the publisher's host: the promoter, and the   *)
(* upgrade of the promoter and its policy.  Each has a journal of its own  *)
(* and knows nothing of the other's.  Their locks keep them apart           *)
(* (root-executor-pair-upgrade.py:39), which is left out here: the steps   *)
(* of one may come between those of the other.                             *)
(***************************************************************************)
EXTENDS Promoter, PairUpgrade

HostVars == <<promoterVars, pairVars>>
HostSpec ==
  /\ PromoterInit /\ PairInit
  /\ [][(PromoterNext /\ UNCHANGED pairVars) \/ (PairNext /\ UNCHANGED promoterVars)]_HostVars

\* Promoter!PromotionIsAllOrNothing and PairUpgrade!PairIsRecoverable: wherever
\* a tool on the publisher's host was cut off, no service runs on a mixture, and
\* what was left is the old, the new, or what its recovery can undo
\* (publisher-promotion.py:754, root-executor-pair-upgrade.py:354).
HostIsOldOrNew == PromotionIsAllOrNothing /\ PairIsRecoverable
=============================================================================
