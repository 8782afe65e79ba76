---------------------------- MODULE MCPublishing ----------------------------
(* What one run resolves (Resolve), how runs end (Ingest), and how the      *)
(* publisher itself is replaced on its host (PublisherHost).                *)
(* Ingest shows that publications follow one another and that each is       *)
(* resolved against the snapshot before it, which is what a behaviour of    *)
(* Resolve is; the gate keeps the publisher from running beside a           *)
(* promotion, and the promoter from running beside an upgrade of itself; so *)
(* a behaviour here follows one of the four.                                *)
EXTENDS MCResolve, PublisherHost

CONSTANTS Runs, None    \* invocations of cmd/ingest, all with -apply

VARIABLES part,
          status, publishedAt, lockHolder, backend, tx, writes, stamp, orphan,
          conn, pc, previous, outcome, notified

I == INSTANCE Ingest WITH DryRuns <- {}, Times <- {1}

ingestVars == <<status, publishedAt, lockHolder, backend, tx, writes, stamp, orphan,
                conn, pc, previous, outcome, notified>>

MCPackages == <<1, 2, 3>>

MCInit ==
  /\ part \in {"resolve", "ingest", "promoter", "pair"}
  /\ Init /\ I!Init /\ PromoterInit /\ PairInit
  /\ part # "resolve" => issued = {}

MCNext ==
  /\ UNCHANGED part
  /\ \/ part = "resolve" /\ Next /\ UNCHANGED <<ingestVars, promoterVars, pairVars>>
     \/ part = "ingest" /\ I!Next /\ UNCHANGED <<vars, promoterVars, pairVars>>
     \/ part = "promoter" /\ PromoterNext /\ UNCHANGED <<vars, ingestVars, pairVars>>
     \/ part = "pair" /\ PairNext /\ UNCHANGED <<vars, ingestVars, promoterVars>>

\* Ingest!Fairness, where runs are followed.
MCFairness ==
  \A r \in Runs :
    /\ WF_ingestVars(part = "ingest" /\ I!Client(r))
    /\ WF_ingestVars(part = "ingest" /\ conn[r] = "closed" /\ I!EndSession(r))

MCSpec == MCInit /\ [][MCNext]_<<vars, ingestVars, promoterVars, pairVars, part>> /\ MCFairness

-----------------------------------------------------------------------------
\* Ingest!RunsEnd: every run that starts ends and has given up the lock, also
\* after a lost connection (ingestor.go:196).
RunsEnd == I!RunsEnd
=============================================================================
