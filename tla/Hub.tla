--------------------------------- MODULE Hub ---------------------------------
(***************************************************************************)
(* What the release tools read of GitHub: the head of main and, for every  *)
(* commit of main, its CI run.  Commits are numbered in the order of the   *)
(* pushes; a run may be started again after it has ended, as another       *)
(* attempt.  Any of it may change between two requests of a tool.          *)
(***************************************************************************)
EXTENDS Naturals, FiniteSets, Sequences

CONSTANTS
  Trees,     \* Trees[c][k]: what the files of kind k are in commit c, as a number
  MaxReruns  \* bound: CI runs started again

ASSUME HistoryIsNumbered == Trees \in Seq([{"runtime", "protected", "sync"} -> Nat]) /\ Trees # <<>>

Commits == DOMAIN Trees

VARIABLES
  main,    \* refs/heads/main
  ci,      \* ci[c]: latest attempt and status of the run of commit c
  passed   \* the attempts that succeeded, as pairs (commit, attempt)

hubVars == <<main, ci, passed>>

HubInit ==
  /\ main = 1
  /\ ci = [c \in Commits |-> [attempt |-> 1, status |-> IF c = 1 THEN "success" ELSE "running"]]
  /\ passed = {<<1, 1>>}

Push ==
  /\ main + 1 \in Commits
  /\ main' = main + 1
  /\ UNCHANGED <<ci, passed>>

Conclude(c, status) ==
  /\ c <= main /\ ci[c].status = "running"
  /\ ci' = [ci EXCEPT ![c].status = status]
  /\ passed' = IF status = "success" THEN passed \cup {<<c, ci[c].attempt>>} ELSE passed
  /\ UNCHANGED main

Rerun(c) ==
  /\ c <= main /\ ci[c].status # "running"
  /\ Cardinality({a \in Commits \X (2 .. MaxReruns + 1) : a[2] <= ci[a[1]].attempt}) < MaxReruns
  /\ ci' = [ci EXCEPT ![c] = [attempt |-> ci[c].attempt + 1, status |-> "running"]]
  /\ UNCHANGED <<main, passed>>

(* git diff of two commits, for the files of one kind: what came and went  *)
(* between them is no difference.                                          *)
Differs(a, b, k) == Trees[a][k] # Trees[b][k]
=============================================================================
