--------------------------- MODULE SnapshotStore ---------------------------
(***************************************************************************)
(* What the ingestion promises to everyone who reads the catalogue: the    *)
(* published snapshots form one history.  There is always exactly one      *)
(* newest snapshot, a publication appends to it, and nothing that was      *)
(* published is ever withdrawn, reordered or published twice.              *)
(*                                                                         *)
(* Processes, connections, the advisory lock, clocks and failures do not   *)
(* appear here; Ingest.tla has all of them and implements this module.     *)
(***************************************************************************)

CONSTANTS
  Runs,   \* the invocations of cmd/ingest, each owning the one snapshot it may create
  None    \* "no snapshot": the empty previous.ID of a first publication

VARIABLES
  published,  \* the snapshots whose status is 'published'
  head,       \* the snapshot every reader of the catalogue is pointed at
  after       \* after[r]: the snapshot r replaced as head

vars == <<published, head, after>>

Init ==
  /\ published = {}
  /\ head = None
  /\ after = [r \in Runs |-> None]

(* A run becomes the newest snapshot, directly after the one it replaces.  *)
Publish(r) ==
  /\ r \notin published
  /\ published' = published \cup {r}
  /\ after' = [after EXCEPT ![r] = head]
  /\ head' = r

Next == \E r \in Runs : Publish(r)

Spec == Init /\ [][Next]_vars

=============================================================================
