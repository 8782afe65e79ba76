------------------------------ MODULE Resolve ------------------------------
(***************************************************************************)
(* resolve() of internal/ingestion/plan.go: which canonical product (card) *)
(* each group of the new bundle becomes.  A card is named by an opaque id  *)
(* that outlives the snapshots; users bookmark it.  A group inherits the   *)
(* card its members had in the latest published snapshot, or gets a new    *)
(* one; the strict mode refuses bundles that would merge or split cards,   *)
(* the -recluster mode decides them by votes.                              *)
(*                                                                         *)
(* The state is the part of the published snapshot that the next run reads *)
(* back as its baseline.  One step is one run of cmd/ingest -apply, which  *)
(* Ingest.tla shows to be atomic; a run may also change nothing.           *)
(***************************************************************************)
EXTENDS Naturals, FiniteSets

CONSTANTS
  Raws,      \* raw products, named by (storeCode, sourceProductId)
  Stores,    \* the store codes
  StoreOf,   \* StoreOf[r]: the store that sells r
  Cards,     \* the ids opaqueID() may return
  Legacy,    \* mappings of snapshots older than this program
  Bundles,   \* the groups of the bundles that may be ingested
  MaxDrop    \* INGEST_MAX_STORE_DROP_PERCENT

ASSUME RawsAreFinite == IsFiniteSet(Raws)
ASSUME StoresOfRaws == StoreOf \in [Raws -> Stores]
ASSUME CardsAreNumbers == Cards \subseteq Nat \ {0}
ASSUME LegacyCards == Legacy \subseteq [Raws -> SUBSET Cards]
ASSUME MaxDropIsPercent == MaxDrop \in 0..100

(* The groups of a bundle that Bundle.Validate accepts: a sequence of non- *)
(* empty sets of raw products, no raw product in two of them.              *)
ASSUME BundlesAreValid ==
  \A g \in Bundles :
    \E n \in 1..Cardinality(Raws) :
      /\ g \in [1..n -> (SUBSET Raws) \ {{}}]
      /\ \A i, j \in 1..n : i # j => g[i] \cap g[j] = {}

NoCard == 0

VARIABLES
  cards,    \* cards[r]: canonical ids mapped to r in the latest snapshot, {} if r is not in it
  issued,   \* the ids of all rows of canonical_products
  groups,   \* the groups of the latest snapshot, <<>> before the first of this program
  report    \* of the last run: its mode and FailureCode

vars == <<cards, issued, groups, report>>

Listed(g) == UNION {g[i] : i \in DOMAIN g}

Count(raws, s) == Cardinality({r \in raws : StoreOf[r] = s})

-----------------------------------------------------------------------------
(* Votes.                                                                  *)

Claims(g, i) == UNION {cards[r] : r \in g[i]}

Votes(g, id, i) == Cardinality({r \in g[i] : id \in cards[r]})

Stronger(g, id, i, j) ==
  \/ Votes(g, id, i) > Votes(g, id, j)
  \/ Votes(g, id, i) = Votes(g, id, j) /\ Cardinality(g[i]) > Cardinality(g[j])

(* The group with the strongest claim to id; among equals, the first one.  *)
Owner(g, id) ==
  CHOOSE i \in DOMAIN g :
    /\ id \in Claims(g, i)
    /\ \A j \in DOMAIN g \ {i} :
         id \in Claims(g, j) => IF j < i THEN Stronger(g, id, i, j) ELSE ~Stronger(g, id, j, i)

(* Faulty variant: a group competes for cards that another group owns.     *)
Eligible_AnyClaim(g, i, recluster) == Claims(g, i)

Eligible(g, i, recluster) == {id \in Claims(g, i) : recluster => Owner(g, id) = i}

(* Faulty variant: the smallest id wins, whatever its votes.               *)
Best_SmallestId(g, i, recluster) ==
  IF Eligible(g, i, recluster) = {} THEN NoCard
  ELSE CHOOSE id \in Eligible(g, i, recluster) :
         \A other \in Eligible(g, i, recluster) : id <= other

(* Most votes; the smaller id among equals, so that the order in which Go  *)
(* iterates over the map does not matter.                                  *)
Best(g, i, recluster) ==
  IF Eligible(g, i, recluster) = {} THEN NoCard
  ELSE CHOOSE id \in Eligible(g, i, recluster) :
         \A other \in Eligible(g, i, recluster) \ {id} :
           \/ Votes(g, id, i) > Votes(g, other, i)
           \/ Votes(g, id, i) = Votes(g, other, i) /\ id < other

-----------------------------------------------------------------------------
(* Refusals, in the order of the code.                                     *)

(* A store without products or with too few of them; a declared count that *)
(* disagrees with the bundle is refused as well and is not told apart here.*)
CountsAccepted(g) ==
  \A s \in Stores :
    LET before == Count({r \in Raws : cards[r] # {}}, s)
        after  == Count(Listed(g), s)
    IN after > 0 /\ (before > after => (before - after) * 100 <= MaxDrop * before)

(* The card of each group, NoCard for a group that needs a new one.        *)
Inherited(g, recluster) == [i \in DOMAIN g |-> Best(g, i, recluster)]

(* Faulty variant: merges are counted but not refused in strict mode.      *)
GroupRefusal_MergesAllowed(g, i, best, recluster) ==
  IF \E j \in DOMAIN g : j < i /\ best[j] = best[i] /\ best[i] # NoCard
    THEN "canonical_split_conflict"
  ELSE ""

(* Faulty variant: a card may be reused by several groups.                 *)
GroupRefusal_SplitsAllowed(g, i, best, recluster) ==
  IF ~recluster /\ \E id, other \in Claims(g, i) : id # other
    THEN "canonical_merge_conflict"
  ELSE ""

GroupRefusal(g, i, best, recluster) ==
  IF ~recluster /\ \E id, other \in Claims(g, i) : id # other
    THEN "canonical_merge_conflict"
  ELSE IF \E j \in DOMAIN g : j < i /\ best[j] = best[i] /\ best[i] # NoCard
    THEN "canonical_split_conflict"
  ELSE ""

(* The first group that is refused decides; unknown is the first group     *)
(* whose category does not exist, or 0.                                    *)
Refusal(g, unknown, best, recluster) ==
  LET refused == {i \in DOMAIN g : i = unknown \/ GroupRefusal(g, i, best, recluster) # ""}
      first   == CHOOSE i \in refused : \A j \in refused : i <= j
  IN IF ~CountsAccepted(g) THEN "store_counts"
     ELSE IF refused = {} THEN ""
     ELSE IF first = unknown THEN "unknown_canonical_category"
     ELSE GroupRefusal(g, first, best, recluster)

-----------------------------------------------------------------------------
Orphans(best) == {i \in DOMAIN best : best[i] = NoCard}

(* Faulty variant: an error of opaqueID is ignored.                        *)
NewCards_ErrorIgnored(best) ==
  {f \in [Orphans(best) -> (Cards \ issued) \cup {NoCard}] :
     \A i, j \in Orphans(best) : i # j => f[i] # f[j]}

(* opaqueID() never returns an id twice.                                   *)
NewCards(best) ==
  {f \in [Orphans(best) -> Cards \ issued] :
     \A i, j \in Orphans(best) : i # j => f[i] # f[j]}

(* Faulty variant: the baseline query is not restricted to one snapshot.   *)
Recorded_EverySnapshot(g, card) ==
  [r \in Raws |-> cards[r] \cup {card[i] : i \in {j \in DOMAIN g : r \in g[j]}}]

(* One mapping per raw product of the new snapshot; the old mappings stay  *)
(* with the old snapshot and are not read again.                           *)
Recorded(g, card) ==
  [r \in Raws |-> {card[i] : i \in {j \in DOMAIN g : r \in g[j]}}]

Refuse(g, unknown, best, recluster) ==
  /\ Refusal(g, unknown, best, recluster) # ""
  /\ report' = [recluster |-> recluster,
                failureCode |-> Refusal(g, unknown, best, recluster)]
  /\ UNCHANGED <<cards, issued, groups>>

Publish(g, best, recluster) ==
  /\ Refusal(g, 0, best, recluster) = ""
  /\ \E fresh \in NewCards(best) :
       LET card == [i \in DOMAIN g |-> IF best[i] # NoCard THEN best[i] ELSE fresh[i]]
       IN /\ cards' = Recorded(g, card)
          /\ issued' = issued \cup {card[i] : i \in DOMAIN g}
  /\ groups' = g
  /\ report' = [recluster |-> recluster, failureCode |-> ""]

(* An empty database, or a snapshot imported before this program existed,  *)
(* in which a raw product may have several mappings.                       *)
Init ==
  /\ cards \in Legacy \cup {[r \in Raws |-> {}]}
  /\ issued = UNION {cards[r] : r \in Raws}
  /\ groups = <<>>
  /\ report = [recluster |-> FALSE, failureCode |-> ""]

Next ==
  \E g \in Bundles, recluster \in BOOLEAN :
    LET best == Inherited(g, recluster)
    IN \/ Publish(g, best, recluster)
       \/ \E unknown \in DOMAIN g \cup {0} : Refuse(g, unknown, best, recluster)

Spec == Init /\ [][Next]_vars

-----------------------------------------------------------------------------
TypeOK ==
  /\ cards \in [Raws -> SUBSET Cards]
  /\ issued \subseteq Cards
  /\ groups \in Bundles \cup {<<>>}
  /\ report \in [recluster : BOOLEAN,
                 failureCode : {"", "store_counts", "unknown_canonical_category",
                                "canonical_merge_conflict", "canonical_split_conflict"}]

(* The mappings are those of the groups.                                   *)
MappedAs(g, mapping) ==
  /\ \A i \in DOMAIN g : \A r, q \in g[i] : mapping[r] = mapping[q]
  /\ \A i, j \in DOMAIN g : i # j =>
       \A r \in g[i], q \in g[j] : mapping[r] \cap mapping[q] = {}

(* Snapshots of this program map raw products and cards as the matcher     *)
(* grouped them: two raw products are on the same card exactly when they   *)
(* are in the same group, in both modes and after any history of runs.     *)
OneCardPerGroup == groups # <<>> => MappedAs(groups, cards)

(* Identity is stable in strict mode: a raw product that stays in the      *)
(* catalogue stays on its card; neither a merge nor a split gets through.  *)
StrictKeepsCards ==
  [][ ~report'.recluster /\ report'.failureCode = ""
        => \A r \in Raws : cards[r] # {} /\ cards'[r] # {} => cards'[r] = cards[r] ]_vars

(* -recluster is documented to resolve merges and splits deterministically *)
(* (cmd/ingest, flag recluster): it never stops on one.                    *)
ReclusterNeverConflicts ==
  report.recluster => report.failureCode \notin {"canonical_merge_conflict", "canonical_split_conflict"}

(* -recluster gives a card up only where a merge makes it: the group with  *)
(* the strongest claim to a lost card goes on under another old card that  *)
(* had at least as many of its members.                                    *)
CardsOnlyLostByMerge ==
  [][ report'.failureCode = "" =>
        \A id \in UNION {cards[r] : r \in Listed(groups')} :
          \/ \E r \in Raws : id \in cards'[r]
          \/ \E i \in DOMAIN groups' :
               /\ \A j \in DOMAIN groups' : Votes(groups', id, i) >= Votes(groups', id, j)
               /\ \E other \in UNION {cards'[r] : r \in groups'[i]} :
                    other \in Claims(groups', i) /\ Votes(groups', other, i) >= Votes(groups', id, i)
    ]_vars

(* docs: a second sync of an unchanged catalogue passes the strict mode    *)
(* with newCanonicalCount 0, whatever mode published it.                   *)
RepublishingChangesNothing ==
  groups # <<>> =>
    LET best == Inherited(groups, FALSE)
    IN /\ Refusal(groups, 0, best, FALSE) = ""
       /\ \A i \in DOMAIN groups : \A r \in groups[i] : cards[r] = {best[i]}

(* plan.go:101: a card outlives every run that does not merge it away, in  *)
(* strict mode every run.                                                  *)
CardsAreStable == StrictKeepsCards /\ CardsOnlyLostByMerge /\ []RepublishingChangesNothing

=============================================================================
