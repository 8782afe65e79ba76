--------------------------- MODULE ResolveProofs ---------------------------
(***************************************************************************)
(* What resolve() guarantees for every catalogue, every sequence of runs   *)
(* and every supply of ids.  The induction is short; the work is in the    *)
(* three facts about a single bundle: the winner of the votes exists, the  *)
(* owner of a card is unique, and an accepted bundle has no conflict.      *)
(* The last part is about the agent that matches the products (Agent), for *)
(* any batches, keys and replies and any number of runs.                   *)
(***************************************************************************)
EXTENDS Resolve, Agent, FiniteSetTheorems, WellFoundedInduction, TLAPS

(* Every non-empty set of natural numbers has a least element.             *)
LEMMA LeastNatural ==
  ASSUME NEW T \in SUBSET Nat, T # {}
  PROVE  \E x \in T : \A y \in T : x <= y
<1> DEFINE R == OpToRel(<, Nat)
<1>1. PICK x \in T : \A y \in T : ~ (<<y, x>> \in R)
  <2>1. IsWellFoundedOn(R, Nat)
    BY NatLessThanWellFounded
  <2> HIDE DEF R
  <2> QED
    BY <2>1, WFMin
<1>2. ASSUME NEW y \in T PROVE x <= y
  <2>1. <<y, x>> \in Nat \X Nat
    OBVIOUS
  <2>2. ~ (y < x)
    BY <1>1, <2>1 DEF OpToRel
  <2> QED
    BY <2>2
<1> QED
  BY <1>2

(* What is bounded has a greatest value.                                   *)
LEMMA Greatest ==
  ASSUME NEW S, S # {}, NEW f \in [S -> Nat], NEW bound \in Nat, \A x \in S : f[x] <= bound
  PROVE  \E top \in S : \A x \in S : f[x] <= f[top]
<1> DEFINE Gaps == {bound - f[x] : x \in S}
<1>1. Gaps \in SUBSET Nat /\ Gaps # {}
  OBVIOUS
<1>2. PICK gap \in Gaps : \A y \in Gaps : gap <= y
  <2> HIDE DEF Gaps
  <2> QED
    BY <1>1, LeastNatural
<1>3. PICK top \in S : gap = bound - f[top]
  BY <1>2
<1>4. ASSUME NEW x \in S PROVE f[x] <= f[top]
  <2>1. bound - f[top] <= bound - f[x]
    BY <1>2, <1>3
  <2> QED
    BY <2>1
<1> QED
  BY <1>4

(* The shape of an accepted bundle: numbered, finite, disjoint groups.     *)
LEMMA BundleShape ==
  ASSUME NEW g \in Bundles
  PROVE  /\ DOMAIN g \subseteq Nat \ {0}
         /\ \A i \in DOMAIN g : g[i] \subseteq Raws /\ g[i] # {} /\ IsFiniteSet(g[i])
         /\ \A i, j \in DOMAIN g : i # j => g[i] \cap g[j] = {}
<1>1. PICK n \in 1..Cardinality(Raws) :
        /\ g \in [1..n -> (SUBSET Raws) \ {{}}]
        /\ \A i, j \in 1..n : i # j => g[i] \cap g[j] = {}
  BY BundlesAreValid
<1>2. \A i \in DOMAIN g : g[i] \subseteq Raws /\ g[i] # {}
  BY <1>1
<1>3. \A i \in DOMAIN g : IsFiniteSet(g[i])
  BY <1>2, RawsAreFinite, FS_Subset
<1>4. Cardinality(Raws) \in Nat
  BY RawsAreFinite, FS_CardinalityType
<1>5. DOMAIN g = 1..n /\ n \in Nat
  BY <1>1, <1>4
<1> QED
  BY <1>1, <1>2, <1>3, <1>5

(* The votes of a group are counted by a number that its size bounds.      *)
LEMMA VotesBounded ==
  ASSUME NEW g \in Bundles, NEW i \in DOMAIN g, NEW id
  PROVE  /\ Votes(g, id, i) \in Nat
         /\ Cardinality(g[i]) \in Nat
         /\ Votes(g, id, i) <= Cardinality(g[i])
<1>1. IsFiniteSet(g[i])
  BY BundleShape
<1>2. {r \in g[i] : id \in cards[r]} \subseteq g[i]
  OBVIOUS
<1> QED
  BY <1>1, <1>2, FS_Subset, FS_CardinalityType DEF Votes

(* The loop over the votes of a group ends with one of the cards the group *)
(* may inherit, unless there is none.                                      *)
LEMMA BestIsEligible ==
  ASSUME NEW g \in Bundles, NEW i \in DOMAIN g, NEW recluster \in BOOLEAN,
         cards \in [Raws -> SUBSET Cards], Eligible(g, i, recluster) # {}
  PROVE  /\ Best(g, i, recluster) \in Eligible(g, i, recluster)
         /\ \A other \in Eligible(g, i, recluster) \ {Best(g, i, recluster)} :
              \/ Votes(g, Best(g, i, recluster), i) > Votes(g, other, i)
              \/ /\ Votes(g, Best(g, i, recluster), i) = Votes(g, other, i)
                 /\ Best(g, i, recluster) < other
<1> DEFINE E == Eligible(g, i, recluster)
           V(id) == Votes(g, id, i)
           N == Cardinality(g[i])
           Gaps == {N - V(id) : id \in E}
<1>1. E \subseteq Nat
  <2>1. g[i] \subseteq Raws
    BY BundleShape
  <2> QED
    BY <2>1, CardsAreNumbers DEF Eligible, Claims
<1>2. \A id \in E : V(id) \in Nat /\ V(id) <= N /\ N \in Nat
  BY VotesBounded
<1>3. PICK top \in E : \A other \in E : V(top) >= V(other)
  <2> HIDE DEF E, V, N
  <2>1. Gaps \in SUBSET Nat /\ Gaps # {}
    BY <1>2 DEF E
  <2>2. PICK gap \in Gaps : \A y \in Gaps : gap <= y
    BY <2>1, LeastNatural
  <2>3. PICK top \in E : gap = N - V(top)
    BY <2>2
  <2>4. \A other \in E : N - V(top) <= N - V(other)
    BY <2>2, <2>3
  <2>5. \A other \in E : V(top) >= V(other)
    BY <2>4, <1>2
  <2> QED
    BY <2>5
<1> DEFINE Winners == {id \in E : V(id) = V(top)}
<1>4. PICK best \in Winners : \A other \in Winners : best <= other
  <2> HIDE DEF E, V
  <2>1. Winners \in SUBSET Nat /\ Winners # {}
    BY <1>1
  <2> QED
    BY <2>1, LeastNatural
<1>5. best \in E /\ \A other \in E \ {best} :
                      V(best) > V(other) \/ (V(best) = V(other) /\ best < other)
  <2> HIDE DEF E, V
  <2>1. best \in E /\ V(best) = V(top)
    BY <1>4
  <2>2. ASSUME NEW other \in E \ {best}
        PROVE  V(best) > V(other) \/ (V(best) = V(other) /\ best < other)
    <3>1. CASE V(other) = V(top)
      <4>1. best <= other
        BY <1>4, <3>1
      <4> QED
        BY <4>1, <3>1, <2>1, <1>1, <2>2
    <3>2. CASE V(other) # V(top)
      <4>1. V(top) >= V(other)
        BY <1>3
      <4> QED
        BY <4>1, <3>2, <2>1, <1>2
    <3> QED
      BY <3>1, <3>2
  <2> QED
    BY <2>1, <2>2
<1>6. \E id \in Eligible(g, i, recluster) :
         \A other \in Eligible(g, i, recluster) \ {id} :
           \/ Votes(g, id, i) > Votes(g, other, i)
           \/ Votes(g, id, i) = Votes(g, other, i) /\ id < other
  BY <1>5
<1> QED
  BY <1>6 DEF Best

(* A card that is claimed has an owner, and nobody votes for it more.      *)
LEMMA OwnerHasMostVotes ==
  ASSUME NEW g \in Bundles, NEW id, \E i \in DOMAIN g : id \in Claims(g, i)
  PROVE  /\ Owner(g, id) \in DOMAIN g /\ id \in Claims(g, Owner(g, id))
         /\ \A j \in DOMAIN g : Votes(g, id, Owner(g, id)) >= Votes(g, id, j)
<1> DEFINE C == {i \in DOMAIN g : id \in Claims(g, i)}
           V == [i \in C |-> Votes(g, id, i)]
           N == [i \in C |-> Cardinality(g[i])]
           b == Cardinality(Raws)
<1>1. C # {} /\ C \subseteq DOMAIN g /\ DOMAIN g \subseteq Nat
  BY BundleShape
<1>2. b \in Nat /\ \A i \in DOMAIN g : Votes(g, id, i) \in Nat /\ Cardinality(g[i]) \in Nat
                                      /\ Votes(g, id, i) <= b /\ Cardinality(g[i]) <= b
  <2>1. \A i \in DOMAIN g : g[i] \subseteq Raws
    BY BundleShape
  <2>2. b \in Nat /\ \A i \in DOMAIN g : Cardinality(g[i]) <= b
    BY <2>1, RawsAreFinite, FS_Subset, FS_CardinalityType
  <2>3. \A i \in DOMAIN g : Votes(g, id, i) \in Nat /\ Cardinality(g[i]) \in Nat /\ Votes(g, id, i) <= Cardinality(g[i])
    BY VotesBounded
  <2> HIDE DEF b
  <2> QED
    BY <2>2, <2>3
<1>3. V \in [C -> Nat] /\ N \in [C -> Nat] /\ \A i \in C : V[i] <= b /\ N[i] <= b
  BY <1>2
<1>4. PICK v \in C : \A j \in C : V[j] <= V[v]
  <2> HIDE DEF C, V, N, b
  <2> QED
    BY <1>1, <1>2, <1>3, Greatest
<1> DEFINE D == {i \in C : V[i] = V[v]}
<1>5. PICK m \in D : \A j \in D : N[j] <= N[m]
  <2> DEFINE M == [i \in D |-> N[i]]
  <2>1. D # {} /\ M \in [D -> Nat] /\ \A i \in D : M[i] <= b
    BY <1>3
  <2> HIDE DEF C, V, N, b, D, M
  <2>2. PICK m \in D : \A j \in D : M[j] <= M[m]
    BY <1>2, <2>1, Greatest
  <2> QED
    BY <2>2 DEF M
<1> DEFINE F == {i \in D : N[i] = N[m]}
<1>6. PICK i \in F : \A j \in F : i <= j
  <2>1. F \in SUBSET Nat /\ F # {}
    BY <1>1
  <2> HIDE DEF F
  <2> QED
    BY <2>1, LeastNatural
<1>7. i \in C /\ V[i] = V[v] /\ N[i] = N[m] /\ \A j \in C : V[j] <= V[i]
  BY <1>4, <1>6
<1>8. ASSUME NEW j \in DOMAIN g \ {i}, id \in Claims(g, j)
      PROVE  IF j < i THEN Stronger(g, id, i, j) ELSE ~Stronger(g, id, j, i)
  <2>1. j \in C /\ V[j] <= V[i] /\ V[j] \in Nat /\ V[i] \in Nat /\ N[j] \in Nat /\ N[i] \in Nat /\ i \in Nat /\ j \in Nat
    BY <1>1, <1>3, <1>7, <1>8
  <2>2. V[j] = V[i] => N[j] <= N[i] /\ (N[j] = N[i] => i <= j)
    <3> SUFFICES ASSUME V[j] = V[i] PROVE N[j] <= N[i] /\ (N[j] = N[i] => i <= j)
      OBVIOUS
    <3>1. j \in D
      BY <1>7, <2>1
    <3>2. N[j] <= N[i] /\ (N[j] = N[i] => j \in F)
      BY <1>5, <1>7, <3>1
    <3> QED
      BY <1>6, <3>2
  <2>3. Stronger(g, id, i, j) <=> V[i] > V[j] \/ (V[i] = V[j] /\ N[i] > N[j])
    BY <1>7, <2>1 DEF Stronger
  <2>4. Stronger(g, id, j, i) <=> V[j] > V[i] \/ (V[j] = V[i] /\ N[j] > N[i])
    BY <1>7, <2>1 DEF Stronger
  <2> HIDE DEF C, V, N, D, F
  <2> QED
    BY <2>1, <2>2, <2>3, <2>4
<1>9. /\ Owner(g, id) \in DOMAIN g /\ id \in Claims(g, Owner(g, id))
      /\ \A j \in DOMAIN g \ {Owner(g, id)} :
           id \in Claims(g, j) => IF j < Owner(g, id) THEN Stronger(g, id, Owner(g, id), j)
                                  ELSE ~Stronger(g, id, j, Owner(g, id))
  <2>1. i \in DOMAIN g /\ id \in Claims(g, i)
    BY <1>7
  <2> HIDE DEF C, V, N, D, F
  <2> QED
    BY <1>8, <2>1 DEF Owner
<1> HIDE DEF C, V, N, D, F
<1>10. ASSUME NEW j \in DOMAIN g PROVE Votes(g, id, Owner(g, id)) >= Votes(g, id, j)
  <2>1. Votes(g, id, Owner(g, id)) \in Nat /\ Votes(g, id, j) \in Nat
    BY <1>2, <1>9
  <2>2. CASE id \notin Claims(g, j)
    <3>1. {r \in g[j] : id \in cards[r]} = {}
      BY <2>2 DEF Claims
    <3>2. Votes(g, id, j) = 0
      BY <3>1, FS_EmptySet DEF Votes
    <3> QED
      BY <2>1, <3>2
  <2>3. CASE id \in Claims(g, j) /\ j # Owner(g, id)
    BY <1>9, <2>1, <2>3 DEF Stronger
  <2>4. CASE j = Owner(g, id)
    BY <2>1, <2>4
  <2> QED
    BY <2>2, <2>3, <2>4
<1> QED
  BY <1>9, <1>10

(* A group either inherits a card one of its members is on, or none.       *)
LEMMA InheritedCard ==
  ASSUME NEW g \in Bundles, NEW i \in DOMAIN g, NEW recluster \in BOOLEAN,
         cards \in [Raws -> SUBSET Cards]
  PROVE  \/ Inherited(g, recluster)[i] = NoCard
         \/ /\ Inherited(g, recluster)[i] \in Claims(g, i)
            /\ Inherited(g, recluster)[i] \in Cards
            /\ recluster => Owner(g, Inherited(g, recluster)[i]) = i
<1>1. Inherited(g, recluster)[i] = Best(g, i, recluster)
  BY DEF Inherited
<1>2. CASE Eligible(g, i, recluster) = {}
  BY <1>1, <1>2 DEF Best
<1>3. CASE Eligible(g, i, recluster) # {}
  <2>1. Best(g, i, recluster) \in Eligible(g, i, recluster)
    BY <1>3, BestIsEligible
  <2>2. Claims(g, i) \subseteq Cards
    BY BundleShape DEF Claims
  <2> QED
    BY <1>1, <2>1, <2>2 DEF Eligible
<1> QED
  BY <1>2, <1>3

-----------------------------------------------------------------------------
(* The refusals.                                                           *)

Conflicts == {"canonical_merge_conflict", "canonical_split_conflict"}

(* An accepted bundle passed the loop at every one of its groups.          *)
LEMMA AcceptedEverywhere ==
  ASSUME NEW g \in Bundles, NEW best, NEW recluster,
         Refusal(g, 0, best, recluster) = "",
         NEW i \in DOMAIN g
  PROVE  GroupRefusal(g, i, best, recluster) = ""
<1> DEFINE refused == {k \in DOMAIN g : k = 0 \/ GroupRefusal(g, k, best, recluster) # ""}
           first == CHOOSE k \in refused : \A j \in refused : k <= j
<1>1. DOMAIN g \subseteq Nat \ {0}
  BY BundleShape
<1>2. refused = {}
  <2>1. SUFFICES ASSUME refused # {} PROVE FALSE
    OBVIOUS
  <2>2. refused \in SUBSET Nat
    BY <1>1
  <2>3. \E k \in refused : \A j \in refused : k <= j
    <3> HIDE DEF refused
    <3> QED
      BY <2>1, <2>2, LeastNatural
  <2>4. first \in refused
    <3> HIDE DEF refused
    <3> QED
      BY <2>3
  <2>5. first # 0 /\ GroupRefusal(g, first, best, recluster) # ""
    <3>1. first \in DOMAIN g /\ (first = 0 \/ GroupRefusal(g, first, best, recluster) # "")
      <4> HIDE DEF first
      <4> QED
        BY <2>4
    <3> HIDE DEF first
    <3> QED
      BY <3>1, <1>1
  <2>6. Refusal(g, 0, best, recluster) \in {"store_counts", GroupRefusal(g, first, best, recluster)}
    BY <2>1, <2>5 DEF Refusal
  <2> QED
    BY <2>5, <2>6
<1> QED
  BY <1>2

(* In -recluster mode only the owner of a card inherits it, so that no two *)
(* groups do and neither conflict is ever reported.                        *)
LEMMA ReclusterAccepts ==
  ASSUME NEW g \in Bundles, NEW i \in DOMAIN g, cards \in [Raws -> SUBSET Cards]
  PROVE  GroupRefusal(g, i, Inherited(g, TRUE), TRUE) = ""
<1> DEFINE best == Inherited(g, TRUE)
<1>1. ASSUME NEW j \in DOMAIN g, j < i, best[j] = best[i], best[i] # NoCard
      PROVE  FALSE
  <2>1. Owner(g, best[i]) = i
    BY <1>1, InheritedCard
  <2>2. Owner(g, best[j]) = j
    BY <1>1, InheritedCard
  <2>3. i = j
    BY <2>1, <2>2, <1>1
  <2>4. i \in Nat
    BY BundleShape
  <2> QED
    BY <2>3, <2>4, <1>1
<1> QED
  BY <1>1 DEF GroupRefusal

(* What Refusal may answer; in -recluster mode never a conflict.           *)
LEMMA RefusalCodes ==
  ASSUME NEW g \in Bundles, NEW unknown \in DOMAIN g \cup {0}, NEW recluster \in BOOLEAN,
         cards \in [Raws -> SUBSET Cards]
  PROVE  /\ Refusal(g, unknown, Inherited(g, recluster), recluster)
              \in {"", "store_counts", "unknown_canonical_category"} \cup Conflicts
         /\ recluster => Refusal(g, unknown, Inherited(g, recluster), recluster) \notin Conflicts
<1> DEFINE best == Inherited(g, recluster)
           refused == {k \in DOMAIN g : k = unknown \/ GroupRefusal(g, k, best, recluster) # ""}
           first == CHOOSE k \in refused : \A j \in refused : k <= j
           code == GroupRefusal(g, first, best, recluster)
<1>1. Refusal(g, unknown, best, recluster) \in {"store_counts", "", "unknown_canonical_category"}
        \/ (Refusal(g, unknown, best, recluster) = code /\ refused # {})
  BY DEF Refusal
<1>2. code \in {""} \cup Conflicts
  BY DEF GroupRefusal, Conflicts
<1>3. ASSUME refused # {} PROVE first \in DOMAIN g
  <2>1. refused \in SUBSET Nat
    BY BundleShape
  <2>2. \E k \in refused : \A j \in refused : k <= j
    <3> HIDE DEF refused
    <3> QED
      BY <1>3, <2>1, LeastNatural
  <2>3. first \in refused
    <3> HIDE DEF refused
    <3> QED
      BY <2>2
  <2> HIDE DEF first
  <2> QED
    BY <2>3
<1>4. ASSUME recluster, refused # {} PROVE code = ""
  <2>1. first \in DOMAIN g
    BY <1>3, <1>4
  <2>2. recluster = TRUE
    BY <1>4
  <2> HIDE DEF first
  <2> QED
    BY <2>1, <2>2, ReclusterAccepts
<1> HIDE DEF refused, code
<1> QED
  BY <1>1, <1>2, <1>4 DEF Conflicts

-----------------------------------------------------------------------------
(* The state.                                                              *)

(* The inductive invariant: besides its type, every mapped card is a row   *)
(* of canonical_products (so that a fresh id is on no raw product), and    *)
(* the published snapshot, in which no store is missing, maps each group   *)
(* to one card of its own.                                                 *)
CardsIssued == \A r \in Raws : cards[r] \subseteq issued

OwnCards(g) == {card \in [DOMAIN g -> Cards] : \A i, j \in DOMAIN g : i # j => card[i] # card[j]}

AsPublished ==
  groups # <<>> =>
    /\ \E card \in OwnCards(groups) : cards = Recorded(groups, card)
    /\ \A s \in Stores : Count(Listed(groups), s) > 0

IInv == TypeOK /\ CardsIssued /\ OneCardPerGroup /\ ReclusterNeverConflicts /\ AsPublished

(* An empty or an imported database satisfies the invariant.               *)
LEMMA InitEstablishes == Init => IInv
<1> SUFFICES ASSUME Init PROVE IInv
  OBVIOUS
<1>1. cards \in [Raws -> SUBSET Cards]
  BY LegacyCards DEF Init
<1>2. issued = UNION {cards[r] : r \in Raws}
  BY DEF Init
<1>3. issued \subseteq Cards
  BY <1>1, <1>2
<1>4. CardsIssued
  BY <1>2 DEF CardsIssued
<1> QED
  BY <1>1, <1>3, <1>4 DEF Init, IInv, TypeOK, OneCardPerGroup, ReclusterNeverConflicts, AsPublished

(* A refused run changes nothing that the invariant speaks of.             *)
LEMMA RefusePreserves ==
  ASSUME IInv, NEW g \in Bundles, NEW recluster \in BOOLEAN, NEW unknown \in DOMAIN g \cup {0},
         Refuse(g, unknown, Inherited(g, recluster), recluster)
  PROVE  IInv'
<1>1. cards \in [Raws -> SUBSET Cards]
  BY DEF IInv, TypeOK
<1>2. /\ Refusal(g, unknown, Inherited(g, recluster), recluster)
           \in {"", "store_counts", "unknown_canonical_category"} \cup Conflicts
      /\ recluster => Refusal(g, unknown, Inherited(g, recluster), recluster) \notin Conflicts
  BY <1>1, RefusalCodes
<1>3. AsPublished'
  BY DEF Refuse, IInv, AsPublished
<1> QED
  BY <1>2, <1>3 DEF Refuse, IInv, TypeOK, CardsIssued, OneCardPerGroup, ReclusterNeverConflicts, Conflicts

(* One publication, with the cards that its groups get.                    *)
LEMMA PublishedCards ==
  ASSUME IInv, NEW g \in Bundles, NEW recluster \in BOOLEAN,
         Publish(g, Inherited(g, recluster), recluster)
  PROVE  \E card \in [DOMAIN g -> Cards] :
           /\ cards' = Recorded(g, card)
           /\ issued' = issued \cup {card[i] : i \in DOMAIN g}
           /\ \A i, j \in DOMAIN g : i # j => card[i] # card[j]
           /\ \A i \in DOMAIN g : Inherited(g, recluster)[i] # NoCard
                                   => card[i] = Inherited(g, recluster)[i]
<1> DEFINE best == Inherited(g, recluster)
<1>1. cards \in [Raws -> SUBSET Cards] /\ CardsIssued
  BY DEF IInv, TypeOK
<1>2. PICK fresh \in NewCards(best) :
        /\ cards' = Recorded(g, [i \in DOMAIN g |-> IF best[i] # NoCard THEN best[i] ELSE fresh[i]])
        /\ issued' = issued \cup {[k \in DOMAIN g |-> IF best[k] # NoCard THEN best[k] ELSE fresh[k]][i]
                                    : i \in DOMAIN g}
  BY DEF Publish
<1> DEFINE card == [i \in DOMAIN g |-> IF best[i] # NoCard THEN best[i] ELSE fresh[i]]
<1>3. DOMAIN best = DOMAIN g
  BY DEF Inherited
<1>4. \A i \in DOMAIN g : best[i] # NoCard => best[i] \in Cards /\ best[i] \in issued
  <2> SUFFICES ASSUME NEW i \in DOMAIN g, best[i] # NoCard
               PROVE  best[i] \in Cards /\ best[i] \in issued
    OBVIOUS
  <2>1. best[i] \in Claims(g, i) /\ best[i] \in Cards
    BY <1>1, InheritedCard
  <2>2. g[i] \subseteq Raws
    BY BundleShape
  <2> QED
    BY <2>1, <2>2, <1>1 DEF Claims, CardsIssued
<1>5. \A i \in DOMAIN g : best[i] = NoCard => fresh[i] \in Cards \ issued
  BY <1>3 DEF NewCards, Orphans
<1>6. \A i, j \in DOMAIN g : best[i] = NoCard /\ best[j] = NoCard /\ i # j => fresh[i] # fresh[j]
  BY <1>3 DEF NewCards, Orphans
<1>7. \A i, j \in DOMAIN g : best[i] # NoCard /\ i # j => best[i] # best[j]
  <2>1. ASSUME NEW i \in DOMAIN g, NEW j \in DOMAIN g, j < i, best[i] # NoCard
        PROVE  best[i] # best[j]
    <3>1. GroupRefusal(g, i, best, recluster) = ""
      BY AcceptedEverywhere DEF Publish
    <3> HIDE DEF best
    <3> QED
      BY <3>1, <2>1 DEF GroupRefusal
  <2>2. DOMAIN g \subseteq Nat
    BY BundleShape
  <2> HIDE DEF best
  <2> QED
    BY <2>1, <2>2
<1> HIDE DEF best
<1>8. card \in [DOMAIN g -> Cards]
  BY <1>4, <1>5
<1>9. \A i, j \in DOMAIN g : i # j => card[i] # card[j]
  BY <1>4, <1>5, <1>6, <1>7
<1>10. \A i \in DOMAIN g : best[i] # NoCard => card[i] = best[i]
  OBVIOUS
<1> QED
  BY <1>2, <1>8, <1>9, <1>10 DEF best

(* The mapping written for one group.                                      *)
LEMMA RecordedGroup ==
  ASSUME NEW g \in Bundles, NEW card \in [DOMAIN g -> Cards],
         NEW i \in DOMAIN g, NEW r \in g[i]
  PROVE  r \in Raws /\ Recorded(g, card)[r] = {card[i]}
<1>1. r \in Raws
  BY BundleShape
<1>2. {j \in DOMAIN g : r \in g[j]} = {i}
  BY BundleShape
<1> QED
  BY <1>1, <1>2 DEF Recorded

(* A publication re-establishes the invariant for its own groups.          *)
LEMMA PublishPreserves ==
  ASSUME IInv, NEW g \in Bundles, NEW recluster \in BOOLEAN,
         Publish(g, Inherited(g, recluster), recluster)
  PROVE  IInv'
<1>1. PICK card \in [DOMAIN g -> Cards] :
        /\ cards' = Recorded(g, card)
        /\ issued' = issued \cup {card[i] : i \in DOMAIN g}
        /\ \A i, j \in DOMAIN g : i # j => card[i] # card[j]
  BY PublishedCards
<1>2. groups' = g /\ report' = [recluster |-> recluster, failureCode |-> ""]
  BY DEF Publish
<1>3. TypeOK'
  <2>1. cards' \in [Raws -> SUBSET Cards]
    BY <1>1 DEF Recorded
  <2>2. issued' \subseteq Cards
    BY <1>1 DEF IInv, TypeOK
  <2> QED
    BY <2>1, <2>2, <1>2 DEF TypeOK
<1>4. CardsIssued'
  BY <1>1 DEF CardsIssued, Recorded
<1>5. OneCardPerGroup'
  <2>1. ASSUME NEW i \in DOMAIN g, NEW r \in g[i] PROVE cards'[r] = {card[i]}
    BY <1>1, RecordedGroup
  <2>2. \A i \in DOMAIN g : \A r, q \in g[i] : cards'[r] = cards'[q]
    BY <2>1
  <2>3. \A i, j \in DOMAIN g : i # j => \A r \in g[i], q \in g[j] : cards'[r] \cap cards'[q] = {}
    BY <2>1, <1>1
  <2>4. MappedAs(g, cards')
    BY <2>2, <2>3 DEF MappedAs
  <2> QED
    BY <2>4, <1>2 DEF OneCardPerGroup
<1>6. ReclusterNeverConflicts'
  BY <1>2 DEF ReclusterNeverConflicts
<1>7. AsPublished'
  <2>1. card \in OwnCards(g) /\ cards' = Recorded(g, card)
    BY <1>1 DEF OwnCards
  <2>2. CountsAccepted(g)
    BY DEF Publish, Refusal
  <2>3. \A s \in Stores : Count(Listed(g), s) > 0
    BY <2>2 DEF CountsAccepted
  <2> QED
    BY <1>2, <2>1, <2>3 DEF AsPublished
<1> QED
  BY <1>3, <1>4, <1>5, <1>6, <1>7 DEF IInv

(* Every run preserves the invariant.                                      *)
LEMMA NextPreserves == IInv /\ [Next]_vars => IInv'
<1>1. ASSUME IInv, Next PROVE IInv'
  <2>1. PICK g \in Bundles, recluster \in BOOLEAN :
          \/ Publish(g, Inherited(g, recluster), recluster)
          \/ \E unknown \in DOMAIN g \cup {0} : Refuse(g, unknown, Inherited(g, recluster), recluster)
    BY <1>1 DEF Next
  <2> QED
    BY <2>1, <1>1, PublishPreserves, RefusePreserves
<1>2. ASSUME IInv, UNCHANGED vars PROVE IInv'
  <2>1. AsPublished'
    BY <1>2 DEF vars, IInv, AsPublished
  <2> QED
    BY <1>2, <2>1 DEF vars, IInv, TypeOK, CardsIssued, OneCardPerGroup, ReclusterNeverConflicts
<1> QED
  BY <1>1, <1>2

(* The baseline that runs hand over to each other stays well-formed.       *)
THEOREM Inductive == Spec => []IInv
  BY InitEstablishes, NextPreserves, PTL DEF Spec

(* Type correctness: the baseline that a run reads back maps raw products  *)
(* to real cards and its last refusal is one of the documented codes.      *)
THEOREM TypeCorrect == Spec => []TypeOK
<1>1. IInv => TypeOK
  BY DEF IInv
<1> QED
  BY <1>1, Inductive, PTL

(* publish() maps raw products to cards exactly as the matcher grouped     *)
(* them, whatever was merged or split before.                              *)
THEOREM OneCard == Spec => []OneCardPerGroup
<1>1. IInv => OneCardPerGroup
  BY DEF IInv
<1> QED
  BY <1>1, Inductive, PTL

(* resolve() with recluster never stops on a merge or split conflict.      *)
THEOREM ReclusterTotal == Spec => []ReclusterNeverConflicts
<1>1. IInv => ReclusterNeverConflicts
  BY DEF IInv
<1> QED
  BY <1>1, Inductive, PTL

(* resolve() in strict mode leaves every remaining raw product on its card.*)
THEOREM StrictStable == Spec => StrictKeepsCards
<1> DEFINE Kept == ~report'.recluster /\ report'.failureCode = ""
             => \A r \in Raws : cards[r] # {} /\ cards'[r] # {} => cards'[r] = cards[r]
<1>1. ASSUME IInv, Next PROVE Kept
  <2>1. PICK g \in Bundles, recluster \in BOOLEAN :
          \/ Publish(g, Inherited(g, recluster), recluster)
          \/ \E unknown \in DOMAIN g \cup {0} : Refuse(g, unknown, Inherited(g, recluster), recluster)
    BY <1>1 DEF Next
  <2>2. CASE \E unknown \in DOMAIN g \cup {0} : Refuse(g, unknown, Inherited(g, recluster), recluster)
    BY <2>2 DEF Refuse
  <2>3. CASE Publish(g, Inherited(g, recluster), recluster)
    <3>1. PICK card \in [DOMAIN g -> Cards] :
            /\ cards' = Recorded(g, card)
            /\ \A i \in DOMAIN g : Inherited(g, recluster)[i] # NoCard
                                    => card[i] = Inherited(g, recluster)[i]
      BY <2>3, <1>1, PublishedCards
    <3>2. SUFFICES ASSUME recluster = FALSE, NEW r \in Raws, cards[r] # {}, cards'[r] # {}
                   PROVE  cards'[r] = cards[r]
      BY <2>3 DEF Publish
    <3>3. PICK i \in DOMAIN g : r \in g[i]
      BY <3>1, <3>2 DEF Recorded
    <3>4. cards'[r] = {card[i]}
      BY <3>1, <3>3, RecordedGroup
    <3>5. \A id, other \in Claims(g, i) : id = other
      <4>1. GroupRefusal(g, i, Inherited(g, recluster), recluster) = ""
        BY <2>3, AcceptedEverywhere DEF Publish
      <4> QED
        BY <4>1, <3>2 DEF GroupRefusal
    <3>6. cards[r] \subseteq Claims(g, i) /\ cards[r] \subseteq Cards
      BY <3>3, <1>1 DEF Claims, IInv, TypeOK
    <3>7. PICK id \in Claims(g, i) : cards[r] = {id}
      BY <3>2, <3>5, <3>6
    <3>8. Inherited(g, recluster)[i] = id
      <4>1. Eligible(g, i, recluster) = {id}
        BY <3>2, <3>5, <3>7 DEF Eligible
      <4>2. Best(g, i, recluster) \in Eligible(g, i, recluster)
        BY <4>1, <1>1, BestIsEligible DEF IInv, TypeOK
      <4> QED
        BY <4>1, <4>2 DEF Inherited
    <3>9. id # NoCard
      BY <3>6, <3>7, CardsAreNumbers DEF NoCard
    <3> QED
      BY <3>1, <3>4, <3>7, <3>8, <3>9
  <2> QED
    BY <2>1, <2>2, <2>3
<1>2. ASSUME UNCHANGED vars PROVE Kept
  BY <1>2 DEF vars
<1>3. IInv /\ [Next]_vars => [Kept]_vars
  BY <1>1, <1>2
<1> QED
  BY <1>3, Inductive, PTL DEF Spec, StrictKeepsCards

-----------------------------------------------------------------------------
(* What becomes of a card.                                                 *)

(* A snapshot resolved once more: every group finds the card it has.       *)
LEMMA FindsItsCards ==
  ASSUME NEW g \in Bundles, NEW card \in OwnCards(g), cards = Recorded(g, card), NEW i \in DOMAIN g
  PROVE  Claims(g, i) = {card[i]} /\ Inherited(g, FALSE)[i] = card[i]
<1>1. card \in [DOMAIN g -> Cards] /\ g[i] # {}
  BY BundleShape DEF OwnCards
<1>2. \A r \in g[i] : cards[r] = {card[i]}
  BY <1>1, RecordedGroup
<1>3. Claims(g, i) = {card[i]}
  BY <1>1, <1>2 DEF Claims
<1>4. Eligible(g, i, FALSE) = {card[i]}
  BY <1>3 DEF Eligible
<1>5. cards \in [Raws -> SUBSET Cards]
  BY <1>1 DEF Recorded
<1> QED
  BY <1>3, <1>4, <1>5, BestIsEligible DEF Inherited

LEMMA CountIsNatural == ASSUME NEW raws \in SUBSET Raws, NEW s PROVE Count(raws, s) \in Nat
<1>1. {r \in raws : StoreOf[r] = s} \subseteq Raws
  OBVIOUS
<1> QED
  BY <1>1, RawsAreFinite, FS_Subset, FS_CardinalityType DEF Count

LEMMA NothingToRefuse ==
  ASSUME IInv, groups # <<>>
  PROVE  RepublishingChangesNothing
<1>1. groups \in Bundles
  BY DEF IInv, TypeOK
<1>2. PICK card \in OwnCards(groups) : cards = Recorded(groups, card)
  BY DEF IInv, AsPublished
<1> DEFINE best == Inherited(groups, FALSE)
<1>3. \A i \in DOMAIN groups : Claims(groups, i) = {card[i]} /\ best[i] = card[i]
  BY <1>1, <1>2, FindsItsCards
<1>4. card \in [DOMAIN groups -> Cards] /\ \A i, j \in DOMAIN groups : i # j => card[i] # card[j]
  BY DEF OwnCards
<1> HIDE DEF best
<1>5. ASSUME NEW i \in DOMAIN groups PROVE GroupRefusal(groups, i, best, FALSE) = ""
  <2>1. ~\E id, other \in Claims(groups, i) : id # other
    BY <1>3
  <2>2. ~\E j \in DOMAIN groups : j < i /\ best[j] = best[i] /\ best[i] # NoCard
    <3>1. DOMAIN groups \subseteq Nat
      BY <1>1, BundleShape
    <3> QED
      BY <1>3, <1>4, <3>1
  <2> QED
    BY <2>1, <2>2 DEF GroupRefusal
<1>6. CountsAccepted(groups)
  <2>1. {r \in Raws : cards[r] # {}} = Listed(groups)
    <3>1. \A r \in Raws : cards[r] # {} <=> \E i \in DOMAIN groups : r \in groups[i]
      BY <1>2, <1>4 DEF Recorded
    <3>2. \A i \in DOMAIN groups : groups[i] \subseteq Raws
      BY <1>1, BundleShape
    <3> QED
      BY <3>1, <3>2 DEF Listed
  <2>2. Listed(groups) \in SUBSET Raws
    BY <2>1
  <2>3. ASSUME NEW s \in Stores
        PROVE  /\ Count(Listed(groups), s) > 0
               /\ ~(Count({r \in Raws : cards[r] # {}}, s) > Count(Listed(groups), s))
    <3>1. Count(Listed(groups), s) > 0 /\ Count(Listed(groups), s) \in Nat
      BY <2>2, CountIsNatural DEF IInv, AsPublished
    <3>2. ~(Count(Listed(groups), s) > Count(Listed(groups), s))
      BY <3>1
    <3> QED
      BY <2>1, <3>1, <3>2, Zenon
  <2> QED
    BY <2>3 DEF CountsAccepted
<1>7. Refusal(groups, 0, best, FALSE) = ""
  <2>1. {i \in DOMAIN groups : i = 0 \/ GroupRefusal(groups, i, best, FALSE) # ""} = {}
    <3>1. 0 \notin DOMAIN groups
      BY <1>1, BundleShape
    <3> QED
      BY <1>5, <3>1
  <2> QED
    BY <1>6, <2>1 DEF Refusal
<1>8. \A i \in DOMAIN groups : \A r \in groups[i] : cards[r] = {best[i]}
  BY <1>1, <1>2, <1>3, <1>4, RecordedGroup
<1> QED
  BY <1>7, <1>8 DEF best, RepublishingChangesNothing

(* The card with the most votes goes on, unless its owner takes another    *)
(* one that at least as many of its members had.                           *)
LEMMA BestHasMostVotes ==
  ASSUME NEW g \in Bundles, NEW i \in DOMAIN g, NEW recluster \in BOOLEAN,
         cards \in [Raws -> SUBSET Cards], NEW id \in Eligible(g, i, recluster)
  PROVE  /\ Best(g, i, recluster) \in Eligible(g, i, recluster)
         /\ Votes(g, Best(g, i, recluster), i) >= Votes(g, id, i)
<1> DEFINE b == Best(g, i, recluster)
<1>1. b \in Eligible(g, i, recluster)
  BY BestIsEligible
<1>2. \A other \in Eligible(g, i, recluster) \ {b} :
        \/ Votes(g, b, i) > Votes(g, other, i)
        \/ Votes(g, b, i) = Votes(g, other, i) /\ b < other
  BY BestIsEligible
<1>3. Votes(g, b, i) \in Nat /\ Votes(g, id, i) \in Nat
  BY VotesBounded
<1> HIDE DEF b
<1> QED
  BY <1>1, <1>2, <1>3 DEF b

LEMMA OldCardsGoOn ==
  ASSUME IInv, NEW g \in Bundles, NEW recluster \in BOOLEAN, Publish(g, Inherited(g, recluster), recluster),
         NEW id \in UNION {cards[r] : r \in Listed(g)}, \A r \in Raws : id \notin cards'[r]
  PROVE  \E i \in DOMAIN g :
           /\ \A j \in DOMAIN g : Votes(g, id, i) >= Votes(g, id, j)
           /\ \E other \in UNION {cards'[r] : r \in g[i]} :
                other \in Claims(g, i) /\ Votes(g, other, i) >= Votes(g, id, i)
<1>1. cards \in [Raws -> SUBSET Cards]
  BY DEF IInv, TypeOK
<1>2. PICK card \in [DOMAIN g -> Cards] :
        /\ cards' = Recorded(g, card)
        /\ \A i \in DOMAIN g : Inherited(g, recluster)[i] # NoCard => card[i] = Inherited(g, recluster)[i]
  BY PublishedCards
<1>3. PICK k \in DOMAIN g : id \in Claims(g, k)
  BY DEF Listed, Claims
(* A group that may keep id and takes another card has as many votes for it. *)
<1>4. ASSUME NEW i \in DOMAIN g, id \in Eligible(g, i, recluster)
      PROVE  \E other \in UNION {cards'[r] : r \in g[i]} :
                other \in Claims(g, i) /\ Votes(g, other, i) >= Votes(g, id, i)
  <2> DEFINE b == Best(g, i, recluster)
  <2>1. b \in Eligible(g, i, recluster) /\ Votes(g, b, i) >= Votes(g, id, i)
    BY <1>1, <1>4, BestHasMostVotes
  <2>2. b \in Claims(g, i) /\ b \in Cards
    BY <1>1, <2>1, BundleShape DEF Eligible, Claims
  <2>3. card[i] = b
    <3>1. b # NoCard /\ Inherited(g, recluster)[i] = b
      BY <2>2, CardsAreNumbers DEF NoCard, Inherited
    <3> QED
      BY <1>2, <3>1
  <2>4. PICK r \in g[i] : TRUE
    BY BundleShape
  <2>5. cards'[r] = {b}
    BY <1>2, <2>3, RecordedGroup
  <2> HIDE DEF b
  <2> QED
    BY <2>1, <2>2, <2>4, <2>5
<1>5. CASE recluster
  <2> DEFINE i == Owner(g, id)
  <2>1. i \in DOMAIN g /\ id \in Claims(g, i) /\ \A j \in DOMAIN g : Votes(g, id, i) >= Votes(g, id, j)
    BY <1>3, OwnerHasMostVotes
  <2>2. id \in Eligible(g, i, recluster)
    BY <2>1 DEF Eligible
  <2> HIDE DEF i
  <2> QED
    BY <1>4, <2>1, <2>2
(* In strict mode a group has one card, and keeps it. *)
<1>6. CASE ~recluster
  <2>1. id \in Eligible(g, k, recluster) /\ Claims(g, k) = {id}
    <3>1. GroupRefusal(g, k, Inherited(g, recluster), recluster) = ""
      BY AcceptedEverywhere DEF Publish
    <3>2. ~\E a, other \in Claims(g, k) : a # other
      BY <1>6, <3>1 DEF GroupRefusal
    <3> QED
      BY <1>3, <1>6, <3>2 DEF Eligible
  <2>2. PICK other \in UNION {cards'[r] : r \in g[k]} : other \in Claims(g, k)
    BY <1>4, <2>1
  <2>3. other = id /\ \A r \in g[k] : r \in Raws
    BY <2>1, <2>2, BundleShape
  <2> QED
    BY <2>2, <2>3
<1> QED
  BY <1>5, <1>6

(* plan.go:101, for every catalogue, every supply of ids and every sequence *)
(* of runs: in strict mode a raw product stays on its card; -recluster gives *)
(* a card up only where a merge makes it; and a catalogue that has not      *)
(* changed is published again without a new card.                           *)
THEOREM CardsOutliveRuns == Spec => CardsAreStable
<1> DEFINE Merged ==
      report'.failureCode = "" =>
        \A id \in UNION {cards[r] : r \in Listed(groups')} :
          \/ \E r \in Raws : id \in cards'[r]
          \/ \E i \in DOMAIN groups' :
               /\ \A j \in DOMAIN groups' : Votes(groups', id, i) >= Votes(groups', id, j)
               /\ \E other \in UNION {cards'[r] : r \in groups'[i]} :
                    other \in Claims(groups', i) /\ Votes(groups', other, i) >= Votes(groups', id, i)
<1>1. ASSUME IInv, Next PROVE Merged
  <2>1. PICK g \in Bundles, recluster \in BOOLEAN :
          \/ Publish(g, Inherited(g, recluster), recluster)
          \/ \E unknown \in DOMAIN g \cup {0} : Refuse(g, unknown, Inherited(g, recluster), recluster)
    BY <1>1 DEF Next
  <2>2. CASE \E unknown \in DOMAIN g \cup {0} : Refuse(g, unknown, Inherited(g, recluster), recluster)
    <3>1. PICK unknown \in DOMAIN g \cup {0} : Refuse(g, unknown, Inherited(g, recluster), recluster)
      BY <2>2
    <3> DEFINE code == Refusal(g, unknown, Inherited(g, recluster), recluster)
    <3>2. code # "" /\ report' = [recluster |-> recluster, failureCode |-> code]
      BY <3>1 DEF Refuse
    <3> HIDE DEF code
    <3>3. report'.failureCode # ""
      BY <3>2
    <3> QED
      BY <3>3
  <2>3. CASE Publish(g, Inherited(g, recluster), recluster)
    <3>1. groups' = g
      BY <2>3 DEF Publish
    <3> QED
      BY <1>1, <2>3, <3>1, OldCardsGoOn
  <2> QED
    BY <2>1, <2>2, <2>3
<1>2. IInv /\ [Next]_vars => [Merged]_vars
  <2> HIDE DEF Merged
  <2> QED
    BY <1>1
<1>3. Spec => CardsOnlyLostByMerge
  BY <1>2, Inductive, PTL DEF Spec, CardsOnlyLostByMerge
<1>4. IInv => RepublishingChangesNothing
  BY NothingToRefuse DEF RepublishingChangesNothing
<1> QED
  BY <1>3, <1>4, Inductive, StrictStable, PTL DEF CardsAreStable

-----------------------------------------------------------------------------
(* The agent.  Which prompts can be on disk follows from the replies: of a  *)
(* batch the whole is asked first, and then only what the reply left out.   *)

Said(c, q)  == IF c[q] = {"odd"} THEN {} ELSE c[q]
Named(c, b) == {p \in b : \E q \in DOMAIN c : p \in q /\ p \in Said(c, q)}
Rest(c, b)  == b \ Said(c, b)

Prompts(c) ==
  \A q \in DOMAIN c :
    /\ q # {} /\ (c[q] = {"odd"} \/ c[q] \subseteq q)
    /\ \E i \in DOMAIN Batches : q = Batches[i] \/ (Batches[i] \in DOMAIN c /\ q = Rest(c, Batches[i]))

Batch  == Batches[batch]
AtWork == batch <= Len(Batches)

Clock == now \in Int /\ lastStart \in Int /\ batch \in 1 .. Len(Batches) + 1 /\ attempt \in 0 .. 2

Asking ==
  /\ DOMAIN call = {"keys", "retry", "asked"}
  /\ Calling => AtWork /\ attempt < 2 /\ call.asked = Pending /\ call.asked \notin DOMAIN cache

\* What is done in a batch is what the prompts of the attempts are known for.
Progress ==
  /\ attempt = 0 \/ ~AtWork => done = {}
  /\ ~AtWork => attempt = 0
  /\ AtWork /\ attempt = 1 => done = IF Batch \in DOMAIN cache THEN Said(cache, Batch) ELSE {}
  /\ AtWork /\ attempt = 2 => done = Named(cache, Batch)

Outcome ==
  /\ DOMAIN output = UNION {Batches[b] : b \in 1 .. batch - 1}
  /\ \A b \in 1 .. batch - 1 : \A p \in Batches[b] :
       (output[p] = "classified") <=> p \in Named(cache, Batches[b])

AInv == Clock /\ Prompts(cache) /\ Asking /\ Progress /\ Outcome

\* Of a batch nothing is on disk but itself and, after it, what it left out.
LEMMA PromptsOfABatch ==
  ASSUME NEW c, Prompts(c), NEW i \in DOMAIN Batches, NEW q \in DOMAIN c, q \cap Batches[i] # {}
  PROVE  q = Batches[i] \/ (Batches[i] \in DOMAIN c /\ q = Rest(c, Batches[i]))
<1>1. PICK j \in DOMAIN Batches : q = Batches[j] \/ (Batches[j] \in DOMAIN c /\ q = Rest(c, Batches[j]))
  BY DEF Prompts
<1>2. q \subseteq Batches[j]
  BY <1>1 DEF Rest
<1>3. j = i
  BY <1>2, BatchesAreApart
<1> QED
  BY <1>1, <1>3

LEMMA SaidIsAsked ==
  ASSUME NEW c, Prompts(c), NEW q \in DOMAIN c
  PROVE  Said(c, q) \subseteq q
  BY DEF Prompts, Said

\* So what is known of a batch comes from two prompts at most.
LEMMA NamedIsSaid ==
  ASSUME NEW c, Prompts(c), NEW i \in DOMAIN Batches
  PROVE  /\ Batches[i] \notin DOMAIN c => Named(c, Batches[i]) = {}
         /\ Batches[i] \in DOMAIN c /\ Rest(c, Batches[i]) \notin DOMAIN c =>
              Named(c, Batches[i]) = Said(c, Batches[i])
         /\ Batches[i] \in DOMAIN c /\ Rest(c, Batches[i]) \in DOMAIN c =>
              Named(c, Batches[i]) = Said(c, Batches[i]) \cup Said(c, Rest(c, Batches[i]))
<1>1. ASSUME NEW p \in Named(c, Batches[i])
      PROVE  /\ Batches[i] \in DOMAIN c
             /\ p \in Said(c, Batches[i]) \/ (Rest(c, Batches[i]) \in DOMAIN c /\ p \in Said(c, Rest(c, Batches[i])))
  <2>1. PICK q \in DOMAIN c : p \in q /\ p \in Said(c, q) /\ p \in Batches[i]
    BY DEF Named
  <2> QED
    BY <2>1, PromptsOfABatch
<1>2. Batches[i] \in DOMAIN c => Said(c, Batches[i]) \subseteq Named(c, Batches[i])
  BY SaidIsAsked DEF Named
<1>3. Rest(c, Batches[i]) \in DOMAIN c => Said(c, Rest(c, Batches[i])) \subseteq Named(c, Batches[i])
  BY SaidIsAsked DEF Named, Rest
<1> QED
  BY <1>1, <1>2, <1>3

LEMMA AgentStarts == AgentInit => AInv
<1> SUFFICES ASSUME AgentInit PROVE AInv
  OBVIOUS
<1>1. Len(Batches) \in Nat
  BY BatchesAreApart
<1>2. Clock
  BY <1>1, PausesAreNumbers DEF AgentInit, Clock
<1>3. DOMAIN cache = {} /\ DOMAIN output = {} /\ done = {} /\ attempt = 0 /\ batch = 1
  BY DEF AgentInit
<1>4. Prompts(cache) /\ Progress
  BY <1>3 DEF Prompts, Progress
<1>5. Asking
  BY DEF AgentInit, Asking, Idle, Calling
<1>6. Outcome
  BY <1>3 DEF Outcome
<1> QED
  BY <1>2, <1>4, <1>5, <1>6 DEF AInv

LEMMA AtWorkOnABatch ==
  ASSUME AInv, AtWork
  PROVE  batch \in DOMAIN Batches /\ Batch = Batches[batch] /\ "odd" \notin Batch
  BY BatchesAreApart DEF AInv, Clock, AtWork, Batch

\* What is still to be asked for is the batch, or what its prompt left out.
LEMMA WhatIsPending ==
  ASSUME AInv, AtWork, attempt < 2
  PROVE  /\ attempt = 0 \/ Batch \notin DOMAIN cache => done = {} /\ Pending = Batch
         /\ attempt = 1 /\ Batch \in DOMAIN cache =>
              done = Said(cache, Batch) /\ Pending = Rest(cache, Batch)
  BY DEF AInv, Clock, Progress, Pending, Rest, Batch

\* An attempt is over: a reply that is now on disk has been counted.
LEMMA AnswerCounts ==
  ASSUME AInv, AtWork, attempt < 2, Pending # {}, NEW reply, Answered(reply), batch' = batch,
         Prompts(cache'), Pending \in DOMAIN cache', cache'[Pending] = reply,
         DOMAIN cache' = DOMAIN cache \cup {Pending}, \A q \in DOMAIN cache : cache'[q] = cache[q]
  PROVE  Progress'
<1>1. Taken(reply) = Said(cache', Pending)
  BY SaidIsAsked DEF Taken, Said
<1>2. done' = done \cup Said(cache', Pending) /\ attempt' = attempt + 1 /\ attempt \in 0 .. 1 /\ AtWork' /\ Batch' = Batch
  BY <1>1 DEF Answered, AInv, Clock, AtWork, Batch
<1>3. CASE attempt = 0
  BY <1>2, <1>3, WhatIsPending DEF Progress
<1>4. CASE attempt = 1 /\ Batch \in DOMAIN cache
  <2>1. Said(cache', Batch) = Said(cache, Batch) /\ Rest(cache', Batch) = Rest(cache, Batch)
    BY <1>4 DEF Said, Rest
  <2>2. done' = Named(cache', Batch)
    BY <1>2, <1>4, <2>1, WhatIsPending, NamedIsSaid, AtWorkOnABatch
  <2> QED
    BY <1>2, <1>4, <2>2 DEF Progress
<1>5. CASE attempt = 1 /\ Batch \notin DOMAIN cache
  <2>1. done' = Said(cache', Batch) /\ Batch \in DOMAIN cache' /\ Pending = Batch
    BY <1>2, <1>5, WhatIsPending
  <2>2. Rest(cache', Batch) \in DOMAIN cache' => Said(cache', Rest(cache', Batch)) \subseteq Said(cache', Batch)
    <3>1. ASSUME Rest(cache', Batch) \in DOMAIN cache PROVE FALSE
      <4>1. Rest(cache', Batch) # {} /\ Rest(cache', Batch) \subseteq Batch
        BY <3>1 DEF AInv, Prompts, Rest
      <4> QED
        BY <1>5, <3>1, <4>1, PromptsOfABatch, AtWorkOnABatch DEF AInv
    <3> QED
      BY <2>1, <3>1
  <2>3. done' = Named(cache', Batch)
    BY <2>1, <2>2, NamedIsSaid, AtWorkOnABatch, SMTT(30)
  <2> QED
    BY <1>2, <1>5, <2>3 DEF Progress
<1> QED
  BY <1>2, <1>3, <1>4, <1>5

\* What a new prompt of this batch is answered with says nothing of another.
LEMMA OutcomeStays ==
  ASSUME AInv, UNCHANGED <<output, batch>>,
         cache' = cache \/ (AtWork /\ call.asked \subseteq Batch /\ DOMAIN cache' = DOMAIN cache \cup {call.asked}),
         \A q \in DOMAIN cache : cache'[q] = cache[q]
  PROVE  Outcome'
<1>1. CASE cache' = cache
  BY <1>1 DEF AInv, Outcome
<1>2. CASE AtWork /\ call.asked \subseteq Batch /\ DOMAIN cache' = DOMAIN cache \cup {call.asked}
  <2>1. ASSUME NEW b \in 1 .. batch - 1 PROVE Named(cache', Batches[b]) = Named(cache, Batches[b])
    <3>1. b \in DOMAIN Batches /\ batch \in DOMAIN Batches /\ b # batch
      BY <1>2, BatchesAreApart DEF AInv, Clock, AtWork
    <3>2. Batches[b] \cap call.asked = {}
      BY <1>2, <3>1, BatchesAreApart DEF Batch
    <3> QED
      BY <1>2, <3>2 DEF Named, Said
  <2> QED
    BY <2>1 DEF AInv, Outcome
<1> QED
  BY <1>1, <1>2

LEMMA AskKeeps == ASSUME AInv, Ask PROVE AInv'
<1>1. AtWork /\ attempt < 2 /\ Pending # {} /\ ~Calling
      /\ UNCHANGED <<now, lastStart, cache, batch, output>>
  BY DEF Ask, AtWork
<1>2. Clock' /\ Prompts(cache')
  BY <1>1 DEF Ask, Answered, AInv, Clock
<1>3. Outcome'
  BY <1>1, OutcomeStays
<1>4. CASE Pending \in DOMAIN cache
  <2>1. Answered(cache[Pending])
    BY <1>4 DEF Ask
  <2>2. Progress'
    BY <1>1, <1>2, <1>4, <2>1, AnswerCounts
  <2>3. Asking'
    BY <2>1 DEF Answered, Asking, Idle, Calling
  <2> QED
    BY <1>2, <1>3, <2>2, <2>3 DEF AInv
<1>5. CASE Pending \notin DOMAIN cache
  <2>1. /\ DOMAIN call' = {"keys", "retry", "asked"} /\ call'.asked = Pending
        /\ UNCHANGED <<attempt, done>>
    BY <1>5 DEF Ask
  <2>2. Pending' = Pending
    BY <1>1, <2>1 DEF Pending
  <2>3. Asking'
    BY <1>1, <1>5, <2>1, <2>2 DEF Asking, AtWork
  <2>4. Progress'
    BY <1>1, <2>1 DEF AInv, Progress, AtWork, Batch
  <2> QED
    BY <1>2, <1>3, <2>3, <2>4 DEF AInv
<1> QED
  BY <1>4, <1>5

LEMMA StartedInTime ==
  ASSUME AInv
  PROVE  Started \in Int /\ Started - lastStart >= MinInterval
  BY PausesAreNumbers DEF AInv, Clock, Started

\* A request that is repeated or refused leaves the attempt where it was.
LEMMA TriesKeep ==
  ASSUME AInv, now' \in Int, lastStart' \in Int, DOMAIN call' = DOMAIN call, call'.asked = call.asked,
         UNCHANGED <<cache, run, batch, attempt, done, output>>
  PROVE  AInv'
<1>1. Clock' /\ Prompts(cache')
  BY DEF AInv, Clock
<1>2. Asking'
  BY DEF AInv, Asking, Calling, Pending, AtWork
<1>3. Progress'
  BY DEF AInv, Progress, AtWork, Batch
<1>4. Outcome'
  BY OutcomeStays
<1> QED
  BY <1>1, <1>2, <1>3, <1>4 DEF AInv

LEMMA BusyKeeps ==
  ASSUME AInv, NEW k \in 0 .. MaxRetries, Busy(Backoff * 2 ^ k)
  PROVE  AInv'
<1>1. Backoff * 2 ^ k \in Nat /\ Started \in Int
  BY PausesAreNumbers, StartedInTime
<1> DEFINE pause == Backoff * 2 ^ k
<1>2. pause \in Nat /\ Busy(pause)
  BY <1>1
<1> HIDE DEF pause
<1>3. now' \in Int /\ lastStart' \in Int
  BY <1>1, <1>2 DEF Busy
<1>4. call' = [call EXCEPT !.retry = @ + 1] \/ call' = NextKey
  BY <1>2 DEF Busy
<1>5. DOMAIN call' = DOMAIN call /\ call'.asked = call.asked
  BY <1>4 DEF NextKey, AInv, Asking
<1> QED
  BY <1>2, <1>3, <1>5, TriesKeep DEF Busy

LEMMA RefusedKeeps == ASSUME AInv, Refused PROVE AInv'
<1>1. now' \in Int /\ lastStart' \in Int
  BY StartedInTime DEF Refused
<1>2. DOMAIN call' = DOMAIN call /\ call'.asked = call.asked
  BY DEF Refused, NextKey, AInv, Asking
<1> QED
  BY <1>1, <1>2, TriesKeep DEF Refused

LEMMA RepliedKeeps ==
  ASSUME AInv, NEW r \in Replies, Replied(r)
  PROVE  AInv'
<1>1. /\ AtWork /\ attempt < 2 /\ call.asked = Pending /\ Pending # {} /\ Pending \notin DOMAIN cache
      /\ r = {"odd"} \/ r \subseteq Pending
  BY DEF Replied, Replies, AInv, Asking, Calling
<1>2. /\ DOMAIN cache' = DOMAIN cache \cup {Pending} /\ cache'[Pending] = r
      /\ \A q \in DOMAIN cache : cache'[q] = cache[q]
  BY <1>1 DEF Replied
<1>3. \A q \in DOMAIN cache : Said(cache', q) = Said(cache, q) /\ \A b : b = q => Rest(cache', b) = Rest(cache, b)
  BY <1>2 DEF Said, Rest
<1>4. Pending = Batch \/ (Batch \in DOMAIN cache /\ Pending = Rest(cache, Batch))
  BY <1>1, WhatIsPending DEF AInv, Clock
<1>5. Prompts(cache')
  <2>1. ASSUME NEW q \in DOMAIN cache
        PROVE  \E i \in DOMAIN Batches : q = Batches[i] \/ (Batches[i] \in DOMAIN cache' /\ q = Rest(cache', Batches[i]))
    BY <1>2, <1>3 DEF AInv, Prompts
  <2>2. \E i \in DOMAIN Batches :
          Pending = Batches[i] \/ (Batches[i] \in DOMAIN cache' /\ Pending = Rest(cache', Batches[i]))
    BY <1>1, <1>2, <1>3, <1>4, AtWorkOnABatch
  <2>3. \A q \in DOMAIN cache' : q # {} /\ (cache'[q] = {"odd"} \/ cache'[q] \subseteq q)
    BY <1>1, <1>2 DEF AInv, Prompts
  <2> QED
    BY <1>2, <2>1, <2>2, <2>3 DEF Prompts
<1>6. Answered(r) /\ UNCHANGED <<batch, output>>
  BY DEF Replied
<1>7. Progress'
  BY <1>1, <1>2, <1>5, <1>6, AnswerCounts
<1>8. Clock' /\ Asking'
  BY <1>1, <1>6, StartedInTime DEF Replied, Answered, AInv, Clock, Asking, Idle, Calling
<1>9. Outcome'
  BY <1>1, <1>2, <1>6, OutcomeStays DEF Pending, Batch
<1> QED
  BY <1>5, <1>7, <1>8, <1>9 DEF AInv

LEMMA OutOfKeysKeeps == ASSUME AInv, OutOfKeys PROVE AInv'
<1>1. /\ AtWork /\ attempt < 2 /\ Pending # {} /\ Pending \notin DOMAIN cache
      /\ attempt' = attempt + 1 /\ UNCHANGED <<now, lastStart, cache, batch, output>> /\ call' = Idle
  BY DEF OutOfKeys, Answered, AInv, Asking, Calling
<1>2. done' = done
  BY DEF OutOfKeys, Answered, Taken
<1>3. Clock' /\ Prompts(cache') /\ Asking'
  BY <1>1 DEF AInv, Clock, Asking, Idle, Calling
<1>4. Progress'
  <2>1. attempt \in 0 .. 1 /\ AtWork' /\ Batch' = Batch
    BY <1>1 DEF AInv, Clock, AtWork, Batch
  <2>2. CASE attempt = 0
    BY <1>1, <1>2, <2>1, <2>2, WhatIsPending DEF Progress
  <2>3. CASE attempt = 1
    <3>1. done = Named(cache, Batch)
      BY <1>1, <2>3, WhatIsPending, NamedIsSaid, AtWorkOnABatch DEF AInv
    <3> QED
      BY <1>1, <1>2, <2>1, <2>3, <3>1 DEF Progress
  <2> QED
    BY <2>1, <2>2, <2>3
<1>5. Outcome'
  BY <1>1, OutcomeStays
<1> QED
  BY <1>3, <1>4, <1>5 DEF AInv

LEMMA CloseBatchKeeps == ASSUME AInv, CloseBatch PROVE AInv'
<1>1. /\ AtWork /\ ~Calling /\ batch' = batch + 1 /\ attempt' = 0 /\ done' = {} /\ UNCHANGED <<now, lastStart, cache, call>>
      /\ batch \in DOMAIN Batches /\ batch \in Nat \ {0} /\ Len(Batches) \in Nat
  BY AtWorkOnABatch, BatchesAreApart DEF CloseBatch, AtWork, AInv, Clock
<1>2. Clock' /\ Prompts(cache') /\ Asking'
  BY <1>1 DEF AInv, Clock, Asking, Calling, AtWork
<1>3. Progress'
  BY <1>1 DEF Progress
<1>4. \A p \in Batch : p \in done <=> p \in Named(cache, Batch)
  <2>1. CASE attempt = 2
    BY <1>1, <2>1 DEF AInv, Progress
  <2>2. CASE attempt < 2 /\ Pending = {}
    <3>1. Batch \subseteq done
      BY <2>2 DEF Pending, Batch
    <3>2. CASE attempt = 1 /\ Batch \in DOMAIN cache
      BY <1>1, <2>2, <3>1, <3>2, WhatIsPending, NamedIsSaid, AtWorkOnABatch DEF AInv
    <3>3. CASE attempt = 0 \/ Batch \notin DOMAIN cache
      BY <1>1, <2>2, <3>1, <3>3, WhatIsPending
    <3> QED
      BY <2>2, <3>2, <3>3 DEF AInv, Clock
  <2> QED
    BY <2>1, <2>2 DEF CloseBatch, AInv, Clock
<1>5. Outcome'
  <2>1. DOMAIN output' = DOMAIN output \cup Batch
    BY DEF CloseBatch, Batch
  <2>2. DOMAIN output' = UNION {Batches[b] : b \in 1 .. batch' - 1}
    BY <1>1, <2>1 DEF AInv, Outcome, Batch
  <2>3. \A p \in Batch : output'[p] = "classified" <=> p \in Named(cache, Batch)
    BY <1>4 DEF CloseBatch, Batch
  <2>4. ASSUME NEW b \in 1 .. batch - 1, NEW p \in Batches[b]
        PROVE  output'[p] = "classified" <=> p \in Named(cache, Batches[b])
    <3>1. p \notin Batch /\ p \in DOMAIN output
      BY <1>1, BatchesAreApart DEF Batch, AInv, Outcome
    <3>2. output'[p] = output[p]
      BY <3>1 DEF CloseBatch, Batch
    <3> QED
      BY <3>2 DEF AInv, Outcome
  <2>5. ASSUME NEW b \in 1 .. batch' - 1 PROVE b \in 1 .. batch - 1 \/ (b = batch /\ Batches[b] = Batch)
    BY <1>1 DEF Batch
  <2> QED
    BY <1>1, <2>2, <2>3, <2>4, <2>5 DEF Outcome
<1> QED
  BY <1>2, <1>3, <1>5 DEF AInv

LEMMA RerunKeeps == ASSUME AInv, Rerun PROVE AInv'
<1>1. /\ ~AtWork /\ batch' = 1 /\ DOMAIN output' = {} /\ UNCHANGED <<cache, attempt, done, call>>
      /\ attempt = 0 /\ done = {} /\ ~Calling
  <2>1. ~AtWork
    BY BatchesAreApart DEF Rerun, AInv, Clock, AtWork
  <2> QED
    BY <2>1 DEF Rerun, AInv, Progress, Asking
<1>2. Clock'
  BY <1>1, BatchesAreApart, PausesAreNumbers DEF Rerun, AInv, Clock
<1>3. Asking' /\ Progress' /\ Outcome'
  BY <1>1 DEF AInv, Asking, Calling, Progress, Outcome
<1> QED
  BY <1>1, <1>2, <1>3 DEF AInv

LEMMA AgentInductive == AgentSpec => []AInv
<1>1. AInv /\ [AgentNext]_agentVars => AInv'
  <2> SUFFICES ASSUME AInv, [AgentNext]_agentVars PROVE AInv'
    OBVIOUS
  <2>1. CASE UNCHANGED agentVars
    BY <2>1, TriesKeep DEF agentVars, AInv, Clock
  <2> QED
    BY <2>1, AskKeeps, BusyKeeps, RefusedKeeps, RepliedKeeps, OutOfKeysKeeps, CloseBatchKeeps, RerunKeeps
       DEF AgentNext, AgentSteps
<1> QED
  BY <1>1, AgentStarts, PTL DEF AgentSpec

\* classify.ts:73 and :84, for any batches, keys and number of runs: a product
\* falls back exactly when no reply on disk to a prompt that asked for it names it.
THEOREM FallbacksAreUnanswered == AgentSpec => []FallbackOnlyWithoutAnswer
<1>1. AInv => FallbackOnlyWithoutAnswer
  <2> SUFFICES ASSUME AInv PROVE FallbackOnlyWithoutAnswer
    OBVIOUS
  <2>1. ASSUME NEW p \in DOMAIN output
        PROVE  (output[p] = "classified") <=>
                 \E q \in DOMAIN cache : p \in q /\ cache[q] # {"odd"} /\ p \in cache[q]
    <3>1. PICK b \in 1 .. batch - 1 : p \in Batches[b]
      BY DEF AInv, Outcome
    <3>2. (output[p] = "classified") <=> p \in Named(cache, Batches[b])
      BY <3>1 DEF AInv, Outcome
    <3> QED
      BY <3>1, <3>2 DEF Named, Said
  <2> QED
    BY <2>1 DEF FallbackOnlyWithoutAnswer, AInv, Outcome
<1> QED
  BY <1>1, AgentInductive, PTL

\* gemini.ts:51, for any pauses and keys: two requests start at least the
\* interval apart.
THEOREM PacedRequests == AgentSpec => RequestsArePaced
<1> DEFINE Paced == Calling /\ call.keys # <<>> => lastStart' - lastStart >= MinInterval
<1>1. AInv /\ [AgentNext]_agentVars => [Paced]_agentVars
  <2> SUFFICES ASSUME AInv, AgentNext, Calling, call.keys # <<>> PROVE lastStart' - lastStart >= MinInterval
    OBVIOUS
  <2>1. ~Ask /\ ~OutOfKeys /\ ~CloseBatch
    BY DEF Ask, OutOfKeys, CloseBatch
  <2>2. ~Rerun
    BY BatchesAreApart DEF Rerun, AInv, Clock, Asking, AtWork
  <2>3. ASSUME NEW pause, Busy(pause) PROVE lastStart' = Started
    BY <2>3 DEF Busy
  <2>4. ASSUME NEW r, Refused \/ Replied(r) PROVE lastStart' = Started
    BY <2>4 DEF Refused, Replied
  <2>5. lastStart' = Started
    BY <2>1, <2>2, <2>3, <2>4 DEF AgentNext, AgentSteps
  <2> QED
    BY <2>5, StartedInTime
<1> QED
  BY <1>1, AgentInductive, PTL DEF AgentSpec, RequestsArePaced

\* gemini.ts:31, :60, for any number of runs: what a prompt was answered with
\* stays, and the prompt is not sent again.
THEOREM CacheStands == AgentSpec => CacheIsStable
<1> DEFINE Stands == \A q \in DOMAIN cache : q \in DOMAIN cache' /\ cache'[q] = cache[q] /\ call'.asked # q
<1>1. AInv /\ AInv' /\ [AgentNext]_agentVars => [Stands]_agentVars
  <2> SUFFICES ASSUME AInv, AInv', AgentNext, NEW q \in DOMAIN cache
               PROVE  q \in DOMAIN cache' /\ cache'[q] = cache[q] /\ call'.asked # q
    OBVIOUS
  <2>1. q \in DOMAIN cache' /\ cache'[q] = cache[q]
    <3>1. CASE cache' = cache
      BY <3>1
    <3>2. ASSUME NEW r \in Replies, Replied(r) PROVE q \in DOMAIN cache' /\ cache'[q] = cache[q]
      BY <3>2 DEF Replied, AInv, Asking
    <3> QED
      BY <3>1, <3>2 DEF AgentNext, AgentSteps, Ask, Busy, Refused, OutOfKeys, CloseBatch, Rerun
  <2>2. q # {}
    BY DEF AInv, Prompts
  <2> QED
    BY <2>1, <2>2 DEF AInv, Asking, Calling
<1> QED
  BY <1>1, AgentInductive, PTL DEF AgentSpec, CacheIsStable
=============================================================================
