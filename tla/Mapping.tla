------------------------------ MODULE Mapping ------------------------------
(* The dictionary of canonical products and what is published from it       *)
(* (pipeline/src/mapping/*.ts, sync/*.ts, agent/bundle.ts).                 *)
(* An identity "STORE:id" is an integer, in the order of the strings; the   *)
(* key of a card is named by the identity whose hash it is.  A name keeps   *)
(* the class refineCategory tells apart, "plain", "plant" or "processed",   *)
(* and the fat it states (0: none).  A product is                           *)
(*   [ident, store, path, cats, kind, fat, weighed, brand, image, category]. *)
EXTENDS Integers, FiniteSetsExt, SequencesExt, Functions

CONSTANTS Published      \* DEFAULT_PUBLISH_CATEGORIES, the slugs with a row

\* refineCategory: only drinking milk stays milk.
RefineCategory(category, kind, fat) ==
  CASE category # "milk"   -> category
    [] kind = "plant"      -> "drinks"
    [] kind = "processed"  -> "dairy"
    [] fat >= 7            -> "dairy"
    [] OTHER               -> "milk"

\* isVariableWeight: Fix Price has no mark.
IsVariableWeight(p) == p.store # "FIX_PRICE" /\ p.weighed

-----------------------------------------------------------------------------
(* The dictionary: cards by key, keys by identity, category by store path.  *)
CanonicalKey(idents) == Min(idents)

KnownKey(dict, p) ==
  {k \in DOMAIN dict.canonicals : p.ident \in DOMAIN dict.products /\ dict.products[p.ident] = k}

ResolveCategory(dict, p) ==
  LET keys  == KnownKey(dict, p)
      place == <<p.store, p.path>>
  IN  IF keys # {} THEN
        LET card == dict.canonicals[CHOOSE k \in keys : TRUE]
        IN  RefineCategory(card.category, card.kind, card.fat)
      ELSE RefineCategory(IF place \in DOMAIN dict.storeCategories
                          THEN dict.storeCategories[place] ELSE "other", p.kind, p.fat)

Earlier(order, x, y) == SelectInSeq(order, LAMBDA v : v = x) < SelectInSeq(order, LAMBDA v : v = y)

\* majority: the most frequent vote; among equals the first of "order".
Majority(votes, order) ==
  LET count(x) == Cardinality({i \in DOMAIN votes : votes[i] = x})
      best     == {x \in ToSet(votes) : \A y \in ToSet(votes) : count(x) >= count(y)}
  IN  CHOOSE x \in best : \A y \in best \ {x} : Earlier(order, x, y)

\* buildDictionary: one card per group of the bundle, votes for the paths.
\* slugOrder gives the alphabetic order of the slugs.
BuildDictionary(groups, slugOrder) ==
  LET key(g)    == CanonicalKey({g.members[i].ident : i \in DOMAIN g.members})
      keys      == {key(groups[n]) : n \in DOMAIN groups}
      groupOf(k) == groups[CHOOSE n \in DOMAIN groups : key(groups[n]) = k]
      idents    == UNION {{g.members[i].ident : i \in DOMAIN g.members} : g \in ToSet(groups)}
      places    == {<<m.store, m.path>> : m \in UNION {ToSet(g.members) : g \in ToSet(groups)}} 
      votes(pl) == FlattenSeq([n \in DOMAIN groups |->
                     [i \in DOMAIN SelectSeq(groups[n].members, LAMBDA m : <<m.store, m.path>> = pl)
                        |-> groups[n].category]])
  IN  IF Cardinality(keys) < Len(groups) THEN [ok |-> FALSE]
      ELSE [ok |-> TRUE,
            canonicals |-> [k \in keys |->
              [category |-> groupOf(k).category, kind |-> groupOf(k).kind, fat |-> groupOf(k).fat,
               brand |-> groupOf(k).brand, method |-> groupOf(k).method, review |-> groupOf(k).review]],
            products |-> [id \in idents |->
              CHOOSE k \in keys : \E i \in DOMAIN groupOf(k).members : groupOf(k).members[i].ident = id],
            storeCategories |-> [pl \in {q \in places : q[2] # ""} |-> Majority(votes(pl), slugOrder)]]

\* readDictionary: every product has a card.
ClosedDictionary(dict) == \A id \in DOMAIN dict.products : dict.products[id] \in DOMAIN dict.canonicals

-----------------------------------------------------------------------------
(* applyOverrides: moves, then splits in their order, then approvals.       *)
MembersOf(dict, key) == {id \in DOMAIN dict.products : dict.products[id] = key}

\* Mutant: a split that was made before is not recognised.
NeverIsolated(dict, id) == FALSE

AlreadyIsolated(dict, id) ==
  id \in DOMAIN dict.products /\ MembersOf(dict, dict.products[id]) = {id} /\ dict.products[id] = CanonicalKey({id})

Thrown == [ok |-> FALSE]

EditCard(dict, key, field, value) ==
  IF ~dict.ok \/ key \notin DOMAIN dict.canonicals THEN Thrown
  ELSE [dict EXCEPT !.canonicals[key][field] = value]

\* One split: the named members (all when none is named) get cards of their
\* own, the others keep the old card under the key of the least of them.
Split(dict, key, named) ==
  IF ~dict.ok THEN Thrown
  ELSE IF key \notin DOMAIN dict.canonicals THEN
    IF named # {} /\ \A id \in named : AlreadyIsolated(dict, id) THEN dict ELSE Thrown
  ELSE
    LET members   == MembersOf(dict, key)
        ids       == IF named = {} THEN members ELSE named
        moving    == ids \cap members
        remaining == members \ moving
        original  == dict.canonicals[key]
        newKey    == CanonicalKey(remaining)
        kept      == (DOMAIN dict.canonicals \ {key}) \cup (IF remaining = {} THEN {} ELSE {newKey})
    IN  IF \E id \in ids \ members : ~AlreadyIsolated(dict, id) THEN Thrown
        ELSE IF moving = {} THEN dict
        ELSE IF \E id \in moving : CanonicalKey({id}) \in kept THEN Thrown
        ELSE [dict EXCEPT
               !.canonicals = [k \in kept \cup {CanonicalKey({id}) : id \in moving} |->
                  IF k \in {CanonicalKey({id}) : id \in moving}
                  THEN [original EXCEPT !.method = "deterministic", !.review = "approved"]
                  ELSE IF remaining # {} /\ k = newKey THEN original ELSE @[k]],
               !.products = [id \in DOMAIN @ |->
                  IF id \in moving THEN CanonicalKey({id})
                  ELSE IF id \in remaining THEN newKey ELSE @[id]]]

\* Later moves of a key win over earlier ones.
ApplyOverrides(dict, overrides) ==
  LET moved == FoldLeft(LAMBDA d, m : EditCard(d, m.key, "category", m.to), dict, overrides.moveCategory)
      apart == FoldLeft(LAMBDA d, s : Split(d, s.key, s.ids), moved, overrides.split)
  IN  FoldLeft(LAMBDA d, k : EditCard(d, k, "review", "approved"), apart, overrides.approve)

-----------------------------------------------------------------------------
(* From the source files to the bundle.                                     *)
Isolate(cl) == [i \in DOMAIN cl.members |-> [cl EXCEPT !.members = <<cl.members[i]>>]]

\* Mutant: weighed and counted members stay together.
IsolateForPublishPending(clusters) ==
  FlattenSeq([i \in DOMAIN clusters |->
    IF clusters[i].review = "pending" THEN Isolate(clusters[i]) ELSE <<clusters[i]>>])

\* A pending match is not published merged; the weighed members of a group
\* leave it while it has members sold by the piece.
IsolateForPublish(clusters) ==
  LET parts(cl) ==
        LET weighed == SelectSeq(cl.members, IsVariableWeight)
            pieces  == SelectSeq(cl.members, LAMBDA m : ~IsVariableWeight(m))
        IN  IF Len(cl.members) < 2 THEN <<cl>>
            ELSE IF cl.review = "pending" THEN Isolate(cl)
            ELSE IF weighed = <<>> \/ pieces = <<>> THEN <<cl>>
            ELSE <<[cl EXCEPT !.members = pieces]>> \o Isolate([cl EXCEPT !.members = weighed])
  IN  FlattenSeq([i \in DOMAIN clusters |-> parts(clusters[i])])

\* A member carries the category it resolves to.
Classified(dict, p) == [p EXCEPT !.category = ResolveCategory(dict, p)]

\* buildBundle: the lead gives the card, the brands vote for its brand.
ImageRank(p) == CASE p.store = "DINA" -> 1 [] p.store = "DANA" -> 2 [] p.store = "ANVAR" -> 3 [] OTHER -> 4

Lead(members) ==
  LET shown == {i \in DOMAIN members : members[i].image}
  IN  IF shown = {} THEN members[1]
      ELSE members[CHOOSE i \in shown : \A j \in shown :
             \/ ImageRank(members[i]) < ImageRank(members[j])
             \/ ImageRank(members[i]) = ImageRank(members[j]) /\ i <= j]

BuildBundle(clusters) ==
  [n \in DOMAIN clusters |->
     LET members == clusters[n].members
         brands  == SelectSeq([i \in DOMAIN members |-> members[i].brand], LAMBDA b : b # "")
     IN  [members |-> members, category |-> Lead(members).category,
          kind |-> Lead(members).kind, fat |-> Lead(members).fat,
          brand |-> IF brands = <<>> THEN "" ELSE Majority(brands, brands),
          method |-> clusters[n].method, review |-> clusters[n].review]]

\* buildSyncBundle: unknown products inside the scope first, each alone and
\* pending, then the groups of the dictionary by key.
BuildSyncBundle(products, dict, scope) ==
  LET known(k)  == SelectSeq(products, LAMBDA p : k \in KnownKey(dict, p))
      unmapped  == SelectSeq(products, LAMBDA p : KnownKey(dict, p) = {} /\ ResolveCategory(dict, p) \in scope)
      keys      == SetToSortSeq({k \in DOMAIN dict.canonicals : known(k) # <<>>}, <)
      card(k)   == dict.canonicals[k]
      clusters  == [i \in DOMAIN unmapped |->
                      [members |-> <<Classified(dict, unmapped[i])>>, method |-> "deterministic", review |-> "pending"]]
                   \o [n \in DOMAIN keys |->
                      [members |-> [i \in DOMAIN known(keys[n]) |->
                                     [Classified(dict, known(keys[n])[i]) EXCEPT !.brand = card(keys[n]).brand]],
                       method |-> card(keys[n]).method, review |-> card(keys[n]).review]]
      inScope   == SelectSeq(clusters, LAMBDA c : \A i \in DOMAIN c.members : c.members[i].category \in scope)
  IN  [bundle |-> BuildBundle(IsolateForPublish(inScope)),
       unmapped |-> [i \in DOMAIN unmapped |-> unmapped[i].ident]]

\* compareBundles: lost and added identities; prices are listed, not counted.
CompareBundles(a, b) ==
  LET idents(x) == UNION {{g.members[i].ident : i \in DOMAIN g.members} : g \in ToSet(x)}
  IN  [onlyA |-> idents(a) \ idents(b), onlyB |-> idents(b) \ idents(a),
       mismatch |-> Cardinality(idents(a) \ idents(b)) + Cardinality(idents(b) \ idents(a)),
       of |-> IF idents(a) = {} THEN 1 ELSE Cardinality(idents(a))]

-----------------------------------------------------------------------------
(* The scope of the daily scrape: source categories that cover what is      *)
(* published (computeDinaScope, computeDanaScope).                          *)

\* The greedy choice: most new products, then the smaller category, then the
\* lesser id.
GreedyCover(products, wanted) ==
  LET size(c) == Cardinality({i \in DOMAIN products : c \in products[i].cats})
      gain(c, left) == Cardinality({p \in left : c \in p.cats})
      better(c, d, left) ==
        \/ gain(c, left) > gain(d, left)
        \/ gain(c, left) = gain(d, left) /\ size(c) < size(d)
        \/ gain(c, left) = gain(d, left) /\ size(c) = size(d) /\ c < d
      pick(left) == LET cats == UNION {p.cats : p \in left}
                    IN  CHOOSE c \in cats : \A d \in cats \ {c} : better(c, d, left)
      step[n \in 0 .. Len(products)] ==
        IF n = 0 THEN [left |-> {p \in wanted : p.cats # {}}, picked |-> {}]
        ELSE IF step[n - 1].left = {} THEN step[n - 1]
        ELSE LET c == pick(step[n - 1].left)
             IN  [left   |-> {p \in step[n - 1].left : c \notin p.cats},
                  picked |-> step[n - 1].picked \cup {c}]
  IN  step[Len(products)].picked

\* Dana's file holds other roots too, which are passed over: "root" has the
\* paths under the first, for Dina all there are.
ComputeScope(products, dict, scope, root) ==
  LET rooted == SelectSeq(products, LAMBDA p : p.path \in root)
      wanted == {p \in ToSet(rooted) : ResolveCategory(dict, p) \in scope}
  IN  [scope |-> scope, categoryIds |-> GreedyCover(rooted, wanted),
       scopeProducts |-> Cardinality(wanted),
       coveredProducts |-> Cardinality({p \in wanted : p.cats # {}}),
       unsectionedProducts |-> Cardinality({p \in wanted : p.cats = {}})]

\* readDinaScope, readDanaScope: no file, a broken, an empty one or one for
\* fewer categories than are published means: scrape the roots ({}).
ReadScope(stored, published) ==
  IF stored.kind = "valid" /\ published \subseteq stored.scope THEN stored.categoryIds ELSE {}

=============================================================================
