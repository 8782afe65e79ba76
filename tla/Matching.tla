------------------------------ MODULE Matching ------------------------------
(* The reference importer: what a name says of a product, which products    *)
(* are one, and the dataset made of them (backend/src/modules/              *)
(* normalization, matching, import; backend/scripts).                       *)
(*                                                                          *)
(* A name is a record:                                                      *)
(*   words     the stems the rules look for, the spellings of a stem in two *)
(*             languages and cases being one word; "tan" and "cheese" are   *)
(*             the marks of the normalizer, "tan-inside" and                *)
(*             "cheese-inside" the same letters elsewhere in a word,        *)
(*   first     the stem the name begins with, brands the aliases it matches,*)
(*   tokens    its words of more than two letters,                          *)
(*   l, ml, kg, g, fat, count, slash   the first number before each unit, 0 *)
(*             without one; l, kg and fat in thousandths.                   *)
(* 0 and "" stand for null.  Confidences are in parts of Whole.             *)
EXTENDS Integers, FiniteSetsExt, SequencesExt, Functions

CONSTANTS BrandAliases   \* the canonical brands, in the order of the table

Whole == 168000
Percent(n) == n * (Whole \div 100)

-----------------------------------------------------------------------------
(* normalizer.service.ts *)

\* A rule fires on a stem of "any", together with one of "with" when there are
\* some, and without any of "but".
Rule(any, with, but, type) == [any |-> any, with |-> with, but |-> but, type |-> type]
Only(any, type) == Rule(any, {}, {}, type)

\* A stem that contains another one.
Stems(words) == words \cup (IF "crispbread" \in words THEN {"bread"} ELSE {})
                      \cup (IF "nemoloko" \in words THEN {"milk"} ELSE {})

Sweets == {"chocolate", "kinder", "surprise", "gift", "dessert", "choco-talk", "candy", "toy"}
ButterWords == {"creamy", "sary-mai", "peasant"}

\* detectProductType: the first rule that fires.
TypeRules ==
  << Rule({"egg"}, Sweets, {}, "confectionery"),
     Only({"mayonnaise"}, "mayonnaise"),
     Only({"sushki", "cookie", "gingerbread", "waffle", "cake", "pie"}, "bakery_sweet"),
     Only({"bread", "baton", "baguette", "ciabatta", "bun", "flatbread"}, "bread"),
     Only({"crispbread"}, "crispbread"),
     Only({"buckwheat"}, "buckwheat"),
     Rule({"rice"}, {}, {"crispbread", "nemoloko"}, "rice"),
     Only({"flour"}, "flour"),
     Only({"pasta", "spaghetti", "vermicelli"}, "pasta"),
     Only({"semolina"}, "semolina"),
     Rule({"oats"}, {}, {"nemoloko"}, "oats"),
     Only({"millet"}, "millet"),
     Only({"barley"}, "barley"),
     Only({"beans", "peas", "lentils"}, "legumes"),
     Only({"curd-bar"}, "cottage_cheese"),
     Only({"kefir"}, "kefir"),
     Only({"tan", "ayran"}, "tan_ayran"),
     Only({"sour-cream"}, "sour_cream"),
     Only({"curd"}, "cottage_cheese"),
     Only({"cheese"}, "cheese"),
     Rule({"oil", "spread"}, ButterWords \cup {"cow", "village", "zhailau", "light"}, {}, "butter"),
     Only(ButterWords, "butter"),
     Only({"cream"}, "cream"),
     Rule({"milk", "condensed"}, {}, {"sushki", "curd-bar"}, "milk"),
     Only({"sugar"}, "sugar"),
     Rule({"salt"}, {}, {"beans", "crispbread"}, "salt"),
     Only({"sunflower", "vegetable-oil", "olive"}, "vegetable_oil"),
     Only({"kinder", "choco-talk"}, "confectionery"),
     Only({"egg"}, "eggs"),
     Only({"potato"}, "potato"), Only({"carrot"}, "carrot"),
     Rule({"onion"}, {}, {"apple", "corn"}, "onion"),
     Only({"cabbage"}, "cabbage"), Only({"tomato"}, "tomato"), Only({"cucumber"}, "cucumber"),
     Only({"apple"}, "apple"), Only({"banana"}, "banana"),
     Only({"mince"}, "minced_meat"), Only({"crab-sticks"}, "crab_sticks"), Only({"legs"}, "meat_legs"),
     Only({"beef"}, "beef"), Only({"chicken"}, "chicken"), Only({"fish"}, "fish"),
     Only({"tea"}, "tea") >>

Fires(rule, words) == /\ rule.any \cap words # {}
                      /\ rule.with = {} \/ rule.with \cap words # {}
                      /\ rule.but \cap words = {}

FirstType(rules, words) ==
  LET n == SelectInSeq(rules, LAMBDA r : Fires(r, Stems(words)))
  IN  IF n = 0 THEN "" ELSE rules[n].type

DetectProductType(words) == FirstType(TypeRules, words)

\* detectFlavorVariant: in this order; a banana that leads the name is no flavour.
DetectFlavorVariant(name) ==
  LET order == <<"vanilla", "chocolate", "strawberry", "banana", "cherry", "raspberry", "peach",
                 "coconut", "berries", "caramel", "classic">>
      n == SelectInSeq(order, LAMBDA f : f \in name.words /\ ~(f = "banana" /\ name.first = f))
  IN  IF n = 0 THEN "" ELSE order[n]

DetectOilVariant(words) ==
  CASE words \cap {"oil", "oleina", "sloboda"} = {}                          -> ""
    [] "olive" \in words /\ words \cap {"sunflower", "mix"} # {}             -> "sunflower_olive_mix"
    [] "olive" \in words                                                     -> "olive"
    [] "corn" \in words                                                      -> "corn"
    [] "sunflower" \in words                                                 -> "sunflower"
    [] "mix" \in words                                                       -> "mix"
    [] OTHER                                                                 -> ""

DetectTeaType(words, type) ==
  IF type # "tea" /\ "tea" \notin words THEN ""
  ELSE IF "green" \in words THEN "green" ELSE IF "black" \in words THEN "black" ELSE ""

DetectBreadType(words) ==
  CASE "rye" \in words                        -> "rye"
    [] words \cap {"wheat", "white"} # {}     -> "white"
    [] "flatbread" \in words                  -> "flatbread"
    [] "baton" \in words                      -> "baton"
    [] "crispbread" \in words                 -> "crispbread"
    [] OTHER                                  -> ""

\* The first alias of the table a text matches.
FirstAlias(matched) ==
  LET n == SelectInSeq(BrandAliases, LAMBDA b : b \in matched)
  IN  IF n = 0 THEN "" ELSE BrandAliases[n]

\* canonicalizeBrand: a brand without an alias stays as it is.
CanonicalizeBrand(text) == IF FirstAlias({text}) # "" THEN FirstAlias({text}) ELSE text

\* A large unit wins over the small one, even when its number is refused.
Measured(large, small) ==
  IF large > 0 THEN IF large < 50000 THEN large ELSE 0 ELSE small

Normalize(name, knownBrand) ==
  LET type == DetectProductType(name.words)
  IN  [volumeMl     |-> Measured(name.l, name.ml),
       weightGrams  |-> Measured(name.kg, name.g),
       fatPercent   |-> IF name.fat \in 100 .. 99900 THEN name.fat ELSE 0,
       packageCount |-> IF name.count > 0 THEN name.count ELSE IF type = "eggs" THEN name.slash ELSE 0,
       breadType    |-> DetectBreadType(name.words),
       sliced       |-> "sliced" \in name.words,
       brand        |-> IF knownBrand # "" THEN CanonicalizeBrand(knownBrand) ELSE FirstAlias(name.brands),
       productType  |-> type,
       teaType      |-> DetectTeaType(name.words, type),
       flavor       |-> DetectFlavorVariant(name),
       oil          |-> DetectOilVariant(name.words),
       tokens       |-> name.tokens]

-----------------------------------------------------------------------------
(* matcher.service.ts *)
Approved == {"milk", "bread", "eggs", "sugar", "oil"}

MapRawCategory(category) == IF category \in Approved THEN category ELSE "other"

MapProductTypeToCategory(type) ==
  CASE type = "milk"                     -> "milk"
    [] type \in {"bread", "crispbread"}  -> "bread"
    [] type = "eggs"                     -> "eggs"
    [] type \in {"sugar", "salt"}        -> "sugar"
    [] type = "vegetable_oil"            -> "oil"
    [] OTHER                             -> "other"

\* Mutant: the store's category is preferred to what the name says.
CategoryOfStore(raw, attrs) ==
  IF MapRawCategory(raw.category) # "other" THEN MapRawCategory(raw.category)
  ELSE MapProductTypeToCategory(attrs.productType)

CategoryOf(raw, attrs) ==
  IF attrs.productType # "" THEN MapProductTypeToCategory(attrs.productType) ELSE MapRawCategory(raw.category)

BuildFingerprint(raw, attrs) ==
  [category |-> CategoryOf(raw, attrs), brand |-> attrs.brand, type |-> attrs.productType,
   tea |-> attrs.teaType, pack |-> attrs.packageCount, fat |-> attrs.fatPercent,
   size |-> IF attrs.volumeMl > 0 THEN <<"ml", attrs.volumeMl>>
            ELSE IF attrs.weightGrams > 0 THEN <<"g", attrs.weightGrams>> ELSE <<>>,
   variant |-> IF attrs.breadType # "" THEN attrs.breadType
               ELSE IF attrs.flavor # "" THEN attrs.flavor ELSE attrs.oil]

PrepareCandidate(raw) ==
  LET attrs == Normalize(raw.name, raw.brand)
  IN  [raw |-> raw, attrs |-> attrs, fingerprint |-> BuildFingerprint(raw, attrs),
       category |-> CategoryOf(raw, attrs), barcode |-> raw.barcode]

\* Half Jaccard, half overlap.
TokenSimilarity(s, t) ==
  LET common == Cardinality(s \cap t)
      lesser == Min({Cardinality(s), Cardinality(t)})
  IN  IF s = {} \/ t = {} THEN 0
      ELSE (Whole * common) \div (2 * Cardinality(s \cup t)) + (Whole * common) \div (2 * lesser)

Conflict(x, y, none) == x # none /\ y # none /\ x # y
Beyond(x, y, most)   == x > 0 /\ y > 0 /\ (x - y > most \/ y - x > most)

\* What tells two products apart once their barcodes do not make them one.
Different(a, b) ==
  \/ Conflict(a.productType, b.productType, "")
  \/ Conflict(a.teaType, b.teaType, "")
  \/ Conflict(a.packageCount, b.packageCount, 0)
  \/ a.volumeMl > 0 /\ b.weightGrams > 0
  \/ a.weightGrams > 0 /\ b.volumeMl > 0
  \/ Beyond(a.volumeMl, b.volumeMl, 20)
  \/ Beyond(a.weightGrams, b.weightGrams, 25)
  \/ Beyond(a.fatPercent, b.fatPercent, 100)
  \/ a.flavor # b.flavor
  \/ a.oil # b.oil
  \/ Conflict(a.breadType, b.breadType, "")
  \/ Conflict(a.brand, b.brand, "")

Verdict(match, confidence, method) == [match |-> match, confidence |-> confidence, method |-> method]

CanMatch(a, b) ==
  LET alike     == TokenSimilarity(a.attrs.tokens, b.attrs.tokens)
      sameBrand == a.attrs.brand # "" /\ a.attrs.brand = b.attrs.brand
      sameSize  == \/ a.attrs.volumeMl > 0 /\ a.attrs.volumeMl = b.attrs.volumeMl
                   \/ a.attrs.weightGrams > 0 /\ a.attrs.weightGrams = b.attrs.weightGrams
      oneUnnamed == a.attrs.brand = "" \/ b.attrs.brand = ""
  IN  IF Conflict(a.category, b.category, "other") THEN Verdict(FALSE, 0, "deterministic")
      ELSE IF a.barcode # "" /\ a.barcode = b.barcode THEN Verdict(TRUE, Whole, "barcode")
      ELSE IF Different(a.attrs, b.attrs) THEN Verdict(FALSE, 0, "deterministic")
      ELSE IF a.fingerprint = b.fingerprint /\ a.fingerprint.brand # "" /\ a.fingerprint.size # <<>>
        THEN Verdict(TRUE, Percent(98), "deterministic")
      ELSE IF sameBrand /\ sameSize /\ alike >= Percent(65)
        THEN Verdict(TRUE, Max({Percent(95), alike}), "deterministic")
      ELSE Verdict(alike >= Percent(80) /\ (sameBrand \/ oneUnnamed), alike, "deterministic")

Member(raw, method, confidence) ==
  [raw |-> raw, method |-> method, confidence |-> confidence,
   review |-> IF confidence >= Percent(90) THEN "approved" ELSE "pending"]

\* Mutant: a candidate is compared with the member that joined last.
MayJoinLast(group, cand) ==
  /\ \/ \A i \in DOMAIN group.members : group.members[i].raw.store # cand.raw.store
     \/ cand.barcode # "" /\ \E i \in DOMAIN group.members : group.members[i].raw.barcode = cand.barcode
  /\ LET v == CanMatch(cand, PrepareCandidate(Last(group.members).raw))
     IN  v.match /\ v.confidence >= Percent(80)

\* The groups a candidate may join: their first member matches it, and a store
\* offers one product per group unless a member has the very barcode.
MayJoin(group, cand) ==
  /\ \/ \A i \in DOMAIN group.members : group.members[i].raw.store # cand.raw.store
     \/ cand.barcode # "" /\ \E i \in DOMAIN group.members : group.members[i].raw.barcode = cand.barcode
  /\ LET v == CanMatch(cand, group.first)
     IN  v.match /\ v.confidence >= Percent(80)

Joined(group, cand) ==
  LET v == CanMatch(cand, group.first)
  IN  [group EXCEPT
        !.members = Append(@, Member(cand.raw, v.method, v.confidence)),
        !.minPrice = Min({@, cand.raw.price}),
        !.image = @ \/ cand.raw.image,
        !.attributes.packageCount = IF @ = 0 THEN cand.attrs.packageCount ELSE @,
        !.attributes.productType = IF @ = "" THEN cand.attrs.productType ELSE @]

NewGroup(cand) ==
  [first |-> cand, members |-> <<Member(cand.raw, "deterministic", Whole)>>, minPrice |-> cand.raw.price,
   image |-> cand.raw.image, category |-> cand.category, brand |-> cand.attrs.brand,
   attributes |-> [key \in {"volumeMl", "weightGrams", "fatPercent", "packageCount", "breadType",
                            "sliced", "productType"} |-> cand.attrs[key]]]

\* groupProducts: one after the other, into the first of the surest groups.
\* A group keeps its first member as it was prepared.
Surest(groups, cand, open) ==
  LET sure == [n \in open |-> CanMatch(cand, groups[n].first).confidence]
  IN  CHOOSE n \in open : \A m \in open : sure[m] < sure[n] \/ (sure[m] = sure[n] /\ n <= m)

Placed(groups, cand) ==
  LET open == {n \in DOMAIN groups : MayJoin(groups[n], cand)}
  IN  IF open = {} THEN Append(groups, NewGroup(cand))
      ELSE [groups EXCEPT ![Surest(groups, cand, open)] = Joined(@, cand)]

GroupProducts(raws) ==
  LET candidates == [i \in DOMAIN raws |-> PrepareCandidate(raws[i])]
  IN  FoldLeft(Placed, <<>>, candidates)

Offers(group) ==
  SortSeq([i \in DOMAIN group.members |-> group.members[i].raw], LAMBDA x, y : x.price < y.price)

StoresOf(group) == {group.members[i].raw.store : i \in DOMAIN group.members}

-----------------------------------------------------------------------------
(* import/scrapers, scripts/pipeline.ts, scripts/audit_suite.ts             *)

\* A list of answers, each a sequence of items or "error": the items of those
\* before the walk stops, Stops saying at which answer it does.
Walked(answers, Stops(_)) ==
  LET stop == {i \in DOMAIN answers : Stops(answers[i])}
      last == IF stop = {} THEN Len(answers) ELSE Min(stop) - 1
  IN  FlattenSeq([i \in 1 .. last |-> IF answers[i].ok THEN answers[i].items ELSE <<>>])

Distinct(items) ==
  FoldLeft(LAMBDA acc, p : IF \E i \in DOMAIN acc : acc[i].id = p.id THEN acc ELSE Append(acc, p),
           <<>>, items)

\* DinaScraper: categories page by page until an empty answer (a failed one is
\* empty after its second attempt), general pages until a failed one, searches.
FetchDina(site) ==
  LET pages(c) == Walked([p \in DOMAIN site.categories[c] |->
                            IF site.categories[c][p][1].ok THEN site.categories[c][p][1]
                            ELSE site.categories[c][p][2]],
                         LAMBDA a : ~a.ok \/ a.items = <<>>)
  IN  Distinct(SelectSeq(
        FlattenSeq([c \in DOMAIN site.categories |-> pages(c)])
          \o Walked(site.general, LAMBDA a : ~a.ok)
          \o Walked(site.searches, LAMBDA a : FALSE),
        LAMBDA p : p.named /\ p.price > 0))

\* DanaScraper: an id is taken as seen before its card is found unusable.
FetchDana(site) ==
  SelectSeq(Distinct(Walked(site.sections, LAMBDA a : FALSE)), LAMBDA p : p.named /\ p.price > 0)

\* Dana and the audit look for these letters anywhere in a name.
TanOrCheese == {"tan", "tan-inside", "cheese", "cheese-inside"}

\* detectCategory and refineCategory of the scrapers, by their first rule.
DinaRules ==
  << Only({"mayonnaise"}, "other"),
     Only({"bread", "baton", "flatbread", "baguette", "bun", "ciabatta"}, "bread"),
     Only({"egg"}, "eggs"),
     Only({"kefir", "curd", "sour-cream", "tan", "ayran", "cheese"}, "other"),
     Rule({"oil"}, {"creamy"}, {}, "other"),
     Only({"milk", "condensed"}, "milk"),
     Only({"sugar"}, "sugar"), Rule({"salt"}, {}, {"beans", "crispbread"}, "sugar"),
     Rule({"oil"}, {"sunflower", "vegetable-oil", "olive"}, {}, "oil") >>

DetectCategory(words) ==
  IF FirstType(DinaRules, words) = "" THEN "other" ELSE FirstType(DinaRules, words)

DanaRules ==
  << Only({"mayonnaise"}, "other"), Only({"bread", "baton", "flatbread"}, "bread"), Only({"egg"}, "eggs"),
     Only({"kefir", "curd", "sour-cream", "ayran", "sary-mai", "peasant"} \cup TanOrCheese, "other"),
     Rule({"oil"}, {"creamy"}, {}, "other"),
     Only({"milk", "condensed"}, "milk"),
     Rule({"sugar", "salt"}, {}, {"beans", "crispbread"}, "sugar"),
     Rule({"oil"}, {"sunflower", "vegetable-oil"}, {}, "oil"), Only({"olive"}, "oil") >>

RefineDanaCategory(words, slug) ==
  IF FirstType(DanaRules, words) # "" THEN FirstType(DanaRules, words) ELSE MapRawCategory(slug)

\* pipeline.ts and rebuild_snapshot_from_raw.ts: the dataset.
Spread(group) ==
  LET prices == {group.members[i].raw.price : i \in DOMAIN group.members}
  IN  [min |-> Min(prices), max |-> Max(prices),
       percent |-> IF Min(prices) > 0
                   THEN ((Max(prices) - Min(prices)) * 100 + Min(prices) \div 2) \div Min(prices) ELSE 0]

RunPipeline(raws) ==
  LET groups == GroupProducts(raws)
      across(n) == SelectSeq(groups, LAMBDA g : Cardinality(StoresOf(g)) >= n)
  IN  [totalRaw |-> Len(raws),
       rawByStore |-> [s \in {"DINA", "DANA", "FIX_PRICE"} |-> Len(SelectSeq(raws, LAMBDA r : r.store = s))],
       matchedTwo |-> Len(across(2)), matchedThree |-> Len(across(3)),
       spreads |-> SortSeq([n \in DOMAIN across(2) |-> Spread(across(2)[n])],
                           LAMBDA x, y : x.percent > y.percent),
       groups |-> groups, raws |-> raws]

\* What the audit asks of every dataset (its counts of one day's data are left out).
Audit(dataset) ==
  /\ \A n \in DOMAIN dataset.groups :
       LET g == dataset.groups[n]
       IN  /\ g.minPrice = Offers(g)[1].price
           /\ g.category \in Approved \cup {"other"}
           /\ g.category = "eggs" => g.members[1].raw.name.words \cap Sweets = {}
           /\ g.category = "milk" =>
                g.members[1].raw.name.words \cap
                  ({"kefir", "ayran", "sour-cream", "curd", "creamy", "sary-mai", "mayonnaise", "curd-bar", "sushki"}
                   \cup TanOrCheese) = {}
  /\ \A i \in DOMAIN dataset.raws : dataset.raws[i].price > 0

=============================================================================
