----------------------------- MODULE MCReference -----------------------------
(* ReferenceVoice over three datasets, the last with a product listed       *)
(* twice; and, in initial states of their own in which nothing runs, names  *)
(* and lists of raw products for the functions of Matching.                 *)
EXTENDS ReferenceVoice

VARIABLE sample

MCBrands == <<"FoodMaster", "Adal">>

Name(first, words, more) ==
  more @@ [first |-> first, words |-> words \cup {first}, brands |-> {}, tokens |-> words \cup {first},
           l |-> 0, ml |-> 0, kg |-> 0, g |-> 0, fat |-> 0, count |-> 0, slash |-> 0, rank |-> 1]
Raw(id, store, name, price) ==
  [id |-> id, store |-> store, barcode |-> "", brand |-> "", category |-> "other", price |-> price,
   image |-> FALSE, name |-> name]

MilkLitre == Name("milk", {}, [l |-> 1000, fat |-> 3200, brands |-> {"FoodMaster"}])
MilkHalf  == Name("milk", {}, [ml |-> 500, fat |-> 2500, brands |-> {"Adal"}])
MilkOther == Name("milk", {"cream-top"}, [l |-> 1000, fat |-> 2500, brands |-> {"Adal"}])
OilHalf   == Name("oil", {"sunflower"}, [ml |-> 500])
Loaf      == Name("bread", {"sliced", "wheat"}, [g |-> 450])

MCDatasets ==
  << <<Raw(1, "DINA", MilkLitre, 570), Raw(2, "DANA", MilkLitre, 620), Raw(3, "DANA", MilkHalf, 390),
       Raw(4, "DINA", Loaf, 200)>>,
     <<Raw(1, "DINA", MilkOther, 500), Raw(2, "DINA", MilkLitre, 500), Raw(3, "DANA", OilHalf, 700)>>,
     <<Raw(1, "FIX_PRICE", Loaf, 210), Raw(1, "FIX_PRICE", MilkHalf, 380)>> >>

Text(words, percent) == [words |-> words, percent |-> percent]
MCTexts == {Text({"milk", "cheap"}, 3200), Text({"1l"}, 0)}
MCReplies ==
  {Parsed("search", "milk", [k \in {"volumeMl"} |-> 1000]),
   Parsed("", "", [k \in {"fatPercent"} |-> 2500]),
   Parsed("search", "bread", [k \in {"sliced"} |-> FALSE])}

-----------------------------------------------------------------------------
NoSample == [of |-> "none"]
NamesOnly == {"egg", "chocolate", "mayonnaise", "bread", "crispbread", "milk", "condensed", "kefir", "curd",
              "sour-cream", "cheese", "oil", "creamy", "sary-mai", "sunflower", "olive", "mix", "nemoloko",
              "rice", "sushki", "sugar", "tan", "tan-inside", "cheese-inside"}
\* categoryUrls; groats, vegetables and meat come out as other does.
DanaSlugs == {"milk", "other", "bread", "eggs", "sugar", "oil"}
\* A name, and the datasets made of one product of it per category the
\* scrapers may give it.
NameSample(words) ==
  LET from(store, category) ==
        <<[Raw(1, store, Name("none", words, [g |-> 100]), 100) EXCEPT !.category = category]>>
  IN  [of |-> "name", words |-> words,
       datasets |-> {RunPipeline(from("DINA", DetectCategory(words \cup {"none"})))}
                    \cup {RunPipeline(from("DANA", category)) :
                            category \in {RefineDanaCategory(words \cup {"none"}, slug) : slug \in DanaSlugs}}]
NameSamples == {NameSample(w) : w \in UNION {kSubset(k, NamesOnly) : k \in 1 .. 3}}

\* What three products may be: one brand or none, a size that drifts or is in
\* another unit, a flavour, another type, a barcode.
Variants ==
  {Name("milk", {"long", "life"}, [brands |-> {"Adal"}] @@ m) :
     m \in {[ml |-> 900], [ml |-> 915], [ml |-> 930], [g |-> 950]}}
  \cup {Name("milk", {"long", "life", "vanilla"}, [brands |-> {"Adal"}, ml |-> 900]),
        Name("milk", {"long", "life", "other"}, [ml |-> 900]),
        Name("kefir", {"long", "life"}, [brands |-> {"FoodMaster"}, ml |-> 900])}
Coded == {[Raw(0, s, v, p) EXCEPT !.barcode = b] :
            <<s, p>> \in {<<"DINA", 100>>, <<"DANA", 90>>}, v \in Variants, b \in {"", "x"}}
GroupSample(raws) ==
  [of |-> "groups", groups |-> GroupProducts(raws), prepared |-> [i \in DOMAIN raws |-> PrepareCandidate(raws[i])]]
GroupSamples ==
  {GroupSample(<<[x EXCEPT !.id = 1], [y EXCEPT !.id = 2], [z EXCEPT !.id = 3]>>) :
     x \in {c \in Coded : c.store = "DINA"}, y \in {c \in Coded : c.store = "DANA"},
     z \in {[c EXCEPT !.store = "FIX_PRICE"] : c \in {d \in Coded : d.store = "DINA"}} \cup {c \in Coded : c.store = "DANA" /\ c.barcode = "x"}}

(* What a site answers to the importers: a category of two pages, each asked *)
(* for twice, two general pages and a search; or three sections.            *)
Shown(id, named) == [id |-> id, named |-> named, price |-> 100]
Listed == {[ok |-> FALSE]} \cup {[ok |-> TRUE, items |-> s] :
             s \in {<<>>, <<Shown(1, TRUE)>>, <<Shown(1, FALSE), Shown(2, TRUE)>>}}
DinaSample(site) ==
  LET failed == [ok |-> FALSE]
  IN  [of |-> "dina", site |-> site, found |-> FetchDina(site),
       worse |-> {FetchDina([site EXCEPT !.categories[1][1] = <<failed, failed>>]),
                  FetchDina([site EXCEPT !.general[1] = failed]), FetchDina([site EXCEPT !.searches[1] = failed])}]
DanaSample(site) == [of |-> "dana", site |-> site, found |-> FetchDana(site)]
SiteSamples ==
  {DinaSample([categories |-> << <<<<a, b>>, <<c, c>>>> >>, general |-> <<d, e>>, searches |-> <<f>>]) :
     a, b, c, d, e, f \in Listed}
  \cup {DanaSample([sections |-> <<a, b, c>>]) : a, b, c \in Listed}

Samples == NameSamples \cup GroupSamples \cup SiteSamples

MCInit == \/ Init /\ sample = NoSample
          \/ /\ sample \in Samples
             /\ files = <<>> /\ db = NoRows /\ seed = NoSeed /\ seeds = MaxSeeds
             /\ turn = Ready /\ session = NoSession /\ heard = NoFilters /\ now = MaxTime
             /\ answers = [i \in 1 .. MaxTurns |-> Answer("error")]
MCSpec == MCInit /\ [][Next /\ UNCHANGED sample]_<<vars, sample>>
          /\ Fairness

-----------------------------------------------------------------------------
\* Whatever the words of a name, the category that the scrapers and the
\* normalizer agree on for it passes the audit of the foods
\* (normalizer.service.ts:236, matcher.service.ts:306, audit_suite.ts:196),
\* with two exceptions that the audit is there to find: a name without a
\* product type keeps the shelf it was scraped from, sweets among Dana's eggs
\* included, and letters of "tan" or "cheese" inside another word, which the
\* audit forbids and the normalizer does not look for.
Doubtful(words) == \/ DetectProductType(words) = "" /\ words \cap Sweets # {}
                   \/ words \cap {"tan-inside", "cheese-inside"} # {}
FoodsAreApart ==
  sample.of = "name" => Doubtful(sample.words) \/ \A dataset \in sample.datasets : Audit(dataset)

\* Groups stand together (matcher.service.ts:161): every raw product is in one
\* group; without a barcode two members never differ in flavour, nor does one
\* from a sized first member by more than the tolerance; and no two products
\* that match and come from two stores are left as groups of their own.
GroupsStandTogether ==
  sample.of = "groups" =>
    LET groups == sample.groups
        prep(n, i) == sample.prepared[groups[n].members[i].raw.id]
    IN  /\ SetToSortSeq({groups[n].members[i].raw.id : <<n, i>> \in
                           {<<m, j>> \in (DOMAIN groups) \X (1 .. 3) : j \in DOMAIN groups[m].members}}, <)
             = <<1, 2, 3>>
        /\ \A n \in DOMAIN groups : \A i, j \in DOMAIN groups[n].members :
             LET a == prep(n, i)
                 b == prep(n, j)
             IN  \/ a.barcode # ""
                 \/ b.barcode # ""
                 \/ /\ a.attrs.flavor = b.attrs.flavor
                    /\ ~Beyond(prep(n, 1).attrs.volumeMl, a.attrs.volumeMl, 20)
                    /\ i # j => a.raw.store # b.raw.store
        /\ \A n, m \in DOMAIN groups :
             n # m /\ Len(groups[n].members) = 1 /\ Len(groups[m].members) = 1
               /\ prep(n, 1).raw.store # prep(m, 1).raw.store =>
             ~CanMatch(prep(m, 1), prep(n, 1)).match

\* What a site shows is kept (dina.scraper.ts:67, dana.scraper.ts:44): no id
\* twice and none without a name; what an answered search, an answered first
\* page (whichever attempt it was) or, for Dana, an answered section shows
\* first in a usable card is there, whatever other page fails; and an answer
\* that fails never adds a product.
ImportKeepsWhatItSaw ==
  LET ids(products) == {products[i].id : i \in DOMAIN products}
      usable(answer) == IF answer.ok THEN {p.id : p \in {q \in ToSet(answer.items) : q.named}} ELSE {}
      soundly(products) == \A i, j \in DOMAIN products :
                             products[i].named /\ (products[i].id = products[j].id => i = j)
  IN  /\ sample.of = "dina" =>
           LET site  == sample.site
               first == site.categories[1][1]
               found == ids(sample.found)
           IN  /\ soundly(sample.found)
               /\ usable(first[IF first[1].ok THEN 1 ELSE 2]) \cup usable(site.general[1])
                    \cup usable(site.searches[1]) \subseteq found
               /\ \A worse \in sample.worse : ids(worse) \subseteq found
      /\ sample.of = "dana" =>
           LET sections == sample.site.sections
               blocked(n) == UNION {ids(sections[m].items) : m \in {k \in 1 .. n - 1 : sections[k].ok}}
           IN  /\ soundly(sample.found)
               /\ \A n \in DOMAIN sections : usable(sections[n]) \ blocked(n) \subseteq ids(sample.found)

\* The dashboard and the importer count the same thing with two programs
\* (prisma-dashboard.repository.ts:15,
\* pipeline.ts:12): what a published catalogue shows are
\* the totals and spreads of the dataset it was seeded from, the cheapest
\* baskets are of its products, and every product listed is found by its id.
Pipelines == [d \in DOMAIN Datasets |-> RunPipeline(Datasets[d])]
DashboardIsOfTheDataset ==
  ~Unavailable /\ db.data # 0 /\ Current # <<>> =>
    \A board \in {GetDashboard({"DINA", "DANA", "FIX_PRICE"})}, data \in {Pipelines[db.data]} :
        /\ board.canonicalProducts = Len(data.groups)
        /\ board.matchedAcrossStores = data.matchedTwo
        /\ \A i \in DOMAIN board.priceSpreads :
             (board.priceSpreads[i].percent + 50) \div 100 - data.spreads[i].percent \in {0, 1}
        /\ \A p \in ToSet(Current) : FindById(p.id) = <<p>>
        /\ \A s \in DOMAIN board.baskets : \A i \in DOMAIN board.baskets[s].items :
             LET item == board.baskets[s].items[i]
             IN  item # Nothing => \E p \in ToSet(Current) :
                   p.id = item.id /\ <<s, item.price>> \in {<<o.store, o.price>> : o \in ToSet(p.offers)}

\* What is asked of the catalogue alone is asked before the dialogue begins:
\* every state of the catalogue is reached there too.
Unheard == turn = Ready /\ answers = <<>> /\ now = 0

\* ReferenceVoice!NoPartialCatalogue, ReferenceVoice!SeedRecovers and
\* DashboardIsOfTheDataset (seed.ts:24): whatever kills the seed, readers see a
\* whole catalogue or none, and the next seed puts everything right.
CatalogueIsWhole ==
  /\ NoPartialCatalogue
  /\ SeedRecovers
  /\ Unheard => DashboardIsOfTheDataset

\* ReferenceVoice!OfferedFilterFinds and ReferenceVoice!QueryWasHeard
\* (product-query.ts:24, voice-state.ts:10): a filter that is offered finds something, and what
\* is asked for was said.
DialogueIsHonest == (Unheard => OfferedFilterFinds) /\ QueryWasHeard

\* ReferenceVoice!BasketIsOrderFree, FoodsAreApart, GroupsStandTogether and
\* ImportKeepsWhatItSaw (basket-calculator.ts:30, matcher.service.ts:161,
\* dina.scraper.ts:67): from the site to the basket nothing is lost or mixed up
\* by the order of rows, the words of a name or a page that fails.
ComparedIsComparable ==
  (Unheard => BasketIsOrderFree) /\ FoodsAreApart /\ GroupsStandTogether /\ ImportKeepsWhatItSaw
=============================================================================
