--------------------------- MODULE ReferenceCatalog ---------------------------
(* The reference API's catalogue: the seeder that replaces it and the reads *)
(* that run meanwhile (backend/prisma/seed.ts, backend/src/database,        *)
(* catalog, dashboard).                                                     *)
(*                                                                          *)
(* The seeder writes table after table without a transaction; it may die    *)
(* between any two statements and is then started again, on any dataset.    *)
(* A read runs in one repeatable-read transaction: it sees one value of db. *)
(* A table holds a prefix of the dataset's rows, so db counts them.         *)
EXTENDS Matching, TLC

CONSTANTS
  Datasets,     \* the final_dataset.json files: sequences of raw products
  ChunkSize,    \* rows per createMany (200 in the code)
  LocationRows, \* the store locations of the script
  MaxSeeds      \* bound: starts of the seeder

ASSUME SeedConstants == ChunkSize \in Nat \ {0} /\ LocationRows \in Nat /\ MaxSeeds \in Nat

VARIABLES
  files,   \* the datasets as pipeline.ts wrote them; they do not change
  db,      \* generation and dataset of the rows, and how many each table has
  seed,    \* the running seeder: the step it is at, the dataset it has read
  seeds    \* how many seeders were started

catalogVars == <<db, seed, seeds>>

-----------------------------------------------------------------------------
\* What the seeder makes of the groups of a dataset: its products, and the
\* rows of their members in the order of the file.
FileOf(groups) ==
  [products |-> [n \in DOMAIN groups |->
                  [name |-> groups[n].members[1].raw.name, brand |-> groups[n].brand,
                   category |-> groups[n].category, attributes |-> groups[n].attributes]],
   rows |-> FlattenSeq([n \in DOMAIN groups |-> [i \in DOMAIN groups[n].members |->
              [product |-> n, id |-> groups[n].members[i].raw.id, store |-> groups[n].members[i].raw.store,
               price |-> groups[n].members[i].raw.price]]])]

\* @@unique([snapshotId, storeId, sourceProductId]) refuses the rows' chunk.
Repeated(d, k) == Cardinality({<<files[d].rows[i].store, files[d].rows[i].id>> : i \in 1 .. k}) < k

Multi(key, options) == [key |-> key, type |-> "multi-select", options |-> options]

\* The filter schemas of the categories; fat in thousandths of a percent.
FilterSchemas ==
  [milk  |-> <<Multi("volumeMl", <<500, 900, 950, 1000>>),
               Multi("fatPercent", <<1500, 2500, 3200, 6000, 8500>>), Multi("brand", BrandAliases)>>,
   bread |-> <<Multi("breadType", <<"white", "rye", "flatbread", "baton", "crispbread">>),
               Multi("weightGrams", <<100, 300, 400, 450, 500, 600>>),
               [key |-> "sliced", type |-> "boolean", options |-> <<>>]>>,
   eggs  |-> <<Multi("packageCount", <<1, 10, 20>>)>>,
   sugar |-> <<Multi("weightGrams", <<500, 700, 800, 1000, 2000, 3000, 5000>>)>>,
   oil   |-> <<Multi("volumeMl", <<500, 800, 900, 1000, 1800, 2000, 5000>>), Multi("brand", BrandAliases)>>,
   other |-> <<>>]

-----------------------------------------------------------------------------
(* The seeder.                                                              *)
NoRows == [gen |-> 0, data |-> 0, offers |-> 0, mappings |-> 0, canonicals |-> 0, raws |-> 0,
           runs |-> 0, snapshot |-> "none", stores |-> FALSE, locations |-> 0, categories |-> FALSE]

\* Mutant: the snapshot is removed before the rows that refer to it.
DeletionsSnapshotFirst == <<"snapshot", "offers", "mappings", "canonicals", "raws", "runs", "categories">>

\* The tables in the order they are emptied, and in the order they are filled.
Deletions  == <<"offers", "mappings", "canonicals", "raws", "runs", "snapshot", "categories">>
Insertions == <<"raws", "canonicals", "mappings", "offers">>
RowsOf(table, d) == Len(IF table = "canonicals" THEN files[d].products ELSE files[d].rows)

\* Of the categories only those go that are not the six of the seeder: none.
\* onDelete: Cascade from the products, Restrict from the snapshot.
Blocked(table) == table = "snapshot" /\ (db.offers > 0 \/ db.raws > 0 \/ db.runs > 0)
Emptied(table) ==
  IF table = "snapshot" THEN [db EXCEPT !.snapshot = "none"]
  ELSE IF table = "categories" THEN db
  ELSE IF table \in {"canonicals", "raws"} THEN [db EXCEPT ![table] = 0, !.offers = 0, !.mappings = 0]
  ELSE [db EXCEPT ![table] = 0]

NoSeed == [step |-> "idle", at |-> 0, data |-> 0, ended |-> "never"]
SeedGoes(step, at) == seed' = [seed EXCEPT !.step = step, !.at = at]
SeedEnds(how) == seed' = [NoSeed EXCEPT !.ended = how, !.data = seed.data]

\* d is 0 when the file does not exist.
StartSeed(d) ==
  /\ seed.step = "idle" /\ seeds < MaxSeeds
  /\ seeds' = seeds + 1
  /\ seed' = [step |-> "delete", at |-> 1, data |-> d, ended |-> "never"]
  /\ UNCHANGED db

DeleteTable ==
  /\ seed.step = "delete"
  /\ IF Blocked(Deletions[seed.at])
     THEN SeedEnds("failed") /\ UNCHANGED db
     ELSE /\ db' = Emptied(Deletions[seed.at])
          /\ IF seed.at < Len(Deletions) THEN SeedGoes("delete", seed.at + 1) ELSE SeedGoes("stores", 0)
  /\ UNCHANGED seeds

UpsertStores ==
  /\ seed.step = "stores"
  /\ db' = [db EXCEPT !.stores = TRUE]
  /\ SeedGoes("locations", 1)
  /\ UNCHANGED seeds

\* Mutant: the walk over the locations does not advance.
SeedLocationStuck ==
  /\ seed.step = "locations"
  /\ IF seed.at > LocationRows THEN SeedGoes("categories", 0) ELSE SeedGoes("locations", seed.at)
  /\ UNCHANGED <<db, seeds>>

\* A location is looked up before it is created: none is written twice.
SeedLocation ==
  /\ seed.step = "locations"
  /\ IF seed.at > LocationRows
     THEN SeedGoes("categories", 0) /\ UNCHANGED db
     ELSE /\ db' = [db EXCEPT !.locations = IF @ >= seed.at THEN @ ELSE @ + 1]
          /\ SeedGoes("locations", seed.at + 1)
  /\ UNCHANGED seeds

UpsertCategories ==
  /\ seed.step = "categories"
  /\ db' = [db EXCEPT !.categories = TRUE]
  /\ IF seed.data = 0 THEN SeedEnds("nothing") ELSE SeedGoes("snapshot", 0)
  /\ UNCHANGED seeds

\* Mutant: the snapshot is published as soon as it is created.
CreateSnapshotPublished ==
  /\ seed.step = "snapshot"
  /\ db' = [db EXCEPT !.snapshot = "published", !.gen = seeds, !.data = seed.data]
  /\ SeedGoes("runs", 0)
  /\ UNCHANGED seeds

\* Its id is fixed: a snapshot left behind would refuse it.
CreateSnapshot ==
  /\ seed.step = "snapshot"
  /\ IF db.snapshot # "none"
     THEN SeedEnds("failed") /\ UNCHANGED db
     ELSE /\ db' = [db EXCEPT !.snapshot = "building", !.gen = seeds, !.data = seed.data]
          /\ SeedGoes("runs", 0)
  /\ UNCHANGED seeds

CreateRuns ==
  /\ seed.step = "runs"
  /\ db' = [db EXCEPT !.runs = 3]
  /\ SeedGoes("insert", 1)
  /\ UNCHANGED seeds

\* One createMany of chunkInsert; a table that is full gives way to the next.
InsertChunk ==
  /\ seed.step = "insert"
  /\ LET table == Insertions[seed.at]
         upto  == Min({db[table] + ChunkSize, RowsOf(table, seed.data)})
     IN  IF table = "raws" /\ Repeated(seed.data, upto)
         THEN SeedEnds("failed") /\ UNCHANGED db
         ELSE /\ db' = [db EXCEPT ![table] = upto]
              /\ IF upto < RowsOf(table, seed.data) THEN UNCHANGED seed
                 ELSE IF seed.at < Len(Insertions) THEN SeedGoes("insert", seed.at + 1)
                 ELSE SeedGoes("publish", 0)
  /\ UNCHANGED seeds

PublishFixture ==
  /\ seed.step = "publish"
  /\ db' = [db EXCEPT !.snapshot = "published"]
  /\ SeedEnds("seeded")
  /\ UNCHANGED seeds

KillSeed ==
  /\ seed.step # "idle"
  /\ SeedEnds("killed")
  /\ UNCHANGED <<db, seeds>>

SeedStep == \/ DeleteTable \/ UpsertStores \/ SeedLocation \/ UpsertCategories
            \/ CreateSnapshot \/ CreateRuns \/ InsertChunk \/ PublishFixture

CatalogInit == /\ files = [d \in DOMAIN Datasets |-> FileOf(GroupProducts(Datasets[d]))]
               /\ db = NoRows /\ seed = NoSeed /\ seeds = 0
CatalogNext == (\E d \in 0 .. Len(Datasets) : StartSeed(d)) \/ SeedStep \/ KillSeed

-----------------------------------------------------------------------------
(* The reads: each of one value of db.                                      *)
Unavailable == db.snapshot # "published"

\* The member rows of a product whose offers are stored.
OffersOf(n) == SelectSeq(SubSeq(files[db.data].rows, 1, db.offers), LAMBDA row : row.product = n)

\* mapProduct and normalizeProduct: nothing for a product without an offer.
MapProduct(n) ==
  LET offers == SortSeq(OffersOf(n), LAMBDA x, y : x.price < y.price)
  IN  [id |-> <<db.gen, n>>, offers |-> offers, minPrice |-> offers[1].price] @@ files[db.data].products[n]

\* The products of the published snapshot that have a usable offer.
Current ==
  IF Unavailable THEN <<>>
  ELSE LET listed == SelectSeq([n \in 1 .. db.canonicals |-> n], LAMBDA n : OffersOf(n) # <<>>)
       IN  [i \in DOMAIN listed |-> MapProduct(listed[i])]

ValueOf(product, key) == IF key = "brand" THEN product.brand ELSE product.attributes[key]
IsNull(product, key) ==
  CASE key = "sliced"                -> ~ValueOf(product, key)
    [] key \in {"brand", "breadType"} -> ValueOf(product, key) = ""
    [] OTHER                         -> ValueOf(product, key) = 0

MatchesFilters(product, filters) ==
  \A key \in DOMAIN filters : ~IsNull(product, key) /\ ValueOf(product, key) \in filters[key]

Before(sort, x, y) ==
  CASE sort = "name_asc"   -> x.name.rank < y.name.rank \/ (x.name.rank = y.name.rank /\ x.id[2] < y.id[2])
    [] sort = "price_desc" -> x.minPrice > y.minPrice \/ (x.minPrice = y.minPrice /\ x.id[2] < y.id[2])
    [] OTHER               -> x.minPrice < y.minPrice \/ (x.minPrice = y.minPrice /\ x.id[2] < y.id[2])

\* findProducts; limit 0 stands for none.
FindProducts(query) ==
  LET found == SelectSeq(Current, LAMBDA p :
                 /\ query.category \in {"", p.category}
                 /\ query.search = "" \/ query.search \in p.name.words
                 /\ MatchesFilters(p, query.filters))
      sorted == SortSeq(found, LAMBDA x, y : Before(query.sort, x, y))
      last   == IF query.limit = 0 THEN Len(sorted) ELSE Min({query.offset + query.limit, Len(sorted)})
  IN  SubSeq(sorted, query.offset + 1, last)

FindById(id) == SelectSeq(Current, LAMBDA p : p.id = id)

FindCategories == {p.category : p \in ToSet(Current)}

\* Mutant: the values are gathered over all categories.
FindFiltersAnywhere(category) ==
  LET present(key) == {ValueOf(p, key) : p \in {q \in ToSet(Current) : ~IsNull(q, key)}}
      narrowed == [i \in DOMAIN FilterSchemas[category] |->
                     [FilterSchemas[category][i] EXCEPT
                      !.options = SelectSeq(@, LAMBDA o : o \in present(FilterSchemas[category][i].key))]]
  IN  SelectSeq(narrowed, LAMBDA f : present(f.key) # {} /\ (f.type = "boolean" \/ f.options # <<>>))

\* findFilters: the schema is the allowlist, narrowed to what the products have.
FindFilters(category) ==
  LET present(key) == {ValueOf(p, key) : p \in {q \in ToSet(Current) : q.category = category /\ ~IsNull(q, key)}}
      narrowed == [i \in DOMAIN FilterSchemas[category] |->
                     [FilterSchemas[category][i] EXCEPT
                      !.options = SelectSeq(@, LAMBDA o : o \in present(FilterSchemas[category][i].key))]]
      kept(f)  == present(f.key) # {} /\ (f.type = "boolean" \/ f.options # <<>>)
  IN  IF db.categories THEN SelectSeq(narrowed, kept) ELSE <<>>

\* parseProductQuery: a query, or "bad" for what is answered with 400.  A value
\* that is written in the option's own type is that option.
Refused == [ok |-> FALSE]
ParseFilter(definition, inputs) ==
  IF definition.type = "boolean" THEN inputs \subseteq BOOLEAN ELSE inputs \subseteq ToSet(definition.options)

ParseProductQuery(raw, definitions) ==
  LET named(key) == SelectInSeq(definitions, LAMBDA f : f.key = key)
  IN  IF \/ raw.sort \notin {"", "price_asc", "price_desc", "name_asc"}
         \/ raw.limit \notin 0 .. 100
         \/ DOMAIN raw.filters # {} /\ raw.category = ""
         \/ \E key \in DOMAIN raw.filters :
              named(key) = 0 \/ ~ParseFilter(definitions[named(key)], raw.filters[key])
      THEN Refused
      ELSE [ok |-> TRUE, category |-> raw.category, search |-> raw.search,
            sort |-> IF raw.sort = "" THEN "price_asc" ELSE raw.sort,
            limit |-> IF raw.limit = 0 THEN 24 ELSE raw.limit, offset |-> raw.offset, filters |-> raw.filters]

\* calculateBaskets: per store and slot the cheapest fitting offer; of two
\* equal ones that of the smaller product id.
BasketSlots ==
  << [category |-> "milk", key |-> "volumeMl", least |-> 1000, most |-> 1000, word |-> "milk"],
     [category |-> "groats", key |-> "weightGrams", least |-> 400, most |-> 400, word |-> "pasta"],
     [category |-> "groats", key |-> "weightGrams", least |-> 800, most |-> 800, word |-> "rice"],
     [category |-> "dairy", key |-> "weightGrams", least |-> 115, most |-> 115, word |-> "fruttis"],
     [category |-> "oil", key |-> "volumeMl", least |-> 800, most |-> 1000, word |-> "sunflower"] >>

\* The first two patterns are anchored at the beginning of the name.
FitsSlot(product, slot) ==
  /\ product.category = slot.category
  /\ product.attributes[slot.key] \in slot.least .. slot.most
  /\ IF slot.word \in {"milk", "pasta", "rice"} THEN product.name.first = slot.word
     ELSE slot.word \in product.name.words

Nothing == [id |-> <<0, 0>>, price |-> 0]
\* Mutant: of two equal prices the one met first is kept.
CheaperFirst(best, product, offer) ==
  IF best = Nothing \/ offer.price < best.price THEN [id |-> product.id, price |-> offer.price] ELSE best

Cheaper(best, product, offer) ==
  IF \/ best = Nothing \/ offer.price < best.price
     \/ offer.price = best.price /\ product.id[2] < best.id[2]
  THEN [id |-> product.id, price |-> offer.price] ELSE best

CalculateBaskets(products, stores) ==
  LET item(store, slot) ==
        FoldLeft(LAMBDA best, p :
                   FoldLeft(LAMBDA b, o : Cheaper(b, p, o), best,
                            SelectSeq(p.offers, LAMBDA o : o.store = store /\ FitsSlot(p, slot))),
                 Nothing, products)
      items(store) == [s \in DOMAIN BasketSlots |-> item(store, BasketSlots[s])]
  IN  [store \in stores |-> [items |-> items(store),
                             total |-> FoldLeft(LAMBDA sum, i : sum + i.price, 0, items(store))]]

\* getDashboard: the products of one view; spreads and matches follow from them.
GetDashboard(stores) ==
  LET matched == SelectSeq(Current, LAMBDA p : Cardinality({o.store : o \in ToSet(p.offers)}) >= 2)
      least(p) == p.minPrice
      most(p)  == p.offers[Len(p.offers)].price
      percent(p) == ((most(p) - least(p)) * 10000 + least(p) \div 2) \div least(p)
  IN  [canonicalProducts |-> Len(Current), stores |-> Cardinality(stores), matchedAcrossStores |-> Len(matched),
       priceSpreads |-> SortSeq([i \in DOMAIN matched |-> [id |-> matched[i].id, percent |-> percent(matched[i])]],
                                LAMBDA x, y : \/ x.percent > y.percent
                                              \/ x.percent = y.percent /\ x.id[2] < y.id[2]),
       baskets |-> CalculateBaskets(Current, stores)]
=============================================================================
