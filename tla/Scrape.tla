------------------------------- MODULE Scrape -------------------------------
(* The scrapers of the pipeline as functions of what a store's site answers *)
(* (pipeline/src/http.ts, scrapers/*.ts, scrape-policy.ts, source-file.ts). *)
(* The loops over pages are sequential except for the pool of Dana, whose   *)
(* interleavings are actions of Nightly.  An item of a page keeps its id,   *)
(* its price and the categories that lead to it; prices are in thousandths  *)
(* of a tenge before rounding and in tenge after it.                        *)
EXTENDS Integers, SequencesExt

CONSTANTS Retries,        \* retries of politeFetch (3 in the code)
          PageSize,       \* products per page of the API (24 DINA, 28 Fix Price)
          MaxErrors,      \* page errors the DINA scrapers bear (10)
          MaxPages        \* bound on the pages of one category (1000 / 500)

\* A price from zero on, half up, from thousandths (Math.round).
Round(m) == (m + 500) \div 1000

\* DINA_PER_KG_MIN_PRICE: from 100 tenge on a weighed item is priced per kg.
DinaPriceUnit(raw) == IF raw >= 100 * 1000 THEN "kg" ELSE "g"

\* Grams the shown price is for: the kilograms of the name, else its grams
\* when they exceed 50, else one kilogram.
WeightMultiplier(item) ==
  CASE item.kgInName > 0 -> item.kgInName * 1000
    [] item.gInName > 50 -> item.gInName
    [] OTHER             -> 1000

DinaScaled(item, raw) ==
  IF ~item.weighed THEN Round(raw)
  ELSE IF DinaPriceUnit(raw) = "kg" THEN Round((raw * WeightMultiplier(item)) \div 1000)
                                    ELSE Round(raw * WeightMultiplier(item))

\* An item becomes one product or none.
MapDinaItem(item) ==
  LET price == DinaScaled(item, item.raw)
      old   == DinaScaled(item, item.old)
  IN  IF item.raw <= 0 \/ price <= 0 THEN {}
      ELSE {[id |-> item.id, price |-> price,
             oldPrice |-> IF item.old > 0 /\ old > price THEN old ELSE 0]}

\* Fix Price: the special price is taken when it is lower than the regular one.
MapFixPriceItem(item) ==
  LET regular == Round(item.raw)
      special == Round(item.old)
      price   == IF special > 0 /\ special < regular THEN special ELSE regular
  IN  IF price <= 0 THEN {}
      ELSE {[id |-> item.id, price |-> price,
             oldPrice |-> IF price < regular THEN regular ELSE 0]}

\* Dana: the unit price of the card's JSON precedes the step price of the DOM.
MapDanaCard(item) ==
  LET price == Round(IF item.raw > 0 THEN item.raw ELSE item.step)
      old   == Round(item.old)
  IN  IF price <= 0 THEN {}
      ELSE {[id |-> item.id, price |-> price, oldPrice |-> IF old > price THEN old ELSE 0]}

Mapped(Op(_), items) == FlattenSeq([i \in DOMAIN items |-> SetToSeq(Op(items[i]))])

\* products.has(id) ? skip : set: the first occurrence of an id wins.
FirstWins(products) ==
  FoldLeft(LAMBDA acc, p : IF \E i \in DOMAIN acc : acc[i].id = p.id THEN acc
                           ELSE Append(acc, p), <<>>, products)

-----------------------------------------------------------------------------
(* One request: politeFetch ends at the first success or at the first 4xx   *)
(* other than 429 ("gone" is 404); a network error, 5xx or 429 is retried.  *)
PoliteFetch(tries) ==
  LET decisive == {i \in 1 .. Retries + 1 : tries[i].kind # "busy"}
  IN  IF decisive = {} THEN [kind |-> "busy"]
      ELSE tries[CHOOSE i \in decisive : \A j \in decisive : i <= j]

Fetched(tries) == PoliteFetch(tries).kind = "ok"
Body(tries)    == PoliteFetch(tries).body

Least(S, default) == IF S = {} THEN default ELSE CHOOSE n \in S : \A m \in S : n <= m

Failed(why) == [ok |-> FALSE, why |-> why]
Scraped(mode, scoped, errors, products) ==
  [ok |-> TRUE, mode |-> mode, scoped |-> scoped, errorCount |-> errors,
   products |-> FirstWins(products)]

-----------------------------------------------------------------------------
(* DINA by category: every page is a request, items name further categories.*)

\* The page at which the walk of a category stops: a failed request, a short
\* page or the last one by the total (-1: no total was sent).
DinaLastPage(site, cat) ==
  Least({p \in 1 .. MaxPages :
           \/ ~Fetched(site.page[cat][p])
           \/ Len(Body(site.page[cat][p]).edges) < PageSize
           \/ /\ Body(site.page[cat][p]).total >= 0
              /\ p * PageSize >= Body(site.page[cat][p]).total}, MaxPages)

DinaEdges(site, cat) ==
  FlattenSeq([p \in 1 .. DinaLastPage(site, cat) |->
               IF Fetched(site.page[cat][p]) THEN Body(site.page[cat][p]).edges ELSE <<>>])

\* Categories met at the items whose first category is inside the scope.
DinaFound(site, cat, roots) ==
  FlattenSeq([i \in DOMAIN DinaEdges(site, cat) |->
    LET cats == DinaEdges(site, cat)[i].cats
    IN  IF cats # <<>> /\ cats[1] \in roots THEN cats ELSE <<>>])

NewOnly(known, more) ==
  FoldLeft(LAMBDA acc, c : IF c \in ToSet(acc) THEN acc ELSE Append(acc, c), known, more)

\* The queue grows while it is walked; eleven page errors abort the scrape.
ScrapeDinaRoots(site, roots, scoped) ==
  LET start == SelectSeq(site.categories, LAMBDA c : c \in roots)
      walk[n \in 0 .. Len(site.all)] ==
        IF n = 0 THEN [queue |-> start, edges |-> <<>>, errors |-> 0]
        ELSE IF n > Len(walk[n - 1].queue) THEN walk[n - 1]
        ELSE LET w == walk[n - 1]
                 c == w.queue[n]
             IN  [queue  |-> NewOnly(w.queue, DinaFound(site, c, roots)),
                  edges  |-> w.edges \o DinaEdges(site, c),
                  errors |-> w.errors + IF Fetched(site.page[c][DinaLastPage(site, c)])
                                        THEN 0 ELSE 1]
      done  == walk[Len(site.all)]
  IN  IF start = <<>> THEN Failed("no categories")
      ELSE IF done.errors > MaxErrors THEN Failed("too many page errors")
      ELSE Scraped("roots", scoped, done.errors, Mapped(MapDinaItem, done.edges))

(* DINA in batches: several pages are aliases of one request.               *)

\* parseBatchResponse: alias i of an answer with its data, its errors.
ParseBatchResponse(body, reqs) ==
  [i \in DOMAIN reqs |->
     IF ~body.data \/ reqs[i] \in body.errors \/ reqs[i] \notin DOMAIN body.nodes
     THEN [ok |-> FALSE]
     ELSE [ok |-> TRUE, total |-> body.nodes[reqs[i]].total,
           edges |-> body.nodes[reqs[i]].edges]]

Chunks(reqs, n) ==
  [c \in 1 .. ((Len(reqs) + n - 1) \div n) |->
     SubSeq(reqs, (c - 1) * n + 1, IF c * n < Len(reqs) THEN c * n ELSE Len(reqs))]

\* One pass over the requests: a failed request loses its whole chunk and
\* counts one error, a failed alias counts one.  The answers are in order.
DinaPass(site, pass, reqs, n) ==
  LET chunks == Chunks(reqs, n)
      lost   == {c \in DOMAIN chunks : ~Fetched(site.http[pass][c])}
      parsed == [c \in DOMAIN chunks |->
                   IF c \in lost THEN <<>>
                   ELSE ParseBatchResponse(Body(site.http[pass][c]), chunks[c])]
      pairs  == FlattenSeq([c \in DOMAIN chunks |->
                   [i \in DOMAIN parsed[c] |-> [req |-> chunks[c][i], res |-> parsed[c][i]]]])
  IN  [answers |-> SelectSeq(pairs, LAMBDA x : x.res.ok),
       errors  |-> Cardinality(lost) + Len(SelectSeq(pairs, LAMBDA x : ~x.res.ok))]

\* Mutant: the further pages are never asked for.
ScrapeDinaBatchOnePass(site, ids, n) ==
  LET pass1 == DinaPass(site, 1, [i \in DOMAIN ids |-> <<ids[i], 1>>], n)
  IN  Scraped("batch", TRUE, pass1.errors, Mapped(MapDinaItem,
        FlattenSeq([i \in DOMAIN pass1.answers |-> pass1.answers[i].res.edges])))

\* Pass 1 reads page 1 of every category, pass 2 the pages its total promises.
ScrapeDinaBatch(site, ids, n) ==
  LET pass1   == DinaPass(site, 1, [i \in DOMAIN ids |-> <<ids[i], 1>>], n)
      counted == SelectSeq(pass1.answers, LAMBDA x : x.res.total >= 0)
      rest(x) == IF x.res.total = 0 \/ Len(x.res.edges) < PageSize THEN <<>>
                 ELSE [p \in 1 .. ((x.res.total + PageSize - 1) \div PageSize) - 1 |->
                         <<x.req[1], p + 1>>]
      pass2   == DinaPass(site, 2, FlattenSeq([i \in DOMAIN counted |-> rest(counted[i])]), n)
      edges   == FlattenSeq([i \in DOMAIN counted |-> counted[i].res.edges])
                 \o FlattenSeq([i \in DOMAIN pass2.answers |-> pass2.answers[i].res.edges])
      errors  == pass1.errors + (Len(pass1.answers) - Len(counted)) + pass2.errors
  IN  IF errors > MaxErrors THEN Failed("too many page errors")
      ELSE Scraped("batch", TRUE, errors, Mapped(MapDinaItem, edges))

\* The shop must be the one of Aktau; a readable scope selects the batches.
ScrapeDina(site, scope, all, n) ==
  IF ~site.aktau THEN Failed("shop is not in Aktau")
  ELSE IF all THEN ScrapeDinaRoots(site, ToSet(site.all), FALSE)
  ELSE IF scope = <<>> THEN ScrapeDinaRoots(site, site.scopeRoots, TRUE)
  ELSE ScrapeDinaBatch(site, scope, n)

-----------------------------------------------------------------------------
(* Fix Price: pages of an alias until a short, an odd or the last page.     *)
FixLastPage(pages) ==
  Least({p \in 1 .. MaxPages :
           \/ ~Fetched(pages[p])
           \/ ~Body(pages[p]).array
           \/ Len(Body(pages[p]).list) < PageSize
           \/ Body(pages[p]).total > 0 /\ p * PageSize >= Body(pages[p]).total}, MaxPages)

FixLists(pages) ==
  FlattenSeq([p \in 1 .. FixLastPage(pages) |->
    IF Fetched(pages[p]) /\ Body(pages[p]).array THEN Body(pages[p]).list ELSE <<>>])

ScrapeFixPrice(site, aliases, scoped) ==
  IF ToSet(aliases) \ ToSet(site.menu) # {} THEN Failed("alias not in menu")
  ELSE Scraped("api", scoped,
         Cardinality({a \in ToSet(aliases) :
                        ~Fetched(site.page[a][FixLastPage(site.page[a])])}),
         Mapped(MapFixPriceItem,
                FlattenSeq([i \in DOMAIN aliases |-> FixLists(site.page[aliases[i]])])))

\* A HAR file: its successful JSON answers to the product requests.
LoadFixPriceFromHar(entries) ==
  LET lists == SelectSeq(entries, LAMBDA e : e.status = 200 /\ e.product /\ e.json)
  IN  Scraped("har", FALSE, 0,
              Mapped(MapFixPriceItem, FlattenSeq([i \in DOMAIN lists |-> lists[i].list])))

-----------------------------------------------------------------------------
(* Dana: a menu, targets, two pooled phases and a merge in target order.    *)
DanaMode(all, sections) ==
  IF all THEN "full" ELSE IF sections = <<>> THEN "roots" ELSE "sections"

DanaMenu(site, mode) ==
  IF mode = "roots" \/ ~Fetched(site.menu) THEN {} ELSE Body(site.menu)

DanaTargets(site, mode, sections) ==
  LET menu   == DanaMenu(site, mode)
      section(path) == [path |-> path, section |-> {path}]
      listed == SelectSeq(sections, LAMBDA p : menu = {} \/ p \in menu)
  IN  IF mode = "sections" THEN [i \in DOMAIN listed |-> section(listed[i])]
      ELSE [i \in DOMAIN site.roots |-> [path |-> site.roots[i], section |-> {}]]
           \o (IF mode = "full" THEN [i \in DOMAIN SetToSeq(menu) |-> section(SetToSeq(menu)[i])]
               ELSE <<>>)

\* Errors before the first page: an empty menu, a section the menu has not.
DanaMenuErrors(site, mode, sections) ==
  LET menu == DanaMenu(site, mode)
  IN  (IF mode # "roots" /\ menu = {} THEN 1 ELSE 0)
      + (IF mode = "sections" /\ menu # {} THEN Cardinality(ToSet(sections) \ menu) ELSE 0)

\* fetchPage: cards and page count, the end of a section (404 behind page 1),
\* or an error; a page without cards is an error.
DanaFetchPage(site, target, page) ==
  LET tries == site.page[target.path][page]
  IN  IF Fetched(tries) THEN
        LET cards == Mapped(MapDanaCard, Body(tries).cards)
        IN  IF cards = <<>> THEN [kind |-> "error"]
            ELSE [kind |-> "products", products |-> cards,
                  count |-> IF page > 1 THEN 1
                            ELSE IF Body(tries).count < MaxPages THEN Body(tries).count
                            ELSE MaxPages]
      ELSE IF page > 1 /\ PoliteFetch(tries).kind = "gone" THEN [kind |-> "end"]
      ELSE [kind |-> "error"]

\* Phase 2: pages 2..N of every target whose first page was read.
DanaJobs(first) ==
  FlattenSeq([t \in DOMAIN first |->
    IF first[t].kind # "products" THEN <<>>
    ELSE [p \in 1 .. first[t].count - 1 |-> [target |-> t, page |-> p + 1]]])

\* Targets, then pages, then cards: the first card of an id wins; a product
\* carries the sections of all targets that listed it.
DanaMerge(mode, targets, menuErrors, first, jobs, rest) ==
  LET results(t) == <<first[t]>> \o
                    [k \in DOMAIN SelectSeq(jobs, LAMBDA j : j.target = t) |->
                       rest[CHOOSE n \in DOMAIN jobs :
                              /\ jobs[n].target = t
                              /\ jobs[n].page = k + 1]]
      cards(t)   == FlattenSeq([r \in DOMAIN results(t) |->
                      IF results(t)[r].kind = "products" THEN results(t)[r].products ELSE <<>>])
      merged     == FirstWins(FlattenSeq([t \in DOMAIN targets |-> cards(t)]))
      sections(id) == UNION {targets[t].section :
                        t \in {u \in DOMAIN targets : \E i \in DOMAIN cards(u) : cards(u)[i].id = id}}
      failures(s) == Len(SelectSeq(s, LAMBDA r : r.kind = "error"))
  IN  [ok |-> TRUE, mode |-> mode, scoped |-> mode = "sections",
       errorCount |-> menuErrors + failures(first) + failures(rest),
       products |-> [i \in DOMAIN merged |->
                      [id |-> merged[i].id, price |-> merged[i].price,
                       oldPrice |-> merged[i].oldPrice, sections |-> sections(merged[i].id)]]]

-----------------------------------------------------------------------------
(* What may be written.                                                     *)
IsFragileScrape(store, result) ==
  \/ store = "DINA" /\ result.mode = "batch"
  \/ store = "FIX_PRICE" /\ result.scoped
  \/ store = "DANA" /\ result.mode = "sections"

\* Mutant: a single page error is borne.
CompleteEnoughLoose(store, result, all) ==
  all \/ result.errorCount <= 1 \/ ~IsFragileScrape(store, result)

CompleteEnough(store, result, all) ==
  all \/ result.errorCount = 0 \/ ~IsFragileScrape(store, result)

\* validate(): some product, no id twice.
ValidFile(result) ==
  /\ result.products # <<>>
  /\ \A i, j \in DOMAIN result.products :
       result.products[i].id = result.products[j].id => i = j

\* DINA_BATCH_PAGES and DANA_CONCURRENCY: nonsense gives the default, too much
\* the maximum (0 stands for everything that is no positive integer).
Resolved(env, default, most) == IF env < 1 THEN default ELSE IF env > most THEN most ELSE env
ResolveDinaBatchPages(env)  == Resolved(env, 20, 20)
ResolveDanaConcurrency(env) == Resolved(env, 3, 4)
=============================================================================
