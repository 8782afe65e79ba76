-------------------------------- MODULE MCWeb --------------------------------
(* The site: a tab (Reader), the cache behind the pages (PageCache) and     *)
(* the deals of the front page (Storefront).  They share no state, so a     *)
(* behaviour runs one of them, and what Storefront makes of products and    *)
(* baskets is checked in initial states of its own in which nothing runs.   *)
EXTENDS Reader

VARIABLES part,     \* what runs: "tab", "server", "deals" or "sample"
          sample,
          published, data, onItsWay, page, render, notice, failures, served, sure,
          count, query

C == INSTANCE PageCache WITH Ttl <- 2, MaxPublications <- 1, MaxFailures <- 1,
                             SitemapPage <- 2, SitemapPages <- 4, SitemapWidth <- 2
F == INSTANCE Storefront WITH OffersShown <- 2, OffersVisible <- 3, TopDeals <- 2,
                              Spreads <- <<3, 1, 4, 2, 5>>

cacheVars == <<published, data, onItsWay, page, render, notice, failures, served, sure>>
dealVars  == <<count, query>>

-----------------------------------------------------------------------------
MCEntries == {Address("item", "ru"), [Address("search", "ru") EXCEPT !.q = "ab", !.sort = "bogus"],
              [Address("milk", "ru") EXCEPT !.picks = {"o1", "bogus"}, !.sort = "price_desc"]}
MCTotal(k) == IF k.search = "cd" THEN 0 ELSE IF k.filters # {} THEN 1 ELSE 3

Stores == <<"DINA", "DANA", "FIX_PRICE", "OTHER">>
Offer(i, price, old) == [store |-> Stores[i], price |-> price, old |-> old]
OfferLists ==
  UNION {{[i \in 1 .. n |-> Offer(i, p[i], o[i])] : p \in [1 .. n -> {100, 101, 150}], o \in [1 .. n -> {0, 101, 200}]} :
           n \in 1 .. 3}
  \cup {[i \in 1 .. 4 |-> Offer(i, p[i], 0)] : p \in [1 .. 4 -> {100, 101, 150}]}
Product(offers) == [offers |-> offers, minPrice |-> Min({offers[i].price : i \in DOMAIN offers})]

Basket(i, prices) ==
  [store |-> Stores[i], prices |-> prices,
   total |-> (IF prices[1] = F!Null THEN 0 ELSE prices[1]) + (IF prices[2] = F!Null THEN 0 ELSE prices[2])]
Baskets == {[i \in 1 .. 3 |-> Basket(i, b[i])] : b \in [1 .. 3 -> {F!Null, 10, 20} \X {F!Null, 10, 20}]}
Shops == <<[store |-> "DANA", at |-> 1], [store |-> "DINA", at |-> 2], [store |-> "DANA", at |-> 3],
           [store |-> "OTHER", at |-> 4]>>

\* A sample is what is told of a product on the card, the page and to search
\* engines, or what the dashboard makes of the baskets.
Told(product) ==
  [of |-> "product", first |-> product.offers[1].price, card |-> F!CardView(product),
   page |-> F!PageView(product, FALSE), whole |-> F!PageView(product, TRUE),
   ld |-> F!ProductJsonLd(product), description |-> F!ProductDescription(product)]
NoSample == [of |-> "none"]
Samples == {Told(Product(o)) : o \in OfferLists} \cup {F!DashboardView(Shops, b) : b \in Baskets}

MCInit ==
  /\ Init /\ C!CacheInit /\ F!DealsInit
  /\ \/ part \in {"tab", "server", "deals"} /\ sample = NoSample
     \/ part = "sample" /\ sample \in Samples
  /\ part # "tab" => url.page = "item"

MCNext ==
  /\ UNCHANGED <<part, sample>>
  /\ \/ part = "tab" /\ Next /\ UNCHANGED <<cacheVars, dealVars>>
     \/ part = "server" /\ C!CacheNext /\ UNCHANGED <<vars, dealVars>>
     \/ part = "deals" /\ F!DealsNext /\ UNCHANGED <<vars, cacheVars>>

MCVars == <<vars, cacheVars, dealVars, part, sample>>

\* While the server runs time passes, answers arrive, renders go on, and the
\* pages are visited again and again.
ServerFairness ==
  /\ WF_cacheVars(part = "server" /\ C!Tick)
  /\ \A p \in {"product", "list"} :
       /\ WF_cacheVars(part = "server" /\ C!ApiReads(p)) /\ WF_cacheVars(part = "server" /\ C!Stored(p))
       /\ WF_cacheVars(part = "server" /\ C!StartRender(p)) /\ WF_cacheVars(part = "server" /\ C!EndRender(p))
       /\ SF_cacheVars(part = "server" /\ C!Takes(p))
  /\ WF_cacheVars(part = "server" /\ C!ServeKept)
  /\ SF_cacheVars(part = "server" /\ C!ServeAndRefresh)

MCSpec == MCInit /\ [][MCNext]_MCVars /\ Fairness /\ ServerFairness

\* PageCache!NoticeIsHeeded (route.ts:16, :18), PageCache!SitemapIsComplete,
\* and, of every sample, Storefront!OneLowestPrice and
\* Storefront!BestBasketIsComplete: what readers and search engines are told
\* of products, baskets and the catalogue agrees, and is of the publication
\* they were last told of.
PagesAgree ==
  /\ [](sample.of = "product" => F!OneLowestPrice(sample))
  /\ [](sample.of = "baskets" => F!BestBasketIsComplete(sample))
  /\ [](part = "server" => C!CacheTypeOK /\ C!SitemapIsComplete)
  /\ C!NoticeIsHeeded

\* Reader!EventsTellWhatWasSeen and Storefront!DealsOnlyGrow
\* (pilot-analytics.ts:61, :93, CatalogPage.tsx:49): what was counted was seen,
\* and what is seen of the deals stays.
WhatWasSeenStays == EventsTellWhatWasSeen /\ F!DealsOnlyGrow

\* Reader!SearchSettles and PageCache!PagesCatchUp, of lost and refused
\* notifications (SearchBox.tsx:27, httpAdapter.ts:20): the site comes to rest.
SiteSettles == SearchSettles /\ (part = "server" => C!PagesCatchUp)
=============================================================================
