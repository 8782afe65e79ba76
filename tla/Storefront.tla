----------------------------- MODULE Storefront -----------------------------
(* What the pages of the site make of a product, of the baskets and of the  *)
(* dashboard (frontend/src/lib/offers.ts, baskets.ts, structuredData.ts,    *)
(* seo.ts, stores.ts and the components that draw them), and the block of   *)
(* the deals on the front page with its "show more" (views/CatalogPage.tsx).*)
(* Wording and layout are left out: a view is what a reader is told.        *)
EXTENDS Integers, FiniteSets, SequencesExt

CONSTANTS OffersShown,     \* rows of a card (3)
          OffersVisible,   \* rows of a page before "show all" (5)
          TopDeals,        \* deals added by one "show more" (8)
          Spreads          \* priceSpreads of the dashboard: a sequence of product ids

Null == -1

-----------------------------------------------------------------------------
(* Offers: [store, price, old], old = 0 when the store gives none.          *)

SortOffers(offers) ==
  LET order == SetToSortSeq(DOMAIN offers, LAMBDA i, j :
                 \/ offers[i].price < offers[j].price
                 \/ offers[i].price = offers[j].price /\ i < j)
  IN  [i \in DOMAIN order |-> offers[order[i]]]

\* How much the cheapest store saves against the dearest one.
SavingOf(offers) ==
  LET sorted == SortOffers(offers)
  IN  IF Len(offers) < 2 \/ Last(sorted).price = sorted[1].price THEN [amount |-> 0, store |-> ""]
      ELSE [amount |-> Last(sorted).price - sorted[1].price, store |-> Last(sorted).store]

\* Mutant: the first offers as they came, not the cheapest.
TopOffersAsGiven(offers, limit) ==
  [shown |-> SubSeq(offers, 1, Min({limit, Len(offers)})),
   hiddenCount |-> Max({Len(offers) - limit, 0}),
   maxPrice |-> IF offers = <<>> THEN 0 ELSE Last(SortOffers(offers)).price]

TopOffers(offers, limit) ==
  LET sorted == SortOffers(offers)
  IN  [shown |-> SubSeq(sorted, 1, Min({limit, Len(sorted)})),
       hiddenCount |-> Max({Len(sorted) - limit, 0}),
       maxPrice |-> IF sorted = <<>> THEN 0 ELSE Last(sorted).price]

\* Whole percents, rounded down; none below one.  (The code divides in
\* doubles first: where the quotient is a whole percent it may come out one
\* lower than here.)
DiscountPercent(offer) ==
  LET percent == ((offer.old - offer.price) * 100) \div offer.old
  IN  IF offer.old = 0 \/ offer.old <= offer.price \/ percent < 1 THEN Null ELSE percent

OldPrice(offer) == IF offer.old > offer.price THEN offer.old ELSE Null

\* A row is marked as the cheapest only when there is something to compare.
Row(product, offer) ==
  [store |-> offer.store, price |-> offer.price,
   best |-> Len(product.offers) > 1 /\ offer.price = product.minPrice,
   more |-> offer.price - product.minPrice, old |-> OldPrice(offer)]
Rows(product, offers) == [i \in DOMAIN offers |-> Row(product, offers[i])]

CardView(product) ==
  LET top == TopOffers(product.offers, OffersShown)
  IN  [price |-> product.minPrice, old |-> OldPrice(top.shown[1]), discount |-> DiscountPercent(top.shown[1]),
       saving |-> SavingOf(product.offers), rows |-> Rows(product, top.shown),
       hiddenCount |-> top.hiddenCount, maxPrice |-> top.maxPrice]

PageView(product, expanded) ==
  LET offers == SortOffers(product.offers)
  IN  [price |-> product.minPrice, old |-> OldPrice(offers[1]), discount |-> DiscountPercent(offers[1]),
       saving |-> SavingOf(offers),
       rows |-> Rows(product, IF expanded THEN offers ELSE SubSeq(offers, 1, Min({OffersVisible, Len(offers)}))),
       showAll |-> ~expanded /\ Len(offers) > OffersVisible]

\* schema.org data: the range over all offers, in the order they came.
ProductJsonLd(product) ==
  LET prices == {product.offers[i].price : i \in DOMAIN product.offers}
  IN  [lowPrice |-> Min(prices), highPrice |-> Max(prices), offerCount |-> Len(product.offers)]

\* The description for search engines names the first offer as it came.
ProductDescription(product) ==
  [price |-> product.offers[1].price, store |-> product.offers[1].store,
   single |-> Len(product.offers) = 1]

-----------------------------------------------------------------------------
(* Baskets: [store, total, prices], a price is Null when nothing was found. *)

Missing(basket) == Len(SelectSeq(basket.prices, LAMBDA p : p = Null))
IsEmptyBasket(basket) == Missing(basket) = Len(basket.prices)

\* Complete ones, then incomplete ones, then those with nothing.
Rank(basket) == IF IsEmptyBasket(basket) THEN 2 ELSE IF Missing(basket) > 0 THEN 1 ELSE 0

SummarizeBaskets(baskets) ==
  LET order  == SetToSortSeq(DOMAIN baskets, LAMBDA i, j :
                  LET a == <<Rank(baskets[i]), baskets[i].total, i>>
                      b == <<Rank(baskets[j]), baskets[j].total, j>>
                  IN  \E n \in 1 .. 3 : a[n] < b[n] /\ \A m \in 1 .. n - 1 : a[m] = b[m])
      sorted == [i \in DOMAIN order |-> baskets[order[i]]]
      first  == {i \in DOMAIN sorted : Missing(sorted[i]) = 0}
      best   == IF first = {} THEN 0 ELSE Min(first)
  IN  [i \in DOMAIN sorted |->
        [store |-> sorted[i].store, total |-> sorted[i].total,
         missing |-> Missing(sorted[i]), empty |-> IsEmptyBasket(sorted[i]),
         best |-> i = best,
         overBest |-> IF best # 0 /\ i # best /\ Missing(sorted[i]) = 0
                      THEN sorted[i].total - sorted[best].total ELSE Null]]

\* The label of a shop on the map: the sum of its chain, if any.
BasketLabel(summary) ==
  [sum |-> IF summary.empty THEN Null ELSE summary.total,
   style |-> IF summary.best THEN "best" ELSE IF summary.missing > 0 THEN "partial" ELSE "plain"]

\* Shops by chain, in the order in which the chains first appear.
GroupByStore(locations) ==
  FoldLeft(LAMBDA acc, l :
    IF \E i \in DOMAIN acc : acc[i].store = l.store
    THEN [i \in DOMAIN acc |-> IF acc[i].store = l.store
                               THEN [acc[i] EXCEPT !.locations = Append(@, l)] ELSE acc[i]]
    ELSE Append(acc, [store |-> l.store, locations |-> <<l>>]), <<>>, locations)

\* The dashboard: the baskets, and each shop in the list of its chain and on
\* the map with what its chain's basket costs.
DashboardView(locations, baskets) ==
  LET summaries == SummarizeBaskets(baskets)
      label(s)  == {BasketLabel(summaries[i]) : i \in {j \in DOMAIN summaries : summaries[j].store = s}}
      groups    == GroupByStore(locations)
  IN  [of |-> "baskets", baskets |-> summaries,
       list |-> [i \in DOMAIN groups |-> [group |-> groups[i], basket |-> label(groups[i].store)]],
       map  |-> [i \in DOMAIN locations |-> [at |-> locations[i], basket |-> label(locations[i].store)]]]

-----------------------------------------------------------------------------
(* The deals of the front page: all ids come with the dashboard, the        *)
(* products of the first count of them are asked for one by one.            *)

VARIABLES count,   \* useState(TOP_DEALS)
          query    \* id -> "pending", "ok", "failed": the queries of the products asked for

dealVars == <<count, query>>

TopDealIds(n) == SubSeq(Spreads, 1, Min({Max({n, 0}), Len(Spreads)}))

AnyPending == \E i \in DOMAIN query : query[i] = "pending"
AllFailed  == DOMAIN query # {} /\ \A i \in DOMAIN query : query[i] = "failed"

\* Mutant: what is still loading counts as shown.
ShownIdsAtOnce(n) == TopDealIds(n)

\* While new ones are loading the list stays as it was before them.
ShownIds(n) == IF AnyPending THEN TopDealIds(n - TopDeals) ELSE TopDealIds(n)

Shown == SelectSeq(ShownIds(count), LAMBDA id : query[id] = "ok")

DealsView ==
  [loading |-> ShownIds(count) = <<>> /\ AnyPending, error |-> AllFailed, cards |-> Shown,
   more |-> Shown # <<>> /\ (Len(Spreads) > count \/ AnyPending), moreDisabled |-> AnyPending]

Ask(ids, old) == [i \in DOMAIN old \cup ids |-> IF i \in DOMAIN old THEN old[i] ELSE "pending"]

\* The first products come with the page (catalog/page.tsx fetches them).
DealsInit ==
  /\ count = TopDeals
  /\ query = [i \in ToSet(TopDealIds(TopDeals)) |-> "ok"]

Answer(id, what) ==
  /\ query[id] = "pending"
  /\ query' = [query EXCEPT ![id] = what]
  /\ UNCHANGED count

MoreDeals ==
  /\ DealsView.more /\ ~DealsView.moreDisabled
  /\ count' = count + TopDeals
  /\ query' = Ask(ToSet(TopDealIds(count + TopDeals)), query)

DealsNext == MoreDeals \/ \E id \in DOMAIN query, what \in {"ok", "failed"} : Answer(id, what)

-----------------------------------------------------------------------------
(* Properties *)

\* The lowest price is one (ProductCard.tsx:62, ProductPage.tsx:132,
\* structuredData.ts:73): however the offers are ordered, the card, the page
\* and the data for search engines tell the same lowest price, discount and
\* saving, what is marked as the cheapest is, it is always among the rows in
\* sight, and what is hidden is never cheaper than what is shown.  The
\* description repeats it when the first offer is a cheapest one, as the API
\* orders them.
OneLowestPrice(told) ==
  LET card   == told.card
      page   == told.page
      whole  == told.whole
      ld     == told.ld
      best(rows) == {i \in DOMAIN rows : rows[i].best}
  IN  /\ card.price = ld.lowPrice /\ page.price = ld.lowPrice
      /\ card.discount = page.discount /\ card.old = page.old /\ card.saving = page.saving
      /\ card.saving.amount = ld.highPrice - ld.lowPrice
      /\ Len(card.rows) + card.hiddenCount = ld.offerCount /\ card.maxPrice = ld.highPrice
      /\ \A rows \in {card.rows, page.rows, whole.rows} :
           /\ \A i \in best(rows) : rows[i].price = ld.lowPrice
           /\ (best(rows) # {}) <=> ld.offerCount > 1
           /\ \A i \in DOMAIN rows : rows[i].more = rows[i].price - ld.lowPrice /\ rows[i].more >= 0
      /\ \A i \in DOMAIN whole.rows, j \in DOMAIN card.rows :
           whole.rows[i] \notin ToSet(card.rows) => whole.rows[i].price >= card.rows[j].price
      /\ ToSet(page.rows) # ToSet(whole.rows) => page.showAll
      /\ told.first = ld.lowPrice => told.description.price = card.price

\* A basket with something missing is never the best (baskets.ts:21): the
\* best one is complete and the cheapest of the complete and comes first, there is
\* one when there is a complete basket, incomplete ones come before empty ones, every other complete one says by how much it
\* is dearer, and a shop's label on the map is that of its chain in the list.
BestBasketIsComplete(view) ==
  LET all  == ToSet(view.baskets)
      full == {b \in all : b.missing = 0}
  IN  /\ Cardinality({b \in all : b.best}) = IF full = {} THEN 0 ELSE 1
      /\ \A b \in all : b.best => b \in full /\ \A c \in full : c.total >= b.total
      /\ \A i \in DOMAIN view.baskets, j \in DOMAIN view.baskets :
           LET a == view.baskets[i] b == view.baskets[j]
           IN  i < j => /\ b.missing = 0 => a.missing = 0 /\ a.total <= b.total
                        /\ a.empty => b.empty
      /\ \A b \in full : (b.overBest = Null) <=> b.best
      /\ \A b \in full : ~b.best => \E c \in full : c.best /\ b.overBest = b.total - c.total
      /\ \A i \in DOMAIN view.map : \E k \in DOMAIN view.list :
           /\ view.map[i].at \in ToSet(view.list[k].group.locations)
           /\ view.map[i].basket = view.list[k].basket
      /\ \A b \in all : b.empty => BasketLabel(b).sum = Null

\* "Show more" adds whole batches at the end (CatalogPage.tsx:49): no card
\* that was on the page leaves it or moves, a new one appears only with all
\* of its batch answered, and once nothing is loading every product that came
\* is there, in the dashboard's order.
DealsOnlyGrow ==
  [][/\ IsPrefix(Shown, Shown')
     /\ Shown' # Shown => ~AnyPending'
     /\ ~AnyPending' => Shown' = SelectSeq(TopDealIds(count'), LAMBDA id : query'[id] = "ok")]_dealVars
=============================================================================
