------------------------------ MODULE PageCache ------------------------------
(* The server side of the site: the tagged data cache behind the API client *)
(* (frontend/src/api/httpAdapter.ts, server.ts), one product page that is   *)
(* kept for an hour (products/[id]/page.tsx), one page that is rendered for *)
(* every request (collections/[slug]/page.tsx), and the route the publisher *)
(* notifies (app/internal/revalidate/route.ts, lib/revalidation.ts).        *)
(*                                                                          *)
(* How an entry is looked up, refreshed and expired is Next's and external: *)
(* an entry past its time is still served while a new one is fetched, an    *)
(* expired one is not; a render that refreshes a kept page waits for new    *)
(* data instead; an answer that was on its way when its tag was expired is  *)
(* stored as new.  A datum is the number of the snapshot it comes from.     *)
EXTENDS Integers, FiniteSets, SequencesExt

CONSTANTS Ttl,              \* revalidate: 3600, in ticks
          MaxPublications,  \* bound: snapshots published
          MaxFailures,      \* bound: requests to the API that fail
          SitemapPage,      \* products per request of the sitemap (100)
          SitemapPages,     \* MAX_PAGES (50)
          SitemapWidth      \* MAX_IN_FLIGHT (4)

\* Two routes, each with the datum it is about: the product page, which is kept,
\* and the list of a category, which is not.  (The labels of the filters, a
\* datum either page also asks for, are left out.)
Routes == {"product", "list"}

NoEntry == [v |-> 0, age |-> 0, expired |-> FALSE]
Idle    == [on |-> FALSE, got |-> 0, refresh |-> FALSE]

VARIABLES published,   \* the snapshot the API answers from
          data,        \* the data cache: an entry per request
          onItsWay,    \* per request: the snapshot of an answer not yet stored, 0 none
          page,        \* the kept product page
          render,      \* per page: the render under way
          notice,      \* of the last publication: "none", "due", "lost", "refused", "taken"
          failures,
          served,      \* per page: the snapshot of the product or list last served
          sure         \* the latest snapshot whose notice found nothing under way

cacheVars == <<published, data, onItsWay, page, render, notice, failures, served, sure>>

CacheInit ==
  /\ published = 1
  /\ data = [d \in Routes |-> NoEntry] /\ onItsWay = [d \in Routes |-> 0]
  /\ page = NoEntry
  /\ render = [p \in Routes |-> Idle]
  /\ notice = "none" /\ failures = 0
  /\ served = [p \in Routes |-> 0] /\ sure = 0

Stale(e)  == e.age = Ttl
Usable(e) == e.v > 0 /\ ~e.expired

\* Mutant: what is kept is kept for good.
OlderNever(e) == e

\* Nothing is kept past its time for good: revalidate: 3600.
Older(e) == [e EXCEPT !.age = IF e.v > 0 /\ @ < Ttl THEN @ + 1 ELSE @]

\* An hour passes in Ttl ticks.
Tick ==
  /\ data' = [d \in Routes |-> Older(data[d])] /\ page' = Older(page)
  /\ UNCHANGED <<published, onItsWay, render, notice, failures, served, sure>>

-----------------------------------------------------------------------------
(* Requests to the API.  On the server every GET is tagged catalog-data and *)
(* kept for an hour.                                                        *)

Asks(p)  == render[p].on /\ render[p].got = 0
Finds(p) == Usable(data[p]) /\ (render[p].refresh => ~Stale(data[p]))

\* The API has read its snapshot for a request that a render waits for.
ApiReads(d) ==
  /\ onItsWay[d] = 0
  /\ Asks(d) /\ ~Finds(d)
  /\ onItsWay' = [onItsWay EXCEPT ![d] = published]
  /\ UNCHANGED <<published, data, page, render, notice, failures, served, sure>>

\* Its answer reaches the cache.
Stored(d) ==
  /\ onItsWay[d] > 0
  /\ data' = [data EXCEPT ![d] = [v |-> onItsWay[d], age |-> 0, expired |-> FALSE]]
  /\ onItsWay' = [onItsWay EXCEPT ![d] = 0]
  /\ UNCHANGED <<published, page, render, notice, failures, served, sure>>

\* The request fails.  A render that waits for it ends: the error is thrown
\* on (server.ts:21) and Next keeps the page it has.
Failed(d) ==
  /\ onItsWay[d] > 0 /\ failures < MaxFailures
  /\ failures' = failures + 1
  /\ onItsWay' = [onItsWay EXCEPT ![d] = 0]
  /\ render' = IF Asks(d) /\ ~Finds(d) THEN [render EXCEPT ![d] = Idle] ELSE render
  /\ UNCHANGED <<published, data, page, notice, served, sure>>

\* A render takes what is kept; when that is past its time, a request for a
\* new one goes out beside it.
Takes(p) ==
  /\ Asks(p) /\ Finds(p)
  /\ render' = [render EXCEPT ![p].got = data[p].v]
  /\ onItsWay' = IF Stale(data[p]) /\ onItsWay[p] = 0 THEN [onItsWay EXCEPT ![p] = published] ELSE onItsWay
  /\ UNCHANGED <<published, data, page, notice, failures, served, sure>>

-----------------------------------------------------------------------------
(* Visits.                                                                  *)

\* A page that is kept is served at once; past its time it is also refreshed.
ServeKept ==
  /\ Usable(page) /\ ~(Stale(page) /\ ~render["product"].on)
  /\ served' = [served EXCEPT !["product"] = page.v]
  /\ UNCHANGED <<published, data, onItsWay, page, render, notice, failures, sure>>

ServeAndRefresh ==
  /\ Usable(page) /\ Stale(page) /\ ~render["product"].on
  /\ served' = [served EXCEPT !["product"] = page.v]
  /\ render' = [render EXCEPT !["product"] = [Idle EXCEPT !.on = TRUE, !.refresh = TRUE]]
  /\ UNCHANGED <<published, data, onItsWay, page, notice, failures, sure>>

\* Otherwise the reader waits for the render.
StartRender(p) ==
  /\ ~render[p].on /\ (p = "product" => ~Usable(page))
  /\ render' = [render EXCEPT ![p] = [Idle EXCEPT !.on = TRUE]]
  /\ UNCHANGED <<published, data, onItsWay, page, notice, failures, served, sure>>

EndRender(p) ==
  /\ render[p].on /\ render[p].got > 0
  /\ page' = IF p = "product" THEN [v |-> render[p].got, age |-> 0, expired |-> FALSE] ELSE page
  /\ served' = IF render[p].refresh THEN served ELSE [served EXCEPT ![p] = render[p].got]
  /\ render' = [render EXCEPT ![p] = Idle]
  /\ UNCHANGED <<published, data, onItsWay, notice, failures, sure>>

-----------------------------------------------------------------------------
(* The notification.  A request is [secret, skew, signed, body, query].     *)

Requests == [secret : BOOLEAN, skew : {0, 300, 301}, signed : BOOLEAN, body : {"event", "other", "long"}, query : BOOLEAN]

Authenticated(r) == r.signed /\ r.skew <= 300

\* The status of the route's answer.
Status(r) ==
  IF ~r.secret THEN 503
  ELSE IF r.body = "long" \/ ~Authenticated(r) THEN 401
  ELSE IF r.query \/ r.body # "event" THEN 400
  ELSE 204

\* Mutant: the tag alone; the pages made from the data are forgotten.
ExpireTag(dt, pg) == [data |-> [d \in Routes |-> [dt[d] EXCEPT !.expired = TRUE]], page |-> pg]

\* revalidateTag with expire 0, and revalidatePath for the product pages.
Expire(dt, pg) == [data |-> [d \in Routes |-> [dt[d] EXCEPT !.expired = TRUE]],
                   page |-> [pg EXCEPT !.expired = TRUE]]

NothingUnderWay == (\A d \in Routes : onItsWay[d] = 0) /\ \A p \in Routes : ~render[p].on

Publish ==
  /\ published <= MaxPublications
  /\ published' = published + 1 /\ notice' = "due"
  /\ UNCHANGED <<data, onItsWay, page, render, failures, served, sure>>

\* client.go sends one request and never repeats it.
NoticeLost ==
  /\ notice = "due"
  /\ notice' = "lost"
  /\ UNCHANGED <<published, data, onItsWay, page, render, failures, served, sure>>

POST(r) ==
  /\ notice = "due"
  /\ IF Status(r) = 204
     THEN LET after == Expire(data, page)
          IN  /\ data' = after.data /\ page' = after.page /\ notice' = "taken"
              /\ sure' = IF NothingUnderWay THEN published ELSE sure
     ELSE notice' = "refused" /\ UNCHANGED <<data, page, sure>>
  /\ UNCHANGED <<published, onItsWay, render, failures, served>>

CacheNext ==
  \/ Tick \/ Publish \/ NoticeLost
  \/ \E r \in Requests : POST(r)
  \/ \E d \in Routes : ApiReads(d) \/ Stored(d) \/ Failed(d)
  \/ ServeKept \/ ServeAndRefresh
  \/ \E p \in Routes : Takes(p) \/ StartRender(p) \/ EndRender(p)

CacheSpec == CacheInit /\ [][CacheNext]_cacheVars

-----------------------------------------------------------------------------
(* The sitemap (app/sitemap.ts).                                            *)

Batch(total, n) == [i \in 1 .. Max({0, Min({SitemapPage, total - n * SitemapPage})}) |-> n * SitemapPage + i]

\* The batches of one round: the first request goes alone.
Round(n) == Min({IF n = 0 THEN 1 ELSE SitemapWidth, SitemapPages - n})

\* allProducts: rounds until a batch is short, whose products are the last.
AllProducts(total) ==
  LET upTo[n \in 0 .. SitemapPages] ==
        IF n = SitemapPages THEN <<>>
        ELSE LET short == {i \in n .. n + Round(n) - 1 : Len(Batch(total, i)) < SitemapPage}
                 last  == IF short = {} THEN n + Round(n) - 1 ELSE Min(short)
             IN  FlattenSeq([i \in 1 .. last - n + 1 |-> Batch(total, n + i - 1)])
                   \o (IF short = {} THEN upTo[n + Round(n)] ELSE <<>>)
  IN  upTo[0]

Languages == <<"ru", "kk">>
LocalePath(lang, path) == <<lang, path>>
HreflangPaths(path) == [k \in {"ru", "kk", "x-default"} |-> LocalePath(IF k = "kk" THEN "kk" ELSE "ru", path)]
Localized(path) == [i \in DOMAIN Languages |-> [url |-> LocalePath(Languages[i], path), languages |-> HreflangPaths(path)]]
Sitemap(categories, total) ==
  Localized(<<"catalog">>) \o Localized(<<"dashboard">>)
    \o FlattenSeq([i \in DOMAIN categories |-> Localized(<<"collections", categories[i]>>)])
    \o FlattenSeq([i \in DOMAIN AllProducts(total) |-> Localized(<<"products", AllProducts(total)[i]>>)])

-----------------------------------------------------------------------------
(* Properties *)

CacheTypeOK ==
  /\ published \in 1 .. MaxPublications + 1
  /\ \A e \in {data[d] : d \in Routes} \cup {page} : e.v \in 0 .. published /\ e.age \in 0 .. Ttl
  /\ \A d \in Routes : onItsWay[d] \in 0 .. published
  /\ notice \in {"none", "due", "lost", "refused", "taken"} /\ sure \in 0 .. published

\* After a notification that was taken while nothing was under way
\* (route.ts:16 and :18), nothing older than its snapshot is served or kept:
\* neither a kept page, nor one made from data kept before.
NoticeIsHeeded ==
  /\ [](/\ Usable(page) => page.v >= sure
        /\ \A d \in Routes : Usable(data[d]) => data[d].v >= sure)
  /\ [][\A p \in Routes : served'[p] # served[p] => served'[p] >= sure]_cacheVars

\* The sitemap lists every product once in every language, up to its bound
\* of pages (sitemap.ts:17): whichever round of requests meets the last one.
SitemapIsComplete ==
  \A total \in 0 .. SitemapPage * SitemapPages + 1 :
    LET map == Sitemap(<<"milk">>, total)
    IN  /\ ToSet(map) = UNION {ToSet(Localized(path)) : path \in
              {<<"catalog">>, <<"dashboard">>, <<"collections", "milk">>} \cup {<<"products", i>> : i \in 1 .. Min({total, SitemapPage * SitemapPages})}}
        /\ Len(map) = Cardinality(ToSet(map))
        /\ \A i \in DOMAIN map : \A j \in DOMAIN map :
             map[j].url \in {map[i].languages[k] : k \in {"ru", "kk"}} =>
               map[i].url \in {map[j].languages[k] : k \in {"ru", "kk"}}

\* Without another publication both pages show the last one in the end,
\* whether its notification was taken, refused or lost (httpAdapter.ts:20,
\* page.tsx:15), as long as time passes and the pages are visited.
PagesCatchUp == <>[](\A p \in Routes : served[p] = published)
=============================================================================
