---------------------------- MODULE ReaderProofs ----------------------------
(***************************************************************************)
(* Proofs about Reader, for any texts, categories, filters, sorts, totals, *)
(* pages of entry and any number of acts.                                  *)
(*                                                                         *)
(* A timer that runs is due for what stands in the box (Searching): the    *)
(* effect of a render starts one anew whenever the text, or whether it is  *)
(* to be searched for, has changed, and leaves it alone otherwise.  So a   *)
(* text without a timer has a search under way, for that very text, or a   *)
(* search of it gave way to something else.                                *)
(*                                                                         *)
(* And about the cache behind the pages (PageCache), for any lifetime of   *)
(* what is kept and any number of publications and failures.               *)
(***************************************************************************)
EXTENDS Reader, PageCache, TLAPS

Box  == [word : Words, pad : BOOLEAN]
Page == [items : Nat, last : Nat]
Nav  == {NoNav} \cup [kind : {"search", "link"}, replace : BOOLEAN, to : Addresses]

Typing ==
  /\ hist \in Seq(Addresses) /\ at \in 1 .. Len(hist) /\ left \in {"", "browser", "link"}
  /\ nav \in Nav /\ value \in Box /\ timer \in Words \cup {Off} /\ dropped \in BOOLEAN
  /\ synced = UrlQuery(url)
  /\ asking \subseteq Keys /\ askingMore \subseteq DOMAIN have
  /\ views \in 0 .. 1 /\ acts \in 0 .. MaxActs

\* Answers that may be kept: as many products as match after a short page.
Answered(h) ==
  /\ h \in [DOMAIN h -> Page] /\ DOMAIN h \subseteq Keys
  /\ \A k \in DOMAIN h : h[k].items <= Total(k) /\ (h[k].last < PageSize => h[k].items = Total(k))

\* A timer is due for the text of the box, which is to be searched for.
Due(u, v, t) == t # Off => t = Trim(v) /\ ShouldGo(u, v)

Searching ==
  /\ Due(url, value, timer)
  /\ nav.kind = "search" =>
       nav.to.page = "search" /\ (timer = Off /\ ShouldGo(url, value) => nav.to.q = Trim(value))
  /\ ShouldGo(url, value) /\ ~dropped => timer # Off \/ nav.kind = "search"

\* The search about to be counted is the one whose results are on the screen.
Settling == settle # NoSettle => Ready /\ settle = [q |-> url.q, n |-> have[Key(url)].items]

Counting == counted = [e \in DOMAIN counted |-> 1]

IInv == Typing /\ Answered(have) /\ Searching /\ Settling /\ Counting

-----------------------------------------------------------------------------
(* Addresses, keys and answers.                                            *)

LEMMA MinOfTwo ==
  ASSUME NEW a \in Nat, NEW b \in Nat
  PROVE  Min({a, b}) \in {a, b} /\ Min({a, b}) <= a /\ Min({a, b}) <= b
<1>1. \E x \in {a, b} : \A y \in {a, b} : x <= y
  OBVIOUS
<1> QED
  BY <1>1 DEF Min

LEMMA WordsDiffer == "" \in Words /\ Off \notin Words /\ Off # ""
  BY WordsAreTexts DEF Off

LEMMA UrlIsAddress == Typing => url \in Addresses
<1>1. ASSUME NEW S, NEW s \in Seq(S), NEW i \in 1 .. Len(s) PROVE s[i] \in S
  OBVIOUS
<1> QED
  BY <1>1 DEF Typing, url

LEMMA KeyIsKnown ==
  ASSUME NEW u \in Addresses
  PROVE  Key(u) \in Keys /\ UrlQuery(u) \in Words
<1>1. ReadSort(u) \in Sorts /\ ReadFilters(u) \subseteq Options /\ u.q \in Words
  BY WordsAreTexts DEF ReadSort, ReadFilters, Addresses
<1>2. NoKey \in Keys
  BY WordsAreTexts DEF NoKey, Keys
<1> QED
  BY <1>1, <1>2, WordsAreTexts DEF Key, Keys, UrlQuery

LEMMA NewAddresses ==
  ASSUME NEW u \in Addresses
  PROVE  /\ \A q \in Words : LET w == [u EXCEPT !.q = q] IN w \in Addresses /\ w.q = q /\ w.page = u.page
         /\ \A l \in {"ru", "kk"} : [u EXCEPT !.lang = l] \in Addresses
         /\ \A p \in SUBSET Values : [u EXCEPT !.picks = p] \in Addresses
         /\ \A o \in Orders : [u EXCEPT !.sort = o] \in Addresses
         /\ \A p \in Pages : Address(p, u.lang) \in Addresses
<1>1. \A q \in Words : LET w == [u EXCEPT !.q = q] IN w \in Addresses /\ w.q = q /\ w.page = u.page
  BY DEF Addresses
<1>2. \A l \in {"ru", "kk"} : [u EXCEPT !.lang = l] \in Addresses
  BY DEF Addresses
<1>3. \A p \in SUBSET Values : [u EXCEPT !.picks = p] \in Addresses
  BY DEF Addresses
<1>4. \A o \in Orders : [u EXCEPT !.sort = o] \in Addresses
  BY DEF Addresses
<1>5. \A p \in Pages : Address(p, u.lang) \in Addresses
  <2>1. u.lang \in {"ru", "kk"} /\ "none" \in Orders /\ {} \in SUBSET Values /\ "" \in Words
    BY WordsDiffer DEF Addresses, Orders
  <2> QED
    BY <2>1 DEF Addresses, Address
<1> QED
  BY <1>1, <1>2, <1>3, <1>4, <1>5

LEMMA NavDiffers == NoNav.kind = "none" /\ \A n \in Nav : n.kind # "none" => n.to \in Addresses
  BY DEF Nav, NoNav

LEMMA FirstPageIsAnswer ==
  ASSUME NEW h, Answered(h), NEW k \in Keys
  PROVE  Answered(WithFirstPage(h, k)) /\ DOMAIN WithFirstPage(h, k) = DOMAIN h \cup {k}
<1>1. PageSize \in Nat /\ Total(k) \in Nat
  BY TotalsAreNumbers
<1>2. FirstPage(k) \in Page /\ FirstPage(k).items = Min({PageSize, Total(k)}) /\ FirstPage(k).last = Min({PageSize, Total(k)})
  BY <1>1, MinOfTwo DEF FirstPage, Page
<1>3. FirstPage(k).items <= Total(k) /\ (FirstPage(k).last < PageSize => FirstPage(k).items = Total(k))
  BY <1>1, <1>2, MinOfTwo
<1> QED
  BY <1>2, <1>3 DEF Answered, WithFirstPage

LEMMA NextPageIsAnswer ==
  ASSUME NEW h, Answered(h), NEW k \in DOMAIN h, NEW n, n = Min({PageSize, Total(k) - h[k].items})
  PROVE  LET g == [h EXCEPT ![k] = [items |-> h[k].items + n, last |-> n]]
         IN  Answered(g) /\ DOMAIN g = DOMAIN h
<1> DEFINE g == [h EXCEPT ![k] = [items |-> h[k].items + n, last |-> n]]
<1>1. PageSize \in Nat /\ Total(k) \in Nat /\ h[k].items \in Nat /\ h[k].items <= Total(k)
  BY TotalsAreNumbers DEF Answered, Page
<1>2. n \in Nat /\ n <= Total(k) - h[k].items /\ n \in {PageSize, Total(k) - h[k].items}
  BY <1>1, MinOfTwo
<1>3. DOMAIN g = DOMAIN h /\ g[k] = [items |-> h[k].items + n, last |-> n] /\ \A x \in DOMAIN h \ {k} : g[x] = h[x]
  BY DEF Answered
<1>4. /\ g[k] \in Page /\ g[k].items = h[k].items + n /\ g[k].last = n
  BY <1>1, <1>2, <1>3 DEF Page
<1>5. g[k].items <= Total(k) /\ (g[k].last < PageSize => g[k].items = Total(k))
  BY <1>1, <1>2, <1>4
<1>6. g \in [DOMAIN g -> Page]
  BY <1>3, <1>4 DEF Answered
<1> QED
  BY <1>3, <1>5, <1>6 DEF Answered

LEMMA HydratedIsAnswer ==
  ASSUME NEW h, Answered(h), NEW u \in Addresses
  PROVE  Answered(Hydrated(u, h)) /\ DOMAIN h \subseteq DOMAIN Hydrated(u, h)
  BY FirstPageIsAnswer, KeyIsKnown DEF Hydrated

LEMMA NothingIsAnswer == Answered([k \in {} |-> 0])
  BY DEF Answered

-----------------------------------------------------------------------------
(* What a render leaves behind, at the address u.                          *)

Rendered(u) ==
  /\ value' \in Box /\ synced' = UrlQuery(u) /\ timer' \in Words \cup {Off}
  /\ asking' \subseteq Keys /\ askingMore' \subseteq DOMAIN have' /\ Answered(have') /\ views' \in 0 .. 1
  /\ Due(u, value', timer')
  /\ ShouldGo(u, value') /\ timer' = Off => Trim(value') = Trim(value) /\ ShouldGo(url, value) /\ timer = Off
  /\ Settling'

LEMMA EffectsDiffer ==
  ASSUME NEW a, NEW b, NEW p \in BOOLEAN, NEW q \in BOOLEAN
  PROVE  (<<a, p>> # <<b, q>>) <=> (a # b \/ p # q)
  OBVIOUS

(* The timer after a render, from the timer before it.                     *)
LEMMA TimerAfter ==
  ASSUME Due(url, value, timer), timer \in Words \cup {Off}, NEW u, NEW v \in Box, NEW remount \in BOOLEAN,
         NEW t, t = DebounceAfter(u, v, timer, remount), remount => ~ShouldGo(u, v)
  PROVE  /\ t \in Words \cup {Off} /\ Due(u, v, t)
         /\ ShouldGo(u, v) /\ t = Off => Trim(v) = Trim(value) /\ ShouldGo(url, value) /\ timer = Off
<1>1. ShouldGo(u, v) \in BOOLEAN /\ ShouldGo(url, value) \in BOOLEAN /\ Trim(v) \in Words
  BY DEF ShouldGo, Trim, Box
<1>2. CASE remount \/ Trim(v) # Trim(value) \/ ShouldGo(u, v) # ShouldGo(url, value)
  <2>1. t = IF ShouldGo(u, v) THEN Trim(v) ELSE Off
    BY <1>1, <1>2, EffectsDiffer DEF DebounceAfter
  <2> QED
    BY <1>1, <2>1, WordsDiffer DEF Due
<1>3. CASE ~remount /\ Trim(v) = Trim(value) /\ ShouldGo(u, v) = ShouldGo(url, value)
  <2>1. t = timer
    BY <1>1, <1>3, EffectsDiffer DEF DebounceAfter
  <2> QED
    BY <1>1, <1>3, <2>1 DEF Due
<1> QED
  BY <1>2, <1>3, <1>1

(* A search that waits to be counted goes on waiting only while its        *)
(* results stay as they are.                                               *)
LEMMA SettleIsOfTheScreen ==
  ASSUME Settling, NEW u, NEW h, NEW ask, NEW more, NEW fl, NEW due \in {settle, NoSettle}, NEW remount,
         NEW t, t = SettleAfter(u, h, ask, more, fl, due, remount), t # NoSettle
  PROVE  ReadyAt(u, h, ask, more, fl) /\ t = [q |-> u.q, n |-> h[Key(u)].items]
<1> DEFINE n(k, hh) == IF k \in DOMAIN hh THEN hh[k].items ELSE 0
           ready == ReadyAt(u, h, ask, more, fl)
<1>1. CASE ~remount /\ <<UrlQuery(u), n(Key(u), h), ready>> = <<UrlQuery(url), n(Key(url), have), Ready>>
  <2>1. t = due
    BY <1>1 DEF SettleAfter
  <2>2. Ready /\ due = [q |-> url.q, n |-> have[Key(url)].items]
    BY <2>1 DEF Settling
  <2>3. ready /\ UrlQuery(u) = UrlQuery(url) /\ n(Key(u), h) = n(Key(url), have)
    BY <1>1, <2>2
  <2>4. u.page = "search" /\ url.page = "search" /\ Key(u) \in DOMAIN h /\ Key(url) \in DOMAIN have
    BY <2>2, <2>3 DEF Ready, ReadyAt
  <2> QED
    BY <2>1, <2>2, <2>3, <2>4 DEF UrlQuery
<1>2. CASE ~(~remount /\ <<UrlQuery(u), n(Key(u), h), ready>> = <<UrlQuery(url), n(Key(url), have), Ready>>)
  <2>1. t = IF ready THEN [q |-> u.q, n |-> h[Key(u)].items] ELSE NoSettle
    BY <1>2 DEF SettleAfter
  <2> QED
    BY <2>1
<1> QED
  BY <1>1, <1>2

LEMMA RenderGives ==
  ASSUME IInv, NEW u \in Addresses, hist'[at'] = u, NEW v \in Box, NEW h, Answered(h),
         NEW ask \in SUBSET Keys, NEW more \in SUBSET DOMAIN h, NEW fl, NEW due \in {settle, NoSettle},
         Render(u, v, timer, h, ask, more, fl, due)
  PROVE  Rendered(u)
<1> DEFINE remount == u.lang # url.lang
           v2 == SyncedValue(u, v, remount)
           wants == IF Key(u) # Key(url) \/ remount THEN Wants(u, h, ask) ELSE {}
           fl2 == IF Key(u) # Key(url) THEN fl \ {Key(u)} ELSE fl
<1>1. /\ value' = v2 /\ synced' = UrlQuery(u) /\ timer' = DebounceAfter(u, v2, timer, remount)
      /\ have' = h /\ asking' = ask \cup wants /\ askingMore' = more /\ failed' = fl2
      /\ settle' = SettleAfter(u, h, ask \cup wants, more, fl2, due, remount)
      /\ views' = ViewsAfter(u, h, fl2)
  BY DEF Render
<1>2. v2 \in Box /\ (remount => ~ShouldGo(u, v2))
  BY KeyIsKnown DEF SyncedValue, Typed, Box, ShouldGo, Trim
<1>3. /\ timer' \in Words \cup {Off} /\ Due(u, v2, timer')
      /\ ShouldGo(u, v2) /\ timer' = Off => Trim(v2) = Trim(value) /\ ShouldGo(url, value) /\ timer = Off
  <2> HIDE DEF v2, remount
  <2>1. Due(url, value, timer) /\ timer \in Words \cup {Off}
    BY DEF IInv, Searching, Typing
  <2>2. remount \in BOOLEAN
    BY DEF remount
  <2> QED
    BY <1>1, <1>2, <2>1, <2>2, TimerAfter
<1>4. ask \cup wants \subseteq Keys
  BY KeyIsKnown DEF Wants
<1>5. views' \in 0 .. 1
  <2>1. views \in 0 .. 1 /\ CountView(views) \in 0 .. 1
    <3>1. views \in 0 .. 1
      BY DEF IInv, Typing
    <3> QED
      BY <3>1 DEF CountView
  <2>2. ViewsAfter(u, h, fl2) \in {0, 1, views, CountView(views)}
    <3> HIDE DEF fl2
    <3> QED
      BY DEF ViewsAfter
  <2> QED
    BY <1>1, <2>1, <2>2
<1>6. Settling'
  <2>1. url' = u
    BY DEF url
  <2> SUFFICES ASSUME settle' # NoSettle
               PROVE  ReadyAt(u, h, ask \cup wants, more, fl2) /\ settle' = [q |-> u.q, n |-> h[Key(u)].items]
    BY <1>1, <2>1 DEF Settling, Ready, NoSettle
  <2> HIDE DEF wants, fl2, remount
  <2> QED
    BY <1>1, SettleIsOfTheScreen DEF IInv
<1> QED
  BY <1>1, <1>2, <1>3, <1>4, <1>5, <1>6 DEF Rendered

-----------------------------------------------------------------------------
(* Steps, by what they do to the screen.                                   *)

LEMMA Initial == Init => IInv
<1> SUFFICES ASSUME Init PROVE IInv
  OBVIOUS
<1>1. PICK u \in Entries :
         /\ hist = <<u>> /\ at = 1
         /\ value = Typed(UrlQuery(u)) /\ synced = UrlQuery(u)
         /\ have = Hydrated(u, [k \in {} |-> 0])
         /\ asking = Wants(u, Hydrated(u, [k \in {} |-> 0]), {})
         /\ views = IF ViewDue(u, Hydrated(u, [k \in {} |-> 0]), {}) THEN 1 ELSE 0
  BY DEF Init
<1>2. u \in Addresses /\ url = u
  BY <1>1, WordsAreTexts DEF url
<1>3. Typing
  <2>1. hist \in Seq(Addresses) /\ at \in 1 .. Len(hist)
    BY <1>1, <1>2
  <2>2. value \in Box /\ timer \in Words \cup {Off} /\ synced = UrlQuery(url)
    BY <1>1, <1>2, KeyIsKnown DEF Init, Typed, Box
  <2>3. asking \subseteq Keys /\ askingMore \subseteq DOMAIN have
    BY <1>1, <1>2, KeyIsKnown DEF Init, Wants
  <2>4. views \in 0 .. 1 /\ acts \in 0 .. MaxActs
    <3>1. views \in {0, 1}
      BY <1>1
    <3>2. acts = 0 /\ MaxActs \in Nat
      BY TotalsAreNumbers DEF Init
    <3> QED
      BY <3>1, <3>2
  <2> QED
    BY <2>1, <2>2, <2>3, <2>4 DEF Typing, Init, Nav
<1>4. Answered(have)
  BY <1>1, <1>2, NothingIsAnswer, HydratedIsAnswer
<1>5. Searching
  BY <1>1, <1>2, NavDiffers DEF Init, Searching, Due, ShouldGo, Trim, Typed
<1>6. Settling /\ Counting
  BY DEF Init, Settling, Counting
<1> QED
  BY <1>3, <1>4, <1>5, <1>6 DEF IInv

(* A render where the tab is: what was under way is still under way, unless *)
(* another text is in the box.                                             *)
LEMMA StaysKeeps ==
  ASSUME IInv, Rendered(url), UNCHANGED <<hist, at, left, nav, counted>>, acts' \in 0 .. MaxActs,
         dropped' \in BOOLEAN, Trim(value') = Trim(value) => dropped' = dropped
  PROVE  IInv'
<1>1. url' = url
  BY DEF url
<1>2. Typing'
  BY <1>1 DEF IInv, Typing, Rendered
<1>3. Searching'
  <2>1. Due(url', value', timer')
    BY <1>1 DEF Rendered
  <2>2. ShouldGo(url', value') /\ timer' = Off => Trim(value') = Trim(value) /\ ShouldGo(url, value) /\ timer = Off
    BY <1>1 DEF Rendered
  <2> QED
    BY <2>1, <2>2 DEF IInv, Searching, Due, ShouldGo
<1> QED
  BY <1>2, <1>3 DEF IInv, Rendered, Counting

(* A render at an address the tab has come to: it is that of the search    *)
(* under way, or that search has given way.                                *)
LEMMA ArrivesKeeps ==
  ASSUME IInv, NEW u \in Addresses, hist' \in Seq(Addresses), at' \in 1 .. Len(hist'), hist'[at'] = u,
         Rendered(u), nav' = NoNav, UNCHANGED <<left, counted>>, acts' \in 0 .. MaxActs,
         dropped' \in BOOLEAN, dropped => dropped', nav.kind = "search" => dropped' \/ u = nav.to
  PROVE  IInv'
<1>1. url' = u
  BY DEF url
<1>2. Typing'
  BY <1>1 DEF IInv, Typing, Rendered, Nav
<1>3. Searching'
  <2>1. Due(u, value', timer') /\ nav'.kind # "search"
    BY NavDiffers DEF Rendered
  <2>2. ASSUME ShouldGo(u, value'), timer' = Off, ~dropped' PROVE FALSE
    <3>1. Trim(value') = Trim(value) /\ ShouldGo(url, value) /\ timer = Off /\ ~dropped
      BY <2>2 DEF Rendered
    <3>2. nav.kind = "search" /\ u = nav.to /\ nav.to.page = "search" /\ nav.to.q = Trim(value)
      BY <2>2, <3>1 DEF IInv, Searching
    <3> QED
      BY <2>2, <3>1, <3>2 DEF ShouldGo, UrlQuery
  <2> QED
    BY <1>1, <2>1, <2>2 DEF Searching, Due, ShouldGo
<1> QED
  BY <1>2, <1>3 DEF IInv, Rendered, Counting

(* A step that renders nothing: a navigation is started, which may be for  *)
(* the text of the box, or the tab is left.                                *)
LEMMA StartsKeeps ==
  ASSUME IInv, UNCHANGED <<hist, at, value, synced, have, asking, askingMore, failed, settle, counted, views>>,
         left' \in {"", "browser", "link"}, acts' \in 0 .. MaxActs, nav' \in Nav, dropped' \in BOOLEAN,
         timer' \in {timer, Off},
         \/ nav'.kind = "search" /\ nav'.to.page = "search" /\ nav'.to.q = Trim(value)
         \/ nav'.kind # "search" /\ timer' = timer /\ (dropped \/ nav.kind = "search" => dropped')
         \/ nav' = nav /\ timer' = timer /\ dropped' = dropped
  PROVE  IInv'
<1>1. url' = url /\ Ready' = Ready
  BY DEF url, Ready
<1>2. Typing'
  BY <1>1 DEF IInv, Typing
<1>3. Searching'
  BY <1>1 DEF IInv, Searching, Due, ShouldGo
<1>4. Settling'
  BY <1>1 DEF IInv, Settling
<1> QED
  BY <1>2, <1>3, <1>4 DEF IInv, Counting, Answered

LEMMA LandGives ==
  ASSUME IInv, NEW u \in Addresses, hist'[at'] = u, Land(u)
  PROVE  Rendered(u)
<1> DEFINE lists   == IF u.lang # url.lang THEN [k \in {} |-> 0] ELSE have
           kept(s) == IF u.lang # url.lang THEN {} ELSE s
<1>1. Answered(lists)
  BY NothingIsAnswer DEF IInv
<1>2. kept(askingMore) \subseteq DOMAIN lists /\ kept(asking) \subseteq Keys
  BY DEF IInv, Typing
<1>3. Render(u, value, timer, Hydrated(u, lists), kept(asking), kept(askingMore), kept(failed), settle)
  BY DEF Land
<1>4. value \in Box
  BY DEF IInv, Typing
<1> HIDE DEF lists, kept
<1>5. Answered(Hydrated(u, lists)) /\ kept(askingMore) \subseteq DOMAIN Hydrated(u, lists)
  BY <1>1, <1>2, HydratedIsAnswer
<1> QED
  BY <1>2, <1>3, <1>4, <1>5, RenderGives

-----------------------------------------------------------------------------
(* The search box.                                                         *)

LEMMA ActsGrow == Typing /\ Act => acts' \in 0 .. MaxActs
<1> SUFFICES ASSUME Typing, Act PROVE acts' \in 0 .. MaxActs
  OBVIOUS
<1>1. acts \in 0 .. MaxActs /\ MaxActs \in Nat
  BY TotalsAreNumbers DEF Typing
<1>2. acts < MaxActs /\ acts' = acts + 1
  BY DEF Act
<1> QED
  BY <1>1, <1>2

LEMMA TypeKeeps ==
  ASSUME IInv, NEW v \in Box, Type(v)
  PROVE  IInv'
<1>1. url \in Addresses /\ hist'[at'] = url
  BY UrlIsAddress DEF IInv, Type, url
<1>2. Rendered(url)
  <2>1. asking \in SUBSET Keys /\ askingMore \in SUBSET DOMAIN have /\ Answered(have)
    BY DEF IInv, Typing
  <2>2. Render(url, v, timer, have, asking, askingMore, failed, NoSettle)
    BY DEF Type
  <2> QED
    BY <1>1, <2>1, <2>2, RenderGives
<1>3. value' = v
  <2>1. value' = SyncedValue(url, v, url.lang # url.lang)
    BY DEF Type, Render
  <2> QED
    BY <2>1 DEF IInv, Typing, SyncedValue
<1>4. dropped' \in BOOLEAN /\ (Trim(value') = Trim(value) => dropped' = dropped)
  BY <1>3 DEF Type, IInv, Typing
<1> QED
  BY <1>2, <1>4, ActsGrow, StaysKeeps DEF Type, IInv

LEMMA SearchNavIsSearch ==
  ASSUME Typing, NEW q \in Words
  PROVE  /\ SearchNav(q) \in Nav
         /\ SearchNav(q).kind = "search" /\ SearchNav(q).to.page = "search" /\ SearchNav(q).to.q = q
<1>1. url \in Addresses /\ "search" \in Pages
  BY UrlIsAddress DEF Pages
<1>2. Address("search", url.lang) \in Addresses /\ Address("search", url.lang).page = "search"
  BY <1>1, NewAddresses DEF Address
<1>3. PICK w \in Addresses : w.page = "search" /\ SearchNav(q) = [kind |-> "search", replace |-> url.page = "search", to |-> [w EXCEPT !.q = q]]
  <2>1. CASE url.page = "search"
    BY <1>1, <2>1 DEF SearchNav
  <2>2. CASE url.page # "search"
    BY <1>2, <2>2 DEF SearchNav
  <2> QED
    BY <2>1, <2>2
<1>4. [w EXCEPT !.q = q] \in Addresses /\ [w EXCEPT !.q = q].page = "search" /\ [w EXCEPT !.q = q].q = q
  BY <1>3, NewAddresses
<1>5. PICK r \in BOOLEAN : SearchNav(q) = [kind |-> "search", replace |-> r, to |-> [w EXCEPT !.q = q]]
  BY <1>3
<1> DEFINE u == [w EXCEPT !.q = q]
<1>6. u \in Addresses /\ u.page = "search" /\ u.q = q /\ SearchNav(q) = [kind |-> "search", replace |-> r, to |-> u]
  BY <1>4, <1>5
<1> HIDE DEF u
<1> QED
  BY <1>6 DEF Nav

LEMMA SubmitKeeps ==
  ASSUME IInv, Submit
  PROVE  IInv'
<1>1. Trim(value) \in Words /\ Typing
  BY DEF IInv, Typing, Box, Trim
<1>2. nav' = SearchNav(Trim(value)) /\ dropped' = FALSE /\ timer' = timer /\ left' = left
      /\ UNCHANGED <<hist, at, value, synced, have, asking, askingMore, failed, settle, counted, views>>
  BY DEF Submit
<1>3. nav' \in Nav /\ nav'.kind = "search" /\ nav'.to.page = "search" /\ nav'.to.q = Trim(value)
  BY <1>1, <1>2, SearchNavIsSearch
<1>4. left' \in {"", "browser", "link"} /\ acts' \in 0 .. MaxActs
  BY <1>1, <1>2, ActsGrow DEF Submit, Typing
<1> QED
  BY <1>2, <1>3, <1>4, StartsKeeps

LEMMA DebounceKeeps ==
  ASSUME IInv, Debounce
  PROVE  IInv'
<1>1. timer = Trim(value) /\ timer \in Words /\ Typing
  BY DEF IInv, Typing, Searching, Due, Debounce
<1>2. nav' = SearchNav(timer) /\ dropped' = FALSE /\ timer' = Off /\ left' = left /\ acts' = acts
      /\ UNCHANGED <<hist, at, value, synced, have, asking, askingMore, failed, settle, counted, views>>
  BY DEF Debounce
<1>3. nav' \in Nav /\ nav'.kind = "search" /\ nav'.to.page = "search" /\ nav'.to.q = Trim(value)
  BY <1>1, <1>2, SearchNavIsSearch
<1>4. left' \in {"", "browser", "link"} /\ acts' \in 0 .. MaxActs
  BY <1>1, <1>2 DEF Typing
<1> QED
  BY <1>2, <1>3, <1>4, StartsKeeps

-----------------------------------------------------------------------------
(* Navigations.                                                            *)

LEMMA LinkStarts ==
  ASSUME IInv, NEW u \in Addresses, Act, Give(Push(u)),
         UNCHANGED <<hist, at, left, value, synced, timer, have, asking, askingMore, failed, settle, counted, views>>
  PROVE  IInv'
<1>1. nav' \in Nav /\ nav'.kind = "link" /\ dropped' \in BOOLEAN /\ (dropped \/ nav.kind = "search" => dropped')
  BY DEF Give, Push, Nav, IInv, Typing
<1>2. left' \in {"", "browser", "link"} /\ acts' \in 0 .. MaxActs
  BY ActsGrow DEF IInv, Typing
<1> QED
  BY <1>1, <1>2, StartsKeeps

LEMMA FollowKeeps ==
  ASSUME IInv, NEW to \in Links, Follow(to)
  PROVE  IInv'
<1>1. to \in Pages /\ url \in Addresses
  BY UrlIsAddress DEF Pages, IInv
<1>2. Address(to, url.lang) \in Addresses
  BY <1>1, NewAddresses
<1> QED
  BY <1>2, LinkStarts DEF Follow

LEMMA SwitchLanguageKeeps ==
  ASSUME IInv, SwitchLanguage
  PROVE  IInv'
<1> DEFINE l == IF url.lang = "ru" THEN "kk" ELSE "ru"
<1>1. url \in Addresses
  BY UrlIsAddress DEF IInv
<1>2. [url EXCEPT !.lang = l] \in Addresses
  BY <1>1, NewAddresses
<1>3. Give(Push([url EXCEPT !.lang = l]))
  BY DEF SwitchLanguage
<1> HIDE DEF l
<1> QED
  BY <1>2, <1>3, LinkStarts DEF SwitchLanguage

LEMMA HistoryGrows ==
  ASSUME NEW S, NEW s \in Seq(S), NEW i \in 1 .. Len(s), NEW u \in S
  PROVE  /\ s[i] \in S
         /\ [s EXCEPT ![i] = u] \in Seq(S) /\ Len([s EXCEPT ![i] = u]) = Len(s) /\ [s EXCEPT ![i] = u][i] = u
         /\ LET t == Append(SubSeq(s, 1, i), u)
            IN  t \in Seq(S) /\ i + 1 \in 1 .. Len(t) /\ t[i + 1] = u
<1>1. s[i] \in S /\ i \in Nat /\ i >= 1
  OBVIOUS
<1>2. [s EXCEPT ![i] = u] \in Seq(S) /\ Len([s EXCEPT ![i] = u]) = Len(s) /\ [s EXCEPT ![i] = u][i] = u
  OBVIOUS
<1>3. SubSeq(s, 1, i) \in Seq(S) /\ Len(SubSeq(s, 1, i)) = i
  OBVIOUS
<1> DEFINE r == SubSeq(s, 1, i)
<1>4. r \in Seq(S) /\ Len(r) = i
  BY <1>3
<1> HIDE DEF r
<1>5. Append(r, u) \in Seq(S) /\ Len(Append(r, u)) = i + 1 /\ Append(r, u)[i + 1] = u
  BY <1>1, <1>4
<1>6. i + 1 \in 1 .. Len(Append(r, u))
  BY <1>1, <1>5
<1> QED
  BY <1>1, <1>2, <1>5, <1>6 DEF r

LEMMA CommitKeeps ==
  ASSUME IInv, Commit
  PROVE  IInv'
<1>1. nav.to \in Addresses /\ hist \in Seq(Addresses) /\ at \in 1 .. Len(hist)
  BY NavDiffers DEF Commit, IInv, Typing
<1>2. hist' \in Seq(Addresses) /\ at' \in 1 .. Len(hist') /\ hist'[at'] = nav.to
  <2>1. CASE hist' = [hist EXCEPT ![at] = nav.to] /\ at' = at
    BY <1>1, <2>1, HistoryGrows
  <2>2. CASE hist' = Append(SubSeq(hist, 1, at), nav.to) /\ at' = at + 1
    BY <1>1, <2>2, HistoryGrows
  <2> QED
    BY <2>1, <2>2 DEF Commit
<1>3. Rendered(nav.to)
  BY <1>1, <1>2, LandGives DEF Commit
<1>4. nav' = NoNav /\ left' = left /\ counted' = counted /\ dropped' = dropped /\ acts' = acts
  BY DEF Commit
<1>5. dropped \in BOOLEAN /\ acts \in 0 .. MaxActs
  BY DEF IInv, Typing
<1> QED
  BY <1>1, <1>2, <1>3, <1>4, <1>5, ArrivesKeeps

LEMMA StepKeeps ==
  ASSUME IInv, Act, NEW n \in {-1, 1}, NEW by \in {"browser", "link"}, Step(n, by)
  PROVE  IInv'
<1>1. hist \in Seq(Addresses) /\ at \in 1 .. Len(hist) /\ nav \in Nav /\ dropped \in BOOLEAN /\ acts' \in 0 .. MaxActs
  BY ActsGrow DEF IInv, Typing
<1>2. CASE at + n < 1
  <2>1. left' = by /\ UNCHANGED <<hist, at, nav, value, synced, timer, dropped, have, asking, askingMore, failed,
                                  settle, counted, views>>
    BY <1>2 DEF Step
  <2> QED
    BY <1>1, <2>1, StartsKeeps
<1>3. CASE ~(at + n < 1)
  <2>1. /\ at + n <= Len(hist) /\ at' = at + n /\ Give(NoNav) /\ Land(hist[at + n])
        /\ UNCHANGED <<hist, left, counted>>
    BY <1>3 DEF Step
  <2>2. Len(hist) \in Nat /\ at \in Int
    BY <1>1
  <2>3. at' \in 1 .. Len(hist)
    BY <1>3, <2>1, <2>2
  <2>4. hist' = hist /\ hist[at'] \in Addresses /\ Land(hist[at'])
    BY <1>1, <2>1, <2>3, HistoryGrows
  <2>5. Rendered(hist[at'])
    BY <2>4, LandGives
  <2>6. nav' = NoNav /\ dropped' = (dropped \/ nav.kind = "search")
    BY <2>1 DEF Give
  <2> QED
    BY <1>1, <2>1, <2>3, <2>4, <2>5, <2>6, ArrivesKeeps
<1> QED
  BY <1>2, <1>3

LEMMA ClickBackKeeps ==
  ASSUME IInv, ClickBack
  PROVE  IInv'
<1>1. CASE navigated
  BY <1>1, StepKeeps DEF ClickBack
<1>2. CASE ~navigated
  <2>1. url \in Addresses /\ Above(url.page) \in Pages
    BY UrlIsAddress, ItemHasCategory DEF IInv, Pages, Above
  <2>2. Address(Above(url.page), url.lang) \in Addresses
    BY <2>1, NewAddresses
  <2> QED
    BY <1>2, <2>2, LinkStarts DEF ClickBack
<1> QED
  BY <1>1, <1>2

-----------------------------------------------------------------------------
(* Filters and sorting.                                                    *)

LEMMA ReplaceKeeps ==
  ASSUME IInv, Act, NEW u \in Addresses, Replace(u)
  PROVE  IInv'
<1>1. hist \in Seq(Addresses) /\ at \in 1 .. Len(hist) /\ dropped \in BOOLEAN /\ acts' \in 0 .. MaxActs
  BY ActsGrow DEF IInv, Typing
<1>2. hist' = [hist EXCEPT ![at] = u] /\ at' = at /\ nav' = NoNav /\ dropped' = (dropped \/ nav.kind = "search")
      /\ left' = left /\ counted' = counted
  BY DEF Replace, Give
<1>3. hist' \in Seq(Addresses) /\ at' \in 1 .. Len(hist') /\ hist'[at'] = u
  BY <1>1, <1>2, HistoryGrows
<1>4. value \in Box /\ Answered(have) /\ asking \in SUBSET Keys /\ askingMore \in SUBSET DOMAIN have
  BY DEF IInv, Typing
<1>5. Render(u, value, timer, have, asking, askingMore, failed, settle)
  BY DEF Replace
<1>6. Rendered(u)
  BY <1>3, <1>4, <1>5, RenderGives
<1> QED
  BY <1>1, <1>2, <1>3, <1>6, ArrivesKeeps

LEMMA FiltersKeep ==
  ASSUME IInv, (\E s \in Sorts : ChangeSort(s)) \/ (\E o \in Options : Toggle(o)) \/ ResetFilters
  PROVE  IInv'
<1>1. url \in Addresses
  BY UrlIsAddress DEF IInv
<1>2. ASSUME NEW s \in Sorts, ChangeSort(s) PROVE IInv'
  <2> DEFINE o == IF s = DefaultSort THEN "none" ELSE s
  <2>1. o \in Orders
    BY DEF Orders
  <2>2. WithSort(url, s) \in Addresses
    <3>1. WithSort(url, s) = [url EXCEPT !.sort = o]
      BY DEF WithSort
    <3> HIDE DEF o
    <3>2. [url EXCEPT !.sort = o] \in Addresses
      BY <1>1, <2>1 DEF Addresses
    <3> QED
      BY <3>1, <3>2
  <2> QED
    BY <1>2, <2>2, ReplaceKeeps DEF ChangeSort
<1>3. ASSUME NEW p \in SUBSET Options PROVE WithFilter(url, p) \in Addresses
  <2>1. p \in SUBSET Values
    BY DEF Values
  <2> QED
    BY <1>1, <2>1, NewAddresses DEF WithFilter
<1>4. ReadFilters(url) \subseteq Options
  BY DEF ReadFilters
<1>5. ASSUME NEW o \in Options, Toggle(o) PROVE IInv'
  <2> DEFINE p == IF o \in ReadFilters(url) THEN ReadFilters(url) \ {o} ELSE ReadFilters(url) \cup {o}
  <2>1. p \in SUBSET Options /\ Act /\ Replace(WithFilter(url, p))
    BY <1>4, <1>5 DEF Toggle
  <2> HIDE DEF p
  <2> QED
    BY <1>3, <2>1, ReplaceKeeps
<1>6. CASE ResetFilters
  <2>1. WithoutFilters(url) = WithFilter(url, {})
    BY DEF WithoutFilters, WithFilter
  <2> QED
    BY <1>3, <1>6, <2>1, ReplaceKeeps DEF ResetFilters
<1> QED
  BY <1>2, <1>5, <1>6

-----------------------------------------------------------------------------
(* Requests and what they bring.                                           *)

LEMMA RequestKeeps ==
  ASSUME IInv, NEW h, Answered(h), NEW ask \in SUBSET Keys, NEW more \in SUBSET DOMAIN h, NEW fl,
         Render(url, value, timer, h, ask, more, fl, settle),
         UNCHANGED <<hist, at, left, nav, dropped, counted>>, acts' \in 0 .. MaxActs
  PROVE  IInv'
<1>1. url \in Addresses /\ hist'[at'] = url /\ value \in Box /\ dropped \in BOOLEAN
  BY UrlIsAddress DEF IInv, Typing, url
<1>2. Rendered(url)
  BY <1>1, RenderGives
<1> QED
  BY <1>1, <1>2, StaysKeeps

LEMMA LoadMoreKeeps ==
  ASSUME IInv, LoadMore
  PROVE  IInv'
<1>1. Answered(have) /\ asking \in SUBSET Keys /\ askingMore \cup {Key(url)} \in SUBSET DOMAIN have /\ acts' \in 0 .. MaxActs
  BY ActsGrow DEF LoadMore, IInv, Typing
<1> QED
  BY <1>1, RequestKeeps DEF LoadMore

LEMMA RetryKeeps ==
  ASSUME IInv, Retry
  PROVE  IInv'
<1>1. Key(url) \in Keys
  BY UrlIsAddress, KeyIsKnown DEF IInv
<1>2. Answered(have) /\ asking \cup {Key(url)} \in SUBSET Keys /\ askingMore \in SUBSET DOMAIN have /\ acts' \in 0 .. MaxActs
  BY <1>1, ActsGrow DEF Retry, IInv, Typing
<1> QED
  BY <1>2, RequestKeeps DEF Retry

LEMMA FailKeeps ==
  ASSUME IInv, NEW k \in asking \cup askingMore, Fail(k)
  PROVE  IInv'
<1>1. /\ Answered(have) /\ asking \ {k} \in SUBSET Keys /\ askingMore \ {k} \in SUBSET DOMAIN have
      /\ acts' \in 0 .. MaxActs
  BY DEF Fail, IInv, Typing
<1> QED
  BY <1>1, RequestKeeps DEF Fail

LEMMA AnswerKeeps ==
  ASSUME IInv, NEW k \in asking \cup askingMore, Answer(k)
  PROVE  IInv'
<1>1. asking \subseteq Keys /\ askingMore \subseteq DOMAIN have /\ Answered(have) /\ acts' \in 0 .. MaxActs
  BY DEF Answer, IInv, Typing
<1>2. PICK h : /\ Answered(h) /\ DOMAIN have \subseteq DOMAIN h
               /\ Render(url, value, timer, h, asking \ {k}, askingMore \ {k}, failed, settle)
  <2>1. CASE k \in askingMore
    <3> DEFINE n == NextCount(k)
               g == [have EXCEPT ![k] = [items |-> have[k].items + n, last |-> n]]
    <3>1. Answered(g) /\ DOMAIN g = DOMAIN have
      BY <1>1, <2>1, NextPageIsAnswer DEF NextCount
    <3>2. Render(url, value, timer, g, asking \ {k}, askingMore \ {k}, failed, settle)
      BY <2>1 DEF Answer
    <3> HIDE DEF g
    <3> QED
      BY <3>1, <3>2
  <2>2. CASE k \notin askingMore
    <3>1. Answered(WithFirstPage(have, k)) /\ DOMAIN WithFirstPage(have, k) = DOMAIN have \cup {k}
      BY <1>1, <2>2, FirstPageIsAnswer
    <3>2. Render(url, value, timer, WithFirstPage(have, k), asking \ {k}, askingMore \ {k}, failed, settle)
      BY <2>2 DEF Answer
    <3> QED
      BY <3>1, <3>2
  <2> QED
    BY <2>1, <2>2
<1>3. asking \ {k} \in SUBSET Keys /\ askingMore \ {k} \in SUBSET DOMAIN h
  BY <1>1, <1>2
<1> QED
  BY <1>1, <1>2, <1>3, RequestKeeps DEF Answer

LEMMA CountSearchKeeps ==
  ASSUME IInv, CountSearch
  PROVE  IInv'
<1>1. url' = url
  BY DEF CountSearch, url
<1>2. Typing' /\ Searching' /\ Answered(have)' /\ Settling'
  BY <1>1 DEF CountSearch, IInv, Typing, Searching, Due, ShouldGo, Answered, Settling
<1>3. Counting'
  BY DEF CountSearch, IInv, Counting, Sent
<1> QED
  BY <1>2, <1>3 DEF IInv

LEMMA StutterKeeps == IInv /\ UNCHANGED vars => IInv'
<1> SUFFICES ASSUME IInv, UNCHANGED vars PROVE IInv'
  OBVIOUS
<1>1. acts' \in 0 .. MaxActs /\ nav' \in Nav /\ dropped' \in BOOLEAN /\ left' \in {"", "browser", "link"}
  BY DEF vars, IInv, Typing
<1> QED
  BY <1>1, StartsKeeps DEF vars

LEMMA Inductive == ReaderSpec => []IInv
<1>1. IInv /\ [Next]_vars => IInv'
  <2> SUFFICES ASSUME IInv, [Next]_vars PROVE IInv'
    OBVIOUS
  <2>1. ASSUME NEW w \in Words, Type(Typed(w)) PROVE IInv'
    <3>1. Typed(w) \in Box
      BY DEF Typed, Box
    <3> QED
      BY <2>1, <3>1, TypeKeeps
  <2>2. ASSUME NEW w \in LongWords, Type([word |-> w, pad |-> TRUE]) PROVE IInv'
    <3>1. [word |-> w, pad |-> TRUE] \in Box
      BY WordsAreTexts DEF Box
    <3> QED
      BY <2>2, <3>1, TypeKeeps
  <2>3. ASSUME NEW n \in {-1, 1}, BrowserStep(n) PROVE IInv'
    BY <2>3, StepKeeps DEF BrowserStep
  <2> QED
    BY <2>1, <2>2, <2>3, SubmitKeeps, DebounceKeeps, CommitKeeps, FollowKeeps, SwitchLanguageKeeps, ClickBackKeeps,
       FiltersKeep, LoadMoreKeeps, RetryKeeps, AnswerKeeps, FailKeeps, CountSearchKeeps, StutterKeeps DEF Next
<1> QED
  BY <1>1, Initial, PTL DEF ReaderSpec

LEMMA ScreenIsOfTheAddress == IInv => ListIsOfThisAddress
<1> SUFFICES ASSUME IInv PROVE ListIsOfThisAddress
  OBVIOUS
<1>1. View.cards > 0 => ShownKey.of = Key(url).of /\ (~View.busy => ShownKey = Key(url))
  <2>1. View.cards = (IF EnabledAt(url) THEN Cards(ShownKey) ELSE 0) /\ View.busy = (ShownKey # Key(url))
    BY DEF View
  <2>2. CASE ShownKey = NoKey
    BY <2>1, <2>2 DEF Cards
  <2>3. CASE ShownKey # NoKey
    BY <2>1, <2>3 DEF ShownKey, ShownAt, Keeps
  <2> QED
    BY <2>2, <2>3
<1>2. \A k \in DOMAIN have \cup asking \cup askingMore : k.filters \subseteq Options /\ k.sort \in Sorts
  BY DEF IInv, Typing, Answered, Keys
<1>3. \A k \in DOMAIN have : have[k].items <= Total(k) /\ (have[k].last < PageSize => have[k].items = Total(k))
  BY DEF IInv, Answered
<1> QED
  BY <1>1, <1>2, <1>3 DEF ListIsOfThisAddress

LEMMA NoSearchIsForgotten == IInv => SearchIsNotForgotten
<1> SUFFICES ASSUME IInv, timer = Off, nav = NoNav, ~dropped, Trim(value) # UrlQuery(url)
             PROVE  Trim(value) \notin LongWords \cup {""}
  BY DEF SearchIsNotForgotten
<1>1. ~ShouldGo(url, value)
  BY NavDiffers DEF IInv, Searching
<1> QED
  BY <1>1 DEF ShouldGo, UrlQuery

-----------------------------------------------------------------------------
\* queries.ts:54, :63, SearchBox.tsx:45, for every set of texts, categories and
\* pages of entry: the list is of the address on the screen, complete when
\* there is no more to load, and no text is left in the box unsearched unless
\* its search gave way.
THEOREM PagesAreOfTheirAddress == ReaderSpec => []PageIsOfItsAddress
<1>1. IInv => ReaderTypeOK
  BY UrlIsAddress, KeyIsKnown DEF IInv, Typing, ReaderTypeOK, Box
<1> QED
  BY <1>1, ScreenIsOfTheAddress, NoSearchIsForgotten, Inductive, PTL DEF PageIsOfItsAddress

(* Only CountSearch counts, and then what has settled on the screen.       *)
LEMMA OnlySearchesAreCounted ==
  ASSUME IInv, Next, ~CountSearch
  PROVE  counted' = counted
<1>1. ASSUME NEW v, Type(v) PROVE counted' = counted
  BY <1>1 DEF Type
<1>2. CASE Submit \/ Debounce \/ Commit \/ SwitchLanguage
  BY <1>2 DEF Submit, Debounce, Commit, SwitchLanguage
<1>3. ASSUME NEW p, Follow(p) PROVE counted' = counted
  BY <1>3 DEF Follow
<1>4. ASSUME NEW n, NEW by, Step(n, by) PROVE counted' = counted
  BY <1>4 DEF Step
<1>5. ASSUME NEW n, BrowserStep(n) PROVE counted' = counted
  BY <1>4, <1>5 DEF BrowserStep
<1>6. CASE ClickBack
  BY <1>4, <1>6 DEF ClickBack
<1>7. ASSUME NEW u, Replace(u) PROVE counted' = counted
  BY <1>7 DEF Replace
<1>8. ASSUME (\E s \in Sorts : ChangeSort(s)) \/ (\E o \in Options : Toggle(o)) \/ ResetFilters PROVE counted' = counted
  BY <1>7, <1>8 DEF ChangeSort, Toggle, ResetFilters
<1>9. CASE LoadMore \/ Retry
  BY <1>9 DEF LoadMore, Retry
<1>10. ASSUME NEW k, Answer(k) \/ Fail(k) PROVE counted' = counted
  BY <1>10 DEF Answer, Fail
<1> QED
  BY <1>1, <1>2, <1>3, <1>5, <1>6, <1>8, <1>9, <1>10 DEF Next

LEMMA SettledIsOnTheScreen ==
  ASSUME IInv, NEW e \in Events(settle), settle # NoSettle
  PROVE  /\ Ready /\ ShownKey = Key(url) /\ e[2] = Path(url) /\ e[3] = url.q
         /\ e[1] = "search_no_results" => View.empty
<1>1. Ready /\ settle.q = url.q /\ settle.n = have[Key(url)].items
  BY DEF IInv, Settling
<1>2. e \in {<<"search", Path(url), settle.q>>, <<"search_no_results", Path(url), settle.q>>}
      /\ (e[1] = "search_no_results" => settle.n = 0)
  BY DEF Events
<1>3. Key(url) \in DOMAIN have /\ Key(url) \notin failed /\ ShownKey = Key(url)
  BY <1>1 DEF Ready, ReadyAt, ShownKey, ShownAt
<1>4. EnabledAt(url) /\ Key(url) # NoKey
  BY <1>1, WordsDiffer DEF Ready, ReadyAt, EnabledAt, Key, NoKey
<1>5. settle.n = 0 => View.empty
  BY <1>1, <1>3, <1>4 DEF View, Cards
<1> QED
  BY <1>1, <1>2, <1>3, <1>5

\* pilot-analytics.ts:61, :93, for every set of texts and pages of entry: a
\* visit counts once, a search once per language, and only while its complete
\* results are on the screen.
THEOREM EventsWereSeen == ReaderSpec => EventsTellWhatWasSeen
<1>1. IInv /\ IInv' /\ [Next]_vars => [EventsAreOfTheScreen]_vars
  <2> SUFFICES ASSUME IInv, IInv', Next PROVE EventsAreOfTheScreen
    OBVIOUS
  <2>1. views' \in 0 .. 1 /\ \A e \in DOMAIN counted' : counted'[e] = 1
    BY DEF IInv, Typing, Counting
  <2>2. ASSUME NEW e \in DOMAIN counted' \ DOMAIN counted
        PROVE  /\ Ready /\ ShownKey = Key(url) /\ e[2] = Path(url) /\ e[3] = url.q
               /\ e[1] = "search_no_results" => View.empty
    <3>1. CountSearch
      BY <2>2, OnlySearchesAreCounted
    <3>2. settle # NoSettle /\ DOMAIN counted' = DOMAIN counted \cup Events(settle)
      BY <3>1 DEF CountSearch
    <3> QED
      BY <2>2, <3>2, SettledIsOnTheScreen
  <2> QED
    BY <2>1, <2>2 DEF EventsAreOfTheScreen
<1> QED
  BY <1>1, Inductive, PTL DEF ReaderSpec, EventsTellWhatWasSeen

-----------------------------------------------------------------------------
(* The cache of the site.                                                   *)

Entry  == [v : Nat, age : Nat, expired : BOOLEAN]
Rendering == [on : BOOLEAN, got : Nat, refresh : BOOLEAN]

CacheTyping ==
  /\ published \in Nat /\ data \in [Routes -> Entry] /\ onItsWay \in [Routes -> Nat] /\ page \in Entry
  /\ render \in [Routes -> Rendering] /\ served \in [Routes -> Nat] /\ sure \in Nat

\* What is kept, on its way or taken by a render is no older than what the last
\* notice that found nothing under way was about.
NothingOlder ==
  /\ sure <= published
  /\ Usable(page) => page.v >= sure
  /\ \A d \in Routes : Usable(data[d]) => data[d].v >= sure
  /\ \A d \in Routes : onItsWay[d] = 0 \/ onItsWay[d] >= sure
  /\ \A p \in Routes : render[p].got = 0 \/ (render[p].on /\ render[p].got >= sure)

CInv == CacheTyping /\ NothingOlder

LEMMA CacheStarts == CacheInit => CInv
  BY DEF CacheInit, CInv, CacheTyping, NothingOlder, Entry, Rendering, NoEntry, Idle, Routes, Usable

LEMMA AgingKeeps ==
  ASSUME NEW e \in Entry
  PROVE  Older(e) \in Entry /\ Older(e).v = e.v /\ Usable(Older(e)) = Usable(e)
  BY DEF Older, Entry, Usable

LEMMA TickKeeps == ASSUME CInv, Tick PROVE CInv'
<1>1. page' \in Entry /\ page'.v = page.v /\ Usable(page') = Usable(page)
  BY AgingKeeps DEF CInv, CacheTyping, Tick
<1>2. ASSUME NEW d \in Routes
      PROVE  data'[d] \in Entry /\ data'[d].v = data[d].v /\ Usable(data'[d]) = Usable(data[d])
  BY AgingKeeps DEF CInv, CacheTyping, Tick
<1>3. data' \in [Routes -> Entry]
  BY <1>2 DEF Tick
<1> QED
  BY <1>1, <1>2, <1>3 DEF CInv, CacheTyping, NothingOlder, Tick, Usable

LEMMA FetchKeeps ==
  ASSUME CInv, NEW d \in Routes, ApiReads(d) \/ Stored(d) \/ Failed(d)
  PROVE  CInv'
<1>1. CASE ApiReads(d)
  BY <1>1 DEF CInv, CacheTyping, NothingOlder, ApiReads, Usable
<1>2. CASE Stored(d)
  BY <1>2 DEF CInv, CacheTyping, NothingOlder, Stored, Usable, Entry
<1>3. CASE Failed(d)
  BY <1>3 DEF CInv, CacheTyping, NothingOlder, Failed, Usable, Rendering, Idle
<1> QED
  BY <1>1, <1>2, <1>3

LEMMA RenderKeeps ==
  ASSUME CInv, NEW p \in Routes, Takes(p) \/ StartRender(p) \/ EndRender(p)
  PROVE  CInv'
<1>1. CASE Takes(p)
  BY <1>1 DEF CInv, CacheTyping, NothingOlder, Takes, Asks, Finds, Usable, Rendering, Entry
<1>2. CASE StartRender(p)
  BY <1>2 DEF CInv, CacheTyping, NothingOlder, StartRender, Usable, Rendering, Idle
<1>3. CASE EndRender(p)
  BY <1>3 DEF CInv, CacheTyping, NothingOlder, EndRender, Usable, Rendering, Entry, Idle
<1> QED
  BY <1>1, <1>2, <1>3

LEMMA VisitKeeps == ASSUME CInv, ServeKept \/ ServeAndRefresh PROVE CInv'
<1>1. CASE ServeKept
  BY <1>1 DEF CInv, CacheTyping, NothingOlder, ServeKept, Usable, Entry, Routes
<1>2. CASE ServeAndRefresh
  BY <1>2 DEF CInv, CacheTyping, NothingOlder, ServeAndRefresh, Usable, Entry, Rendering, Idle, Routes
<1> QED
  BY <1>1, <1>2

\* A notice that finds nothing under way leaves nothing that may be shown.
LEMMA NoticeKeeps == ASSUME CInv, NEW r, POST(r) PROVE CInv'
<1>1. CASE Status(r) = 204
  <2>1. /\ data' = [d \in Routes |-> [data[d] EXCEPT !.expired = TRUE]]
        /\ page' = [page EXCEPT !.expired = TRUE]
        /\ sure' = IF NothingUnderWay THEN published ELSE sure
        /\ UNCHANGED <<published, onItsWay, render, served>>
    BY <1>1 DEF POST, Expire
  <2>2. page' \in Entry /\ page'.expired /\ data' \in [Routes -> Entry] /\ \A d \in Routes : data'[d].expired
    BY <2>1 DEF CInv, CacheTyping, Entry
  <2>3. CASE NothingUnderWay
    BY <2>1, <2>2, <2>3 DEF CInv, CacheTyping, NothingOlder, NothingUnderWay, Usable, Rendering
  <2>4. CASE ~NothingUnderWay
    BY <2>1, <2>2, <2>4 DEF CInv, CacheTyping, NothingOlder, Usable
  <2> QED
    BY <2>3, <2>4
<1>2. CASE Status(r) # 204
  BY <1>2 DEF POST, CInv, CacheTyping, NothingOlder, Usable
<1> QED
  BY <1>1, <1>2

LEMMA CacheInductive == CacheSpec => []CInv
<1>1. CInv /\ [CacheNext]_cacheVars => CInv'
  <2> SUFFICES ASSUME CInv, [CacheNext]_cacheVars PROVE CInv'
    OBVIOUS
  <2>1. CASE Publish \/ NoticeLost
    BY <2>1 DEF Publish, NoticeLost, CInv, CacheTyping, NothingOlder, Usable
  <2>2. CASE UNCHANGED cacheVars
    BY <2>2 DEF cacheVars, CInv, CacheTyping, NothingOlder, Usable
  <2> QED
    BY <2>1, <2>2, TickKeeps, FetchKeeps, RenderKeeps, VisitKeeps, NoticeKeeps DEF CacheNext
<1> QED
  BY <1>1, CacheStarts, PTL DEF CacheSpec

\* route.ts:16 and :18, for any lifetime of the cache and any number of
\* publications and failures: after a notice that was taken while nothing was
\* under way, nothing older than its snapshot is kept for use or served.
THEOREM NoticesAreHeeded == CacheSpec => NoticeIsHeeded
<1> DEFINE Kept == /\ Usable(page) => page.v >= sure
                   /\ \A d \in Routes : Usable(data[d]) => data[d].v >= sure
           Shown == \A p \in Routes : served'[p] # served[p] => served'[p] >= sure
<1>1. CInv => Kept
  BY DEF CInv, NothingOlder
<1>2. CInv /\ [CacheNext]_cacheVars => [Shown]_cacheVars
  <2> SUFFICES ASSUME CInv, CacheNext PROVE Shown
    OBVIOUS
  <2>1. CASE served' = served
    BY <2>1
  <2>2. CASE ServeKept \/ ServeAndRefresh
    BY <2>2 DEF CInv, CacheTyping, NothingOlder, ServeKept, ServeAndRefresh
  <2>3. ASSUME NEW p \in Routes, EndRender(p) PROVE Shown
    BY <2>3 DEF CInv, CacheTyping, NothingOlder, EndRender, Rendering
  <2>4. ASSUME NEW d \in Routes, ApiReads(d) \/ Stored(d) \/ Failed(d) \/ Takes(d) \/ StartRender(d) PROVE served' = served
    BY <2>4 DEF ApiReads, Stored, Failed, Takes, StartRender
  <2>5. ASSUME NEW r, POST(r) PROVE served' = served
    BY <2>5 DEF POST
  <2>6. CASE Tick \/ Publish \/ NoticeLost
    BY <2>1, <2>6 DEF Tick, Publish, NoticeLost
  <2> QED
    BY <2>1, <2>2, <2>3, <2>4, <2>5, <2>6 DEF CacheNext
<1> QED
  BY <1>1, <1>2, CacheInductive, PTL DEF CacheSpec, NoticeIsHeeded
=============================================================================
