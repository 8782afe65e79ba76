------------------------------- MODULE Reader -------------------------------
(* One tab of the site: the address and its history, the search box, the    *)
(* lists of products behind an address, "show more", filters and sorting,   *)
(* the link back and the events counted (frontend/src: SearchBox.tsx,       *)
(* SearchPage.tsx, CategoryPage.tsx, queries.ts, filterParams.ts,           *)
(* urlState.ts, inAppHistory.ts, BackLink.tsx, LanguageSwitch.tsx,          *)
(* pilot-analytics.ts, analytics-browser.ts).                               *)
(*                                                                          *)
(* Next's router and react-query are external.  A navigation is under way   *)
(* until it is committed, a new one takes its place, and so does a change   *)
(* of the history; another language mounts the layout anew.  A query keeps  *)
(* its answer for the life of the tab (staleTime: Infinity), and one in     *)
(* flight ends in its own entry whatever is on the screen by then.          *)
EXTENDS Integers, Sequences, FiniteSetsExt

CONSTANTS Words,        \* texts of the search box, "" among them
          LongWords,    \* those of at least MIN_LIVE_QUERY characters
          Categories,   \* slugs
          Options,      \* values the schema offers for the filter of a category
          Sorts,        \* orders the API knows (price_asc, price_desc, name_asc)
          Entries,      \* addresses a tab may be opened at
          Links,        \* pages with links to them everywhere
          ItemCategory, \* the category of the product that is looked at
          PageSize,     \* PAGE_SIZE (24)
          Total(_),     \* products that match a key
          MaxActs,      \* bound: what the reader does
          MaxEntries    \* bound: entries of the history

DefaultSort == "price_asc"
Off         == "off"
NoKey       == [of |-> Off, search |-> "", filters |-> {}, sort |-> DefaultSort]
NoNav       == [kind |-> "none"]
NoSettle    == [q |-> "", n |-> 0]

\* Addresses a tab can come to, and what its lists are asked for.
Pages     == Categories \cup Links \cup {"search", "catalog"} \cup {u.page : u \in Entries}
Orders    == Sorts \cup {"none"} \cup {u.sort : u \in Entries}
Values    == Options \cup UNION {u.picks : u \in Entries}
Addresses == [page : Pages, lang : {"ru", "kk"}, q : Words, sort : Orders, picks : SUBSET Values]
Keys      == [of : Categories \cup {"", Off}, search : Words, filters : SUBSET Options, sort : Sorts]

\* An emptied box is no search to be made while typing.
ASSUME WordsAreTexts == /\ "" \in Words /\ Off \notin Words /\ LongWords \subseteq Words \ {""}
                        /\ DefaultSort \in Sorts /\ Entries \subseteq Addresses
ASSUME ItemHasCategory == ItemCategory \in Categories
ASSUME TotalsAreNumbers == PageSize \in Nat \ {0} /\ MaxActs \in Nat /\ \A k \in Keys : Total(k) \in Nat

VARIABLES hist, at,       \* the entries of this tab, and the one on the screen
          left,           \* how the tab left the site: "", "browser" or "link"
          nav,            \* the navigation under way
          value, synced,  \* the box: [word, pad], and the query it was last set from
          timer,          \* the word a debounced search is due for, or Off
          dropped,        \* a search under way gave way to something else
          have,           \* key -> [items, last]: answers, and the size of the last page
          asking, askingMore, failed,   \* keys whose first or next page is asked for, or failed
          lastShown,      \* the key last shown by the list on the screen
          entryPath, navigated,         \* inAppHistory
          settle,         \* the search that is about to be counted
          counted,        \* key of an event -> how often it was sent
          views,          \* view events sent since the path changed
          acts

vars == <<hist, at, left, nav, value, synced, timer, dropped, have, asking, askingMore, failed, lastShown,
          entryPath, navigated, settle, counted, views, acts>>

url == hist[at]

-----------------------------------------------------------------------------
(* Addresses: [page, lang, q, sort, picks], as they stand in the URL:       *)
(* sort "none" when absent, picks whatever values the filter's key has.     *)

Address(to, lang) == [page |-> to, lang |-> lang, q |-> "", sort |-> "none", picks |-> {}]
Path(u) == <<u.lang, u.page>>

\* Only what the schema and the API know is read from an address.  (Of a
\* boolean filter only the first value would count: here are the others.)
ReadFilters(u) == u.picks \cap Options
ReadSort(u)    == IF u.sort \in Sorts THEN u.sort ELSE DefaultSort

WithFilter(u, values) == [u EXCEPT !.picks = values]
WithoutFilters(u)     == [u EXCEPT !.picks = {}]
WithSort(u, sort)     == [u EXCEPT !.sort = IF sort = DefaultSort THEN "none" ELSE sort]

\* Mutant: the raw parameters are sent on.
KeyRaw(u) ==
  IF u.page = "search" THEN [of |-> "", search |-> u.q, filters |-> {}, sort |-> u.sort]
  ELSE IF u.page \in Categories THEN [of |-> u.page, search |-> "", filters |-> u.picks, sort |-> u.sort]
  ELSE NoKey

\* The query of the list at an address (and its key in the cache).
Key(u) ==
  IF u.page = "search" THEN [of |-> "", search |-> u.q, filters |-> {}, sort |-> ReadSort(u)]
  ELSE IF u.page \in Categories
       THEN [of |-> u.page, search |-> "", filters |-> ReadFilters(u), sort |-> ReadSort(u)]
  ELSE NoKey

EnabledAt(u) == u.page \in Categories \/ (u.page = "search" /\ u.q # "")
UrlQuery(u)  == IF u.page = "search" THEN u.q ELSE ""

-----------------------------------------------------------------------------
(* What is on the screen: products.isPending, isError and isSuccess, the    *)
(* cards and whether they are those of an earlier query (placeholderData).  *)

\* Filters and sorting keep the list until the new one is there; products of
\* another category are not shown.
Keeps(shown, u) == shown # NoKey /\ shown.of = Key(u).of

ShownAt(u, h, fl, shown) ==
  IF Key(u) \in DOMAIN h THEN Key(u)
  ELSE IF Key(u) \notin fl /\ Keeps(shown, u) THEN shown ELSE NoKey
ShownKey == ShownAt(url, have, failed, lastShown)
Cards(k) == IF k = NoKey THEN 0 ELSE have[k].items

View ==
  LET error   == Key(url) \in failed
      pending == ShownKey = NoKey /\ ~error
      listed  == EnabledAt(url)
  IN  [prompt |-> url.page = "search" /\ url.q = "", loading |-> listed /\ pending, error |-> listed /\ error,
       empty |-> listed /\ ~pending /\ ~error /\ Cards(ShownKey) = 0,
       cards |-> IF listed THEN Cards(ShownKey) ELSE 0, busy |-> ShownKey # Key(url),
       more |-> listed /\ ShownKey # NoKey /\ have[ShownKey].last = PageSize]

-----------------------------------------------------------------------------
(* Effects of a render, from what was on the screen to what is.             *)

Trim(v)      == v.word
Typed(w)     == [word |-> w, pad |-> FALSE]

\* Mutant: an emptied box is not searched for.
ShouldGoTyped(u, v) == Trim(v) # UrlQuery(u) /\ Trim(v) \in LongWords

\* A text long enough, or an emptied box on the search page, is searched for.
ShouldGo(u, v) == Trim(v) # UrlQuery(u) /\ (Trim(v) \in LongWords \/ (Trim(v) = "" /\ u.page = "search"))

\* Set from the URL when that changed to something else than what is typed.
SyncedValue(u, v, remount) ==
  IF remount \/ (UrlQuery(u) # synced /\ UrlQuery(u) # Trim(v)) THEN Typed(UrlQuery(u)) ELSE v

\* The effect runs when its dependencies change, and clears the timer first.
DebounceAfter(u, v, due, remount) ==
  IF remount \/ <<Trim(v), ShouldGo(u, v)>> # <<Trim(value), ShouldGo(url, value)>>
  THEN IF ShouldGo(u, v) THEN Trim(v) ELSE Off
  ELSE due

ReadyAt(u, h, ask, more, fl) == u.page = "search" /\ u.q # "" /\ Key(u) \in DOMAIN h \ (ask \cup more \cup fl)
Ready == ReadyAt(url, have, asking, askingMore, failed)

\* useSearchResult: a search settles when its results stand for a second.
SettleAfter(u, h, ask, more, fl, due, remount) ==
  LET n(w, k, hh) == IF k \in DOMAIN hh THEN hh[k].items ELSE 0
      ready == ReadyAt(u, h, ask, more, fl)
      now   == <<UrlQuery(u), n(u, Key(u), h), ready>>
      then  == <<UrlQuery(url), n(url, Key(url), have), Ready>>
  IN  IF ~remount /\ now = then THEN due
      ELSE IF ready THEN [q |-> u.q, n |-> h[Key(u)].items] ELSE NoSettle

\* useProductView, useCategoryView: the product at once, a category when its
\* own list is there.
ViewDue(u, h, fl) == u.page = "item" \/ (u.page \in Categories /\ Key(u) \in DOMAIN h \ fl)

\* Once per path: the keys sent are remembered until the path changes.
CountView(n) == IF n > 0 THEN n ELSE 1

ViewsAfter(u, h, fl) ==
  IF Path(u) # Path(url) THEN IF ViewDue(u, h, fl) THEN 1 ELSE 0
  ELSE IF ViewDue(u, h, fl) /\ ~ViewDue(url, have, failed) THEN CountView(views) ELSE views

\* A query that is wanted and neither kept nor under way is asked for.
Wants(u, h, ask) == IF EnabledAt(u) /\ Key(u) \notin DOMAIN h \cup ask THEN {Key(u)} ELSE {}

\* An answer that is there already stays.
FirstPage(k)        == [items |-> Min({PageSize, Total(k)}), last |-> Min({PageSize, Total(k)})]
WithFirstPage(h, k) == [x \in DOMAIN h \cup {k} |-> IF x \in DOMAIN h THEN h[x] ELSE FirstPage(k)]

\* The page of a category comes with its first page of products.
Hydrated(u, h) == IF u.page \in Categories THEN WithFirstPage(h, Key(u)) ELSE h

-----------------------------------------------------------------------------
(* Steps.  Render(u, v, h, ...) is the screen after a change of any of its  *)
(* parts; lists are not kept on another page or in another language.        *)

Render(u, v, due, h, ask, more, fl, settling) ==
  LET remount == u.lang # url.lang
      v2      == SyncedValue(u, v, remount)
      fl2     == IF Key(u) # Key(url) THEN fl \ {Key(u)} ELSE fl
      wants   == IF Key(u) # Key(url) \/ remount THEN Wants(u, h, ask) ELSE {}
      kind(w) == IF w.page \in Categories THEN "category" ELSE w.page
  IN  /\ value' = v2 /\ synced' = UrlQuery(u)
      /\ timer' = DebounceAfter(u, v2, due, remount)
      /\ have' = h /\ asking' = ask \cup wants /\ askingMore' = more /\ failed' = fl2
      /\ lastShown' = IF Key(u) \in DOMAIN h THEN Key(u)
                      ELSE IF remount \/ kind(u) # kind(url) THEN NoKey ELSE lastShown
      /\ settle' = SettleAfter(u, h, ask \cup wants, more, fl2, settling, remount)
      /\ views' = ViewsAfter(u, h, fl2)
      /\ navigated' = (navigated \/ u.page # entryPath)
      /\ UNCHANGED entryPath

\* The tab is at another address, or at the same in another state.
Land(u) ==
  LET lists == IF u.lang # url.lang THEN [k \in {} |-> 0] ELSE have
      kept(s) == IF u.lang # url.lang THEN {} ELSE s
  IN  Render(u, value, timer, Hydrated(u, lists), kept(asking), kept(askingMore), kept(failed), settle)

Act == left = "" /\ acts < MaxActs /\ acts' = acts + 1
Give(n) == /\ nav' = n
           /\ dropped' = (dropped \/ nav.kind = "search")

Init ==
  /\ \E u \in Entries :
       /\ hist = <<u>> /\ at = 1
       /\ value = Typed(UrlQuery(u)) /\ synced = UrlQuery(u)
       /\ have = Hydrated(u, [k \in {} |-> 0])
       /\ asking = Wants(u, Hydrated(u, [k \in {} |-> 0]), {})
       /\ lastShown = IF u.page \in Categories THEN Key(u) ELSE NoKey
       /\ entryPath = u.page
       /\ views = IF ViewDue(u, Hydrated(u, [k \in {} |-> 0]), {}) THEN 1 ELSE 0
  /\ left = "" /\ nav = NoNav /\ timer = Off /\ dropped = FALSE
  /\ askingMore = {} /\ failed = {}
  /\ navigated = FALSE /\ settle = NoSettle /\ counted = [e \in {} |-> 0] /\ acts = 0

\* Typing; searchEdited calls off a search that was about to be counted.
Type(v) ==
  /\ Act /\ v # value
  /\ Render(url, v, timer, have, asking, askingMore, failed, NoSettle)
  /\ dropped' = (dropped /\ Trim(v) = Trim(value))
  /\ UNCHANGED <<hist, at, left, nav, counted>>

\* On the search page the entry is replaced and its sorting stays.
SearchNav(q) ==
  [kind |-> "search", replace |-> url.page = "search",
   to |-> IF url.page = "search" THEN [url EXCEPT !.q = q] ELSE [Address("search", url.lang) EXCEPT !.q = q]]

Submit ==
  /\ Act /\ Trim(value) # "" /\ Trim(value) # UrlQuery(url)
  /\ nav' = SearchNav(Trim(value)) /\ dropped' = FALSE
  /\ UNCHANGED <<hist, at, left, value, synced, timer, have, asking, askingMore, failed, lastShown,
                 entryPath, navigated, settle, counted, views>>

\* Mutant: an interval in place of a timeout.
DebounceAgain ==
  /\ left = "" /\ timer # Off
  /\ nav' = SearchNav(timer) /\ dropped' = FALSE
  /\ UNCHANGED <<hist, at, left, value, synced, timer, have, asking, askingMore, failed, lastShown,
                 entryPath, navigated, settle, counted, views, acts>>

Debounce ==
  /\ left = "" /\ timer # Off
  /\ timer' = Off
  /\ nav' = SearchNav(timer) /\ dropped' = FALSE
  /\ UNCHANGED <<hist, at, left, value, synced, have, asking, askingMore, failed, lastShown,
                 entryPath, navigated, settle, counted, views, acts>>

Push(u) == [kind |-> "link", replace |-> FALSE, to |-> u]

Follow(page) ==
  /\ Act /\ page # url.page
  /\ Give(Push(Address(page, url.lang)))
  /\ UNCHANGED <<hist, at, left, value, synced, timer, have, asking, askingMore, failed, lastShown,
                 entryPath, navigated, settle, counted, views>>

\* The same page in the other language, with its query.
SwitchLanguage ==
  /\ Act
  /\ Give(Push([url EXCEPT !.lang = IF @ = "ru" THEN "kk" ELSE "ru"]))
  /\ UNCHANGED <<hist, at, left, value, synced, timer, have, asking, askingMore, failed, lastShown,
                 entryPath, navigated, settle, counted, views>>

Commit ==
  /\ left = "" /\ nav.kind # "none"
  /\ nav.replace \/ nav.to = url \/ at < MaxEntries
  /\ nav' = NoNav
  /\ IF nav.replace \/ nav.to = url THEN hist' = [hist EXCEPT ![at] = nav.to] /\ UNCHANGED at
     ELSE hist' = Append(SubSeq(hist, 1, at), nav.to) /\ at' = at + 1
  /\ Land(nav.to)
  /\ UNCHANGED <<left, dropped, counted, acts>>

\* Back and forward are committed at once; before the first entry is the
\* page the reader came from.
Step(n, by) ==
  IF at + n < 1
  THEN /\ left' = by
       /\ UNCHANGED <<hist, at, nav, value, synced, timer, dropped, have, asking, askingMore, failed, lastShown,
                      entryPath, navigated, settle, counted, views>>
  ELSE /\ at + n <= Len(hist)
       /\ at' = at + n
       /\ Give(NoNav)
       /\ Land(hist[at + n])
       /\ UNCHANGED <<hist, left, counted>>

BrowserStep(n) == Act /\ Step(n, "browser")

Above(page) == IF page = "item" THEN ItemCategory ELSE "catalog"

\* BackLink: back after a move within the site, else to the page above.
ClickBack ==
  /\ Act /\ (url.page \in Categories \/ url.page = "item")
  /\ IF navigated THEN Step(-1, "link")
     ELSE /\ Give(Push(Address(Above(url.page), url.lang)))
          /\ UNCHANGED <<hist, at, left, value, synced, timer, have, asking, askingMore, failed, lastShown,
                         entryPath, navigated, settle, counted, views>>

\* replaceQuery: the address changes in place, without a request for a page.
Replace(u) ==
  /\ hist' = [hist EXCEPT ![at] = u]
  /\ Give(NoNav)
  /\ Render(u, value, timer, have, asking, askingMore, failed, settle)
  /\ UNCHANGED <<at, left, counted>>

ChangeSort(s) ==
  /\ Act /\ (url.page \in Categories \/ (url.page = "search" /\ View.cards > 0)) /\ s # ReadSort(url)
  /\ Replace(WithSort(url, s))

\* A chip adds or removes its value; the other values read stay.
Toggle(o) ==
  /\ Act /\ url.page \in Categories
  /\ Replace(WithFilter(url, IF o \in ReadFilters(url) THEN ReadFilters(url) \ {o} ELSE ReadFilters(url) \cup {o}))

ResetFilters ==
  /\ Act /\ url.page \in Categories /\ ReadFilters(url) # {}
  /\ Replace(WithoutFilters(url))

LoadMore ==
  /\ Act /\ View.more /\ Key(url) \in DOMAIN have \ (asking \cup askingMore)
  /\ Render(url, value, timer, have, asking, askingMore \cup {Key(url)}, failed \ {Key(url)}, settle)
  /\ UNCHANGED <<hist, at, left, nav, dropped, counted>>

Retry ==
  /\ Act /\ View.error
  /\ Render(url, value, timer, have, asking \cup {Key(url)}, askingMore, failed \ {Key(url)}, settle)
  /\ UNCHANGED <<hist, at, left, nav, dropped, counted>>

\* getNextOffset: as many as the pages so far; a short page is the last.
NextCount(k) == Min({PageSize, Total(k) - have[k].items})

Answer(k) ==
  /\ left = "" /\ k \in asking \cup askingMore
  /\ Render(url, value, timer,
       IF k \in askingMore
       THEN [have EXCEPT ![k] = [items |-> @.items + NextCount(k), last |-> NextCount(k)]]
       ELSE WithFirstPage(have, k),
       asking \ {k}, askingMore \ {k}, failed, settle)
  /\ UNCHANGED <<hist, at, left, nav, dropped, counted, acts>>

\* After one retry.
Fail(k) ==
  /\ left = "" /\ k \in asking \cup askingMore
  /\ Render(url, value, timer, have, asking \ {k}, askingMore \ {k}, failed \cup {k}, settle)
  /\ UNCHANGED <<hist, at, left, nav, dropped, counted, acts>>

\* Mutant: remounted pages count their search anew.
SentAgain(e, sent) == FALSE
\* The keys of searches are remembered for as long as the document lives.
Sent(e, sent) == e \in DOMAIN sent

Events(s) == {<<"search", Path(url), s.q>>} \cup (IF s.n = 0 THEN {<<"search_no_results", Path(url), s.q>>} ELSE {})

CountSearch ==
  /\ left = "" /\ settle # NoSettle
  /\ settle' = NoSettle
  /\ counted' = [e \in DOMAIN counted \cup Events(settle) |->
       IF e \notin DOMAIN counted THEN 1
       ELSE IF e \in Events(settle) /\ ~Sent(e, counted) THEN counted[e] + 1 ELSE counted[e]]
  /\ UNCHANGED <<hist, at, left, nav, value, synced, timer, dropped, have, asking, askingMore, failed, lastShown,
                 entryPath, navigated, views, acts>>

Next ==
  \/ \E w \in Words : Type(Typed(w))
  \/ \E w \in LongWords : Type([word |-> w, pad |-> TRUE])
  \/ Submit \/ Debounce \/ Commit
  \/ \E page \in Links : Follow(page)
  \/ SwitchLanguage
  \/ \E n \in {-1, 1} : BrowserStep(n)
  \/ ClickBack
  \/ \E s \in Sorts : ChangeSort(s)
  \/ \E o \in Options : Toggle(o)
  \/ ResetFilters \/ LoadMore \/ Retry
  \/ \E k \in asking \cup askingMore : Answer(k) \/ Fail(k)
  \/ CountSearch

\* Timers end and navigations are committed.
Fairness == WF_vars(Debounce) /\ WF_vars(Commit)

ReaderSpec == Init /\ [][Next]_vars /\ Fairness

-----------------------------------------------------------------------------
(* Properties *)

ReaderTypeOK ==
  /\ at \in 1 .. Len(hist) /\ left \in {"", "browser", "link"}
  /\ value \in [word : Words, pad : BOOLEAN] /\ synced \in Words /\ timer \in Words \cup {Off}
  /\ hist \in Seq(Addresses) /\ askingMore \subseteq DOMAIN have
  /\ views \in 0 .. 1 /\ acts \in 0 .. MaxActs

\* What the list shows belongs to the address (queries.ts:63): cards without
\* the mark of an old list answer the query of the address, those with it are
\* of the same category; every query sent has only filters of the schema and
\* a sort the API knows, whatever the address said (filterParams.ts:7); and
\* when there is no more to load, everything that matches is there.
ListIsOfThisAddress ==
  /\ View.cards > 0 => ShownKey.of = Key(url).of /\ (~View.busy => ShownKey = Key(url))
  /\ \A k \in DOMAIN have \cup asking \cup askingMore : k.filters \subseteq Options /\ k.sort \in Sorts
  /\ \A k \in DOMAIN have : have[k].items <= Total(k) /\ (have[k].last < PageSize => have[k].items = Total(k))

\* A text stays in the box unsearched (SearchBox.tsx:49) only when it is too
\* short, or when its search gave way to another navigation: otherwise, with
\* no timer running and nothing under way, the address and the box agree.
SearchIsNotForgotten ==
  timer = Off /\ nav = NoNav /\ ~dropped =>
    \/ Trim(value) = UrlQuery(url)
    \/ Trim(value) \notin LongWords \cup {""}

\* queries.ts:63, SearchBox.tsx:49: what the list and the box show is of the
\* address.
PageIsOfItsAddress == ReaderTypeOK /\ ListIsOfThisAddress /\ SearchIsNotForgotten

\* Events tell what was seen (pilot-analytics.ts:61, :93): a visit of a page
\* counts once however often its list is loaded, a search counts once per
\* language in the life of the document, back and forward included, and only
\* while its own complete results are on the screen, empty ones if it says so.
EventsAreOfTheScreen ==
  /\ views' \in 0 .. 1
  /\ \A e \in DOMAIN counted' : counted'[e] = 1
  /\ \A e \in DOMAIN counted' \ DOMAIN counted :
       /\ Ready /\ ShownKey = Key(url) /\ e[2] = Path(url) /\ e[3] = url.q
       /\ e[1] = "search_no_results" => View.empty
EventsTellWhatWasSeen == [][EventsAreOfTheScreen]_vars

\* The box and the address do not chase each other: when the reader does no
\* more, no search is due and none is under way (SearchBox.tsx:27, :53).
SearchSettles == <>[](left # "" \/ (timer = Off /\ (nav = NoNav \/ at = MaxEntries)))
=============================================================================
