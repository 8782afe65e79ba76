----------------------------- MODULE MCNightly -----------------------------
(* Nights of three small stores.  DINA has categories 101 (three products), *)
(* 102 and 103 (empty) under the root 100; Dana the sections 201 and 202 of *)
(* the root 200; Fix Price one alias with two pages.  Every failure of the  *)
(* list strikes one place of one store while the others answer well.        *)
EXTENDS Nightly, TLC

O(b)      == [kind |-> "ok", body |-> b]
B         == [kind |-> "busy"]
Good(b)   == <<O(b), O(b)>>
Late(b)   == <<B, O(b)>>
Down      == <<B, B>>
Gone      == <<[kind |-> "gone"], B>>
Denied(b) == <<[kind |-> "denied"], O(b)>>

Plain(id) == [id |-> id, raw |-> 500000, old |-> 0, weighed |-> FALSE, kgInName |-> 0, gInName |-> 0,
              cats |-> <<100>> \o (IF id <= 3 THEN <<101>> ELSE <<102>>), step |-> 0]
Weighed(id) == [Plain(id) EXCEPT !.weighed = TRUE, !.raw = 1700]
Free(id)  == [Plain(id) EXCEPT !.raw = 0]

(* DINA *)
DinaPage(c, p) == CASE c = 101 /\ p = 1 -> [total |-> 3, edges |-> <<Plain(1), Weighed(2)>>]
                    [] c = 101 /\ p = 2 -> [total |-> 3, edges |-> <<Plain(3)>>]
                    [] c = 102          -> [total |-> 2, edges |-> <<Plain(4), Free(5)>>]
                    [] c = 100 /\ p = 1 -> [total |-> 3, edges |-> <<Plain(1), Plain(4)>>]
                    [] c = 100 /\ p = 2 -> [total |-> 3, edges |-> <<Weighed(2)>>]
                    [] OTHER            -> [total |-> 0, edges |-> <<>>]
Alias(reqs) == [data |-> TRUE, errors |-> {}, nodes |-> [r \in reqs |-> DinaPage(r[1], r[2])]]
Stored(ids) == [kind |-> "valid", scope |-> Published, categoryIds |-> ids]
NoScope     == [kind |-> "missing"]

Pass1a == Alias({<<101, 1>>, <<102, 1>>})
Pass1b == Alias({<<103, 1>>})
Pass2  == Alias({<<101, 2>>})
DinaGood ==
  [aktau |-> TRUE, stored |-> Stored({101, 102, 103}), odd |-> FALSE, listed |-> {1, 2, 3, 4},
   categories |-> <<100, 900>>, all |-> <<100, 101, 102, 103, 900>>, scopeRoots |-> {100},
   http |-> <<<<Good(Pass1a), Good(Pass1b)>>, <<Good(Pass2)>>>>,
   page |-> [c \in {100, 101, 102, 103, 900} |-> [p \in 1 .. MaxPages |-> Good(DinaPage(c, p))]]]
DinaRoots == [DinaGood EXCEPT !.stored = NoScope]
DinaSites ==
  <<[DinaGood EXCEPT !.http[1][1] = Late(Pass1a)],
   [DinaGood EXCEPT !.http[1][1] = Denied(Pass1a)],
   [DinaGood EXCEPT !.http[2][1] = Down],
   [DinaGood EXCEPT !.http[1][1] = Good([Pass1a EXCEPT !.errors = {<<102, 1>>}])],
   [DinaGood EXCEPT !.http[1][1] = Good([Pass1a EXCEPT !.nodes[<<101, 1>>].total = 0 - 1])],
   DinaRoots,
   [DinaRoots EXCEPT !.page[101][2] = Down]>>

(* Dana *)
Card(id, price) == [Plain(id) EXCEPT !.raw = price]
Section(c, p) == CASE c = 201 /\ p = 1 -> [count |-> 2, cards |-> <<Card(11, 100000), Card(12, 200000)>>]
                   [] c = 201 /\ p = 2 -> [count |-> 1, cards |-> <<Card(13, 300000)>>]
                   [] c = 202 /\ p = 1 -> [count |-> 1, cards |-> <<Card(12, 250000), Card(14, 400000)>>]
                   [] c = 200 /\ p = 1 -> [count |-> 2, cards |-> <<Card(11, 100000), Card(14, 400000)>>]
                   [] c = 200 /\ p = 2 -> [count |-> 1, cards |-> <<Card(12, 200000)>>]
                   [] OTHER            -> [count |-> 1, cards |-> <<>>]
DanaGood ==
  [stored |-> Stored({201, 202}), odd |-> FALSE, listed |-> {11, 12, 13, 14}, menu |-> Good({201, 202, 203}),
   roots |-> <<200>>,
   page |-> [c \in {200, 201, 202} |-> [p \in 1 .. MaxPages |-> Good(Section(c, p))]]]
DanaSites ==
  <<[DanaGood EXCEPT !.page[201][2] = Late(Section(201, 2))],
   [DanaGood EXCEPT !.page[201][2] = Down],
   [DanaGood EXCEPT !.page[201][2] = Gone, !.listed = {11, 12, 14}],
   [DanaGood EXCEPT !.page[202][1] = Good([count |-> 1, cards |-> <<>>])],
   [DanaGood EXCEPT !.menu = Down],
   [DanaGood EXCEPT !.menu = Good({201, 203})],
   [DanaGood EXCEPT !.stored.scope = {"bread"}]>>

(* Fix Price *)
FixPage(p, total) == [array |-> TRUE, total |-> total,
                      list |-> CASE p = 1 -> <<Plain(21), Plain(22)>> [] p = 2 -> <<Plain(23), Plain(21)>>
                                 [] OTHER -> <<>>]
FixGood == [menu |-> <<"food", "toys">>, stored |-> NoScope, odd |-> FALSE, listed |-> {21, 22, 23},
            page |-> [a \in {"food", "toys"} |-> [p \in 1 .. MaxPages |-> Good(FixPage(p, 4))]]]
FixSites ==
  <<[FixGood EXCEPT !.page["food"] = [p \in 1 .. MaxPages |-> Good(FixPage(p, 0))]],
   [FixGood EXCEPT !.page["food"][2] = Down],
   [FixGood EXCEPT !.page["food"][2] = Good([FixPage(2, 4) EXCEPT !.array = FALSE]), !.odd = TRUE],
   [FixGood EXCEPT !.menu = <<"toys">>]>>

NightSites(d, a, f) == ("DINA" :> d) @@ ("DANA" :> a) @@ ("FIX_PRICE" :> f)

MCSites == [i \in DOMAIN DinaSites |-> NightSites(DinaSites[i], DanaGood, FixGood)]
           \o [i \in DOMAIN DanaSites |-> NightSites(DinaGood, DanaSites[i], FixGood)]
           \o [i \in DOMAIN FixSites |-> NightSites(DinaGood, DanaGood, FixSites[i])]

(* The dictionary: two groups over stores, one approved with a weighed      *)
(* member, one pending, and products it does not know.                      *)
Product(id) ==
  [ident |-> id, store |-> IF id < 10 THEN "DINA" ELSE IF id < 20 THEN "DANA" ELSE "FIX_PRICE",
   path |-> IF id \in {3, 13} THEN "snacks" ELSE "dairy", cats |-> {}, fat |-> 0,
   kind |-> IF id = 4 THEN "plant" ELSE "plain", weighed |-> id = 2, brand |-> "", image |-> id # 1,
   category |-> ""]
MCCatalogue == [id \in {1, 2, 3, 4, 5, 11, 12, 13, 14, 21, 22, 23} |-> Product(id)]

DictCard(category, review) == [category |-> category, kind |-> "plain", fat |-> 0, brand |-> "b",
                               method |-> "ai", review |-> review]
MCDict ==
  [ok |-> TRUE,
   canonicals |-> (1 :> DictCard("milk", "approved")) @@ (2 :> DictCard("bread", "approved"))
                  @@ (13 :> DictCard("sweets", "approved")) @@ (14 :> DictCard("milk", "pending")),
   products |-> (1 :> 1) @@ (11 :> 1) @@ (2 :> 2) @@ (12 :> 2) @@ (21 :> 2) @@ (13 :> 13) @@ (14 :> 14) @@ (22 :> 14),
   storeCategories |-> (<<"DINA", "dairy">> :> "milk") @@ (<<"FIX_PRICE", "dairy">> :> "milk")]

MCAliases == <<"food">>

Old(ids, at) == [ok |-> TRUE, mode |-> "batch", scoped |-> TRUE, errorCount |-> 0, captured |-> at,
                    products |-> [i \in DOMAIN ids |-> [id |-> ids[i], price |-> 1, oldPrice |-> 0]]]
MCFirstFiles == ("DINA" :> Old(<<1, 3, 4>>, 0)) @@ ("DANA" :> Old(<<12>>, 0)) @@ ("FIX_PRICE" :> NoFile)
=============================================================================
