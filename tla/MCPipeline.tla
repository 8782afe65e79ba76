----------------------------- MODULE MCPipeline -----------------------------
(* The pipeline: nights of scraping, syncing and publishing (MCNightly), the *)
(* calls of the matching agent over two keys and two batches (Agent), and,   *)
(* in initial states of their own in which nothing is left to do, samples    *)
(* for the functions of Agent, Mapping and Scrape: what a reply makes of a   *)
(* block, overrides over a dictionary, the scope computed from a full        *)
(* scrape.  Agent leaves a dictionary on disk that a night only reads, so a  *)
(* behaviour follows one of the two.                                         *)
EXTENDS MCNightly, Agent

VARIABLE part,    \* what runs: "night", "agent" or "sample"
         sample

MCBatches == <<{"a", "b"}, {"c"}>>
MCKeys == <<"k1", "k2">>

(* Blocks: three products of two stores, the third of another fat.  Replies *)
(* of up to two clusters that repeat no id inside a cluster.                *)
Shop(i) == IF i = 3 THEN "DANA" ELSE "DINA"
Classif(i, fat) ==
  [ident |-> i, id |-> i, store |-> Shop(i), path |-> IF i = 1 THEN "a" ELSE "b", cats |-> {},
   kind |-> "plain", fat |-> 0, weighed |-> i = 2, brand |-> "", image |-> i # 1, category |-> "milk",
   type |-> "t", shape |-> fat, size |-> 0, letter |-> "x"]
Blocks == {<<Classif(1, 1), Classif(2, s), Classif(3, t)>> : s, t \in {1, 2}}
Proposals == {<<>>} \cup {<<x>> : x \in 1 .. 4} \cup {<<x, y>> : x, y \in 1 .. 4}
             \cup {<<2, 1, 3>>, <<3, 1, 2>>, <<1, 2, 3>>}
Clean(ids) == \A i, j \in DOMAIN ids : ids[i] = ids[j] => i = j
Clusters1 == {[ids |-> p, confidence |-> c] : p \in {q \in Proposals : q # <<>> /\ Clean(q)}, c \in {70, 80, 95}}
MatchSamples == {[of |-> "match", block |-> b, reply |-> <<>>] : b \in Blocks}
                \cup {[of |-> "match", block |-> b, reply |-> <<r>>] : b \in Blocks, r \in Clusters1}
                \cup {[of |-> "match", block |-> b, reply |-> <<r, [ids |-> <<1, 3>>, confidence |-> 95]>>] :
                        b \in Blocks, r \in Clusters1}

(* Dictionaries over three identities: every partition, as buildDictionary  *)
(* keys it; overrides of up to two splits and one move and approval.        *)
Slices == {p \in SUBSET SUBSET (1 .. 3) :
             /\ {} \notin p /\ UNION p = 1 .. 3
             /\ \A x, y \in p : x # y => x \cap y = {}}
DictOf(p) ==
  [ok |-> TRUE,
   canonicals |-> [k \in {Min(x) : x \in p} |->
     [category |-> "milk", kind |-> "plain", fat |-> 0, brand |-> "", method |-> "ai", review |-> "pending"]],
   products |-> [id \in 1 .. 3 |-> Min(CHOOSE x \in p : id \in x)],
   storeCategories |-> [x \in {} |-> ""]]
Splits == {[key |-> k, ids |-> s] : k \in 1 .. 3, s \in SUBSET (1 .. 3)}
OverrideSamples ==
  {[of |-> "overrides", dict |-> DictOf(p),
    edits |-> [moveCategory |-> m, split |-> s, approve |-> a]] :
     p \in Slices, m \in {<<>>} \cup {<<[key |-> k, to |-> "bread"]>> : k \in 1 .. 2},
     s \in {<<x>> : x \in Splits} \cup {<<x, y>> : x, y \in {z \in Splits : z.key < 3}},
     a \in {<<>>, <<2>>}}

(* A full scrape of four products over three source categories, the page    *)
(* size being two: every choice of their categories, two of them published, *)
(* and the other two under the root as well or not.                         *)
Goods(cats) == [i \in 1 .. 4 |-> [Classif(i, 1) EXCEPT !.cats = cats[i], !.path = IF i \in {2, 4} THEN "in" ELSE "out"]]
ScopeSamples == {[of |-> "scope", goods |-> Goods(c), root |-> r] :
                   c \in [1 .. 4 -> SUBSET (1 .. 3)], r \in {{"in"}, {"in", "out"}}}

(* Up to five classified products of two types and two first letters of the *)
(* brand, cut into blocks of two.                                           *)
BlockSamples ==
  {[of |-> "blocks", items |-> [i \in 1 .. n |-> [Classif(i, 1) EXCEPT !.type = t[i], !.letter = l[i]]]] :
     n \in 1 .. 5, t \in [1 .. 5 -> {"t", "u"}], l \in [1 .. 5 -> {"x", "y"}]}

(* Fix Price, scraped from the site or saved in a HAR file by a browser that *)
(* met the same pages, among answers of other kinds.                        *)
HarSamples == {[of |-> "har", shop |-> FixSites[n]] : n \in DOMAIN FixSites}

NoSample == [of |-> "none"]

Samples == MatchSamples \cup OverrideSamples \cup ScopeSamples \cup BlockSamples \cup HarSamples

MCInit ==
  /\ NightInit /\ AgentInit
  /\ part \in {"night", "agent", "sample"}
  /\ part # "night" => site = 1
  /\ IF part = "sample" THEN sample \in Samples ELSE sample = NoSample

MCNext ==
  /\ UNCHANGED <<part, sample>>
  /\ \/ part = "night" /\ NightNext /\ UNCHANGED agentVars
     \/ part = "agent" /\ AgentNext /\ UNCHANGED nightVars

\* NightFairness, where nights are followed.
MCFairness ==
  /\ \A s \in NightStores : WF_nightVars(part = "night" /\ Kill(s))
  /\ WF_nightVars(part = "night" /\ Sync)
  /\ WF_nightVars(part = "night" /\ \E good \in BOOLEAN : Publish(good))

MCSpec == MCInit /\ [][MCNext]_<<nightVars, agentVars, part, sample>> /\ MCFairness

-----------------------------------------------------------------------------
Slugs == <<"milk", "bread", "sweets">>
Like == [p \in (1 .. 4) \X (1 .. 4) |-> 0 - (IF p[1] < p[2] THEN p[2] - p[1] ELSE p[1] - p[2])]
Partition(groups) == {{groups[n].members[i].ident : i \in DOMAIN groups[n].members} : n \in DOMAIN groups}

\* What the model proposes (match.ts:36) becomes groups a buyer can trust:
\* every product of the block in exactly one, no store twice in a group, one
\* shape, no unsure merge approved; and the dictionary written from the groups
\* (dictionary.ts:52) makes the next sync publish the very same cards.
ClustersBecomeCards ==
  sample.of = "match" =>
    LET clusters == MatchBlock(sample.block, sample.reply, Like)
        members  == FlattenSeq([n \in DOMAIN clusters |-> clusters[n].members])
        dict     == BuildDictionary(BuildBundle(clusters), Slugs)
    IN  /\ {members[i].id : i \in DOMAIN members} = {sample.block[i].id : i \in DOMAIN sample.block}
        /\ Len(members) = Len(sample.block)
        /\ \A n \in DOMAIN clusters : Len(clusters[n].members) > 1 =>
             /\ \A i, j \in DOMAIN clusters[n].members : i # j =>
                  /\ clusters[n].members[i].store # clusters[n].members[j].store
                  /\ clusters[n].members[i].shape = clusters[n].members[j].shape
             /\ clusters[n].review = "approved" =>
                  \E r \in DOMAIN sample.reply : sample.reply[r].confidence >= 95
        /\ dict.ok /\ ClosedDictionary(dict)
        /\ LET matched == BuildBundle(IsolateForPublish(clusters))
               synced  == BuildSyncBundle(sample.block, dict, {"milk"})
           IN  /\ Partition(synced.bundle) = Partition(matched) /\ synced.unmapped = <<>>
               /\ CompareBundles(matched, synced.bundle).mismatch = 0

\* Nothing is lost on the way to the model (block.ts:10): the blocks hold every
\* product once, none more than the model is asked about, and two products
\* that may be one (block.ts:3) are in one block unless too many share a key.
BlocksLoseNothing ==
  sample.of = "blocks" =>
    LET blocks == BuildBlocks(sample.items, 2)
        asked  == FlattenSeq(blocks)
        alike(x) == {c \in ToSet(sample.items) : BlockKey(c) = BlockKey(x)}
    IN  /\ Len(asked) = Len(sample.items) /\ ToSet(asked) = ToSet(sample.items)
        /\ \A n \in DOMAIN blocks : Len(blocks[n]) \in 1 .. 2
        /\ \A x \in ToSet(asked) : \E n \in DOMAIN blocks :
             x \in ToSet(blocks[n]) /\ ToSet(blocks[n]) \subseteq alike(x)
               /\ (Cardinality(alike(x)) <= 2 => ToSet(blocks[n]) = alike(x))

\* Overrides may be applied again (overrides.ts:20): a second application to
\* the dictionary they made changes nothing; and none loses a product.
OverridesAreRepeatable ==
  sample.of = "overrides" =>
    LET once == ApplyOverrides(sample.dict, sample.edits)
    IN  once.ok =>
          /\ DOMAIN once.products = DOMAIN sample.dict.products
          /\ ClosedDictionary(once)
          /\ \A k \in DOMAIN once.canonicals : MembersOf(once, k) # {}
          /\ ApplyOverrides(once, sample.edits) = once

\* The narrow daily scrape loses nothing of what the full one would publish
\* (dina-scope.ts:10): in batches over the computed categories it finds every
\* published product that has a category.
SourceItem(g) == [id |-> g.id, raw |-> 100000, old |-> 0, weighed |-> FALSE, kgInName |-> 0, gInName |-> 0]
ScopeFindsThePublished ==
  sample.of = "scope" =>
    LET dict    == [canonicals |-> [k \in {} |-> 0], products |-> [k \in {} |-> 0],
                    storeCategories |-> [pl \in {<<s, "in">> : s \in {"DINA", "DANA"}} |-> "milk"]]
        scope   == ComputeScope(sample.goods, dict, Published, sample.root)
        listed(c) == SelectSeq(sample.goods, LAMBDA g : c \in g.cats)
        page(r) == [total |-> Len(listed(r[1])),
                    edges |-> [i \in 1 .. Len(SubSeq(listed(r[1]), (r[2] - 1) * PageSize + 1, Min({r[2] * PageSize, Len(listed(r[1]))}))) |->
                                 SourceItem(listed(r[1])[(r[2] - 1) * PageSize + i])]]
        answer  == [kind |-> "ok", body |-> [data |-> TRUE, errors |-> {},
                      nodes |-> [r \in (1 .. 3) \X (1 .. 2) |-> page(r)]]]
        shop    == [http |-> [pass \in 1 .. 2 |-> [c \in 1 .. 3 |-> [t \in 1 .. Retries + 1 |-> answer]]]]
        ids     == SetToSortSeq(ReadScope([kind |-> "valid", scope |-> scope.scope,
                                           categoryIds |-> scope.categoryIds], Published), <)
        batch1  == ScrapeDinaBatch(shop, ids, 2)
        wanted  == {g \in ToSet(sample.goods) : g.path = "in" /\ g.cats # {}}
    IN  ids # <<>> =>
          /\ batch1.errorCount = 0
          /\ {g.id : g \in wanted} \subseteq {batch1.products[i].id : i \in DOMAIN batch1.products}
          /\ scope.coveredProducts = Cardinality(wanted)
          /\ scope.coveredProducts + scope.unsectionedProducts = scope.scopeProducts

\* The two ways into Fix Price agree (fixprice.ts:49): the answers a browser
\* saved give the products that asking for the same pages gives.
HarIsTheScrape ==
  sample.of = "har" =>
    LET pages  == sample.shop.page["food"]
        direct == ScrapeFixPrice(sample.shop, <<"food">>, TRUE)
        saved(p) == <<[status |-> 500, product |-> TRUE, json |-> TRUE, list |-> <<Plain(99)>>],
                      [status |-> 200, product |-> FALSE, json |-> TRUE, list |-> <<Plain(98)>>],
                      [status |-> IF Fetched(pages[p]) THEN 200 ELSE 500, product |-> TRUE, json |-> TRUE,
                       list |-> IF Fetched(pages[p]) /\ Body(pages[p]).array THEN Body(pages[p]).list ELSE <<>>]>>
        har    == LoadFixPriceFromHar(FlattenSeq([p \in 1 .. FixLastPage(pages) |-> saved(p)]))
    IN  direct.ok => har.products = direct.products

\* Nightly!WrittenScopeIsComplete and PoolIsOrderFree, ScopeFindsThePublished
\* and HarIsTheScrape: what a scoped scrape writes holds everything the site
\* lists in the scope, in whatever order its pages were answered, and the scope
\* everything that is published (scrape-policy.ts:23, dana.ts:188,
\* dina-scope.ts:10).
ScrapesAreComplete ==
  /\ part = "night" => WrittenScopeIsComplete /\ PoolIsOrderFree
  /\ ScopeFindsThePublished /\ HarIsTheScrape

\* Nightly!BundleIsFaithful, ClustersBecomeCards, BlocksLoseNothing and
\* OverridesAreRepeatable:
\* from the reply of the model to the bundle of the sync no product is lost,
\* doubled or merged without approval (sync.ts:24, match.ts:36, overrides.ts:20).
ProductsAreKept == (part = "night" => BundleIsFaithful) /\ ClustersBecomeCards /\ BlocksLoseNothing /\ OverridesAreRepeatable

\* Agent!FallbackOnlyWithoutAnswer, Agent!RequestsArePaced, Agent!KeysRest
\* and Agent!CacheIsStable: no key is asked too soon or while it cools down, an
\* answer once given is not asked for again, and only what was never answered
\* falls back (gemini.ts:51, :60, :71).
AgentIsSteady == []FallbackOnlyWithoutAnswer /\ RequestsArePaced /\ KeysRest /\ CacheIsStable

\* Nightly!NightEnds: every night that is followed ends with an exit code,
\* whatever hangs (daily-sync.sh:50).
EveryNightEnds == (part = "night" /\ exit = "running") ~> exit # "running"
=============================================================================
