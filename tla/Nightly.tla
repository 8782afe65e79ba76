------------------------------ MODULE Nightly ------------------------------
(* The daily job: three scrapers side by side, each under a time limit,     *)
(* then one bundle from the source files and its publication                *)
(* (pipeline/scripts/daily-sync.sh, cli/scrape.ts, cli/sync.ts, pool.ts,    *)
(* source-file.ts).  What the scrapers compute is Scrape, what the bundle   *)
(* holds is Mapping.  A site is what a store answers during one night, with *)
(* the scope file found on disk in "stored"; its field "listed" is the      *)
(* environment's own knowledge of the products inside the scope, "odd" says *)
(* that an answer of 200 held something else than a list, which no scraper  *)
(* counts as an error.                                                      *)
EXTENDS Scrape, Mapping

CONSTANTS Sites,         \* what a night may bring, by name: store -> site
          ScrapeAll,     \* SCRAPE_ALL=1
          BatchEnv, ConcurrencyEnv, \* DINA_BATCH_PAGES, DANA_CONCURRENCY
          Aliases,       \* FIXPRICE_SCOPE_ALIASES
          Catalogue,     \* product id -> what Mapping reads of the product
          Dict,          \* dictionary.json
          MaxAge,        \* SYNC_MAX_SOURCE_AGE_HOURS in hours
          FirstFiles,    \* store -> the file of an earlier night, or NoFile
          MaxNights      \* bound on the nights

NightStores == {"DINA", "DANA", "FIX_PRICE"}
NoFile      == [ok |-> FALSE]

ASSUME FirstFilesAreTables == FirstFiles = [s \in NightStores |-> FirstFiles[s]]

VARIABLES night, site,   \* the night, the name of what it brings
          stage,         \* store -> how far its scraper is
          result,        \* store -> what the scraper holds in memory
          tmp, file,     \* store -> <store>.json.tmp and <store>.json
          pool,          \* the pool of Dana
          bundle, published, exit   \* bundle.json, the snapshot, the exit code

nightVars == <<night, site, stage, result, tmp, file, pool, bundle, published, exit>>

Site(s)  == Sites[site][s]

NoPool   == [phase |-> 0, jobs |-> <<>>, next |-> 1, busy |-> {}, got |-> <<>>, first |-> <<>>]
NoBundle == [night |-> 0, files |-> NoFile]

Scope        == Published
DinaScopeIds == SetToSortSeq(ReadScope(Site("DINA").stored, Scope), <)
DanaSections == SetToSortSeq(ReadScope(Site("DANA").stored, Scope), <)
Concurrency  == ResolveDanaConcurrency(ConcurrencyEnv)
Mode         == DanaMode(ScrapeAll, DanaSections)

NightInit ==
  /\ night = 1
  /\ site \in DOMAIN Sites
  /\ stage = [s \in NightStores |-> "start"]
  /\ result = [s \in NightStores |-> NoFile]
  /\ tmp = [s \in NightStores |-> NoFile]
  /\ file = FirstFiles
  /\ pool = NoPool /\ bundle = NoBundle /\ published = NoBundle /\ exit = "running"

Scraper(s) == IF s = "DINA" THEN ScrapeDina(Site(s), DinaScopeIds, ScrapeAll, ResolveDinaBatchPages(BatchEnv))
              ELSE IF ScrapeAll THEN ScrapeFixPrice(Site(s), Site(s).menu, FALSE)
              ELSE ScrapeFixPrice(Site(s), Aliases, TRUE)

Outcome(s, r) ==
  /\ result' = [result EXCEPT ![s] = r]
  /\ stage' = [stage EXCEPT ![s] = IF r.ok THEN "scraped" ELSE "failed"]

\* DINA and Fix Price read their site page after page.
RunScraper(s) ==
  /\ stage[s] = "start" /\ s # "DANA"
  /\ Outcome(s, Scraper(s))
  /\ UNCHANGED <<night, site, tmp, file, pool, bundle, published, exit>>

(* Dana: mapPool over the first pages, then over all further ones.  Every   *)
(* worker takes the next index as soon as it has its answer.                *)
DanaTargetList == DanaTargets(Site("DANA"), Mode, DanaSections)

Workers(jobs) == Min({Concurrency, Len(jobs)})
Filled(phase, jobs, first) ==
  [phase |-> phase, jobs |-> jobs, next |-> Workers(jobs) + 1, busy |-> 1 .. Workers(jobs),
   got |-> [i \in DOMAIN jobs |-> [kind |-> "none"]], first |-> first]

DanaStart ==
  /\ stage["DANA"] = "start"
  /\ pool' = Filled(1, [t \in DOMAIN DanaTargetList |-> [target |-> t, page |-> 1]], <<>>)
  /\ stage' = [stage EXCEPT !["DANA"] = "walk"]
  /\ UNCHANGED <<night, site, result, tmp, file, bundle, published, exit>>

\* One of the pages under way is answered: the result goes to its own place.
PoolAnswer(i) ==
  /\ stage["DANA"] = "walk" /\ i \in pool.busy
  /\ pool' = [pool EXCEPT
       !.got[i] = DanaFetchPage(Site("DANA"), DanaTargetList[pool.jobs[i].target], pool.jobs[i].page),
       !.busy = (@ \ {i}) \cup ({pool.next} \cap DOMAIN pool.jobs),
       !.next = Min({@ + 1, Len(pool.jobs) + 1})]
  /\ UNCHANGED <<night, site, stage, result, tmp, file, bundle, published, exit>>

\* The first phase is over: queue the further pages; the second: merge.
DanaPhaseEnd ==
  /\ stage["DANA"] = "walk" /\ pool.busy = {}
  /\ IF pool.phase = 1
     THEN /\ pool' = Filled(2, DanaJobs(pool.got), pool.got)
          /\ UNCHANGED <<result, stage>>
     ELSE /\ Outcome("DANA", DanaMerge(Mode, DanaTargetList,
                DanaMenuErrors(Site("DANA"), Mode, DanaSections), pool.first, pool.jobs, pool.got))
          /\ pool' = NoPool
  /\ UNCHANGED <<night, site, tmp, file, bundle, published, exit>>

\* A file: what was scraped and the night it was captured (source-file.ts).
Stamped(r) == [f \in DOMAIN r \cup {"captured"} |-> IF f = "captured" THEN night ELSE r[f]]

\* assertCompleteScrape and validate(); the new file is written aside ...
WriteTmp(s) ==
  /\ stage[s] = "scraped"
  /\ IF CompleteEnough(s, result[s], ScrapeAll) /\ ValidFile(result[s])
     THEN /\ tmp' = [tmp EXCEPT ![s] = Stamped(result[s])]
          /\ stage' = [stage EXCEPT ![s] = "tmp"]
     ELSE /\ stage' = [stage EXCEPT ![s] = "failed"]
          /\ UNCHANGED tmp
  /\ result' = [result EXCEPT ![s] = NoFile]
  /\ UNCHANGED <<night, site, file, pool, bundle, published, exit>>

\* ... and renamed over the previous one.
RenameTmp(s) ==
  /\ stage[s] = "tmp"
  /\ file' = [file EXCEPT ![s] = tmp[s]]
  /\ tmp' = [tmp EXCEPT ![s] = NoFile]
  /\ stage' = [stage EXCEPT ![s] = "written"]
  /\ UNCHANGED <<night, site, result, pool, bundle, published, exit>>

ScraperExit(s) ==
  /\ stage[s] = "written"
  /\ stage' = [stage EXCEPT ![s] = "ok"]
  /\ UNCHANGED <<night, site, result, tmp, file, pool, bundle, published, exit>>

\* Mutant: a scraper that waits for a page is not ended.
KillNotWaiting(s) ==
  /\ stage[s] \in {"start", "scraped", "tmp", "written"}
  /\ stage' = [stage EXCEPT ![s] = "failed"]
  /\ result' = [result EXCEPT ![s] = NoFile]
  /\ UNCHANGED <<night, site, tmp, file, pool, bundle, published, exit>>

\* timeout(1) ends a scraper anywhere; its exit code makes it a failed one.
Kill(s) ==
  /\ stage[s] \in {"start", "walk", "scraped", "tmp", "written"}
  /\ stage' = [stage EXCEPT ![s] = "failed"]
  /\ pool' = IF s = "DANA" THEN NoPool ELSE pool
  /\ result' = [result EXCEPT ![s] = NoFile]
  /\ UNCHANGED <<night, site, tmp, file, bundle, published, exit>>

-----------------------------------------------------------------------------
FailedScrapers     == {s \in NightStores : stage[s] = "failed"}
ScrapersEnd == \A s \in NightStores : stage[s] \in {"ok", "failed"}

\* Mutant: the age of a file is not looked at.
FreshEnough(s) == file[s].ok

\* assertFresh over the files read back.
Fresh(s)    == file[s].ok /\ (night - file[s].captured) * 24 <= MaxAge
AllProducts == FlattenSeq([i \in 1 .. 3 |->
                 LET f == file[<<"DINA", "DANA", "FIX_PRICE">>[i]]
                 IN  [n \in DOMAIN f.products |-> Catalogue[f.products[n].id]]])

\* bundle.json is named in the state by the files it is built from; this is
\* what it holds while they are on disk.
BundleGroups == BuildSyncBundle(AllProducts, Dict, Scope).bundle

\* All scrapers failed: nothing is published.  Else a bundle from the files,
\* new or of an earlier night, unless one is missing or too old.
Sync ==
  /\ exit = "running" /\ ScrapersEnd /\ bundle.night < night
  /\ IF FailedScrapers = NightStores \/ \E s \in NightStores : ~Fresh(s)
     THEN exit' = "1" /\ UNCHANGED bundle
     ELSE /\ bundle' = [night |-> night, files |-> [s \in NightStores |-> file[s].captured]]
          /\ UNCHANGED exit
  /\ UNCHANGED <<night, site, stage, result, tmp, file, pool, published>>

\* c2-ingest-launch.py: the bundle becomes the snapshot, or an error.
Publish(good) ==
  /\ exit = "running" /\ bundle.night = night
  /\ published' = IF good THEN bundle ELSE published
  /\ exit' = IF ~good THEN "1" ELSE IF FailedScrapers = {} THEN "0" ELSE "3"
  /\ UNCHANGED <<night, site, stage, result, tmp, file, pool, bundle>>

\* The next timer.  What a killed scraper left aside and the bundle of the
\* night before are overwritten before anything reads them.
NextNight ==
  /\ exit # "running" /\ night < MaxNights
  /\ night' = night + 1
  /\ site' \in DOMAIN Sites
  /\ stage' = [s \in NightStores |-> "start"]
  /\ result' = [s \in NightStores |-> NoFile]
  /\ tmp' = [s \in NightStores |-> NoFile]
  /\ bundle' = NoBundle /\ exit' = "running"
  /\ UNCHANGED <<file, pool, published>>

ScraperStep(s) ==
  \/ RunScraper(s) \/ WriteTmp(s) \/ RenameTmp(s) \/ ScraperExit(s) \/ Kill(s)

DanaStep == DanaStart \/ DanaPhaseEnd \/ \E i \in pool.busy : PoolAnswer(i)

NightStep == \/ \E s \in NightStores : ScraperStep(s)
             \/ DanaStep
             \/ Sync
             \/ \E good \in BOOLEAN : Publish(good)

NightNext == NightStep \/ NextNight

\* timeout(1) ends every scraper that does not end itself; the shell goes on.
NightFairness == /\ \A s \in NightStores : WF_nightVars(Kill(s))
                 /\ WF_nightVars(Sync)
                 /\ WF_nightVars(\E good \in BOOLEAN : Publish(good))

NightSpec == NightInit /\ [][NightNext]_nightVars /\ NightFairness

-----------------------------------------------------------------------------
(* Properties *)

Ids(f) == {f.products[i].id : i \in DOMAIN f.products}

\* A scoped scrape that reaches its file (scrape-policy.ts:23, "refusing to
\* write") has every product the site lists in the scope, whatever page,
\* alias, request or section failed on the way, at whatever moment the scraper
\* was killed, and in whatever order the pool was answered.
WrittenScopeIsComplete ==
  \A s \in NightStores :
    /\ stage[s] \in {"written", "ok"} => file[s].captured = night
    /\ file[s].ok /\ file[s].captured = night =>
         /\ ValidFile(file[s])
         /\ IsFragileScrape(s, file[s]) /\ ~Site(s).odd => Site(s).listed \subseteq Ids(file[s])

\* What Dana's pool gathers does not depend on the order of the answers
\* (dana.ts:188): it is the merge of the answers to its pages taken one by
\* one; and never more pages are under way than the limit.
PoolIsOrderFree ==
  /\ Cardinality(pool.busy) <= Concurrency
  /\ stage["DANA"] = "scraped" =>
       LET first == [t \in DOMAIN DanaTargetList |-> DanaFetchPage(Site("DANA"), DanaTargetList[t], 1)]
           jobs  == DanaJobs(first)
       IN  result["DANA"] =
             DanaMerge(Mode, DanaTargetList, DanaMenuErrors(Site("DANA"), Mode, DanaSections), first, jobs,
               [k \in DOMAIN jobs |->
                  DanaFetchPage(Site("DANA"), DanaTargetList[jobs[k].target], jobs[k].page)])

\* The exit code of daily-sync.sh tells what is published: 0 a snapshot of
\* three files of this night, 3 a snapshot of this night; a published snapshot
\* never used a file beyond the limit of age, and never holds a store out.
ExitTellsTheSnapshot ==
  /\ exit \in {"0", "3"} => published.night = night
  /\ exit = "0" => \A s \in NightStores : published.files[s] = night
  /\ published.night # 0 =>
       /\ DOMAIN published.files = NightStores
       /\ \A s \in NightStores : (published.night - published.files[s]) * 24 <= MaxAge

\* A bundle (sync.ts:24) holds every product of the files that belongs to a
\* published category exactly once, none of another category, no pending match
\* of several products, no weighed product beside one sold by the piece.
BundleIsFaithful ==
  bundle.night = night =>
    LET groups  == BundleGroups
        members == FlattenSeq([n \in DOMAIN groups |-> groups[n].members])
        wanted  == SelectSeq(AllProducts, LAMBDA p : ResolveCategory(Dict, p) \in Scope)
    IN  /\ Len(members) = Len(wanted)
        /\ {members[i].ident : i \in DOMAIN members} = {wanted[i].ident : i \in DOMAIN wanted}
        /\ \A n \in DOMAIN groups : Len(groups[n].members) > 1 =>
             /\ groups[n].review = "approved"
             /\ \A i, j \in DOMAIN groups[n].members :
                  IsVariableWeight(groups[n].members[i]) = IsVariableWeight(groups[n].members[j])

\* Every night ends with an exit code, whatever hangs.
NightEnds == (exit = "running") ~> (exit # "running")
=============================================================================
