# AdilBaga: a TLA+ development

AdilBaga ("Aktau Market") compares grocery prices of three store chains.
Scrapers produce a prepared bundle, a one-shot Go process turns the bundle into
a new *snapshot* of the catalogue in PostgreSQL and tells the Next.js frontend
to drop its cache, and a read-only Go API serves the latest published snapshot.
Around this core stand a diagnostic subsystem ("C2") that observes real
publications, and the machinery that deploys releases.

The modules in this directory model the parts of that system whose correctness
depends on the order of events, on failures, or on arithmetic at a boundary.
Paths below are relative to the root of the repository.

Contents: 1 the system, 2 the modules, 3 the runs, 4 fairness, 5 the proofs,
6 where documents and code disagree, 7 what is not modelled, 8 the plan.

## 1. The system

### 1.1 How a price reaches a page

    store sites --scrape--> source files --pnpm sync--> bundle.json
      --c2-ingest-launch.py--> cmd/ingest (dry run) --> cmd/ingest -apply
      --lock, baseline, stage, validate, publish--> PostgreSQL
      --signed POST /internal/revalidate--> Next.js cache
    browser --> Next.js --> Go API --repeatable-read transaction--> PostgreSQL

Beside it, when an attempt is armed, C2 watches one such publication:

    aktau-c2-custodian.service (root, auto-custodian.py)
      --spawns--> c2-operator-entry.mjs --> production supervisor, READY helper
      <--READY request-- cmd/ingest        (Unix socket, one accepted connection)
      <--event-- cmd/ingest                (FIFO, one nonblocking write)
      --pages--> Next.js, --AFTER--> c2projection (one read-only transaction)

And code reaches the host on two roads that begin at CI of `main`:

    API:       auto-gate --> auto-build --> image --auto-transport--> auto_broker.py
    publisher: sync-promotion (gate, build) --> archive --(promote)--> publisher checkout

Before the Go API there was a NestJS one with an importer and a voice dialogue
of its own (`backend/`); it is kept as the reference of the contract.

### 1.2 Components

| Component | State it keeps | Operations | Hard behaviour | Module |
|---|---|---|---|---|
| Ingestion: `backend-go/cmd/ingest`, `internal/ingestion/ingestor.go` | session advisory lock; `snapshots.status`, `publishedAt`; staged rows | lock, baseline, stage, validate, publish, fail, unlock, notify | lost answers, kills, deadlines, overlapping runs, clocks | Ingest, SnapshotStore |
| Resolution: `internal/ingestion/plan.go` | canonical ids in the published snapshot | `resolve` in strict and recluster mode | merges and splits over a history of runs, random map order | Resolve |
| Deploy broker: `scripts/deploy/auto_broker.py` | `<sha>.json` journal, `<sha>.previous.env`, authorization marker, `flock`, release file, container, tunnel | submit, rollout, rollback | half-done steps, signals between any two of them, kills of either process | Deploy |
| Voice dialogue: `internal/voice`, `internal/redis/session.go` | Redis session with a TTL | start, continue | overlapping requests, publications in between, late Redis commands | VoiceSession |
| Rate limiter: `internal/middleware/ratelimit.go` | bounded map of token buckets | allow, lazy sweep | readings of the clock applied out of order, capacity | RateLimiter |
| C2 custody: `ops/c2/auto-custodian.py`, `scripts/revalidation/c2-operator-entry.mjs`, the ledger of `c2-production-supervisor.mjs` | `current.json`, `attempts.json`, `operator.lock`, pending files, READY, deployment record, archives | start, recover, arm, attest, observe, finalize, abort | crashes between any two writes, also during recovery | Custody |
| C2 observation: `c2-ingest-launch.py`, `internal/revalidation`, `fifo-adapter.mjs`, the verdict of the supervisor | `publisher.claim`, tickets, socket, FIFO | admit, claim, request, bind, relay, capture, AFTER | publications between any two steps, authority that vanishes, lost commits | Observation |
| Site cache: `app/internal/revalidate/route.ts`, `api/httpAdapter.ts`, `products/[id]/page.tsx`, `app/sitemap.ts` | entries of the data cache, kept pages | render, serve, refresh, notify | lost or refused notifications, answers and renders under way | PageCache |
| Site tab: `views`, `components`, `lib` of `frontend/src` | history, search box, debounce timer, answers kept, counted events | type, navigate, back, filter, sort, load more, count | timers, navigations and answers in any order | Reader, Storefront |
| Pipeline: `pipeline/src` | `<store>.json`, `scope.json`, `dictionary.json`, cache of the model's replies | scrape, classify, match, override, bundle | pages that fail, pooled answers, keys that rest, repeated commands | Scrape, Mapping, Agent |
| Daily job: `pipeline/scripts/daily-sync.sh`, `cli/*.ts` | source files of several nights, exit code | three scrapers in parallel, sync, publish | a store that fails, hangs or is killed while writing | Nightly |
| Reference importer: `backend/src/modules`, `backend/scripts` | groups of products | normalize, match, refine, audit | the order of the input | Matching |
| Reference API: `backend/prisma/seed.ts`, `backend/src/database`, `catalog`, `dashboard`, `voice` | the catalogue's tables, sessions in memory | seed, read, converse | a seed killed between statements under readers | ReferenceCatalog, ReferenceVoice |
| Monitor: `scripts/ops/monitor-*.mjs`, `telegram-notifier.mjs`, `verify-go-production.mjs` | `state.json` with a pending event, `.pending-` file, `monitor.lock` | check, save, deliver | death between save and send, clock, overlapping runs | Monitor |
| Release of the API: `deploy-production.yml`, `auto-gate.mjs`, `auto-build.mjs`, `auto-transport.mjs` | artifacts, active release, journals | dispatch, verify, submit, poll | reruns of CI and pushes between any two reads | Release, Hub |
| Release of the publisher: `sync-promotion.mjs`, `build-sync-promotion.py` | runs that wait, builds, release on the host | gate, build, promote | superseded runs, two concurrent runs | Promotion, Hub |
| API reads: `internal/postgres`, `internal/httpapi`, `cmd/api` | pool of 4 connections | one repeatable-read, read-only transaction per request | | none, see 7 |
| Speech parser: `internal/gemini/client.go` | none | failover over keys under one deadline | a key that hangs or is refused | none, see 7 |
| Middleware: voice gate, proxy, headers | counting channel | acquire, release | | none, see 7 |
| Promoter on the host: `ops/c2/publisher-promotion.py` | interlock journal, backups, receipts | promote, roll back, recover; the gate before each service | failures and kills between single files, also during a rollback | Promoter |
| Executor pair: `ops/c2/root-executor-pair-upgrade.py`, `install-root-executor-helper.py` | journal, staged and backed-up files | apply, recover, rollback | a death between making a file, the rename and the journal | PairUpgrade |
| Installers of C2, backup, descriptors, tunnel, CI, contracts, data | | | | none, see 7 |

### 1.3 What makes each component correct

* **Ingestion.** The published snapshots form one history: each was resolved
  against the one it replaced, nothing is ever withdrawn, readers that sort by
  `publishedAt` see that history, a run reports and notifies the truth, and no
  run blocks a later one.
* **Resolution.** A card is what the matcher's groups say, in both modes; in
  strict mode a product never changes its card; publishing the same catalogue
  again changes nothing.
* **Deploy.** One release transaction at a time; nothing unchecked is public;
  the reported status is true of the host; one approval permits one load; a
  killed worker leaves enough on disk to go back.
* **Voice.** What is asked of the catalogue was on offer; the last answer wins;
  nothing is used that the user did not say about that category.
* **Limiter.** No client gets more than its burst and the refill, whatever is
  forgotten; only recent clients occupy the map.
* **Custody.** A journal that says completed leaves nothing armed; verdicts are
  neither lost nor added; a verdict counts only under live custody; only what
  cannot be proved is refused; a start ends, because the daily sync waits for it.
* **Observation.** The event is about the publication that replaced the observed
  baseline; the verdict is about that event; C2 never makes a launch publish
  twice and never keeps it from ending.
* **Site cache.** After a notification that found nothing under way no page shows
  older data; without one the site catches up by itself; the sitemap is complete.
* **Tab.** The list belongs to the address; a search that was typed is made;
  events count what was seen, once; every view tells the same lowest price.
* **Pipeline and daily job.** A file that is written is complete within its
  scope; the order of pooled answers does not matter; from the reply of the
  model to the bundle no product is lost, doubled or merged without approval;
  the exit code tells what was published; a night ends.
* **Agent.** A product falls back only if no answer named it; keys are paced; a
  cached answer never changes.
* **Reference importer and API.** Readers see a whole catalogue or none, whatever
  kills the seed, and the next seed repairs it; products in one group are
  comparable; a filter that is offered finds something; a dialogue asks for what
  was said.
* **Monitor.** An incident is told before its recovery, by Telegram at most once,
  by HTTPS at most three times and never closer than the cooldown.
* **Releases.** What is submitted or promoted was built for that commit by an
  attempt of CI that succeeded; it fits the release it really replaces; a
  relevant head of `main` is passed over only for a reason that section 6 names.
* **Promoter and pair.** No service runs a checkout beside files of another
  version; whatever was cut off can be undone from what is on the disk; the
  operator is told what the host has.

## 2. The modules

Every definition that models code has its lines in `PROJECT.json` under `map`.
Operators commented "Faulty variant" or "Mutant" are not part of a model: each
is a plausible bug in the definition it is named after, and replacing that
definition by it makes the property listed beside it in `mutants` false.

### 2.1 SnapshotStore, Ingest, IngestProofs

`SnapshotStore` is the promise to every reader: a history to which publications
append. `Ingest` is the code. A run has two ends. The client end is the process
(`pc` names the next statement; `conn`, `previous`, `outcome`, `notified`); the
server end is its PostgreSQL session (`backend`, `tx`, `writes`, `stamp`,
`orphan`); the committed rows and the advisory lock belong to the server. The
actions are the statements of `ingestor.go`: `TryLock`, `ReadBaseline`, the
staging transaction, `ToValidating`, the publication with its check of the
baseline and `PublicationTime` (the later of the clock and the previous time
plus one), `FailInServer`, `Unlock`, then `PublishThenNotify`.

Any statement may fail (`Rejected`), be abandoned because its context ended
(`ContextDone`, the server may still execute it later: `RunOrphan`), lose its
connection (`Lost`), and the process may be killed anywhere (`Kill`); the server
notices a closed connection at some later time (`EndSession`). Rows other than
the snapshot row are abstracted to "staged"; the bundle's contents are the
subject of `Resolve`.

### 2.2 Resolve, ResolveProofs

One step is one `cmd/ingest -apply` whose bundle has the given groups. The
state is what the next run reads back: the cards of every raw product, all ids
ever issued, the groups of the last snapshot. Votes, eligibility, the choice of
the best claim, the refusals of strict mode and of `store_counts`, and the new
ids are the functions of `plan.go`. `Legacy` holds mappings of snapshots from
before this program, where one raw product may have two cards.

### 2.3 Deploy, HostProofs, MCHost

`parent` is the broker process of a submission, `worker` the detached child. The
worker's program counter follows `rollout()` and `Host.rollback()`; `After`
gives the order of the steps, `Raise` where an exception at a step leads. A step
may fail before or after its effect; SIGTERM and the 1800 s alarm (`Signal`, at
most `MaxSignals` per worker) raise at any step, handlers included;
`ParentKilled` and `WorkerKilled` end a process. The `flock` is held by parent
and worker together, and the RUNNING journal keeps later submissions out after
the lock is gone. `status` and `result`, which only read, are left out.

### 2.4 VoiceSession, ApiProofs, MCApi

Each request is a process: `Get` of the session, `ListVoiceVocabulary`,
`Understand` (parse, restate, merge, validate), then `Result` and `Execute`. A
Redis command whose caller has given up may still be executed (`Fail`, `Lose`
and `Execute` in any order). `Publish` replaces the catalogue between any two
reads and `Expire` drops a session. What a parser hears is any set of filters;
the wording of questions is left out. A filter of `Booleans` is offered without
options as soon as a product on offer has a value of it, and `ValidFilter` then
takes either boolean. `seen` and `said` are history.

### 2.5 RateLimiter, ApiProofs

Token content is counted in ticks of refill, so that `rps` and `burst` are the
integers `Cost` and `Burst`. `Allow` is `allow()`: lazy sweep, capacity check,
bucket. The moment it works with was read up to `MaxSkew` ago, because
`time.Now()` is evaluated before the mutex is taken; `Refilled` models how
`golang.org/x/time/rate` treats a clock that went back.

### 2.6 Custody, HostProofs

One start of the service is one run of `auto-custodian.py`; `pc` follows
`preflight_namespace`, the recovery (`recover_prior_boot`, `recover_unarmed_start`,
`abandon_after_boot`), the cycle (spawn, journal, frames, READY, attestations,
`finish`) and `abort`. `child` is the operator entry with the durable ledger of
the supervisor. `frames` and `cmd` are the two pipes. Everything on disk is a
variable of its own, so that a `Crash` keeps exactly what had been written;
`KillMode=control-group` is why it takes the child along. The directory of an
attempt is made in four steps (mkdir, fchown, mkfifo, chown: `Stages`), and
`finish` takes only a FIFO it knows away. Hashes, owners, modes
and cgroup evidence either hold or make the check raise, which is `Stop`.

### 2.7 Observation, ObservationProofs

Composes four programs around one attempt: the launcher of the dry-run/apply
pair, the C2 side of `cmd/ingest`, the helper that accepts one READY connection,
and the supervisor. A snapshot is its position in the history that `Ingest`
guarantees; here a run holds the lock from its baseline to its end and a commit
may be lost. Further launches without C2 publish in between. The revision the
pages show is any one between the baseline and the newest.

### 2.8 PageCache, Reader, ReaderProofs, Storefront, MCWeb

`PageCache` has one datum per page: the product page, which Next keeps for an
hour, and a category's list, which is rendered for every request. A request to
the API, the storing of its answer, the take of an entry by a render and the end
of a render are steps of their own, so a publication or a notification falls
between any two of them. What Next does with entries past their time, expired
tags and kept pages is external and modelled from how the code uses it.
`POST(r)` is `route.ts` for every kind of request; `Status(r)` its answers.

`Reader` is one tab. The address with its history, the navigation under way, the
search box (`value`, `synced`, `timer`), the answers react-query keeps (`have`,
`asking`, `failed`) and the analytics (`settle`, `counted`, `views`) change in
`Render`, which stands for a render and the effects that follow it. Navigations
commit, timers end and answers arrive in any order; `left` is a tab whose
reader went back past the first entry. The filters are those with options: of a
boolean one the code reads the first value only (`filterParams.ts:12-13`).

`Storefront` is what cards, product pages, structured data, baskets and the map
tell of one product or one list of baskets, and the deals of the front page,
which load in batches.

### 2.9 Scrape, Mapping, Nightly, JobsProofs, Agent, ResolveProofs, MCNightly, MCPipeline

`Scrape` gives for a site (what every request would answer) what each scraper
returns or why it refuses; its loops are sequential in the code and functions
here. Only Dana's pool is concurrent: `Nightly` has `PoolAnswer`, by which a
worker takes the next page when it has one answered. `Mapping` is the dictionary, the refinement of categories,
overrides, the bundle and the scope of the narrow scrape. `Nightly` runs the
three scrapers of `daily-sync.sh` side by side, writes `<store>.json.tmp` and
renames it, may kill a scraper at its limit, checks the age of the files, builds
the bundle with `Mapping` and publishes; files outlive the night.

`Agent` is the calls of `classify.ts` over `gemini.ts`: throttle, keys that rest,
retries with backoff, the cache on disk, the second prompt for what a reply left
out, the fallback; and the blocks and guards of `match.ts` as functions.

### 2.10 Matching, ReferenceCatalog, ReferenceVoice, MCReference

`Matching` translates the rules of `normalizer.service.ts` (types, categories,
flavours, sizes as the first number before a unit), the comparison and grouping
of `matcher.service.ts`, the categories of the scrapers of `backend/` and the
audit of `audit_suite.ts`. A name is the set of stems the rules look for, with
the numbers its regular expressions would find; where one rule looks for a word
and another for its letters anywhere ("tan", "cheese"), these are two stems. The
samples of names come from all six shelves Dana is read from. `ReferenceCatalog` is `seed.ts`,
one action per statement, with `KillSeed` between any two, and the reads of the API
over what is there at one moment. `ReferenceVoice` is the dialogue: each read of
the catalogue is a step, so a seed runs between any two of them; of a boolean
filter it takes either boolean, as `validFilter` does.

### 2.11 Monitor, JobsProofs

A run of `monitor-go-production.mjs` opens the store (lock, leftover, validity,
clock), checks or delivers, saves and closes. `save()` is two steps, the writing
of the temporary file and the rename, and a run may die at each. `Clock` moves
the wall clock anywhere, `Reconcile` is the operator who clears a lock. `told` is
history: what reached a receiver, in order.

### 2.12 Hub, Release, Promotion, RoadProofs, MCOps

`Hub` is what GitHub answers: the head of `main`, the CI runs and their attempts.
`Release` walks through the steps of one workflow run (`Steps` lists them per
mode): each read of GitHub or of the broker is a step, and pushes, reruns and
the broker's rollout happen between them. The broker is the one of `Deploy`,
seen from outside: accepted, skipped, rolled back, blocked, killed. A commit is
the tree it leaves (`Trees`), and what a tool takes for changed is the difference
of two trees (`Differs`), as `git diff` finds it: a change that was taken back is none.
`Promotion` adds the concurrency group of the second workflow: one run at work,
one that waits, later ones replace the one that waits, those of failed CI
included (`CIEnds`). Any run may fail at any of its steps (`RunFails`: GitHub's
API, the host's status, git, the build, the upload, the runner), and nothing
starts it again. The last look at `main` (`Admit`) and the switch of the host
(`Promote`) are two steps, between which `main` may move.

### 2.13 Promoter, PairUpgrade, PublisherHost, RoadProofs, MCPublishing

`Promoter` follows one package through `promote()`: the journal (`interlock`)
before the directory, the backups, the checkout, one file after the other, the
receipt, `last.json`, the removal of the journal. One `pc` per write; `op.j` is
the journal the process holds, `interlock` the one on the disk. A failure in the
`try` continues at `rollback()`, a kill does not; either may leave a write half
done (`HalfDone`). `StartRecovery` and `StartRollback` are `--rollback-interrupted`
and `--rollback-last`. A version is a number, a file its version; the identities,
hashes and modes that the code compares on the way are the conjuncts of
`Closed`, `Admitted` and `Prepare`. The services appear as the holder of the
shared lock behind the gate; they are what lets the ledger grow.

`PairUpgrade` is the replacement of the promoter and of the policy that pins it.
`Plan` lists `run()` and, from `RollbackLine` on, `rollback()`: what a line does
to the disk, the phase it then journals, and whether the inventory is taken after
it. `line` and `point` are the place of the process. Every file is made
and then registered in the journal, whose own replacement is two writes, three
for the first one, which is linked. `rollback()` leaves out the lines that are not
`Called` for. After a death nothing but the disk counts: `Classified` and
`Inventoried` are the code's `classify()` and `inventory()`. A promotion in
between (`PromotionRuns`) is possible only while the pair matches.

`PublisherHost` is the host both tools work on. The code keeps them apart by locks;
`HostSpec` lets their steps mix, because what it promises does not need the locks.
`MCPublishing` follows one tool in each behaviour.

### 2.14 How they fit together

`Ingest` implements `SnapshotStore` (proved, section 5). What `Observation`
assumes of the store (snapshots are appended by the holder of the lock, a
failing run may have published) is what `Ingest` establishes; what `Resolve`
assumes (a run replaces the whole baseline atomically or changes nothing) is
`SnapshotStore` again. `Custody` takes from `Observation` that an attempt ends
with a result; `Observation` takes from `Custody` that READY and its removal are
actions of root that may happen at any time. `PageCache` takes from
`SnapshotStore` that the API answers from one snapshot whose number only grows;
`Nightly` ends where `Ingest` begins; `Release` ends where `Deploy` begins, and
its `Rollout` leaves out what `Deploy` shows to be invisible from outside;
`Promotion` ends where `Promoter` begins, in the same way.

Within a run, parts that share no state are not interleaved: `MCHost`, `MCApi`,
`MCPublishing`, `MCPipeline`, `MCWeb` and `MCOps` choose in the initial state
which part a behaviour follows, the other parts standing still, because a
product of independent parts has no behaviour worth checking that its parts have
not. Functions (of names, groups, offers, replies, overrides) are checked in
initial states of their own: the variable `sample` ranges over the bounded
inputs, and nothing else moves there.

## 3. The runs

| Run | Bounds | Distinct states | Checks |
|---|---|---|---|
| `ingest_safety` | 2 runs with `-apply`, 1 dry run, clock readings {1, 2} | 1,908,046 | fence, order by time, true reports, refinement of SnapshotStore |
| `publishing` | 4 raw products of 3 stores, 4 cards, 17 bundles; 2 runs with `-apply`; 3 packages of 3 files, 3 faults; 3 deaths of the upgrade | 201,246 | identity of cards over a history of runs; every run ends and leaves no lock; the publisher's host is old or new |
| `host` | 2 submissions of 2 releases, 2 signals each; 3 starts of the custodian, 3 faults | 468,460 | one transaction, true results, nothing unchecked public, the way back; counted and clean verdicts, custody; termination of both |
| `api` | 1 dialogue, 2 continuations, 3 catalogues, 1 publication; 3 clients with room for 2, 7 ticks | 1,440,343 | on offer, what was said; rate bound, recent clients |
| `observation` | 3 launches | 526,830 | event, verdict, one publication, termination |
| `pipeline` | 2 nights, 3 stores, 18 nights to choose from; 2 batches, 2 keys, 2 commands; samples | 482,382 | complete files, pool, exit code, nothing lost up to the bundle, steady agent, termination |
| `reference` | 3 datasets, 2 seeds, 2 turns; samples | 266,300 | whole catalogue, honest dialogue, comparable groups, a seed ends |
| `web` | 4 acts of a reader, 3 entries; 1 publication, 1 failure, a TTL of 2; samples | 394,680 | pages of their address, agreement of views, what was seen stays, the site settles |
| `ops` | 2 monitor runs, 3 events, 1 death, times 0 to 4; 3 commits, 2 reruns, 4 dispatches, 1 start by hand | 3,814,835 | incidents, releases, promotions |
| `voice_completed`, `custody_history`, `custody_unclean` | as needed | | section 6 |

A property of a run that follows several parts is the conjunction of what is
said of each; the comment above it names the conjuncts, and the mutant listed
for it breaks one of them.

Why the bounds are enough:

* **Ingest.** Every conflict is between the session that publishes and one that
  overlaps it; a dry run is the third. The clock needs two readings to stand
  still, advance and step back. Nothing in the code counts runs, and the
  theorems hold for every number of them.
* **Resolve.** Four products allow a merge and a split in one bundle, ties of
  votes, a store whose count drops and one that is missing; a fifth adds no new
  shape of group relation. The proofs cover every set of products.
* **Deploy.** Two submissions of the same or of different releases meet at the
  lock, at the journal and at the approval; the second one sees every state the
  first can leave behind. Two signals are the fewest that hit a handler. The
  proofs cover every number of submissions, releases and signals.
* **Voice.** The lost update and the resurrected session need two continuations;
  a second publication would only repeat what the first does to a request that
  reads the catalogue three times. One category has a boolean filter, of which
  the catalogues know one value or none.
* **RateLimiter.** Three clients for two places; seven ticks make up `IdleTTL` +
  `SweepInterval`. The bound is proved in general.
* **Custody.** An attempt, its recovery and the attempt after it are three
  starts; three faults let a crash hit an attempt, its recovery and the recovery
  of that recovery. `custody_history` needs four starts to lose a count.
* **Observation.** The launch that is observed, one that publishes between BEFORE
  and its baseline, and one that publishes between the event and AFTER. The
  proofs cover every number of launches.
* **Nightly.** A file outlives one night and is used, or too old, in the next;
  the sites of a night differ in the one request that fails, which meets every
  early return of the scrapers; pages of two or three products make a first, a
  full, a short and an empty page.
* **Agent.** Two keys rest in turn or together; the second command finds the
  cache of the first; a batch of two products can be answered by halves.
* **Matching, Mapping, Storefront (samples).** Up to three stems of every rule
  that can collide; three products, the fewest where A matches B and B matches C
  but A does not match C; every partition of three identities with up to two
  splits and a move; offers with ties and gaps over up to four stores.
* **ReferenceCatalog, ReferenceVoice.** The second seed runs over the remains of
  the first, with another dataset; chunks of two rows leave a full and a partial
  one; the second turn finds the session of the first under another catalogue.
* **Reader.** Four acts are enough to type, follow a link, go back and type again
  while the timer, the navigation and the answers of the first are still due.
* **PageCache.** The snapshot before and the one after a publication are all a
  page can confuse; a TTL of two ticks tells fresh, old and past.
* **Monitor.** Opening, recovery and a second incident; attempts that use up
  their number; two runs overlap at the lock, and the clock may go back. The
  proof covers every number of runs, deaths and events.
* **Promoter.** The owner's first package, one over it and one more, so that a
  rollback finds a predecessor; three files, the last of them the record; three
  faults fail a promotion, its rollback and the recovery of that.
* **PairUpgrade.** Three deaths hit the upgrade, its rollback and the second
  rollback; there are only two targets.
* **Release, Promotion.** The head, the commit that replaces it during a run and
  the release on the host are three commits; two reruns change the attempt
  between two reads of one run twice. The third commit takes back what the second
  did to the publisher's files. The proofs cover every history.

`CHECK_DEADLOCK FALSE` stands where a behaviour may end: when all runs have
exited, all submissions are answered, all requests are served, all starts are
used up, all launches or nights are over, at the bound of a clock, and in the
initial states that hold a sample.

## 4. Fairness

* `Ingest!Fairness` (in `publishing`): the client of each run takes its next step
  (every statement has a timeout, `main` a deadline of five minutes, `fail`,
  `unlock` and `rollback` contexts of their own), and the server notices a
  closed connection. Not assumed: that a statement succeeds, or that an
  abandoned one runs.
* `Deploy!FairSpec` (in `host`): broker and worker take their next step, since
  every command they run has a timeout. Not assumed: success of anything,
  absence of signals.
* `Custody!CustodyFairSpec` (in `host`): the controller (`Recovery`, `Cycle`) and
  the child run when they can; every wait of `receive()` and `abort()` has a
  deadline and `RuntimeMaxSec` bounds the whole. Not assumed: that the child
  answers.
* `Observation!FairSpec`: the processes of a started launch run on. Nothing is
  assumed of the attempt, which is the point of `LaunchEnds`: C2 may stop at any
  step without keeping the daily publication from finishing.
* `Nightly!NightFairness` (in `pipeline`): `timeout(1)` kills what does not end by
  itself, and the shell goes on to sync and publication. Not assumed: that a
  scraper ever takes a step.
* `ReferenceVoice!Fairness` (in `reference`): the seeder that runs takes its next
  statement. Not assumed: that it is not killed.
* `Reader!Fairness` (in `web`): a timer that is set fires, a navigation that is
  under way commits. Not assumed: that an answer arrives.
* `MCWeb!ServerFairness`: time passes, requests to the API are answered or fail,
  renders go on, and both pages are visited again and again; a render that can
  take an entry again and again does, and a page that is again and again old
  when it is visited is refreshed (strong fairness, because a refresh or a
  notification may disable either in between). Failures are bounded. Not
  assumed: that a notification is delivered.

The parts of `ops` and of the Agent state only safety: nothing bounds how long
the monitor's receiver, GitHub or an API key may refuse.

## 5. The proofs

All theorems hold for every value of the constants that satisfies the named
assumptions of the module. Types, and each invariant below, follow from an
inductive invariant (`IInv`, or the name given below) by `Init => IInv`,
`IInv /\ [Next]_vars => IInv'` and `IInv => Inv`; where a module of proofs is about
two components, each has its own.

**IngestProofs** (`TypeCorrect`, `LockFences`, `HistoryOrdered`, `Reports`,
`Refinement`). `LockFencesPublication` is not inductive: that the holder's
baseline is still the latest snapshot depends on who may commit a publication,
and an abandoned statement of a process that is gone can. The strengthening has
one conjunct per concern: `SessionInv` (what the two ends of a connection can
say of each other), `LockInv` (a session past the lock statement holds the
lock), `RowInv` (a row's status follows from where its run is), `BaselineInv`
(the baseline of the holder is the latest snapshot and no later than its
`stamp`), `HistoryInv` (the published rows are strictly ordered by time, each
above its baseline), `ReportInv`. `StepKinds` reduces every step to a quiet one
or to an append; `Refinement` then maps appends to `SnapshotStore!Publish` and
quiet steps to stuttering. Assumptions: `None` is no run, dry runs are runs,
clock readings are naturals.

**ResolveProofs** (`TypeCorrect`, `OneCard`, `ReclusterTotal`, `StrictStable`,
`CardsOutliveRuns`). `IInv` adds `CardsIssued` to the two invariants: new ids are
fresh only because every id in use has been issued; and `AsPublished`: the mapping
is the one the last publication wrote for its groups, with no store missing. `BestIsEligible`
and `InheritedCard` say what the vote returns, `OwnerHasMostVotes` that a claimed
card has an owner, which nobody outvotes, `AcceptedEverywhere` that a bundle strict mode
accepts gives each group the one card its members had. `CardsOutliveRuns` is all
of `CardsAreStable`: a lost card has gone to the one its owner's members prefer
(`OldCardsGoOn`), and a snapshot resolved against itself finds nothing to refuse
(`NothingToRefuse`).

**ResolveProofs**, agent (`FallbacksAreUnanswered`, `PacedRequests`, `CacheStands`),
for any batches, keys, pauses, replies and number of runs. That a product falls
back although an earlier run was told of it is excluded by which prompts can be on
disk at all: of a batch the whole, and then, if that was answered, what its answer
left out (`Prompts`, `PromptsOfABatch`). So every run goes the same way through
the disk (`Progress`), what is known of a batch comes from two prompts
(`NamedIsSaid`), and a later batch says nothing of an earlier one (`OutcomeStays`).
Assumptions: no product is in two batches (`source-file.ts:10` refuses a file that
names one twice), the mark for a useless reply is no product, the pauses are
naturals; that `2 ^ k` is one is part of the last, because the provers know
nothing of powers.

**ApiProofs**, rate limiter (`TypeCorrect`, `Bounded`, `Recent`). `IInv` adds `Ages`
(a bucket's `lastSeen` is at most `MaxSkew` ahead or behind what has been
examined) and `Budget`, which accounts for tokens still in the bucket: what was
spent in the window and what is left never exceed burst and refill. Forgetting
an idle client is harmless because its bucket is full by then
(`ForgottenIsFull`), which is where `IdleBucketsAreFull` is needed.
`config.go:89-101` does not enforce that assumption: with
`RATE_LIMIT_BURST / RATE_LIMIT_RPS` above ten minutes a client regains its burst
when it is forgotten.

**ApiProofs**, voice dialogue (`OnOffer`, `AsSaid`), for any dialogues,
continuations, filters and catalogues. A query is on offer because the request cuts
its filters to the snapshot it has just read, and every snapshot a running request
meets is in its history (`CatalogSeen`). Of a boolean filter "on offer" means that
a product had a value of it, not that one had the value asked for (`WasOffered`). What was said is carried by requests and by Redis,
where a command may run after its caller has gone: `AllHeard` follows it through
both, `Belongs` says that a late SET writes into the dialogue it came from, and
`StartsEmpty` that a first turn carries nothing over. Assumptions: a snapshot has
the filters the program declares, the mark for "no category" is none, a route is
either the first or a continuation.

**HostProofs**, deploy broker (`TypeCorrect`, `OneReleaseAtATime`, `TrueResults`,
`ClosedUntilChecked`, `WayBack`). What a worker reports of the host is true
because nobody else touches the host between its reads and its report. `Locking`
says so: whoever holds the lock is alone (`Exclusive`), and a killed worker,
which holds no lock, leaves its journal RUNNING (`Journaled`), which keeps every
later submission out. `Stage(s)` then states, for each step the worker of s may
be at, what it has made of release, container, tunnel and saved reference;
`HalfDone` bounds what a step leaves that fails, is signalled or killed in the
middle. `WorkerMoves` extracts from all worker actions what the lock needs, so
that `Locking` and the stages of the others are shown once. Assumptions: the
base release is a release, the number of signals a natural.

**HostProofs**, custodian (`VerdictsKept`, `CountedInCustody`), for any number of
starts, crashes, stops, timeouts and failed writes. `CustodyInv` is shown for
each of the 53 actions. The entries of the ledger are numbered by the starts that
made them, in their order, and only the last may be unfinished (`Numbered`); the
child's lock covers that entry and whatever half-written file is behind it
(`Locked`); a recovery holds a copy of the ledger and a list of what is still to
be moved, so that the completed verdicts are at every moment in the ledger or in
the copy (`Restoring`, `Kept`); the journal names the only start whose entry may be
unfinished and the only attempt the root records may admit (`Journalled`), which
is why the next start can recover it and a `completed` journal leaves nothing
behind; a directory or FIFO that is still root's belongs to that attempt, and only
while the journal says prepared (`HandedOver`); FINALIZE is on its way only after the journal says observed (`Piped`).
`Kept` holds until a recovery is itself interrupted: one that is cut off loses the
copy, which is what `custody_history` shows. Each action has a lemma of its own
(`<Action>Keeps`), with a step per conjunct.
Assumption: the number of starts is a natural.

**ObservationProofs** (`BoundEvents`, `HonestVerdicts`, `OnePublication`), for
any number of launches. The ready-server has one client in its life, and a
ticket is that client's (`Given`). From its baseline to its relay a run holds the
session lock (`Locked`), so what it announces is the successor of that baseline
and its own, and, if it is bound, the successor of the snapshot BEFORE was read
from (`Staged`); an announced event keeps both (`Events`). A launch whose
snapshot is published is past the step that publishes, and the steps behind it
have no way back (`Over`), so falling back to a plain launch cannot repeat it.
Assumption: `Nobody` is no launch.

**JobsProofs**, monitor (`IncidentsToldOnce`), for any number of runs and deaths and any
clock within its bound. What may be read next (`state.json`, the file of a save
under way, the copy of a run) agrees with what the receivers have been told
(`Agrees`): a pending event is the last they know of or follows it, has been
tried at least as often as they have heard it, and may be tried again only a
cooldown after the last time. This survives a crash between saving and sending
because the attempt is on disk first (`Sending`), and an operator who keeps
either file because both agree (`Files`). `History` is the property for every id.
Assumptions: the marks for "no run", "no file" and "a broken file" are none of
the things they stand in for, the bound of the clock is a natural.

**JobsProofs**, daily sync (`ExitIsTrue`), for any sites, limits, files of earlier
nights, kills and number of nights. A file that its scraper left by ending well
bears this night's time (`FilesOfTheNight`); the bundle is built when no scraper
is left to change a file (`BundleOfTheFiles`), so the age that was checked is the
age of what is published, and the exit code, which is taken from the results of
the scrapers and of the publication, tells of that bundle. Assumption: the files
of an earlier night are a table by store.

**RoadProofs**, release (`ReleaseTyped`, `VerifiedReleases`), for any history of `main`.
CI may start again between any two reads, so no read says by itself that the
attempt an artifact names has succeeded. It follows from their order: the first
look at CI finds an attempt that has passed and is no older than the artifact,
the attempt read next is no older than that one, and when the manifest names
that attempt all three are the same (`Checked`). The release compared with is the
one replaced because a status taken while a rollout is under way is refused, and
only this run starts one (`Undisturbed`).

**RoadProofs**, promotion (`TypeCorrect`, `VerifiedAndBuilt`), for any history
and any number of runs. A build names an attempt that was read while it stood as
successful (`Read`, `Verified`), and the host runs nothing but a build
(`Published`); from the success of its CI on, the newest relevant commit is in a
queue, at work or needs no run any more (`Coming`, `Settled`), unless its
automatic run was replaced by GitHub or failed (`lost`). That it needs none has
three forms: it is built, the host has what it has, or it takes back what an
older commit did and the host was switched to that one after the gate had looked
(`late`). In the last case the runs of the commit are over, and nothing starts
another.
Assumption, as for releases: a history has a first commit, and every commit has
the files the workflows tell apart.

**RoadProofs**, host (`HostAsJournalled`, `AllOrNothing`), for any packages,
number of files and failures. `HInv` says for every step of a promotion
(`Forward`) and of a rollback (`Backward`), and for every file within the step
that goes through them, which version the checkout, the installed files and the
backups are, which journal the process holds and which is on the disk; and what of
that is left to the next process when this one ends there (`AtRest`). Each step
fails before or after its effect and is killed at the same places (`HalfDone`).
Assumption: packages are numbered, and their versions are not the mark of a torn
checkout.

**RoadProofs**, pair (`PairSafe`, `HostSafe`), for any number of deaths. The phase
in the journal does not tell the pair, since a death may come between a rename and
its record; `PairIsRecoverable` alone is therefore not inductive. `UInv` adds that
what the journal names is there or went where it was meant to, and that a phase
which claims something is true (`JournalIsTrue`); that what lies beside it was made by the
line under way (`OnlyOfTheLine`); and what the pair is at each line of the upgrade
(`Going`) and of the rollback (`GoingBack`). That no policy becomes newer than its
executor follows from the order of the two renames in each direction. `HostSafe`
joins this to `HInv`: a step of one tool is a stutter of the other. Assumption: that
of the promoter.

**ReaderProofs** (`PagesAreOfTheirAddress`, `EventsWereSeen`), for any texts,
categories, filters, pages of entry, totals and number of acts. A timer that runs is due
for the text in the box, which is to be searched for; a search under way without
a timer is for that text; and a text to be searched for has one of the two,
unless its search gave way (`Searching`). `TimerAfter` shows it of the one effect
every render runs, `ArrivesKeeps` of whatever address the tab comes to: the
address of the search under way, or one that replaced it. `Answered` carries the
counting of pages to "no more means all". `Settling` says that the search about
to be counted is the one whose results stand on the screen, which is why the
second theorem, an action property, can look at the screen before the step. The
proof does not need the bound of the history. Assumptions: the empty text is a text and
too short to be searched for, the mark for "no timer" is no text, the default
sort is one the API knows, a tab is opened at an address, a product has one of the
categories, totals are naturals.

**ReaderProofs**, cache of the site (`NoticesAreHeeded`), for any lifetime of what is
kept and any number of publications and failures, without any assumption. An
expired entry alone would not do, since an answer or a render under way is stored
as new: `NothingOlder` says of each of the four places a datum can be in (kept page, data cache,
answer on its way, render) that it is no older than the last notice that found
nothing under way.

Only model-checked, and why:

* liveness and refinement up to fairness: out of the prover's reach, together
  with `ENABLED`;
* `ScrapesAreComplete`, `ProductsAreKept`, `CatalogueIsWhole`,
  `ComparedIsComparable` and `DialogueIsHonest` are about what functions over
  sequences compute (folds over pages, names and rows, some recursive), which
  would take an induction over data the provers cannot be given;
* the deals of the front page within `WhatWasSeenStays` (the tab's part is
  `EventsWereSeen`), the sitemap and the samples in `PagesAgree` (its part about
  notices is `NoticesAreHeeded`), and `KeysRest` of the agent: what they say is the
  result of `SelectSeq` or of a function over a sequence.

## 6. Where documents and code disagree

Each of the first three is a run that ends with a counterexample.

* `custody_history`: a crash during the archival of a recovery, on a start whose
  journal names no attempt, lets the next start take the missing ledger for one
  that never existed; earlier verdicts are no longer counted, although
  `ops/c2/README.md:640` says they are retained.
* `custody_unclean`: an attempt with unverified cleanup is recovered by the next
  start and followed by another attempt; `ops/c2/README.md:641-642` says that
  failed cleanup remains blocked.
* `voice_completed`: a continuation that read its session before another one
  completed the dialogue writes it back; the completed dialogue then answers 200
  (`API_V1_CONTRACT.md:95-96` says 404).

The rest was met while modelling; the models do what the code does, so the
properties are stated around it, and no run is spent on it.

* **Ingest.** A `COMMIT` whose answer is lost publishes a snapshot that the run
  reports as `publication_failed` and nobody is notified of (`ingestor.go:441`);
  the TTL of the site is what bounds the damage (`PagesCatchUp`).
* **Deploy.** `BLOCKED_ROLLBACK_FAILED` may be returned with the tunnel open, when
  the last attempt to close it fails as well (`auto_broker.py:530-533`;
  `AUTO_DEPLOY_SETUP.md:263-264`). An alarm inside the handler of `rollout()`
  before its inner `try` leaves a cutover without compensation under
  `BLOCKED_PREFLIGHT` (`auto_broker.py:524-526`); `FailureIsCompensated` is
  stated for workers nobody has signalled for that reason.
* **Custody.** A deadline between `finalize()` and the check behind it
  (`c2-operator-entry.mjs:42-43`) reports INCONCLUSIVE for an attempt whose
  verdict counts in the ledger. A crash or a stop between `mkdir` and `fchown`, or
  between `mkfifo` and `chown` (`auto-custodian.py:560-564`), leaves a directory or
  FIFO of root's that every later start refuses (`foreign_recovery_directory`,
  `foreign_recovery_resource`); `RefusedOnlyWhenUnproven` names the case. An
  orderly cancellation before the FIFO exists is not finished either (661 raises
  within `abort`): its journal stays prepared, for the next start to recover.
* **Voice.** A boolean filter has no options to be checked against: both dialogues
  take either value as soon as a product has one (`state.go:51-57`,
  `backend/src/voice/nlp/validate-nlp-result.ts:11-13`; `seed.ts:119` declares
  "sliced"), so a query may ask for a value that is on no offer and find nothing.
  `QueryWasOnOffer` and `QueryWasHeard` are exact for filters with options and say
  of a boolean that the filter was offered.
* **Agent.** A reply that is JSON but useless is cached (`gemini.ts:79`), so the
  second prompt of the "retry once" of
  `docs/superpowers/plans/2026-10-05-scrum-7-anvar-full-catalog.md:81` reads the
  same reply when it asks the same. An id repeated inside one proposed cluster
  is kept twice (`match.ts:53`; the same document, line 44).
* **Fix Price.** A page of status 200 whose body is not a list ends the section
  silently; `WrittenScopeIsComplete` exempts such answers (`odd`).
* **Matcher.** Candidates are compared with the first member of a group only, so
  sizes may drift within it: `audit_suite.ts:269` asserts that they do not. The
  comment at `matcher.service.ts:79` and the precedence of the barcode at line
  75 differ. The rule for crispbread cannot fire, and "sunflower ... mix" is
  plain sunflower oil (`normalizer.service.ts:231`), against `audit_suite.ts:271`.
  A name without a product type keeps the shelf it was scraped from: untyped
  sweets on Dana's egg shelf (`dana.scraper.ts:20`) stay eggs, which
  `audit_suite.ts:197-198` would find. The audit looks for the letters of "tan"
  and "cheese" anywhere in a milk's name (`audit_suite.ts:210`), the normalizer
  for words (`normalizer.service.ts:263-266`). `Doubtful` names both cases, and
  `FoodsAreApart` is about every other name.
* **Reference API.** During a seed readers may see a published catalogue that is
  empty; pages of a list across a seed may repeat or skip products.
* **Tab.** The placeholder of an earlier empty answer makes the search page say
  of a new query that nothing was found before it is answered
  (`views/SearchPage.tsx:62`). After going back to the page the tab was opened
  at, the link back leaves the site (`lib/inAppHistory.ts:18`; the comment at
  `components/layout/BackLink.tsx:9-10` says it stays). Text typed during a
  search navigation is overwritten when that commits (`SearchBox.tsx:27-29`);
  `SearchIsNotForgotten` is about what stays in the box.
* **Monitor.** The cooldown counts from the time read when the run opened: after a
  check of 50 s two sends may be 10 s apart (`ops/monitor/README.md:91` says 60 s);
  `RetriesAreSpaced` is in the time the runs read. A pending event that has used
  up its attempts stops all further checks until an operator acts.
* **Promoter.** An error or a signal after the journal was removed still starts
  the rollback (`publisher-promotion.py:774-779`), which writes the journal again
  only at its end: a second failure in between leaves a mixture without a
  journal, on which the gate lets services start. `unguarded` marks that history
  and the properties exempt it. Killed between `rollback.json` and the removal of
  the journal (812-813), the promoter can never finish: each
  `--rollback-interrupted` meets its own `rollback.json` (`no_clobber`), and the
  services wait for a hand. So they do after a kill within the backups
  (`unknown_transaction`), and a temporary file left in a release directory
  refuses every later promotion (`unknown_release_resource`) although the
  recovery succeeded.
* **Executor pair.** A death between the making of a file, or of the journal's
  temporary, and its registration is never recovered by the tool
  (`unknown_target_temp`, `unresolved_journal_temp`; `Leftover`): between the two
  renames that leaves a new executor under the old policy, which then refuses all
  promotions. A promotion that runs after a death, while the pair matches, is
  what no recovery accepts later (`publisher_baseline`, `release_inventory_changed`).
* **Promotion.** "Automatic builds follow successful main push CI only when relevant
  runtime changes" (`BACKEND2_SYNC_C2_AUTOMATED_PROMOTION_HANDOFF.md:249`). That
  they always follow has four exceptions, around which `RelevantHeadIsBuilt` is
  stated. Relevance is
  decided against the first parent (`sync-promotion.mjs:92-96`): a relevant push
  superseded by an irrelevant one before its gate ran is never built
  automatically (the premise names the head's own change). GitHub may cancel the
  waiting gate of the head for a later run of the group, even one that does nothing
  because its CI failed (`lost`). A gate or a build that fails, at GitHub's API,
  at the host's status, in git, in the build or the upload (84-101,
  `sync-publisher-build.yml:60-91`), is repeated by nothing (`lost` as well). And
  a head that takes back an older commit is passed over when the gate compares it
  with the host before the older commit is switched in (`late`, `Restores`).

## 7. What is not modelled, and why

* **API reads.** Each request is one repeatable-read transaction over the newest
  published snapshot; what it can see is `SnapshotStore`. The pool of four
  connections and the deadline of a request bound each other.
* **Speech parser.** VoiceSession lets it hear anything or fail at any time; which
  of the keys answers under the one deadline is not told apart.
* **Voice gate, proxy, headers.** A counting channel released by `defer`, and
  functions of one request.
* **Installers.** `install-root-executor-helper.py` and the installers of C2 put
  single files in place and compare their identities, run by hand. Of the
  promoter, the reading of packages (`unpack_zip`, `admission`) is abstracted to a
  package that fits or is refused.
* **Contents.** Regular expressions, wording, layout, translation, distance and
  maps. Where a property needs what they find, the models start from it (the
  stems and numbers of a name, the kind of a reply).
* **Cryptography, file identity, permissions.** Signatures, hashes, inode and
  mode checks, and privileges are either satisfied or end the operation; the
  models let them end it.
* **Configuration and descriptors**, CI jobs, tunnel, image contents: stateless
  checks. Owner approvals and `AUTO_DEPLOY_ENABLED` either permit a step or stop
  the run.
* **Backup and restore**: a sequential script around `pg_dump` and `gpg`.
* **Real time.** Deadlines are events that may happen at any step. Only the
  limiter, `publishedAt`, the agent's keys, the site cache and the monitor have
  numbers for time.
* **Clock calibration and page comparison of C2**: abstracted in Observation to
  whether the event is admissible and which revision the pages show.

## 8. The plan

Done, in this order: Ingest with its abstract specification and proofs, Resolve
and RateLimiter with proofs, Deploy, VoiceSession, Custody, Observation; then the
pipeline and the daily job, the reference importer and API, the site, the
monitor and the release roads, and the proofs about Deploy, Release, Promotion,
Observation and Monitor; then the promoter on its host and the upgrade of the
promoter; then the proofs about VoiceSession, Promoter, Nightly, Custody, Reader,
PageCache, Agent and PairUpgrade.

What would add most from here: the failover of the speech parser as a refinement
of VoiceSession's.
