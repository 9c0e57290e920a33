# LinkMesh in TLA+

A verification project for the LinkMesh backend (`app/`): TLA+ models of the
parts that decide what is written to a customer's WordPress site, of the crawls
and analyses that propose it, of the jobs and pipeline batches that run them and
of the people and keys that may steer them, checked with TLC on small instances
and, for the promises that matter most, proved with TLAPS for every instance.

## 1. The system

LinkMesh proposes internal and external links for managed WordPress sites. A
FastAPI application and RQ workers share one PostgreSQL database; RQ jobs live
in Redis; the posts live in WordPress, which people also edit by hand.

| Component | State | Operations | Must hold |
|---|---|---|---|
| Cohort selection (`services/publication_plan_service.py`, `grouped_batch`) | none (pure) | select, suppress reciprocal pairs, order, narrow | no pair is written both ways; naming links never changes a verdict |
| Plans: preparation and approval (same file, `api/routes/publish.py`) | `publication_plans` | `prepare_site`, `_prepare_one`, `approve_plans`, view | an approved artifact is never replaced; approval is all or nothing and of what was shown |
| Publication worker (`tasks/publication.py`, `connectors/wordpress.py`) | claims (advisory and row locks), posts | claim, GET, compare, POST, commit; stale, fail, charge an attempt | only approved bytes are sent; what is reported applied was served; no endless retries |
| Suggestion review (`api/routes/suggestions.py`) | `suggestions`, `bulk_review_operations` | single, bulk and filtered review, undo | a row of an approved plan is not reviewed away; a published link stays published |
| Durable jobs (`services/job_service.py`, `worker.py`) | `job_runs`, RQ jobs | enqueue, reconcile, run, retry, interrupt handlers | one job per site and kind; no live job declared lost; every run ends |
| Publication progress (`services/publication_progress.py`) | `job_runs.progress` | begin, applied, skip, failure, close | counters exact, monotonic, consistent over retries |
| Ingestion and snapshots (`services/ingestion_service.py`, `crawl_snapshot.py`) | articles, links, runs | stage, validate, resolve, promote, import | an incomplete crawl never replaces the active view; pages keep their rows |
| Pipeline batches (`services/pipeline_service.py`, `tasks/pipeline.py`) | batches, site runs | create, ingest, analyse, cancel, retry | cancelled stays cancelled; every batch ends; lock order |
| Suggestion generation (`services/suggestion_service.py`, `ml/baseline.py`) | `suggestions`, embeddings, graph snapshots, advisory locks | embed, snapshot, count, rank, fill the gap, commit | quotas hold; no pair twice or both ways; no standstill |
| Ranking (`ml/hybrid.py`, `ml/candidate_ordering.py`, `services/editorial_feedback.py`, `graph_service.py`) | none (pure) | fuse, rerank, cut, simulate | no eligible candidate is lost; a bonus stays within its cap; a simulation predicts the graph |
| External policy and web search (`services/external_link_policy.py`, `external_suggestion_service.py`, `ml/external/`) | policies, search audit | evaluate, expire, search, screen, settle | queue and ranker follow one policy; no page twice |
| Placement (`services/placement_service.py`) | placement columns of a suggestion | ask, verify, store | verbatim text of the article; the first answer stands |
| Review queue (`routes/suggestions.py`) | none (reads) | list by cursor | nothing missed, nothing twice |
| Link insertion (`connectors/wordpress.py`, `html_crawler.py`) | none (pure) | render links into a post | only in prose, each target once, within the limit |
| Crawling (`connectors/html_crawler.py`, `wordpress.py`) | queue and seen URLs of one crawl | walk, page | exactly the pages in reach; no post lost |
| Dashboard sign-in (`services/dashboard_auth.py`, `telegram_bot.py`) | users, codes, sessions | request, issue, redeem, slide, approve, revoke | one code one session; a ban stands |
| Authorization (`services/authorization.py`, `routes/admin_keys.py`) | tenants, keys, sites | scope checks, issue, revoke, delete | a key stays inside its scope |
| Content pool (`services/pool_source_policy.py`, `routes/sites.py`, `tasks/ingestion.py`) | approval, quarantine | create, approve, crawl, fail, quarantine, reactivate | no property both client and pool; failures quarantine |
| Offline evaluation, alerts, application shell | derived data | compute | not modelled, section 6 |

**Interactions.** Everything meets in PostgreSQL under READ COMMITTED. API
requests enqueue jobs through `job_service`; a job wraps its body in
`run_durably`; the publication body records progress into the same `job_runs`
row. Review requests, policy updates and crawls write the suggestion rows that
preparation selects, approval binds and the worker publishes.

**What is hard.** Unlocked reads followed by writes by primary key; `NOT EXISTS`
subqueries that keep a statement's snapshot while the row under them is
re-checked; rows loaded by an ORM and written back column by column seconds
later; a GET and a POST with no compare-and-swap between them; a POST whose
answer is lost and that takes effect later; crashes between POST and commit, and
between enqueueing and recording a queue id; two records (PostgreSQL and RQ) of
the same job. `PROJECT.json` lists each hazard at its line.

## 2. Modules

    Ordering <-- PublicationCohort, PlacementGeneration
    PublicationCohort  <-- PlanStore <-- PlanPublication  \
                                     <-- PlanPreparation   > PublicationSystem <-- MCPublication
                                     <-- SuggestionReview /          ^
                                                              PublicationProofs
    DurableJobs <-- MCJobs, JobsProofs
    PublicationProgress <-- MCProgress, ProgressProofs
    PublicationSystem, PublicationProgress <-- MCPublicationJobs
    PipelineBatch <-- MCPipeline, PipelineProofs
    ActiveView  <== (refinement)  SiteContent <-- MCContent, ContentProofs
    SuggestionGeneration <-- MCGeneration, GenerationProofs
    DashboardAccess, PoolSources <-- MCOperators, OperatorProofs
    PublicationCohort, LinkInsertion, CandidateRanking, ExternalPolicy, SiteCrawl,
        KeyScopes, PlacementGeneration, ReviewQueue <-- MCAlgorithms
    KeyScopes, SiteCrawl, ReviewQueue, PlacementGeneration, LinkInsertion,
        ExternalPolicy, CandidateRanking <-- MachineProofs

* **Ordering**: `InOrder` lists a set by rank: the i-th element has i - 1
  others before it, which is what a sort by a key without ties returns and what a
  proof can use without knowing the sorting algorithm. The cohort, its
  articles and the rows of a placement pass are ordered with it.
* **PublicationCohort**: `grouped_batch` as operators over a table of rows.
  Scores are small integers; ids are naturals, as the tie-breaks need them.
  `BatchExact` says what the function promises of its result.
* **PlanStore**: the rows and posts everybody shares. A post's content is its
  prose version and the set of links written into it, each in the text or in an
  appended block; an artifact is the original and updated content with the list
  of links in rendering order; its SHA-256 is an injective wrapper. `locked` is
  the set of plans with an open publication transaction: it stands for the
  advisory lock, the plan row and the bound suggestion rows, which are taken and
  released together. Also here: WordPress itself (an editor's change, a late
  POST) and the out-of-band UPDATE that `verify_integrity` guards against.
* **PlanPublication**: one running publication job per worker, with a program
  counter for each place where the code gives up its transaction or waits for
  the network.
* **PlanPreparation**: one preparation job per preparer, and approval. The
  locking re-read of the active plan is two steps, because the statement picks
  its row from a snapshot and judges it when the lock is granted.
* **SuggestionReview**: reviews, filtered reviews and their undo, policy
  updates, retirement. A review that meets another writer is two steps
  (`ReviewBegin`, `ReviewEnd`); a policy update is a read and a flush.
* **PublicationSystem**: the composition and its properties.
* **DurableJobs**: `job_runs` rows beside RQ jobs for one site and one kind.
  Requests hold the enqueue lock; horses are RQ workers with their child. RQ
  itself (dequeue, record, promote a retry) is external and modelled from how
  the code relies on it. The runs in `PipelineRuns` belong to a pipeline batch:
  their task looks at the site run and may return before `run_durably` (`Look`),
  may raise behind the committed success (`RaiseLate`), and the cancel of the batch
  reads the row, asks RQ and commits without the enqueue lock (`CancelRead`,
  `CancelAsk`, `CancelCommit`). `hist` remembers which runs the table was overruled
  on (`loose`), was never told of (`unrecorded`) or lost sight of (`adrift`); the
  properties name these sets as their exceptions.
* **PublicationProgress**: the counters with the stored copy and the worker's
  copy apart; a plan of n links moves them n at a time. A run ends by its task, by
  the handler of a killed child, or by `_mark_run_lost` (`DeclaredLost`), which
  leaves the counters alone and may come while the worker is alive.
* **PipelineBatch**: one batch, its site runs and their two jobs each, with the
  requests that create, cancel and retry. `job[s][k].pc` says where a task
  stands; `"batch"` is the place where `update_pipeline_site` holds the site
  run's row and waits for the batch's, the opposite order of cancel and retry.
  The request sessions neither autoflush nor reload (`db.py:7`), so the copies
  they judge by (`retry.seen`, the status `CancelRead` saw) are part of the state.
  Of `enqueue_job` it uses what DurableJobs shows: one active job per site and
  kind.

* **ActiveView** is the abstract specification of a site's content: the active
  pages and links change in one step, by a complete crawl that replaces the
  whole view or by an import that extends it, and what waits on a page that left
  expires in the same step.
* **SiteContent** is the detailed one: a lock per site, one open transaction
  (`txn`) with the staged rows, the upsert by post id and by URL with its swap
  (`ParkUrl`, `TakeUrl`, `SwapUrls`: what the rows hold after each of its flushes),
  the completeness ratio, link resolution, promotion, failure, a killed process
  and the settling of its run. `INSTANCE ActiveView WITH` maps the committed rows
  to the view; `ViewIsPromised` is the refinement, checked by the run `content`.
* **SuggestionGeneration**: one record per analysis with a program counter for
  each commit of `generate_suggestions`; editors, operators and crawls change
  the rows in between. Scores are a free choice among the eligible targets.
* **DashboardAccess**: accounts, login codes and sessions. A visit reads,
  then writes what the ORM saw change; the bot and its bootstrap do the same.
* **PoolSources**: site rows, uploads with uncommitted inserts, the advisory lock
  of the private-network check, operators' requests that write by what they
  loaded, pool crawls and quarantine. A failure is recorded (`CrawlFails`) or not
  (`CrawlUnrecorded`: another kind of error, a kill, or an error swallowed while
  recording); the streak of the property counts the recorded ones.
* **LinkInsertion**: a post is a sequence of tokens (tags, words, and the text of
  attributes, comments, scripts and shortcodes); the prose regions are the code's
  stack of open elements. Both `preview_links` loops are recursive functions over
  the prefixes of the list of suggestions. The static one searches the bytes, so
  its `<a ` and `</a>` may go into markup (`Bury`): the target then has no link, the
  tags are seen by the next search of the bytes, and the bracket that closes them
  ends the tag around and sets free the rest of its attribute (`Freed`).
* **CandidateRanking**: lexical paging, reciprocal-rank fusion, hybrid order,
  graph features and simulation, graph and feedback reranking, the final cut;
  fractions are compared by cross-multiplication. `edge_count` after a simulation
  counts each link once, as `compute_graph` does.
* **ExternalPolicy**: hosts are label sequences, URLs records; domain rules, the
  trust score, expiry of ineligible rows, search with retries, and the filling of
  the gap.
* **SiteCrawl**: the sitemap list, the breadth-first walk with its three bounds,
  API discovery and paging while an editor publishes and deletes posts.
* **KeyScopes**: tenants, keys and sites; a request checks in one step and writes
  in another.
* **PlacementGeneration**: `_normalize`, `_locate` and `_verify` on characters, and
  the race of review drawers and preparation passes for a row.
* **ReviewQueue**: the filters and the cursor of the queue, with rows reviewed
  and inserted between two pages. A page is ordered by rank: the i-th row is the
  one with i - 1 matching rows above it, which is what `ORDER BY` returns for a
  total order and what a proof can use without induction over a sort.

History variables (`signed`, `sent`, `served`, `written`, `missed`, `hist`, `error`,
`lost`, `done`, `fresh`, `streak`, `shown`, `steady`, the fields `by`, `seen`, `from` and
`followed`) are read by properties only. `map` in `PROJECT.json` gives the source lines of every
definition.

### Abstractions

Audit events, alerts, texts and timestamps are left out; expiry of a key, a
session or a code is a step that may come at any time. The publication, job and
content modules have one managed site, the analysis two customers with a shared
pool. The
grace period of 30 s for a row without a queue id is taken to be longer than an
enqueue that is still going on. Reviews of several ids are several single
reviews, which allows more interleavings than the one statement. Tenants appear
in DurableJobs only as a refusal (`OverCapacity`). Progress counts links, not
their identities, as the code does. Sites are deleted in PoolSources and
KeyScopes, suggestions in PlacementGeneration; elsewhere nothing is deleted.

What the outside answers is a choice: the page of a crawl (article, links only,
nothing, denied, abort), the order of a search, the score of a candidate, the
passage a language model quotes. Characters matter only in the placement check,
whose alphabet is two letters of which one has a capital, and the blank.

In PipelineBatch a batch meets at most one cancel request and one retry request
at a time; nobody cancels or retries before the creating request has answered,
since only its answer has the batch's id; a retry request is not chosen as the
victim of a deadlock. An analysis that somebody else requested for the same site
appears as the refusal `AnalysisDuplicate`.

## 3. Runs

Bounds are the constants `PlanIds` (plans ever prepared), `MaxEdits`,
`MaxFaults`, `Runs`, `MaxRetries`, `PublishRetries`, `MaxLinks`, `MaxIncidents`, `MaxRows`,
`MaxItems`, `MaxRuns`, `MaxChanges`, `MaxVisits`, `MaxLapses`, `MaxCalls`,
`MaxPosts`, `MaxPasses` and the sets of actors, sites, rows and phrases.

| Run | Instance | Shows |
|---|---|---|
| `publish` | two links of one article, one worker, one fault, fairness | `ApprovedPlanIsBound`, `PostsOnlyWanted`, `ApprovedIsResolved` |
| `publish_workers` | two workers, one link, two texts, one edit, one fault, two plans; besides, the counters of a job with batches of up to `MaxLinks` links, all attempts, every way to end | `Custody`, `AppliedWasServed`, `NoWorkerInterference`, `AppliedIsExact`, `TerminalAddsUp` |
| `publish_editors` | a review in flight, a filtered review with undo, a policy update, out-of-band updates of the plan, one fault | `ApprovedBytesOnly`, `ExhaustedIsQuarantined` |
| `jobs` | two runs, one of a pipeline batch with its cancel, two requests, two workers, one retry; kills, stops, early returns and late errors | `OneBodyAtATime`, `RecordsAgree`, `LostIsDead` |
| `jobs_live` | one run of a pipeline batch with its cancel, each fault once, fairness | `EveryRunEnds` |
| `pipeline` | two sites, one RQ retry, one kill or operator's retry, one cancel, refused jobs and failing bodies, fairness | `BatchAgrees`, `SucceededIsEarned`, `CancelIsFinal`, `BatchEnds` |
| `content` | two posts, three addresses of which one redirects, three runs, two callers, a tracked suggestion | `IdentitiesUnique`, `LinksJoinActive`, `ViewIsPromised` |
| `analysis` | two customers, a shared pool, two analyses, a reader of the graph, one change by others, one fault; besides, three articles of one customer, three analyses one behind the other and two decisions of editors; one open link and two links ever per article, two open links per site | `QueueBounded`, `PairStaysFree`, `NoStandstill` |
| `operators` | two people, three codes and sessions, two browsers; two sites of one property, two requests, two crawls, threshold two | `OneSessionPerCode`, `BanStands`, `NoPrivateNetwork`, `FailuresQuarantine` |
| `algorithms` | every small input of nine functions, and five small machines, one part per behaviour | see below |
| `lost_counters` | one link, one attempt, a run that is declared lost | a counterexample, section 5 |
| `undo_unbinds` | a filtered review and its undo beside the worker | a counterexample, section 5 |

The parts of `algorithms`:

* `CohortExact`: three rows over three articles, two score values, all
  selections. No pair is written both ways, nothing is lost, naming links only
  cuts the full batch down, and groups and rows are in publication order
  (`BatchExact`).
* `LinksInserted` (`SplicedInProse` and `LinkedOnce`): short posts over seven
  tokens, posts with attributes and raw text (`Markup`), and up to two suggestions
  with an anchor or, on a static site, the title searched for in its place; against
  a reading of the nesting that counts tags instead of keeping a stack. Of a static
  page the property says which targets get no link: those all of whose suggestions
  were spliced into an attribute or raw text, which the code reports as inserted.
* `RankingExact`, `SimulationExact`: permutations of up to five candidates;
  every graph on three nodes with repeated, present and outside links.
* `PolicySettled`, `GapFilledOnce`: every combination of the policy switches over
  pool and web targets, with all pages live, a pool's pages retired or one page
  retired. Expiry does not ask whether a page is live and the ranker does
  (`external_link_policy.py:407`, `:290`): the property says that this is their only
  difference. Up to three search results, one address with and without its
  default port.
* `WalkIsExact`, `PagingMissesNothing`: six pages with a cycle and two ways of
  different length, and up to six posts published or deleted while the API is
  paged through.
* `KeyContained`: two tenants, one key, two sites, two requests that check and
  write apart.
* `PlacementsVerbatim`: texts of up to four characters and every answer.
  `PlacementsAgree` (`PlacementStands` and `AnchorsApart`): two drawers and two
  passes over two links of one article with phrases that differ in case only; the
  first answer stands, and nobody gives out a phrase it knew to be taken.
* `QueueShownOnce`: four rows, two of them a pair, scores on both sides of a
  rounding boundary, two changes while the queue is read in pages of two.

Why the bounds are enough: each hazard needs at most two actors of a kind, two
links (one to contest a phrase or to reverse another), a second plan (to replace
or follow the first) and one or two losses; a walk needs a page that is reached
at two depths, a swap two posts. Every instance has those its question is about,
and each property has a mutation of the code that its own run refutes
(`mutants` in `PROJECT.json`). In the second part of `analysis` each of
the three limits is met by an analysis that the other two would let go on, so that
dropping any one of them is seen. `algorithms`, `content`, `analysis`, `operators`
and `pipeline` end when their bounds are used up, so they do not look
for deadlock (`NoStandstill` asks for it in `analysis`); the others do.

Symmetry is used where no liveness is checked and no action tells the members
apart: callers and posts in `content`, jobs in `analysis`, requests and
workers in `jobs`, keys, sites and requests in `algorithms`.

**Fairness.** `publish` assumes that a job that has started goes on and
that approved plans keep being queued (weak fairness of a worker's own steps,
which include network errors); nothing is assumed of people, of WordPress or of
faults. `jobs_live` assumes that requests and workers that have begun go on,
that RQ's scheduler promotes retries, and, strongly, that somebody keeps
listing the active jobs: the code reconciles lost runs only when it is asked.
`pipeline` assumes that the creating request goes on and that RQ keeps running
the tasks of each site; cancels, retries, kills and stops may or may not come.

## 4. Proofs

Eight modules hold theorems, each for all values of the constants of its
component and from that component's named assumption only. Two theorems of
`PublicationProofs` also name the editors' races they exclude, see there; a theorem
about a function names what its inputs are.

| Module | Assumption | What it says |
| --- | --- | --- |
| `PublicationProofs` | `StoreAssumption`, `PrepareAssumption` | ids are naturals, the table of suggestions is finite and its scores are numbers; the attempt limit and the number of articles per batch are positive |
| `ProgressProofs` | `ProgressAssumption` | bounds are naturals |
| `PipelineProofs` | `PipelineAssumption` | a batch has a site, bounds are naturals |
| `ContentProofs` | `ContentAssumptions` | bounds are naturals, the completeness ratio is at most one, no page has one of the addresses `linkmesh://url-swap/` that a swap parks a row at |
| `OperatorProofs` | `PoolAssumptions`, `AccessAssumptions` | "same property" is reflexive and symmetric, the failure threshold is positive; ids are naturals |
| `GenerationProofs` | `GenerationAssumptions` | ids and limits are naturals, a site's articles are finite, customers and pools apart |
| `JobsProofs` | `JobsAssumption` | ids and the retry budget are naturals |
| `MachineProofs` | `ScopeAssumptions`, `CrawlAssumptions`, `QueueAssumptions`, `PlaceAssumptions`, `RankingAssumptions` | the default tenant exists; bounds are naturals, the limit of discovered URLs and page sizes positive; the table of rows is finite; links with placements are finitely many and the limits on anchors and shown text positive; graph thresholds are naturals |

The proofs have one shape: an inductive invariant built from named parts; a lemma per action or per group of actions
that write alike; and a last step that leaves the property to temporal logic.

**Publication** (`PublicationProofs`).

* `CustodyHolds` (`Custody`). The inductive invariant is `Custody` with the
  shape of the state it reads (which actor is where, what `sent` may hold).
  Custody is the reason behind the rest: `approved_hash` always equals what the
  humans sent; what a worker holds is approved, locked and hashes to it; two
  workers never hold one plan or one article.
* `OnlyApprovedBytesArePosted` (`ApprovedBytesOnly`). A request is built
  from the held plan, whose artifact custody ties to the signature; a plan is
  signed at most once, because approval needs `prepared` and no step returns to
  it. No assumption on editors, policy, preparers or tampering is needed: the
  `UPDATE`s of `Tamper` are excluded from locked rows only.
* `WorkersDoNotInterfere` (`NoWorkerInterference`). The article lock:
  custody gives different holders different articles.
* `AttemptsAreLimited` (`ExhaustedIsQuarantined`). An invariant over rows
  alone: every way back to `approved` goes through a review, which resets the
  count.
* `AppliedMeansServed` (`AppliedWasServed`). `ServedInv` adds three parts to
  custody: what a post has now it has had (`History`), an artifact belongs to an
  article of the site as long as anybody works on it (`Placing`), and a worker
  that is about to commit success has seen the post carry the edit
  (`Delivered`). The last survives because the row is locked from the comparison
  to the commit, so that no out-of-band update can swap the artifact in between;
  what happens to the post afterwards is of no concern, since the claim is about
  what it once served.

* `ApprovedPlansAreBound` (`ApprovedPlanIsBound`), for instances without a review
  in flight and without filtered reviews (`Reviewers = {}`, `Operations = {}`), the
  two actors that break it (section 5). Single reviews, policy updates,
  retirement, any number of workers and preparers, faults and out-of-band updates
  stay. `BoundInv` adds to the property: an artifact renders rows of its own
  article only, in a plan (`PlansOwn`) and in the hands of a preparation
  (`Proposed`); an article has one active plan (`OnePerArticle`, the unique index),
  so that two approved plans never share a row; and the rows of a claimed plan are
  approved as long as its locks last (`LockedRows`). `Proposed` rests on
  `BatchIsOwn`: every group of `grouped_batch` holds rows of its own article.
* `OnlyWantedLinksArePosted` (`PostsOnlyWanted`), under the same condition: what is
  rendered is bound, and what is bound to a locked plan is approved.
* `CohortIsExact`: `BatchExact`, the operator `CohortExact` checks, for every set of
  rows, any scores and any named links, given that no suggestion links an article
  to itself. The pair rule needs that a finite set of rows has a best direction
  (`DirectionBefore` is a strict total order on ids), the order that ranks in a
  finite strict order are distinct and exhaust 0..n-1.

**Progress and pipeline** (`ProgressProofs`, `PipelineProofs`).

* `ProgressTypeCorrect`, `AppliedCountExact`, `TerminalCountersAddUp`,
  `CountersNeverGoBack`. The inductive invariant relates the worker's copy to
  the stored one (no counter of the stored copy is ahead), bounds
  `applied + left` by the total, and skipped and failed by what the attempt has
  reached. It is needed because a kill makes the stored copy the truth again at
  any moment. `TerminalCountersAddUp` tells the two ways to fail apart: a task or a
  handler settles the counters, a run declared lost keeps those of its last
  checkpoint, of which only `applied + failed <= total` is left (section 5).
* `PipelineTypeCorrect`, `SuccessIsEarned`, `LateTasksCannotRevive` (`TypeOK`,
  `SucceededIsEarned`, `CancelIsFinal`). The inductive invariant says what a
  job's place in its code implies about its site (`Earned`): a task that holds
  the row holds one that is not cancelled, which only the row lock keeps true
  while a cancel is under way; an analysis is queued, running or due only where
  an ingestion completed; a task about to record success has completed both. The
  row's stage and a retry request carry the same promise (`RowsEarned`,
  `Retried`), because an operator's retry starts at the recorded stage. `Created`
  keeps the creating request's blind writes apart from cancellation.
* `BatchAlwaysAgrees` (`BatchAgrees`). `Agreed` adds what the property leaves
  out: a retry request that has written has counted itself in its row, so that
  `NeverRetried` really means that no retry is half done (`RetriesCounted`); and,
  without kills, a site run that is over has no job that would write it again
  (`Settled`), the fact a kill destroys.

**Content** (`ContentProofs`).

* `ContentTypeCorrect`, `IdentitiesNeverCollide` (`IdentitiesUnique`),
  `LinksStayInView` (`LinksJoinActive`). Uniqueness has to hold in the open
  transaction as well as in the committed rows (`Identities`), because a swap of
  two URLs is made there in three flushes, each of which meets the unique
  constraint (`SwapFact`: the parked address keeps the first two apart); `HolderHasRun` ties the transaction to
  the newest running run and `StagedOnView` to rows that exist.
* `ViewIsImplemented` (`ViewIsPromised`). The refinement of `ActiveView`, step by
  step: initial states map to initial states; only the end of a crawl or an import
  and the three steps of a suggestion map to steps, every other action leaves the
  view as it was. `LastSucceeded` (a part of the invariant) makes the count of the
  last complete crawl a function of the runs. Both specifications are safety
  properties, so this is the whole refinement.

**Operators** (`OperatorProofs`).

* `NeverAPrivateNetwork`, `FailuresAlwaysQuarantine` (`NoPrivateNetwork`,
  `FailuresQuarantine`). `PoolInv`: one request holds the advisory lock; what an
  upload has inserted but not committed conflicts with no approved source and with
  nothing it inserted besides; a request about to approve holds the lock and found
  no client; a source that is not quarantined has recorded every failure of its
  streak and is below the threshold. The first property speaks of committed rows, its proof of the uncommitted ones.
* `CodesOpenOneSession`, `BansAlwaysStand` (`OneSessionPerCode`, `BanStands`).
  `AccessInv`: a code that has opened a session is used up; the bot alone makes
  accounts, so that a missing one it has read is missing still; and until the
  bootstrap admin is admitted there is no code, session or request that could act
  on the account which the start-up is about to write.

**Analysis** (`GenerationProofs`).

* `PairsAlwaysFree`, `QueueAlwaysBounded`, `NeverAStandstill` (`PairStaysFree`,
  `QueueBounded`, `NoStandstill`) rest on one invariant. An analysis at work holds
  its site's lock (`Locked`) and whoever holds a lock is at work (`LocksAtWork`),
  so that what it staged stays free (`Staging`) and what it counted once bounds
  what is there still (`Counting`): editors and crawls only shrink it. The limits
  themselves are not inductive; `Counting` carries them from the count over the
  commits of all later sources.

**Jobs** (`JobsProofs`).

* `RecordsAlwaysAgree`, `AttemptsAlwaysBounded`, `OneBodyAlways`,
  `OnlyTheDeadAreLost` (`RecordsAgree`, `OneBodyAtATime`, `LostIsDead`; the bound
  on attempts is stated here only), under every fault of the model. What can go wrong
  goes wrong for single runs, so the exceptions are sets of runs and the theorems
  hold of all the others while it happens. The invariant has three layers: `Base`
  holds of every run, with `Agreeing` for those whose row was told how the task
  ended; `Tracked` leaves out `hist.adrift` (a job RQ may still run has its id in the
  row or is being enqueued, and what a reconciler found gone is gone); and `ToBeRun`
  with `Single` leaves out the `Escaped` runs, those that are adrift or that the
  table says to be over too early (what RQ will run is active in the table, and only
  one run is). An escaped run can only be one more, never make another one wrong.

**Keys, paging, queue, walk and placements** (`MachineProofs`).

* `KeysStayContained` (`KeyContained`). `ScopeInv`: a live key and a live site have
  a tenant that exists, since a site keeps its tenant from being deleted and the
  keys go with it; a
  request that has passed its check still names a site of its own scope, because
  no operation moves a site to another tenant or makes it a pool source.
* `PagingNeverMisses` (`PagingMissesNothing`). `PagingInv`: before page n, every
  initial post among the first (n - 1) pages of the present list has been got.
  Publication only pushes posts back, hence onto pages still to come.
* `QueueAlwaysShownOnce` (`QueueShownOnce`). `QueueInv`: the listed rows are
  strictly descending, the cursor is the last of them, and a row that matched all
  the time is listed or below the cursor. `SortedRows` shows that the rank-based
  order of a finite set is a sort of it: ranks are distinct and below the
  cardinality, and an injection of a finite set into one of its size is onto.
* `WalksAreExact` (`WalkIsExact`). `WalkInv` is the breadth-first argument: a page
  is visited or waits, once (`WalkQueued`); the queue holds one distance and then
  the next, none nearer than a visited page (`WalkOrdered`), without which a page
  could be met first on a longer way; every known page is led to from a followed
  one a step nearer (`WalkLed`: no page beyond reach); the links of a followed page
  are known at no more than its distance plus one, unless something was refused
  (`WalkClosed`: no page in reach is missed, no distance too long); and seen plus
  waiting stays within the limit (`WalkBounded`). The links of one page are taken
  one at a time, so the invariant is carried through that loop as well
  (`LinksNear`). Shortest distances follow by induction over the distance.
* `PlacementsAlwaysAgree` (`PlacementsAgree`).
  `PlaceInv`: a question to the model carries the phrases of all the siblings it
  saw, also while rows are reviewed behind it (`AllAsked`; phrases never change
  once stored, which is the `WHERE` clause of `store`); a pass stores once
  (`OnePassEach`), so that rows bearing its number were answered together; and
  `AllApart` is the property with the siblings each row saw. Within a pass the
  argument is about the loop of `_generate_for_source`: each answer avoids all the
  earlier ones of its article.

**Functions for every input** (`MachineProofs`). These theorems state the operator
that the corresponding property of `algorithms` evaluates on small inputs, for all.

* `LinksAreWrittenOnce` (`EachLinkedOnce`, the operator of `LinkedOnce`): both
  `preview_links`, for every token sequence, well-formed or not. Inserting a link
  adds one link to its target and none to another, in the text or as a block; the
  loop keeps "each target so far is linked once, the others as at first". The
  links in the text stay within the limit unless the post came with more. Of the
  static one (`EachFoundLinkedOnce`): burying a link in markup neither makes nor
  breaks a link (`BuryKeeps`), so a target all of whose suggestions were lost that
  way is linked as often as at first, and every other one as it should be.
* `QueueFollowsPolicy` (`QueueSettled`, `SameGuards`; of `PolicySettled`), given that
  a page has one id and a row names a page, live or retired: what expires is what
  could not be offered if its page were live, and the rows that stay open and may
  not be offered name retired pages.
* `GapsAreFilledOnce` (`FilledOnce`, of `GapFilledOnce`). An address has one
  normalised form (`StoredOnce`), so that two spellings of a page, or a spelling
  and an address stored earlier, meet in the set of seen addresses; a slot goes to
  whoever has fewer than the open slots ahead of it, so that what is cut off is
  never better than what is kept.
* `PlacementsAreQuoted` (`Verbatim`, of `PlacementsVerbatim`): what `_verify` lets
  through is a slice of the shown text; folding case changes no position.
* `SimulationPredicts` (`Predicts`, of `SimulationExact`): the selection is sifted
  into new, repeated and foreign links, and the new ones are exactly the difference
  of the two graphs.

Loops are recursive functions over the prefixes of their input (`f[n]` from
`f[n - 1]`). The library's induction theorems cannot be instantiated by the
provers, so two lemmas replace them: `UpTo` is induction up to N for a *set* (by the
least counterexample, from the well-foundedness of `<`), and `Iterates` shows that a
function with the recursive equation exists, so that the `CHOOSE` behind a
recursive definition really satisfies it. A claim about a loop is then the claim
that a set of indices is all of 0..N.

Only model-checked, and why:

* `ApprovedIsResolved`, `EveryRunEnds`, `BatchEnds`: liveness under fairness is
  outside the prover.
* `SplicedInProse`: that in well-formed HTML the stack of open elements agrees with
  the elements really around a position is an induction over nesting, on a stack
  that `_prose_regions` cuts at arbitrary depth. (Its other half, the limit on links
  in the text, is in `LinksAreWrittenOnce`.)
* `RankingExact`: the order of fused and reranked candidates comes out of
  `SetToSortSeq` with an operator argument, as the key functions of the code's
  sorts differ from call to call; the provers cannot instantiate it.
* That a link which is lost (`LinkedOnce`) was lost at an occurrence of its anchor in
  the markup of the post as it came, not in what earlier links made of it.
* Of `SimulationExact`, what the route does around the simulation (which suggestion
  ids count as applied or skipped); of `PolicySettled`, the eligible pages counted
  per source.
* `TypeOK` of PublicationSystem: `PreviewLinks` renders the outcomes of an artifact
  next to its content, and none of the theorems needs their type; they use the
  shape they need instead.

## 5. Disagreements with the documentation

Two are runs that end in a counterexample.

* `undo_unbinds`: undoing a filtered review reaches rows of an approved plan.
* `lost_counters`: a publication run that is declared lost is terminal with the
  counters of its last checkpoint (`job_service.py:103`), which
  `publication_progress.py:12` and `docs/design/phase0-deferred-followups.md:20` say
  are reconciled.

Others are seen by changing a constant or two of a configuration, or by taking an
exception out of a property:

* `Suggestions = {1, 2}`, `Articles = {1, 2}`, `Row <- Pair`, `Workers = {w1}` and
  no edits or faults in `publish_workers.cfg`, with `NoMutualLinks`: a link and its
  reverse are both published when the first is approved but not yet applied while
  the second is prepared, although `grouped_batch` says that it "is the gate that
  stops the second from being rendered" (`publication_plan_service.py:152`).
* `TerminalMeansQuiet` in `pipeline.cfg`: retrying the only failed site leaves the
  batch `failed` while its site run is queued, because the change is not flushed
  before the batch is recomputed (`pipelines.py:340`, `db.py:7`;
  `docs/batch-pipeline.md:33` says that a batch ends "when no active site
  remains").
* `Suggestions = {1}`, `Row <- OneLink` and `Workers = {w1, w2}` in `publish.cfg`:
  `_handle_stale_plan` reads the plan unlocked and `mark_stale` writes it by
  primary key, so a second worker marks an applied plan stale, and
  `PlanLifecycle` fails (`publication_plan_service.py:815`).
* `AllowedFaults = {"api"}` in `jobs.cfg`: the API dies between enqueueing a job
  and storing its id, the next request declares the run lost while its job waits in
  the queue (`job_service.py:94`): `LostIsDead` without its exception `hist.adrift`
  fails, and a second job can then run beside the first. The same with
  `AllowedFaults = {"redis"}`.
* `KillLast = TRUE` in `pipeline.cfg`: a horse killed on its last attempt ends
  the job run but not the site run, which stays running, and `BatchEnds` fails
  (`tasks/pipeline.py:20`).
* `Reviewers = {v1}` in `undo_unbinds.cfg` in place of `Operations`: a review
  waiting for an approval uses the plan's old status, and `PostsOnlyWanted` fails
  (`routes/suggestions.py:270`).
* `External = {1}` and `PolicyEdits = {e1}` in `publish.cfg`: a policy update that
  waits for a publication expires the applied row, and `AppliedIsFinal` fails
  (`external_link_policy.py:425`).
* `OneBodyAtATime` without its exception `hist.loose` fails in `jobs.cfg`: a cancel
  fails the row of a running task although its stop command has not arrived
  (`routes/pipelines.py:263`), and the next trigger of the site is accepted while
  the body goes on; an error or a kill behind the success commit
  (`tasks/pipeline.py:76`, `job_service.py:388`) leaves a terminal row whose job RQ
  runs again beside a newly accepted one.
* `RecordsAgree` without its exception `hist.unrecorded` fails in `jobs.cfg`: a
  pipeline task that finds its site run cancelled returns before `run_durably`
  (`tasks/pipeline.py:53`, `:116`), so RQ has finished with a job whose row is still
  queued, until a listing or the next trigger declares it lost.
* `ProposedOnActive` in `content.cfg`: the ingestion lock's comment says that it is
  shared with `suggestion_service` (`ingestion_service.py:35`), which uses another
  key (`suggestion_service.py:38`): an analysis proposes a link to a page that a
  crawl has just retired.
* `LifetimeBound` in `analysis.cfg`: `config.py:95` calls the limit "a standing
  bound on how many links LinkMesh may ever add to one article"; a row that was
  rejected or failed is not counted and can be revised afterwards.
* `SnapshotShowsItsRun` in `analysis.cfg`: "one reproducible view" (`models/graph.py:20`)
  is read by three READ COMMITTED statements, and a crawl may commit between them.

Read off the models without a run of their own: the completeness check compares
with the last succeeded run, which may be a small partial import
(`crawl_snapshot.py:42`); a success resets a pool source's failures but not its
quarantine (`tasks/ingestion.py:44`), and a reactivation loaded before the failure
that quarantines leaves it quarantined with no failures; two admins who revoke
each other leave none; a client row and a pool row of one upload can meet another
request in a database deadlock, which ends one with an error
(`routes/sites.py:337`); `deterministic_rerank` in active mode sorts by cosine and
bonus, so the order is no longer BM25-first; the static preview takes the first
occurrence of an anchor, also inside an attribute or a comment, and reports a link
that no browser will show as inserted (`html_crawler.py:564`; the exception of
`LinkedOnce`); an external row whose page is retired passes the expiry, which does
not ask, and not the ranker, which does (`external_link_policy.py:407`, `:290`); a
failed pool crawl whose recording fails, or that ends in another error than a fetch
error, does not count towards quarantine (`tasks/ingestion.py:84`); a post
deleted while the API is paged through can hide another
(`PagingMissesNothing` speaks of the rest); adding a first domain to an allowlist
lowers the score of every other target; `get_suggestion_placement` says that a
second write replaces the first (`routes/suggestions.py:1245`), while the first
one stands, and two drawers on two links of an article can still choose the same
phrase.

`BatchAgrees` names one more: a killed ingestion that had already queued its
analysis fails as a duplicate of it on the next attempt; a cancel passes over the
failed row, and the analysis then makes it active again in a cancelled batch. A
cancel that read the batch just before it succeeded still cancels it
(`pipelines.py:280`); its site runs stay succeeded.

The runs in which these properties pass leave the actor out that breaks them:
`publish` has no reviewer in flight, no undo, one worker, no policy update and no
reverse pair, `pipeline` no kill of a last attempt. `ApprovedBytesOnly`, `Custody`
and `ExhaustedIsQuarantined` hold with all of them. `jobs` leaves out the faults
(API, Redis, handler, database), which `jobs_live` has and the theorems of
`JobsProofs` allow; cancels, early returns and errors behind a success are in both,
and the properties name the runs they except.

## 6. Not modelled, and what is left

* **Offline evaluation** (`services/evaluation_service.py`, `ml/evaluation/`):
  floating-point statistics over exported rows. **Embeddings, BM25 and cosine
  scores** are inputs of the ranking for the same reason.
* **HTML extraction, robots rules, feeds, byte limits and throttling**: what a
  request to the outside returns is a choice in SiteCrawl. Decompression and time
  limits appear as the outcome `abort`.
* **Alerts** are best effort and nothing depends on them; two first alerts of a
  kind can open two rows. **Traceability exports, listings and event streams**
  only read. **Configuration, schemas and wiring** keep no state.
* **The tenant's limit of active jobs** spans sites and tenants; DurableJobs has
  one site and keeps the refusal only. A reconciliation of another site can free
  a place between the count and the insert, never take one, since both happen
  under the tenant's lock.
* **Around a durable job**: the deletion of its site, which takes the row along; the
  lifetime of a finished job in Redis; and the interval in which a cancel has asked
  RQ for a job's status and not yet cancelled it (`routes/pipelines.py:255`), one
  step here (`CancelAsk`). A task that `run_durably` finds without a row is not
  modelled. The two job runs of one site run are of different kinds, so a module of
  one kind has one of them.
* **Row-lock order of preparation and approval** (`publication_plan_service.py:664`):
  locks are taken in one step here; PostgreSQL ends a cycle by aborting one side.
* **Two preparation jobs at once**: `publish.cfg` with `Preparers = {r1, r2}`,
  `Workers = {}`, no faults and `Spec` in place of `FairSpec` passes with
  `ApprovedPlanIsBound`; it is no run of its own, as the race of one preparation
  with an approval in `publish` exercises the same re-read.
* **Proofs left open**: the nesting half of `SplicedInProse` and `RankingExact`
  (section 4). A rank-based order as in Ordering would make the second provable at
  the price of stating each key function as a relation.
