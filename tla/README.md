# Verification of JobEngine and RoleRadar

TLA+ specifications of the parts of this repository that keep state other
parts rely on, TLC runs that check them on small instances, and TLAPS proofs of
what matters most for every value of the constants. `PROJECT.json` lists the
components, the runs, the source lines each definition stands for, the hazards
and the theorems. Source paths below are relative to the repository's root.

To run one check: `tlc -config <run>.cfg <module>`. To check the proofs:
`tlapm M.tla` for `M` each of `LedgerProofs`, `LoopProofs`, `TrackerProofs`,
`ServiceProofs`, `ReportsProofs`, `ServingProofs`, `RefreshProofs` and
`DecideProofs`. The largest, `LoopProofs`, `DecideProofs` and `ReportsProofs`,
take some minutes each.

## 1. Inventory

| Component | State it keeps | Operations | What is hard |
|---|---|---|---|
| **Decision and application loop**: `roleradar/store.py` under `roleradar/api_v2.py`, `roleradar/cli.py outcome` | `rr_decisions` (recommendations), `job_decisions`, `rr_applications`, `rr_application_events`, `rr_analytics_events` | save_decision(s), save_job_decision, update_job_decision, create_application, advance_application, record_outcome, emit_analytics | handlers on a thread pool, multi-statement transactions, row locks, unique indexes, retries, a legacy writer of the same tables |
| **Profiles, feedback**: `roleradar/store.py` 250-317, 788-825 | `rr_profiles`, `recommendation_feedback` | save_profile (get then insert or update), load_profile, save_feedback | three-valued answers through JSON, two concurrent first saves |
| **Decision pipeline**: `evidence.py`, `requirements.py`, `constraints.py`, `skills_match.py`, `ranking.py`, `decision.py`, `taxonomy.py` | none (pure) | extract, gate, score, rank, verdict | the order of a posting's lines, thresholds against caps, the cut of a ranking |
| **Explanations**: `explain.py`, `llm_client.py`, and the gateway before them, core-api's `RoleRadarController` | a directory of cached replies | complete_json (three vendors, retries), explain with verified citations and a deterministic fallback, forward with a timeout | a file cache without locks, provider errors, the retry budget, the gateway's patience |
| **Outcome evaluation**: `roleradar/outcomes.py` | none | scored_outcomes, furthest_stage, evaluate (nDCG, precision, lift, calibration, rank correlation) | events that keep arriving after a grade, ties, tiny samples |
| **Listing refresh**: `jobengine/fetch.py`, `normalize.py`, `build.py`, `aws_handlers.py`, `embeddings.py`, `infra/pipeline.tf` | raw files, `jobs`, `job_embeddings`, the SQS queue and its dead-letter queue | fetch, build, refresh_handler, embedding_handler, search_jobs | overlapping builds, at-least-once delivery, partial batch failures, cascades |
| **Tracker**: `jobengine/tracker.py`, `track_cli.py`, core-api's `ApplicationService`, `seed_demo.py` | `applications`, `status_events` | add, update_status, edit, delete, list, history | two services and a command line write one table |
| **Search service**: core-api's `SearchService`, `SearchQuery`, `RedisCacheConfig`, `CacheErrorConfig`, `JobSpecifications` | a Redis page cache over `jobs` | search, invalidate | stale fills, cache failures, paging arithmetic |
| **Rate limiter**: core-api's `RateLimitFilter` | a token bucket per client | doFilter | shared counters at their limit |
| **HTTP service**: `jobengine/api.py`, `auth.py`, `analytics.py`, `db.py` | connection pool, event loop, `users`, `api_events` | register, login, health, the observe middleware, the routes over the other components, the traffic summary | a pool at its limit, writes on the event loop, lost races, best-effort writes |
| **Listings**: `jobengine/normalize.py`, `build.py dedup`, `sponsor_index.py`, `query.py`, `api_v2.py _find_jobs`, core-api's `SearchQuery`, `JobSpecifications` | the best copy of each posting, the employers' index, `jobs` | dedup, from_seed, load_dol_csv, annotate, query, the pool of /rank, search, paging, summary | copies in any order, sources that contradict each other, limits at their boundaries, several queries that must add up |
| **User resolution, matching and reports**: core-api's `JwtUserResolver`, `MatchingService`, `DedupDiagnosticsService` | none | token checks, read-only reports | nothing concurrent |
| **Command-line helpers**: `match.py`, `semantic_match.py`, `tailor.py`, `metrics_audit.py`, `evaluation.py`, `llm.py` | none | reports | nothing concurrent |
| **Web client**: `web/` | browser state | pages over the APIs | outside the model |
| **Infrastructure, load tests**: `infra/`, `loadtest/` | - | - | configuration; the queue's settings are in Refresh |

How they interact. `/rank` and `/decide` score jobs with the pipeline and
append recommendations; the user's decision points at the newest of them; an
application pins the decision's (or, through the outcome log, the newest
earlier) recommendation; stage changes append events; the evaluation reads
events against the pinned predictions. The refresh replaces `jobs`, which
cascades to `job_embeddings`; the queue fills them again. Tables of the loop
hold job keys without a foreign key, so a refresh never touches them.

What makes each component correct:

- *loop*: the summary of an application follows its event history; histories
  obey the stage machine whatever requests race; the pinned prediction never
  changes, belongs to the same user and job, and was made before what it is
  graded against; retries never inflate the funnel; nobody waits for ever.
- *refresh*: the table is that of the last build; no active job silently lacks
  its embedding; no embedding without a job; the queue drains.
- *tracker*: the status is that of the last event; only the owner's rows change.
- *pipeline*: a failed hard constraint vetoes, a risk does not; a posting is read
  as strictly as any of its lines; no eligible posting stands behind a blocked one.
- *search service*: a page is served at most the time to live, and the time it
  took to store it, after a refresh replaced it; the cache may be lost.
- *rate limiter*: never more than the capacity at once and the refill over time.
- *explanations*: every failure ends in the deterministic text; at most the
  budgeted calls; no unverified quote; no words written for another prompt.
- *HTTP service*: what was confirmed is in the tables; an account that was
  confirmed can log in; no request waits for ever although everyone shares the
  pool and the event loop.
- *profiles*: what "not told us" means survives the columns: a profile is loaded
  as it was last saved, under the answers of the request.
- *listings*: one posting, one row, of its best copy; what an employer filed
  never outweighs what its posting says; a cut answer is the best of what
  matched; pages add up to the answer.
- *reports*: a metric is about what was recorded, not about the order in which a
  database returns it; ties and boundaries are counted once.

## 2. Modules

| Module | What it is |
|---|---|
| `Ledger` | abstract: applications that are opened and extended under the stage machine |
| `LedgerProofs` | its invariants, for every value of the constants |
| `Loop` | the loop, statement by statement; implements `Ledger` |
| `Evaluation` | what the evaluation of the ranking reads off the loop |
| `LoopProofs` | the loop's inductive invariant, the refinement, and what follows; that grades stand |
| `Refresh` | the refresh, the queue and its workers |
| `RefreshProofs` | its inductive invariant and what follows |
| `Tracker` | the tracker's two tables under both services and the command line |
| `TrackerProofs` | its inductive invariant and what follows |
| `Serving` | the rate limiter, the search and its page cache |
| `ServingProofs` | the rate bound and the staleness bound |
| `Service` | the Python API's requests over a bounded pool and one event loop; accounts, profiles, feedback |
| `ServiceProofs` | its inductive invariant and what follows |
| `Listings` | from the raw feeds over deduplication and the sponsor index to searches and pages |
| `Metrics` | the evaluation of the ranking and the rollup of the traffic, as operators |
| `ReportsProofs` | listings: types, deduplication, searches, cuts, pages; metrics: order, traffic |
| `Posting` | what is extracted from a posting: constraints and requirements (operators) |
| `Gate` | a posting scored against a candidate: gate, coverage, score, verdict (operators) |
| `Decide` | /decide and /rank over `Gate`: the ranking, the explanation by a model, its cache, retries and gateway |
| `DecideProofs` | what is read, scored, ranked and published, for any postings, candidates and replies |
| `MCLoop`, `MCRefresh`, `MCTracker`, `MCServing`, `MCDecide`, `MCService`, `MCReports` | instances for TLC; `MCReports` is of `Listings` and `Metrics`, each behaviour of one of them |

### Ledger

The ledger is a sequence of applications, each with its user, job, origin,
pinned prediction, stage, date of application and event history. `Open`
appends an application with one event, `Record` appends an event to one of
them and moves its summary. With `Lenient = FALSE` it is what
`advance_application` promises (`Advances`: rules 1 to 3 of store.py 600-656:
not "planned", not the current stage again, not out of a terminal stage); with
`Lenient = TRUE` it also admits what `record_outcome` does: any stage, at any
time. The user, job, origin and prediction of an application never change in
either. The ledger has no run of its own: the runs of `Loop` check it as what the
loop implements, and its properties of the loop's histories.

### Loop

One worker per request thread. `req[w]` holds where its request stands and
what it has read; a reading statement is one step, the writes of a transaction
with their commit are one step. Tables are functions and sequences: `recs`
(`rr_decisions` in id order), `jds` (`job_decisions` by its unique key), `apps`
(`rr_applications` with their `rr_application_events`). `moved` is a history
variable that counts the rows commits really changed, against which `emitted`,
the analytics rows, is compared.

| Code | Actions |
|---|---|
| `save_job_decision` | `BeginPostDecision` (looks up the newest recommendation), `PostDecisionSelect`, `PostDecisionUpdate` or `PostDecisionInsert` |
| `update_job_decision` | `BeginPatchDecision`, `PatchDecisionSelect`, `PatchDecisionWrite` |
| `create_application` | `BeginCreate`, `CreateReadDecision`, `CreateReadExisting`, `CreateInsert` |
| `advance_application` | `BeginAdvance` (takes the time), `AdvanceLock` (SELECT ... FOR UPDATE), `AdvanceWrite` |
| `record_outcome` | `BeginOutcome`, `OutcomeLock` (the users row), `OutcomeSelect`, `OutcomeInsert` or `OutcomeUpdate` |
| `emit_analytics` | `EmitAnalytics`, in its own transaction after the commit |
| `save_decision(s)` | `SaveRecommendations` |
| a refused request, a lost connection or crash | `Refuse`, `Abort` |

Locks are read off the position of their holder (`AppLocked`, `UserLocked`).
An insert into `rr_decisions`, `job_decisions` or `rr_applications` takes a share
lock on the users row it references, so it waits for `record_outcome`.
`rr_analytics_events` has no foreign key (store.py:220-226), so its insert waits
for nobody. `RowLocks = FALSE` stands for SQLite, where FOR
UPDATE compiles to nothing.

### Evaluation

Operators on the loop's tables: `ScoredOutcomes` pairs the prediction an
application is pinned to with the deepest stage of its history, for the jobs
that were answered. What is computed over those pairs is in `Metrics`.
`GradeStands` says that no step of the loop takes back a grade.

### Refresh

Each run of `refresh_handler` (`Runs`) or of `jobengine build --embed`
(`Builds`) moves through `run[r].step`: `Fetch`, `BuildDelete` (the snapshot
DELETE FROM jobs works on), `BuildCommit` (insert and commit; `Collides` is the
primary key, `Cascade` the foreign key of `job_embeddings`), then `ReadRows`,
`SendChunk` and `Finish`, or `EmbedAll`. `Fail` is an exception or timeout at
any point. The queue is a set of messages with a receive count; a worker's
batch has messages to do, done and failed. `Receive`, `Embed`, `EmbedFails`,
`Return` (partial batch response), `LoseBatch`, `Redeliver`, `Park` and
`Expire` follow `embedding_handler` and the settings of `infra/pipeline.tf`. A
listing is a text to embed, `Closed` (inactive or hidden) or `Absent`; a fetch
finds any file, because nothing relates what two fetches find upstream.

### Tracker

`apps` is the table by id, `events[id]` the history of a row in `event_id`
order. Creation, edit, deletion and core-api's status change are one step: each
is one transaction whose first statement takes the lock of the row. Python's
`update_status` is two, `UpdateSelect` and `UpdateWrite`, because its SELECT
takes no lock; anything may happen between them, and `UpdateFails` is its
rollback. `answer` is the last answer, and so says whose step it was.

| Code | Actions |
|---|---|
| `tracker.add`, `ApplicationService.create` | `Add` |
| `tracker.edit`, `tracker.delete`, `ApplicationService.delete` | `Edit`, `Delete` |
| `tracker.update_status` | `UpdateSelect`, `UpdateWrite`, `UpdateFails` |
| `ApplicationService.updateStatus` | `JavaUpdate` |

Times are left out: nothing the properties say depends on them (see section 5
for what depends on them in the code). Ids come from a sequence, as on
PostgreSQL.

### Serving

Time is counted in ticks; a bucket is kept in ticks' worth of refill, which is
how a greedy refill of part of a token is exact. `Admit`, `Throttle` and `Refuse` are the filter; an admitted search goes
through `Lookup`, `Query` and `Store` on its servlet thread, each a step,
because the cache and the database are remote. A page is known by the version
of the table it was read from; `Refresh` makes a new version. `passed` and
`before` are history variables: how many requests of a client passed, and how
many had passed at each earlier tick.

### Service

A request moves through units of work, `at[w].unit`: `schema` (`init_db`),
`register`, `login`, `save`, `load`, `rate`, `probe`, then `emit` (the analytics
event of a feedback), `respond` (the answer has reached the middleware) and
`record` (its row in `api_events`). A unit that uses the database waits for a
connection (`Checkout`, or `PoolTimeout` after pool_timeout), holds it
(`at[w].held`) and gives it back whichever way it ends. A unit that checks
before it writes reads at its checkout (`at[w].seen`) and writes and commits
when it ends: two requests may both have read before either writes, which is
what the unique indexes are for. `acked` and `saved` are history variables: the
registrations answered 201, and each user's last committed profile.

| Code | Actions |
|---|---|
| `pool_settings`, `ENGINE.begin()`, `ENGINE.connect()` | `Checkout`, `PoolTimeout` |
| an exception: rolled back; a 500 past the middleware, or swallowed by an analytics write | `Fails`, `Crash` |
| POST /api/auth/register, /login | `InitDb`, `RegisterRefuses`, `RegisterInserts`, `Login` |
| POST /profile, GET /profile, POST /decide without a resume | `SaveProfile`, `LoadProfile` |
| POST /recommendations/.../feedback | `SaveFeedback`, `EmitAnalytics` |
| GET /api/health | `Health` |
| `observe` | `Begin`, `Observe`, `Record` |

The middleware is a coroutine that calls `analytics.record` without a thread:
while one request is in `record`, the event loop takes up no other and passes
on no answer (`LoopFree`). Routes over the tracker, the listings and the loop
are those modules' actions.

### Listings

The build as a state machine: `Collapse` takes one record of the feeds and keeps
the better of two copies (`Newer`), `SeedIndex`, `CountFiling` and `LoadDolCsv`
make the employers' index, `Annotate` rates what was kept and writes the table.
The answers are actions over the finished table: `GetJobs` (GET /api/jobs and
`jobengine query`), `FindJobs` (the postings POST /rank scores), `OpenSearch` and
`NextPage` (a client that pages through core-api's search, each page a query of
its own). Rows equal under a sort come in any order (`Orders`). A record is known
by its posting and the fields that decide something; of its text, by which of
the searched words it contains.

### Metrics

`GetEvaluation` and `AnalyticsSummary` compute a report of one sample and of one
window. Ratios are ten-thousandths, as the code rounds them. The logarithms of
nDCG are a constant (`Discounts`), of which the properties use only that it
falls by more than rounding hides (`FineDiscounts`); of the rank correlation the covariance and the variances are computed and the square root
is left out. The properties compare each operator with a definition that does not share
its loop: a percentile by counting, ranks by counting, the bins by their bounds.

### Posting, Gate, Decide

A line of a posting is known by what the scanner's patterns find in it (the
section it opens, its tone, its skills, the constraints it states), a resume by
its units of evidence and the skills each names or implies. From there on the
operators are the code's: `FindConstraints` and `FindRequirements` scan the
lines in order, `Evaluate` gives each constraint its verdict, `CoverAll` each
requirement its score and citations, `ScoreOf` and `VerdictOf` the decision.
Fractions are ten-thousandths, the precision the code rounds to.

| Code | Operators and actions |
|---|---|
| `find_constraints`, `find_requirements`, `extract_requirements` | `FirstAsks`, `FindConstraints`, `ScanLine`, `MergeAsks`, `FindRequirements`, `Constraints` |
| `constraints.evaluate`, `risk_penalty` | `StatusOf`, `Evaluate`, `RiskPenalty` |
| `skills_match` | `Scored`, `Cited`, `CoverRequirement`, `Average`, `Gaps`, `Strengths` |
| `ranking`, `decide_prepared`, `decide_many` | `SeniorityFit`, `ScoreOf`, `VerdictOf`, `DecidePrepared`, `DecideMany` |
| POST /decide, POST /rank | `DecidePlain`, `DecideExplained`, `RankPool` |
| `llm_client.complete` | `CacheHit`, `CacheMiss`, then `Replied`, `GivesUp`, `Fails` (with its pause and its next attempt) or `Raises`, then `Store` |
| `explain`, `validate_grounding` | `Context`, `ShownEvidence`, `Explanation`, `ValidateGrounding` |
| `RoleRadarController.forward` | `Called`: the client of a request that has waited for the gateway's patience is told 504; the worker goes on |

`cache` is the directory of files, one step for a lookup and one for a write
between which other requests run; a file two requests write, or one cut short,
does not parse and counts as absent. `replied` is a history variable: what the
provider replied to which prompt. Saving the recommendation is `Loop`'s
`SaveRecommendations`.

## 3. Runs

| Run | Question | Properties | Result |
|---|---|---|---|
| `loop_api` | PostgreSQL, decision/application API: do races, retries and aborts keep the stage machine, the applied date, the funnel and the ledger's promise? | LegalHistory, AppliedOnce, FunnelNotInflated, ImplementsLedger | hold |
| `loop_outcomes` | with the outcome log and the command line as further writers: the inductive invariant of the proofs, the summary follows the history, the pinned prediction is the user's own and not made in hindsight, a grade stands, and every request is answered under the lock orders of the code | LoopInv, StageIsLastEvent, HonestPrediction, GradeStands, EveryRequestIsAnswered | hold |
| `refresh` | two overlapping builds, two workers, a queue that delays, refuses, duplicates, fails, parks and expires: is the table the last build's, is no job silently left without an embedding, does the queue drain? | NoSilentGap, EmbeddingHasJob, LastBuildServed, QueueDrains | hold |
| `tracker` | both services, two accounts, the command line: does the status follow the history, does a deletion orphan nothing, does nobody touch another's rows? | StatusIsLastEvent, NoOrphanEvents, OwnRowsOnly | hold |
| `serving` | concurrent searches, a refresh, Redis coming and going: is every client bounded in every interval, is no page served too late? | RateBounded, StaleAtMostTTL | hold |
| `service` | three requests over a pool of two connections, lost races, failing statements, pool timeouts: does what was confirmed stay, can who registered log in, do profiles survive, is every request answered? | AckIsDurable, RegisteredCanLogin, ProfileSurvives, EveryRequestIsAnswered | hold |
| `reports` | feeds with copies and contradictions, filings, searches, cuts and pages; samples and traffic: is what is shown, counted and reported what the inputs say? | KeepsBestCopy, SearchAgrees, CutKeepsBest, PagesPartition, OrderFree, EvaluationAgrees, TrafficAgrees | hold |
| `decide` | two requests at once, plain, explained through a shared cache, or ranked: is what a model says grounded and written for this prompt, are calls within budget, are postings read strictly, do eligible ones come first, is every request answered? | TypeOK, Grounded, OwnWords, CallBudget, SponsorDeadEnd, StrictestReading, RisksNeverVeto, MoreEvidenceNeverHurts, EligibleFirst, EveryRequestIsAnswered | hold |
| `loop_link` | "an already-linked one is never overwritten" (store.py:433) | LinkFrozen | violated: two posts that both read NULL |
| `serving_redis` | "losing Redis costs latency and nothing else" (CacheErrorConfig.java:16) | RedisLossIsHarmless | violated: SearchService calls the cache itself, where the error handler does not apply |
| `decide_raises` | "Every entry point returns `None` instead of raising when there is [...] a malformed body" (llm_client.py:5-7) | NeverRaises | violated: a body that is JSON of another shape makes `_parse` raise what `complete` (llm_client.py:190) does not catch |
| `listings_agency` | "Staffing agencies are tagged so query.py can exclude them by default" (sponsor_index.py:39-41) | AgenciesHidden | violated: `load_dol_csv` (sponsor_index.py:93) replaces the whole entry of an employer that has certified filings, and with it the tag |

### Bounds

- *Loop*: one user, one job, two workers. Two workers give every pair of
  requests each interleaving, and the user and job of a row are only compared
  for equality; the command line (`Cli`) is a second owner of rows. Five
  requests are enough for a decision, a creation and three stage changes, which
  is a history from `planned` into a terminal stage with a racing request on
  top. `StageInputs` holds `applied` (the date rule), an intermediate and a
  terminal stage. Two seconds order a scoring before or after an event. With
  the outcome log (`loop_outcomes`) three requests suffice, one to open and two
  to race. `MaxRecs` is 1 where the properties are about predictions, so that one
  comes before or after a request, and 0 in `loop_api`, whose properties do not
  look at them. Workers are symmetric except in `loop_outcomes`,
  which checks liveness.
- *Refresh*: two listings for one run and one build (rows that collide and rows
  that stay beside another build's need two keys), two workers, a receive limit
  of 2 where the queue has 3: one delivery that fails and one that parks.
  Chunks are of 1 and batches of 2 messages: what matters is that one chunk
  succeeds and the next fails, and that a batch has messages that succeed and
  fail. CHECK_DEADLOCK is off because the runs are a finite set: the system
  stops when all have ended.
- *Tracker*: two accounts (every other one is like the second), two workers, two
  ids, so that a row is deleted and another created behind a status change in
  progress; two statuses tell the old from the new. Three events in a history:
  the first and two racing changes.
- *Serving*: two threads and one query: two readers race to store. One client,
  since buckets share nothing. A bucket of two tokens with half a token a tick
  and five ticks is emptied, refills in part, and reaches its cap. The time to
  live of two ticks ends within the run.
- *Service*: three requests of any kind over a pool of two, so that one always
  finds it exhausted while two race; that many workers, too. One e-mail address,
  two passwords: what two registrations can disagree about. Two user ids, one
  taken from the start or none: both the first registration and one that comes
  too late. One recommendation, of user 1. Four bodies: nothing said (as in GET
  /profile and a /decide that leaves all to the profile), "yes" and "no" the two
  ways round with one field left out, and explicit nulls; so every value of a
  column is stored, read back and not overridden by the request. Deadlock is not checked because
  the requests are bounded: the system stops when they have been answered.
- *Listings* (in `reports`): feeds of three copies spread over two postings in
  every order, open or closed, of two dates; every kind of odd posting beside a
  plain one of each of three employers (one curated, one an agency, one
  unknown), with no filings, with denied and certified ones, and with an agency
  that files; five postings, two of them of one second or none. `MAX_LIMIT` 3
  and `DEFAULT_LIMIT` 2 are below the five postings as 200 and the default are
  below the table; limits asked for are none, zero, one, two and above the
  maximum. One answer ends a behaviour, so deadlock is not checked.
- *Metrics* (in `reports`): every sample of two and four outcomes over three
  scores and three relevances, which has ties within and between them, and the
  empty one; cutoffs of two and four, minimum of two. Traffic of at most two
  requests of every kind, and of 19, 20, 21, 100 and 101 requests, where the
  rounding of the percentiles' index turns, with up to three slow ones.
- *Decide*: two of three requests run: two that ask a model, so that they share
  the cache, or one of them beside a plain or ranked one. The plain one scores
  every posting: two lines of every kind in either order, under a header or
  not (tone against section, a disjunction, a skill named twice), contradictory
  constraints with and without the employer's tier and locations, and three
  made to sit at a threshold. Three candidates answer the profile's questions
  yes, no and not at all. `Pools` are the rankings of three of four postings in
  every order, cut to one or two. One posting is explained (`Explained`); two
  of the candidates may have it explained and for one it is a dead end.
  `Replies` are sets of claims: none, sound, with an invented number, with an
  unknown or no citation. Retries, timeout and patience have the code's
  defaults. The cache is on, as when ROLERADAR_LLM_CACHE is set. The limits on
  what a prompt shows (6 rows of a kind, 14 units) are above the instance's
  sizes. `Ratio` rounds half up where Python rounds half to even, which changes
  the last of four digits at most. Time is that of calls that answer at once or hang:
  `urlopen` bounds each wait for data, not the whole answer, so a provider that
  drips bytes holds a request longer than `CallBudget` says.

### Fairness

- `Loop!FairSpec`: weak fairness of each worker's next statement. Request
  threads are scheduled by the operating system, and PostgreSQL grants a lock
  that is free to a waiting transaction. Weak fairness is enough because a lock
  is held for a bounded number of steps and its queue is first come, first
  served; the bounded number of requests stands for that queue. No fairness is
  assumed of arrivals, saves, aborts or the clock.
- `Refresh!FairSpec`: Lambda polls the queue and an invocation ends (by its
  answer or its timeout), and SQS moves a message that is due. Nothing is
  assumed of runs, of success, or of expiry: messages drain even if every
  embedding fails for ever.
- `Service!FairSpec`: weak fairness of each request's next step: threads are
  scheduled, a statement ends, and pool_timeout ends a wait for a connection
  that nobody gives back. The event loop is free again after each record.
- `Decide!FairSpec`: weak fairness of what a request's thread does next: it is
  scheduled, and a call of the provider ends, by its answer or its timeout.
  Nothing is assumed of what the provider answers.

## 4. Proofs

`LedgerProofs` proves that the ledger's histories are well formed
(`LedgerType`), that the stage is that of the last event (`LedgerStage`), that
strict histories obey the stage machine (`LedgerLegal`) and that in them the
applied date is that of the first "applied" event (`LedgerAppliedOnce`, which
also names what it needs of the constants, `LedgerAssumption`), for any number
of users, jobs, events and dates.

`LoopProofs` proves, for any number of users, jobs, workers and requests:

1. `LoopInvariant`: `LoopInv` is inductive. `TypeOK` alone is not: `AdvanceWrite`
   applies to row `req[w].app` a stage and a date read earlier. `RequestOK`
   says that what a request remembers still exists (no statement of the loop
   deletes a row), and `LockOK` that, with row locks, at most one request is
   between AdvanceLock and AdvanceWrite of an application and that what it read
   is still true.
2. `LoopImplementsLedger`: each step of the loop is a step of the ledger or
   leaves it unchanged (lemmas `CreateImplements`, `OutcomeInsertImplements`,
   `RecordImplements`, `StepImplements`). It assumes RowLocks or Legacy:
   without locks the strict ledger is not implemented.
3. `LoopStage` (RowLocks or Legacy), `LoopLegal` and `LoopAppliedOnce` (RowLocks
   and not Legacy, as in `loop_api`) then follow from the theorems about the
   ledger; the loop discharges `LedgerAssumption` from its own.
4. `LoopHonestPrediction`: from the invariant `PredictionInv`. What a row is
   pinned to was looked up some statements earlier, so it says of each request
   that remembers a recommendation (`Remembers`) that it is the user's own, of
   the job and not of the future, and of each row (`PinOK`) that its pin was.
5. `LoopFunnelNotInflated` (RowLocks): the analytics rows plus those that
   requests between their commit and their emission still owe (`Emitting`) are
   at most the rows moved. Needs `LockOK`: it is the lock that makes a request
   that lost a race see the change and emit nothing.
6. `LoopGradeStands`, an action property, for any requests and without row locks.
   Its premise is that every commit only extends the list of applications: each
   row keeps its owner, job and pin, and its history only grows (`Grown`). From there the argument is about the operators of `Evaluation`: the stages told of a
   job are those of its applications' histories, the deepest of more stages is no
   shallower, a job once answered stays answered, and the application a grade is
   read from stays the first of its job.

The assumptions are `LoopAssumption` (a command line that is not a user, at
least one and finitely many jobs, finitely many workers, inputs within the
declared sets) and the
configuration each theorem names. RowLocks is what PostgreSQL provides; SQLite
is outside those that name it.

`TrackerProofs` proves `TrackerInv` inductive for any number of accounts, ids,
events and workers, from `TrackerAssumption`. `StatusIsLastEvent` is not
inductive alone: `UpdateWrite` inserts its event whether or not its UPDATE found
the row. `RequestOwned` closes the gap: the row a status change has selected is
still its caller's or is gone (ids are not given twice), and if it is gone the
foreign key refuses the event. `TrackerStatus`, `TrackerNoOrphans` and the
action property `TrackerOwnRows` follow.

`ServiceProofs` proves `ServiceInv` inductive for any users, bodies, pool and
number of requests, from `ServiceAssumption`. It is a conjunction of `TablesInv`
(e-mails are unique, what was confirmed has its row, each profile's row is the
encoding of its last committed save) and of `WorkerGood` for each request (an
answer of 201 has its row, and a login that knew of its account at its start is
not refused). `AckIsDurable` and `RegisteredCanLogin` are parts of it;
`ProfileSurvives`, an action property, follows.

`RefreshProofs` proves `RefreshInv`, for any feeds, runs, workers and limits of
the queue. `NoSilentGap` says something only of finished runs; what makes it
hold is what each run still going has sent so far (`RunOK`: each row it wrote is
covered or still to be sent), that only runs that have committed sent anything
(`WasSent`), and that what a worker counts as done has its embedding unless the
row was replaced (`Embedded`). `EmbeddingHasJob` and `LastBuildServed`
are parts of the invariant.

`ServingProofs` proves `RateBounded` from `Balanced` (for every earlier tick,
what has passed since and what is left in the bucket is at most a full bucket and
the refill of the time between) and `StaleAtMostTTL` from `StaleInv`, which
says of every page a search or a cache entry holds that it was the current one
when it was read, and of an entry that it was stored after that.

`ReportsProofs` is about both halves of `MCReports`. For the listings it assumes
`ListingsAssumption` (tiers, filings and queries of the shapes the code parses;
a query may search for any words) and proves, for feeds, filings and tables of
any size:

1. the types (`ListingsType`), and that what is kept of a posting is the first of
   its best copies (`KeepsFirst`), which is more than `KeepsBestCopy` says: it
   names the copy, and so what a search may show;
2. `ListingsSearchAgrees`: the table is the kept copies with their ratings
   (`TableInv`), each answer is of that table under its own filters (`ViewInv`),
   and no layer of the index makes an employer rule sponsorship out by itself, so
   that only what the copy states does;
3. `ListingsCutKeepsBest`: what is cut off would have come after what is shown
   (`CutInv`);
4. `ListingsPagesPartition`: with distinct dates a set of rows has one order
   (`OneOrder`), the pages seen so far are a prefix of it as long as the offset
   (`PageInv`), and the last page ends it.

For the metrics it assumes `MetricsAssumption` (samples are sequences of
outcomes, traffic is a sequence of events, discounts are positive, reach the
cutoffs and fall by more than rounding hides) and proves, for
samples and traffic of any length, from `ReportInv` (a report is that of the rows
as they are):

5. `MetricsTrafficAgrees`: the place a row takes in a sort is the number of rows
   before it, no two take the same, and so a percentile is the least duration
   that its share of the requests did not exceed; the rows of the routes count
   every request once;
6. `MetricsOrderFree`: exchanging two neighbours of different scores leaves the
   place each takes in the ranking, and all metrics are of that ranking;
7. `MetricsRanking`: nDCG rewards the order and ties share their ranks
   (`NdcgRewardsOrder`, `TiesShareRanks`), and `MetricsEvaluationAgrees`: so does the
   calibration what it says (`EvaluationAgrees`), for samples of fewer than ten
   thousand outcomes (`FewOutcomes`).

`EvaluationAgrees` takes three arguments. *nDCG.* A list that holds as much
relevance as another in its first places, for every number of them, counts as
much, and more by at least one step of the discounts where it holds strictly more
(`Weighing`: summation by parts). The ideal order leads every other in that sense
(`IdealLeads`: compare what the first places hold above the value the ideal has at the
last of them), and so does a list with the better of two neighbours moved up
(`PrefixSwapped`). That 1 is reached by the ideal order only survives rounding because of
`FineDiscounts`: for the code's 1/log2(i + 1) and cutoffs 5 and 10 the least step is
0.0120, and half a ten-thousandth of the most that ten outcomes count is 0.0011.
*Ranks.* The run of a value starts after all the lesser ones and is as long as
there are equals (`RunIs`), and the covariance is bounded by Cauchy's
inequality, one place at a time (`Cauchy`). *Bins.* They are disjoint and each
outcome has one, so their sizes add up (`BinsAddUp`). The property reads the
positives of a bin back from its rounded rate, which is exact below ten thousand outcomes
(`RateSaysHowMany`): hence `FewOutcomes`, a bound of this reading and not of the code.

`DecideProofs` has two parts, both from `DecideAssumption`: of a posting each line
holds finitely many skills, constraints and years, its similarity is a fraction
(`ranking.semantic_similarity` clamps it) and its seniority one the taxonomy knows;
of a resume the ids of its units are ordered; the rows of a search have distinct
primary keys. Companies and ids are naturals, which stand for ordered strings.

*Explanations*, under `FewRetries` (at most three; the code has two), because the
provers know powers of two only one by one. `ExplainInv` says of every request its
type, that its decision is that of its posting and candidate, that calls and
seconds are within the budget of its attempt, that what it holds of a reply was
replied to its own prompt (`Quoted`), and of the cache (`CacheInv`) that each file
holds what the provider said of its key. `Grounded`, `OwnWords` and `CallBudget`
follow for any requests, postings and replies, and `SponsorDeadEnd` for postings
of any length, from the fact that a constraint once asked for by some line has a
first such line.

*Scoring*, without that bound. `ShapeInv` is inductive: a request that is served
holds a decision or a ranking that the pipeline computes for its own candidate
from the rows it was given. What the pipeline computes is then shown for any
posting and resume: the scan of the lines is a function of how many were read, and
what it has collected is the strictest of what they asked (`ScanAgrees`, then
`StrictestReading`); more units only raise the score of each requirement
(`RowGrows`) and so the average (`AverageGrows`, then `MoreEvidenceNeverHurts`);
full coverage averages to full, and the penalty of risks is
capped below what would cross a threshold (`PerfectApplies`, then
`RisksNeverVeto`); every score is a fraction (`ScoreIsShare`, then `TypeOK`); and the
place of a row in a ranking is how many come before it, which is a total order
because keys are distinct (`RankingIsFair`, then `EligibleFirst`).

The type invariants of Ledger, Loop (in `LoopInv`), Tracker, Service, Listings,
Serving, Refresh and Decide are proved; only Decide's is also an invariant of a run.

*Induction.* The sums, scans and sorts of these proofs are over data of any
size. Since an induction theorem that takes a property as an operator is of no use
to the provers, the lemmas `SubsetInduction`, `LeastNatural` and
`NaturalInduction` take the *set* of what has the property, and follow from
`WFMin` over strict subsets of a finite set or over the naturals. Folds of the
community modules expand to a CHOOSE of a function; that it exists is shown
first (`SumExists`, `ScanExists`, `ListingExists`).

*Only model-checked.* Liveness under fairness (`EveryRequestIsAnswered`,
`QueueDrains`) is outside the prover. Every safety invariant and action property
of the passing runs is a theorem.

## 5. Not modelled, and known deviations without a run

- `delete_outcomes` (no caller); `list_*` and `history`, which only read.
- How a name, title or URL is normalised to the key that deduplication compares,
  the embedding function, the wording of explanations, the web client.
- Password hashing, the tokens' signatures and expiry, pool_recycle and
  pool_pre_ping: libraries behind one call each.
- core-api's user resolution, matching and reports; the command-line helpers:
  they read what others wrote and keep nothing.
- The regular expressions and the taxonomy that find skills and constraints in
  text, `confidence_of`, the text embedding (its similarity is an input).
- *Duplicate decision events.* Two identical decision posts at once both find a
  change in the row they read, and both emit an analytics event;
  store.py:424-425 promises one. `FunnelNotInflated` is therefore stated for
  creations and stage changes only.
- *An application born of an edited decision.* `create_application` reads the
  decision and inserts in two statements; a PATCH to SKIP may run between.
- *A terminal stage is not final.* docs/roleradar.md:337-338 says that a terminal
  stage "can never be advanced past"; POST /outcomes moves an application out
  of one. This is why the abstract ledger has `Lenient`.
- *"planned" again.* POST /outcomes accepts "planned" for an application that
  has left it. `LegalHistory` is stated without the outcome log.
- *The printed prediction.* `roleradar outcome add` prints the latest decision as
  the linked prediction (cli.py:216-220), which need not be the pinned one.
- *SQLite.* Without row locks two stage changes may both append; the runs and
  theorems about histories assume RowLocks.
- *A stale embedding.* A message of an earlier refresh that is retried late
  writes its own text over a newer one; the next refresh repairs it.
- *The history's order.* Both services take an event's time before they wait for
  the row's lock, and `history()` sorts by it: of two concurrent changes the
  history may end in the one that lost. In `event_id` order, the model's, it ends
  in the current status.
- *Reused ids.* SQLite gives an `app_id` again after the last row is deleted
  (tracker.py:128), so `RequestOwned` does not hold there.
- *invalidate().* SearchService.java:115 says the pipeline calls it after a
  refresh; nothing does. `StaleAtMostTTL` is what remains.
- *Paging.* `offset / limit` rounds an offset down to a multiple of the limit, an
  offset past a partial last page returns that page again, a client that asks
  for more than 200 and steps by what it asked skips rows, and postings of one
  second have no order between pages. `PagesPartition` is of the client that
  steps by the size of a page, and of distinct dates.
- *Two disjoint builds at once* leave rows of both in the table; each row's run
  still embeds it.
- *A concurrent creation.* The second of two `create_application` at once meets the
  unique index and answers 500 (store.py:552); store.py:522-523 says a retry
  "returns the existing application rather than erroring". Likewise for two first
  saves of a profile ("race window is irrelevant"), two feedbacks and two
  registrations of one address, where a 400 was meant. Rows whose user is NULL
  are exempt from these indexes.
- *A provider's malformed answer* has a run, `decide_raises`. The action `Raises`
  stands for TypeError, AttributeError and IncompleteRead, which llm_client.py:190
  does not catch; Decide's `EveryRequestIsAnswered` is about requests that no such
  exception ends.
- *Taken as given.* A transaction is undone whole: the row of an application and
  its event are one step, so that a crash between the two inserts (store.py:552)
  cannot be seen. A connection goes back to its pool whichever way a `with` block
  is left. A bucket's tokens are taken atomically (Bucket4j): `Admit` is one step,
  and `RateBounded` is about the arithmetic of refill and cap in every order of
  requests, not about threads inside a bucket.
- *A row without locations* stores the text "[]", which is truthy
  (requirements.py:393) and so becomes an on-site constraint. In the model such a
  row has one place, of that name; only a pasted posting has none. The instance
  has postings with no place and with one.
- *The gateway's patience.* It is 30 s, that of one of three attempts
  (RoleRadarController:31): the client of a provider that hangs is told 504,
  where llm_client.py:8-10 says that an outage degrades the answer "never to
  'down'", and the worker goes on with the calls.
- *Requests that are not counted.* An exception passes `observe` by, so no
  `api_events` row is written, although db.py:184 says "One row per HTTP
  request" and the error rate counts statuses from 500.
- *Analytics on the event loop.* `analytics.record` runs on it and may wait for a
  connection; db.py:188-190 says that it "never blocks or fails a user
  request". A request may also wait pool_timeout several times, once for each of
  its units; db.py:48-49 says it "waits at most this long".
- *A token outlives its user*: `decode_token` does not look the user up.
- *A hidden copy.* `dedup` does not look at `is_visible`: a newer hidden copy of a
  posting hides its visible one.
- *Excluded tiers.* core-api's search and POST /rank show postings that rule
  sponsorship out, and agencies, unless the caller filters; only
  `query.query` leaves them out. A negative `max` drops rows from the end.
- *Lift of everything* may be 0.9999: the precision is rounded before the
  division. Equal scores are evaluated in the order the database returns them
  (`OrderFree` is stated for distinct neighbours).
- *Unbounded buckets.* RateLimitFilter:48 keeps a bucket for each address ever
  seen.
- *An unlisted status.* `tracker.add` lets the API create an application with any
  status, and `update_status` (tracker.py:121) then refuses every change of it;
  docs/database.md:137-140 says transitions are "flagged, not enforced".
- *Furthest "planned".* Of an application that was planned, applied and rejected
  `furthest_stage` answers "planned", the first of its stages of no relevance;
  its docstring says "deepest funnel stage", and "planned" is none.
- *The seniority filter.* JobSpecifications.java:74-76 says the pipeline stores
  intern/newgrad as the category; normalize.py:114 stores those as
  `source_repo`, so that core-api's filter compares the wrong column.
- *Retry-After.* RateLimitFilter.java:109 rounds the wait down to whole seconds:
  a client that waits that long may be throttled again.
- *Work authorization.* `_work_auth` answers "ok" when the profile does not say
  whether sponsorship is needed; constraints.py:15 says "`unknown` is never
  silently promoted to `ok`".
- *Title skills.* A skill of the title that a line names as preferred stays
  preferred; requirements.py:310-311 calls title skills requirements.
- *"Remote or hybrid".* Such a line yields both location constraints, and the
  on-site one may block although the remote one is met.
- *The average's example.* ranking.py:42-45 explains `APPLY_MIN_REQUIRED` with nine
  requirements at 0.9 and one at 0.0, which average 0.81 and pass it.
- *Retried classes.* `complete` also retries a body without the expected fields;
  its docstring says only 429, 5xx and socket errors are.
- *A useless reply is cached* before it is parsed or validated, so the model is
  not asked again for that prompt.

## 6. Plan

1. (done) Ledger, Loop and Evaluation: runs, refinement, theorems.
2. (done) Refresh: run, inductive invariant, theorems.
3. (done) Tracker: run, theorems.
4. (done) Serving: runs, both bounds proved.
5. (done) Posting, Gate and Decide: run, theorems about what is published.
6. (done) Service: accounts, profiles, feedback, pool; run, theorems.
7. (done) Listings and Metrics: run, theorems.
8. (done) Proofs over folds, scans and sorts: `GradeStands`, the scoring half of
   Decide, `SearchAgrees`, `PagesPartition`, `TrafficAgrees`, `OrderFree`.
9. (done) `EvaluationAgrees`: nDCG, calibration and rank correlation as theorems.
10. Left: what section 5 lists.
