------------------------------- MODULE Serving -------------------------------
(***************************************************************************)
(* A public search through core-api: RateLimitFilter, then SearchService   *)
(* with its Redis page cache over the jobs table that the refresh replaces.*)
(*                                                                         *)
(* Requests run on servlet threads (Workers).  What is shared is the map   *)
(* of token buckets, each updated atomically, the cache and the table; the *)
(* cache lookup, the query and the cache store of one search are separate  *)
(* steps.  Time is counted in ticks: a bucket gains one token every        *)
(* TokenTicks ticks, continuously.                                         *)
(***************************************************************************)
EXTENDS Naturals

CONSTANTS Clients,      \* identities: API keys and client addresses
          Queries,      \* canonical search queries
          Workers,      \* servlet threads
          Capacity,     \* requests per minute, and the size of a bucket
          TokenTicks,   \* ticks in which one token is refilled
          TTL,          \* jobengine.cache.search-ttl, in ticks
          MaxClock,     \* bound: ticks
          MaxRefreshes  \* bound: refreshes of the jobs table

VARIABLES clock,
          bucket,       \* what is in each bucket, in ticks' worth of refill
          passed,       \* history: requests let through, by client
          before,       \* history: those let through before each tick
          table,        \* version of the jobs table
          replaced,     \* history: when each version was replaced
          cache,        \* the jobSearch cache, by query
          redis,        \* whether Redis answers
          req,          \* the search each worker is serving
          answer        \* the last answer given

limiter == <<bucket, passed, before>>
data    == <<table, replaced>>
vars    == <<clock, bucket, passed, before, table, replaced, cache, redis, req,
             answer>>

ASSUME ServingAssumption ==
    /\ Queries # {}
    /\ Capacity \in Nat \ {0} /\ TokenTicks \in Nat \ {0}
    /\ TTL \in Nat /\ MaxClock \in Nat /\ MaxRefreshes \in Nat

Times    == 0 .. MaxClock
Versions == 0 .. MaxRefreshes
Never    == MaxClock + 1
NoEntry  == [page |-> Never]

Full == Capacity * TokenTicks

\* Answers: a page with the version, when that was read and stored, and now;
\* or why there is none.
Page(page, read, put) == [kind |-> "page", page |-> page, read |-> read,
                          put |-> put, at |-> clock]
Failure(kind)         == [kind |-> kind]

\* A page is known by the table version it was read from; read is when.
Entry   == [page : Versions, read : Times, put : Times]
Request == [step : {"idle", "lookup", "query", "store"}, query : Queries,
            page : Versions, read : Times]
Idle    == [step |-> "idle", query |-> CHOOSE q \in Queries : TRUE,
            page |-> 0, read |-> 0]

\* Redis drops an entry TTL after it was put.
Live(q) == cache[q] # NoEntry /\ clock < cache[q].put + TTL

-----------------------------------------------------------------------------
(* RateLimitFilter.doFilterInternal.                                       *)

\* Mutant: a bucket found empty is made anew.
BucketOfAnew(c) == IF bucket[c] = 0 THEN Full ELSE bucket[c]

\* computeIfAbsent: the one bucket of c, full at first.
BucketOf(c) == bucket[c]

\* tryConsumeAndReturnRemaining(1) takes a token; the search goes on.
Admit(w, c, q) ==
    /\ req[w].step = "idle"
    /\ BucketOf(c) >= TokenTicks
    /\ bucket' = [bucket EXCEPT ![c] = BucketOf(c) - TokenTicks]
    /\ passed' = [passed EXCEPT ![c] = @ + 1]
    /\ req' = [req EXCEPT ![w] = [Idle EXCEPT !.step = "lookup", !.query = q]]
    /\ UNCHANGED <<clock, before, data, cache, redis, answer>>

\* 429, with a Retry-After.
Throttle(w, c) ==
    /\ req[w].step = "idle"
    /\ BucketOf(c) < TokenTicks
    /\ answer' = Failure("throttled")
    /\ UNCHANGED <<clock, limiter, data, cache, redis, req>>

\* 401: an unknown key, or none where one is needed.  No bucket is touched.
Refuse(w) ==
    /\ req[w].step = "idle"
    /\ answer' = Failure("refused")
    /\ UNCHANGED <<clock, limiter, data, cache, redis, req>>

-----------------------------------------------------------------------------
(* SearchService.search.                                                   *)

Answer(w, a) ==
    /\ req' = [req EXCEPT ![w] = Idle]
    /\ answer' = a

\* Redis does not answer: cache.get and cache.put throw, and the request
\* fails.  CacheErrorConfig's handlers serve annotated methods only, and this
\* class calls the cache itself.
CacheFails(w) ==
    /\ req[w].step \in {"lookup", "store"}
    /\ ~redis
    /\ Answer(w, Failure("cache"))
    /\ UNCHANGED <<clock, limiter, data, cache, redis>>

\* Mutant: the entries are put without a time to live.
LookupForever(w) ==
    LET q == req[w].query IN
    /\ req[w].step = "lookup" /\ redis
    /\ IF cache[q] # NoEntry
       THEN Answer(w, Page(cache[q].page, cache[q].read, cache[q].put))
       ELSE /\ req' = [req EXCEPT ![w].step = "query"]
            /\ UNCHANGED answer
    /\ UNCHANGED <<clock, limiter, data, cache, redis>>

\* cache.get: a hit is the answer.
Lookup(w) ==
    LET q == req[w].query IN
    /\ req[w].step = "lookup" /\ redis
    /\ IF Live(q)
       THEN Answer(w, Page(cache[q].page, cache[q].read, cache[q].put))
       ELSE /\ req' = [req EXCEPT ![w].step = "query"]
            /\ UNCHANGED answer
    /\ UNCHANGED <<clock, limiter, data, cache, redis>>

\* queryDatabase.
Query(w) ==
    /\ req[w].step = "query"
    /\ req' = [req EXCEPT ![w].step = "store", ![w].page = table, ![w].read = clock]
    /\ UNCHANGED <<clock, limiter, data, cache, redis, answer>>

\* PostgreSQL does not answer, or the pool is exhausted: 5xx.
QueryFails(w) ==
    /\ req[w].step = "query"
    /\ Answer(w, Failure("database"))
    /\ UNCHANGED <<clock, limiter, data, cache, redis>>

\* cache.put, whatever has been put there since, and the answer.
Store(w) ==
    LET r == req[w] IN
    /\ r.step = "store" /\ redis
    /\ cache' = [cache EXCEPT ![r.query] =
                    [page |-> r.page, read |-> r.read, put |-> clock]]
    /\ Answer(w, Page(r.page, r.read, clock))
    /\ UNCHANGED <<clock, limiter, data, redis>>

-----------------------------------------------------------------------------
(* The environment.                                                        *)

\* A refresh commits.  It does not call invalidate: nothing does.
Refresh ==
    /\ table < MaxRefreshes
    /\ replaced' = [replaced EXCEPT ![table] = clock]
    /\ table' = table + 1
    /\ UNCHANGED <<clock, limiter, cache, redis, req, answer>>

RedisFails ==
    /\ redis
    /\ redis' = FALSE
    /\ UNCHANGED <<clock, limiter, data, cache, req, answer>>

\* Redis comes back, with its entries or without.
RedisReturns ==
    /\ ~redis
    /\ redis' = TRUE
    /\ cache' \in {cache, [q \in Queries |-> NoEntry]}
    /\ UNCHANGED <<clock, limiter, data, req, answer>>

\* refillGreedy: every tick adds its share to each bucket that is not full.
Tick ==
    /\ clock < MaxClock
    /\ clock' = clock + 1
    /\ bucket' = [c \in Clients |-> IF bucket[c] < Full THEN bucket[c] + 1 ELSE Full]
    /\ before' = [c \in Clients |-> [before[c] EXCEPT ![clock + 1] = passed[c]]]
    /\ UNCHANGED <<passed, data, cache, redis, req, answer>>

Init ==
    /\ clock = 0
    /\ bucket = [c \in Clients |-> Full]
    /\ passed = [c \in Clients |-> 0]
    /\ before = [c \in Clients |-> [t \in Times |-> 0]]
    /\ table = 0
    /\ replaced = [v \in Versions |-> Never]
    /\ cache = [q \in Queries |-> NoEntry]
    /\ redis = TRUE
    /\ req = [w \in Workers |-> Idle]
    /\ answer = Failure("none")

Next ==
    \/ \E w \in Workers :
          \/ \E c \in Clients : (\E q \in Queries : Admit(w, c, q)) \/ Throttle(w, c)
          \/ Refuse(w) \/ CacheFails(w)
          \/ Lookup(w) \/ Query(w) \/ QueryFails(w) \/ Store(w)
    \/ Refresh \/ RedisFails \/ RedisReturns \/ Tick

Spec == Init /\ [][Next]_vars

-----------------------------------------------------------------------------
(* Properties.                                                             *)

TypeOK ==
    /\ clock \in Times
    /\ bucket \in [Clients -> 0 .. Full]
    /\ passed \in [Clients -> Nat]
    /\ before \in [Clients -> [Times -> Nat]]
    /\ table \in Versions
    /\ replaced \in [Versions -> Times \cup {Never}]
    /\ cache \in [Queries -> Entry \cup {NoEntry}]
    /\ redis \in BOOLEAN
    /\ req \in [Workers -> Request]
    /\ answer \in
          [kind : {"none", "refused", "throttled", "cache", "database"}] \cup
          [kind : {"page"}, page : Versions, read : Times, put : Times, at : Times]

\* RateLimitFilter: the bucket "bounds the burst to its capacity".  In no
\* interval, wherever it begins, do more requests of one client pass than the
\* capacity and what was refilled meanwhile, whatever is served concurrently.
RateBounded ==
    \A c \in Clients : \A t \in 0 .. clock :
        TokenTicks * (passed[c] - before[c][t]) <= Full + (clock - t)

\* RedisCacheConfig: the TTL "bounds the damage" of a missed invalidation: a
\* page is answered at most TTL, plus the time its reader took to store it,
\* after a refresh replaced it; slow readers that store over newer pages and
\* Redis restarts included.
StaleAtMostTTL ==
    answer.kind = "page" =>
        answer.at <= replaced[answer.page] + TTL + (answer.put - answer.read)

-----------------------------------------------------------------------------
(* What the comments say and the code does not do.                         *)

\* CacheErrorConfig: "losing Redis costs latency and nothing else": no search
\* fails because Redis does.
RedisLossIsHarmless == answer.kind # "cache"

=============================================================================
