---------------------------- MODULE ServingProofs ----------------------------
(***************************************************************************)
(* What Serving promises, for any number of clients, threads and queries,  *)
(* any capacity, refill and time to live.                                  *)
(***************************************************************************)
EXTENDS Serving, Integers, TLAPS

USE DEF Times, Versions, Never

-----------------------------------------------------------------------------
(* Types.                                                                  *)

LEMMA ConstantTypes ==
    /\ Full \in Nat /\ TokenTicks \in Nat /\ TTL \in Nat /\ MaxClock \in Nat
    /\ MaxRefreshes \in Nat /\ Idle \in Request /\ 0 \in Times
<1>1. \A m, n \in Nat : m * n \in Nat
  OBVIOUS
<1> QED BY <1>1, ServingAssumption DEF Full, Idle, Request

LEMMA FailureType ==
    \A k \in {"none", "refused", "throttled", "cache", "database"} :
        Failure(k) \in [kind : {"none", "refused", "throttled", "cache", "database"}]
BY DEF Failure

LEMMA PageType ==
    ASSUME TypeOK, NEW p \in Versions, NEW r \in Times, NEW u \in Times
    PROVE  Page(p, r, u) \in
             [kind : {"page"}, page : Versions, read : Times, put : Times, at : Times]
BY DEF TypeOK, Page

\* What the filter does.
LEMMA LimiterType ==
    ASSUME TypeOK,
           \/ \E w \in Workers, c \in Clients : \/ \E q \in Queries : Admit(w, c, q)
                                                \/ Throttle(w, c)
           \/ \E w \in Workers : Refuse(w)
           \/ Tick
    PROVE  TypeOK'
<1>1. ASSUME NEW w \in Workers, NEW c \in Clients, NEW q \in Queries, Admit(w, c, q)
      PROVE  TypeOK'
  <2>1. /\ bucket[c] \in 0 .. Full /\ bucket[c] >= TokenTicks /\ passed[c] \in Nat
        /\ bucket' = [bucket EXCEPT ![c] = bucket[c] - TokenTicks]
        /\ passed' = [passed EXCEPT ![c] = passed[c] + 1]
    BY <1>1 DEF TypeOK, Admit, BucketOf
  <2>2. bucket' \in [Clients -> 0 .. Full]
    <3>1. bucket[c] - TokenTicks \in 0 .. Full
      BY <2>1, ConstantTypes
    <3> QED BY <2>1, <3>1 DEF TypeOK
  <2>3. passed' \in [Clients -> Nat]
    BY <2>1 DEF TypeOK
  <2>4. req' \in [Workers -> Request]
    BY <1>1, ConstantTypes DEF TypeOK, Admit, Request
  <2> QED BY <1>1, <2>2, <2>3, <2>4 DEF TypeOK, Admit, data
<1>2. ASSUME NEW w \in Workers, NEW c \in Clients, Throttle(w, c) PROVE TypeOK'
  BY <1>2, FailureType DEF TypeOK, Throttle, limiter, data
<1>3. ASSUME NEW w \in Workers, Refuse(w) PROVE TypeOK'
  BY <1>3, FailureType DEF TypeOK, Refuse, limiter, data
<1>4. CASE Tick
  <2>1. clock' \in Times
    BY <1>4, ConstantTypes DEF TypeOK, Tick
  <2>2. bucket' \in [Clients -> 0 .. Full]
    BY <1>4, ConstantTypes DEF TypeOK, Tick
  <2>3. before' \in [Clients -> [Times -> Nat]]
    BY <1>4 DEF TypeOK, Tick
  <2> QED BY <1>4, <2>1, <2>2, <2>3 DEF TypeOK, Tick, data
<1> QED BY <1>1, <1>2, <1>3, <1>4

\* What the search does.
LEMMA SearchType ==
    ASSUME TypeOK, NEW w \in Workers,
           CacheFails(w) \/ Lookup(w) \/ Query(w) \/ QueryFails(w) \/ Store(w)
    PROVE  TypeOK'
<1>1. CASE CacheFails(w) \/ QueryFails(w)
  <2>1. req' = [req EXCEPT ![w] = Idle]
        /\ (answer' = Failure("cache") \/ answer' = Failure("database"))
    BY <1>1 DEF CacheFails, QueryFails, Answer
  <2> QED BY <1>1, <2>1, ConstantTypes, FailureType
          DEF TypeOK, CacheFails, QueryFails, limiter, data
<1>2. CASE Lookup(w)
  <2>1. req[w] \in Request /\ req[w].query \in Queries
    BY DEF TypeOK, Request
  <2>2. CASE Live(req[w].query)
    <3>1. cache[req[w].query] \in Entry
      BY <2>1, <2>2 DEF TypeOK, Live
    <3> DEFINE e == cache[req[w].query]
    <3>2. e.page \in Versions /\ e.read \in Times /\ e.put \in Times
      BY <3>1 DEF Entry
    <3>3. answer' = Page(e.page, e.read, e.put) /\ req' = [req EXCEPT ![w] = Idle]
      BY <1>2, <2>2 DEF Lookup, Answer
    <3> HIDE DEF e
    <3> QED BY <1>2, <3>2, <3>3, ConstantTypes, PageType
            DEF TypeOK, Lookup, limiter, data
  <2>3. CASE ~Live(req[w].query)
    <3>1. [req[w] EXCEPT !.step = "query"] \in Request
      BY <2>1 DEF Request
    <3>2. req' = [req EXCEPT ![w] = [req[w] EXCEPT !.step = "query"]]
      BY <1>2, <2>3 DEF Lookup
    <3> QED BY <1>2, <2>3, <3>1, <3>2 DEF TypeOK, Lookup, limiter, data
  <2> QED BY <2>2, <2>3
<1>3. CASE Query(w)
  <2>1. [req[w] EXCEPT !.step = "store", !.page = table, !.read = clock] \in Request
    BY DEF TypeOK, Request
  <2>2. req' = [req EXCEPT ![w] = [req[w] EXCEPT !.step = "store", !.page = table,
                                                 !.read = clock]]
    BY <1>3 DEF Query, TypeOK, Request
  <2> QED BY <1>3, <2>1, <2>2 DEF TypeOK, Query, limiter, data
<1>4. CASE Store(w)
  <2>1. req[w].query \in Queries /\ req[w].page \in Versions /\ req[w].read \in Times
    BY DEF TypeOK, Request
  <2>2. [page |-> req[w].page, read |-> req[w].read, put |-> clock] \in Entry
    BY <2>1 DEF TypeOK, Entry
  <2>3. Page(req[w].page, req[w].read, clock) \in
          [kind : {"page"}, page : Versions, read : Times, put : Times, at : Times]
    BY <2>1, PageType DEF TypeOK
  <2> QED BY <1>4, <2>2, <2>3, ConstantTypes DEF TypeOK, Store, Answer, limiter, data
<1> QED BY <1>1, <1>2, <1>3, <1>4

LEMMA EnvironmentType ==
    ASSUME TypeOK, Refresh \/ RedisFails \/ RedisReturns
    PROVE  TypeOK'
<1>1. CASE Refresh
  <2>1. table \in Versions /\ table + 1 \in Versions
    BY <1>1, ConstantTypes DEF TypeOK, Refresh
  <2>2. replaced' \in [Versions -> Times \cup {Never}] /\ table' \in Versions
    BY <1>1, <2>1 DEF TypeOK, Refresh
  <2> QED BY <1>1, <2>2 DEF TypeOK, Refresh, limiter
<1>2. CASE RedisFails
  BY <1>2 DEF TypeOK, RedisFails, limiter, data
<1>3. CASE RedisReturns
  <2>1. cache' \in [Queries -> Entry \cup {NoEntry}]
    BY <1>3 DEF TypeOK, RedisReturns
  <2> QED BY <1>3, <2>1 DEF TypeOK, RedisReturns, limiter, data
<1> QED BY <1>1, <1>2, <1>3

\* The types of buckets, cache, searches and answers.
THEOREM ServingType == Spec => []TypeOK
<1>1. Init => TypeOK
  <2>1. Failure("none") \in [kind : {"none", "refused", "throttled", "cache", "database"}]
    BY FailureType
  <2> QED BY <2>1, ConstantTypes DEF Init, TypeOK
<1>2. TypeOK /\ [Next]_vars => TypeOK'
  <2>1. ASSUME TypeOK, UNCHANGED vars PROVE TypeOK'
    BY <2>1 DEF TypeOK, vars
  <2> QED BY <2>1, LimiterType, SearchType, EnvironmentType DEF Next
<1> QED BY <1>1, <1>2, PTL DEF Spec

-----------------------------------------------------------------------------
(* The rate limit.                                                         *)

\* What passed since t and what is left in the bucket came out of a full
\* bucket and the refill since t.
Balanced ==
    \A c \in Clients : \A t \in 0 .. clock :
        TokenTicks * (passed[c] - before[c][t]) + bucket[c] <= Full + (clock - t)

LEMMA Distribute ==
    ASSUME NEW k \in Int, NEW m \in Int, NEW n \in Int
    PROVE  k * ((m + 1) - n) = k * (m - n) + k
OBVIOUS

LEMMA AdmitBalances ==
    ASSUME TypeOK, Balanced, NEW w \in Workers, NEW c \in Clients, NEW q \in Queries,
           Admit(w, c, q)
    PROVE  Balanced'
<1> SUFFICES ASSUME NEW d \in Clients, NEW t \in 0 .. clock
             PROVE  TokenTicks * (passed'[d] - before[d][t]) + bucket'[d]
                      <= Full + (clock - t)
  BY DEF Balanced, Admit
<1>1. /\ passed[d] \in Nat /\ before[d][t] \in Nat /\ bucket[d] \in Nat
      /\ clock \in Nat /\ t \in Times
  <2>1. clock \in Times /\ clock \in Nat
    BY ConstantTypes DEF TypeOK
  <2>2. t \in Times
    BY <2>1, ConstantTypes DEF Times
  <2>3. before[d] \in [Times -> Nat] /\ passed[d] \in Nat /\ bucket[d] \in 0 .. Full
    BY DEF TypeOK
  <2>4. before[d][t] \in Nat
    BY <2>2, <2>3
  <2>5. bucket[d] \in Nat
    BY <2>3, ConstantTypes
  <2> QED BY <2>1, <2>2, <2>3, <2>4, <2>5
<1>2. TokenTicks * (passed[d] - before[d][t]) + bucket[d] <= Full + (clock - t)
  BY DEF Balanced
<1>3. CASE d = c
  <2>1. passed'[d] = passed[d] + 1 /\ bucket'[d] = bucket[d] - TokenTicks
    BY <1>3 DEF TypeOK, Admit, BucketOf
  <2>2. TokenTicks * ((passed[d] + 1) - before[d][t])
          = TokenTicks * (passed[d] - before[d][t]) + TokenTicks
    <3>1. TokenTicks \in Int /\ passed[d] \in Int /\ before[d][t] \in Int
      BY <1>1, ConstantTypes
    <3> QED BY <3>1, Distribute
  <2>3. TokenTicks * (passed[d] - before[d][t]) \in Int
    BY <1>1, ConstantTypes
  <2> DEFINE z == TokenTicks * (passed[d] - before[d][t])
  <2> HIDE DEF z
  <2>4. z \in Int /\ z + bucket[d] <= Full + (clock - t)
    BY <1>2, <2>3 DEF z
  <2>5. (z + TokenTicks) + (bucket[d] - TokenTicks) <= Full + (clock - t)
    BY <1>1, <2>4, ConstantTypes
  <2> QED BY <2>1, <2>2, <2>5 DEF z
<1>4. CASE d # c
  BY <1>2, <1>4 DEF TypeOK, Admit
<1> QED BY <1>3, <1>4

LEMMA TickBalances ==
    ASSUME TypeOK, Balanced, Tick
    PROVE  Balanced'
<1> SUFFICES ASSUME NEW d \in Clients, NEW t \in 0 .. clock + 1
             PROVE  TokenTicks * (passed[d] - before'[d][t]) + bucket'[d]
                      <= Full + ((clock + 1) - t)
  BY DEF Balanced, Tick
<1>1. /\ passed[d] \in Nat /\ bucket[d] \in 0 .. Full
      /\ clock \in Nat /\ t \in Times /\ clock + 1 \in Times
  BY ConstantTypes DEF TypeOK, Tick
<1>2. /\ bucket'[d] \in Int /\ bucket'[d] <= bucket[d] + 1 /\ bucket'[d] <= Full
  BY <1>1, ConstantTypes DEF Tick
<1>3. before'[d] = [before[d] EXCEPT ![clock + 1] = passed[d]]
  BY DEF Tick
<1>4. before[d] \in [Times -> Nat]
  BY DEF TypeOK
<1>5. CASE t = clock + 1
  <2>1. before'[d][t] = passed[d]
    BY <1>1, <1>3, <1>4, <1>5
  <2>2. TokenTicks * (passed[d] - passed[d]) = 0
    BY <1>1, ConstantTypes
  <2> QED BY <1>1, <1>2, <1>5, <2>1, <2>2, ConstantTypes
<1>6. CASE t # clock + 1
  <2>1. before'[d][t] = before[d][t] /\ t \in 0 .. clock
    BY <1>1, <1>3, <1>4, <1>6
  <2> DEFINE z == TokenTicks * (passed[d] - before[d][t])
  <2>2. z \in Int
    BY <1>1, <1>4, ConstantTypes
  <2>3. z + bucket[d] <= Full + (clock - t)
    BY <2>1 DEF Balanced
  <2>4. TokenTicks * (passed[d] - before'[d][t]) = z
    BY <2>1
  <2> HIDE DEF z
  <2> QED BY <1>1, <1>2, <2>2, <2>3, <2>4, ConstantTypes
<1> QED BY <1>5, <1>6

LEMMA OthersBalance ==
    ASSUME Balanced, UNCHANGED <<bucket, passed, before, clock>>
    PROVE  Balanced'
BY DEF Balanced

\* In no interval do more requests of one client pass than its bucket holds
\* and what was refilled meanwhile, for any capacity, rate and number of
\* threads (RateLimitFilter).
THEOREM ServingRateBounded == Spec => []RateBounded
<1>1. Init => Balanced
  <2> SUFFICES ASSUME Init, NEW c \in Clients, NEW t \in 0 .. clock
               PROVE  TokenTicks * (passed[c] - before[c][t]) + bucket[c]
                        <= Full + (clock - t)
    BY DEF Balanced
  <2>1. t = 0 /\ clock = 0 /\ passed[c] = 0 /\ bucket[c] = Full /\ before[c][t] = 0
    BY ConstantTypes DEF Init
  <2> QED BY <2>1, ConstantTypes
<1>2. TypeOK /\ Balanced /\ [Next]_vars => Balanced'
  <2> SUFFICES ASSUME TypeOK, Balanced, [Next]_vars PROVE Balanced'
    OBVIOUS
  <2>1. ASSUME NEW w \in Workers, NEW c \in Clients, NEW q \in Queries, Admit(w, c, q)
        PROVE  Balanced'
    BY <2>1, AdmitBalances
  <2>2. ASSUME NEW w \in Workers,
               \/ \E c \in Clients : Throttle(w, c)
               \/ Refuse(w) \/ CacheFails(w)
               \/ Lookup(w) \/ Query(w) \/ QueryFails(w) \/ Store(w)
        PROVE  Balanced'
    <3>1. UNCHANGED <<bucket, passed, before, clock>>
      BY <2>2 DEF Throttle, Refuse, CacheFails, Lookup, Query, QueryFails, Store, limiter
    <3> QED BY <3>1, OthersBalance
  <2>3. CASE Refresh \/ RedisFails \/ RedisReturns \/ UNCHANGED vars
    <3>1. UNCHANGED <<bucket, passed, before, clock>>
      BY <2>3 DEF Refresh, RedisFails, RedisReturns, limiter, vars
    <3> QED BY <3>1, OthersBalance
  <2>4. CASE Tick
    BY <2>4, TickBalances
  <2> QED BY <2>1, <2>2, <2>3, <2>4 DEF Next
<1>3. TypeOK /\ Balanced => RateBounded
  <2> SUFFICES ASSUME TypeOK, Balanced, NEW c \in Clients, NEW t \in 0 .. clock
               PROVE  TokenTicks * (passed[c] - before[c][t]) <= Full + (clock - t)
    BY DEF RateBounded
  <2>0. clock \in Nat /\ t \in Times
    BY ConstantTypes DEF TypeOK
  <2>1. /\ passed[c] \in Nat /\ before[c][t] \in Nat /\ bucket[c] \in 0 .. Full
        /\ clock \in Nat
    BY <2>0 DEF TypeOK
  <2> DEFINE z == TokenTicks * (passed[c] - before[c][t])
  <2>2. z \in Int
    BY <2>1, ConstantTypes
  <2>3. z + bucket[c] <= Full + (clock - t)
    BY DEF Balanced
  <2> HIDE DEF z
  <2>4. z <= Full + (clock - t)
    BY <2>1, <2>2, <2>3, ConstantTypes
  <2> QED BY <2>4 DEF z
<1> QED BY <1>1, <1>2, <1>3, ServingType, PTL DEF Spec

-----------------------------------------------------------------------------
(* The page cache.                                                         *)

\* A page of version p read at r was not replaced before r.
Fresh(p, r) == r <= clock /\ r <= replaced[p]

StaleInv ==
    /\ \A v \in Versions : v >= table => replaced[v] = Never
    /\ \A q \in Queries : cache[q] # NoEntry =>
          Fresh(cache[q].page, cache[q].read) /\ cache[q].read <= cache[q].put
    /\ \A w \in Workers : req[w].step = "store" => Fresh(req[w].page, req[w].read)
    /\ answer.kind = "page" => /\ answer.read <= answer.put /\ answer.at <= clock
                               /\ StaleAtMostTTL

\* The fields of an answer that is a page.
LEMMA PageFields ==
    ASSUME TypeOK, answer.kind = "page"
    PROVE  /\ answer.page \in Versions /\ answer.read \in Times
           /\ answer.put \in Times /\ answer.at \in Times
           /\ replaced[answer.page] \in Nat
BY ConstantTypes DEF TypeOK

\* A step that answers nothing new and replaces nothing.
LEMMA OtherStale ==
    ASSUME TypeOK, StaleInv, UNCHANGED <<clock, table, replaced, answer>>,
           cache' \in {cache, [q \in Queries |-> NoEntry]},
           \A w \in Workers : req'[w].step = "store" => req'[w] = req[w]
    PROVE  StaleInv'
<1>1. \A q \in Queries : cache'[q] # NoEntry => cache'[q] = cache[q]
  OBVIOUS
<1>2. \A w \in Workers : req'[w].step = "store" => Fresh(req'[w].page, req'[w].read)
  BY DEF StaleInv
<1> QED BY <1>1, <1>2 DEF StaleInv, Fresh, StaleAtMostTTL

\* The filter, the failures and Redis neither read nor replace a page.
LEMMA FilterStale ==
    ASSUME TypeOK, StaleInv,
           \/ \E w \in Workers : \/ Refuse(w) \/ CacheFails(w) \/ QueryFails(w)
                                 \/ \E c \in Clients : \/ Throttle(w, c)
                                                       \/ \E q \in Queries : Admit(w, c, q)
           \/ RedisFails \/ RedisReturns \/ UNCHANGED vars
    PROVE  StaleInv'
<1>1. ASSUME NEW w \in Workers, NEW c \in Clients, NEW q \in Queries, Admit(w, c, q)
      PROVE  StaleInv'
  <2>1. req' = [req EXCEPT ![w] = [Idle EXCEPT !.step = "lookup", !.query = q]]
        /\ UNCHANGED <<clock, table, replaced, answer, cache>>
    BY <1>1 DEF Admit, data
  <2>2. \A v \in Workers : req'[v].step = "store" => req'[v] = req[v]
    BY <2>1 DEF TypeOK, Idle
  <2> QED BY <2>1, <2>2, OtherStale
<1>2. ASSUME NEW w \in Workers, CacheFails(w) \/ QueryFails(w) \/ Refuse(w)
                                \/ \E c \in Clients : Throttle(w, c)
      PROVE  StaleInv'
  <2>1. /\ req' = [req EXCEPT ![w] = Idle] \/ req' = req
        /\ answer'.kind # "page"
        /\ UNCHANGED <<clock, table, replaced, cache>>
    BY <1>2 DEF CacheFails, QueryFails, Refuse, Throttle, Answer, Failure, data
  <2>2. \A v \in Workers : req'[v].step = "store" => req'[v] = req[v]
    BY <2>1 DEF TypeOK, Idle
  <2> QED BY <2>1, <2>2 DEF StaleInv, Fresh
<1>3. CASE RedisFails \/ RedisReturns \/ UNCHANGED vars
  <2>1. UNCHANGED <<clock, table, replaced, answer, req>>
        /\ cache' \in {cache, [q \in Queries |-> NoEntry]}
    BY <1>3 DEF RedisFails, RedisReturns, vars, data
  <2> QED BY <2>1, OtherStale
<1> QED BY <1>1, <1>2, <1>3

\* A hit is younger than the time to live, and its page was not replaced when
\* it was read.
LEMMA LookupStale ==
    ASSUME TypeOK, StaleInv, NEW w \in Workers, Lookup(w)
    PROVE  StaleInv'
<1> DEFINE q == req[w].query
           e == cache[q]
<1>1. q \in Queries
  BY DEF TypeOK, Request
<1>2. UNCHANGED <<clock, table, replaced, cache>>
  BY DEF Lookup, data
<1>3. CASE Live(q)
  <2>1. e \in Entry
    BY <1>1, <1>3 DEF Live, TypeOK
  <2>2. /\ e.page \in Versions /\ e.read \in Nat /\ e.put \in Nat /\ clock \in Nat
        /\ replaced[e.page] \in Nat
    BY <2>1, ConstantTypes DEF Entry, TypeOK
  <2>3. clock < e.put + TTL /\ e.read <= replaced[e.page] /\ e.read <= e.put
    BY <1>1, <1>3 DEF Live, StaleInv, Fresh
  <2>4. answer' = [kind |-> "page", page |-> e.page, read |-> e.read, put |-> e.put,
                   at |-> clock]
        /\ req' = [req EXCEPT ![w] = Idle]
    BY <1>3 DEF Lookup, Answer, Page
  <2> HIDE DEF e, q
  <2>5. \A v \in Workers : req'[v].step = "store" => req'[v] = req[v]
    BY <2>4 DEF TypeOK, Idle
  <2>6. clock <= replaced[e.page] + TTL + (e.put - e.read)
    BY <2>2, <2>3, ConstantTypes
  <2>7. answer'.kind = "page" => /\ answer'.read <= answer'.put /\ answer'.at <= clock
                                 /\ StaleAtMostTTL'
    BY <1>2, <2>2, <2>3, <2>4, <2>6 DEF StaleAtMostTTL
  <2>8. \A v \in Workers : req'[v].step = "store" => Fresh(req'[v].page, req'[v].read)
    BY <2>5 DEF StaleInv
  <2> QED BY <1>2, <2>7, <2>8 DEF StaleInv, Fresh
<1>4. CASE ~Live(q)
  <2>1. req' = [req EXCEPT ![w] = [req[w] EXCEPT !.step = "query"]] /\ answer' = answer
    BY <1>4 DEF Lookup
  <2>2. \A v \in Workers : req'[v].step = "store" => req'[v] = req[v]
    BY <2>1 DEF TypeOK, Request
  <2> QED BY <1>2, <2>1, <2>2, OtherStale
<1> QED BY <1>3, <1>4

\* The version in the table has not been replaced.
LEMMA QueryStale ==
    ASSUME TypeOK, StaleInv, NEW w \in Workers, Query(w)
    PROVE  StaleInv'
<1>1. UNCHANGED <<clock, table, replaced, cache, answer>>
  BY DEF Query, data
<1>2. req' = [req EXCEPT ![w] = [req[w] EXCEPT !.step = "store", !.page = table,
                                               !.read = clock]]
  BY DEF Query, TypeOK, Request
<1>3. replaced[table] = Never /\ clock \in Times
  BY ConstantTypes DEF StaleInv, TypeOK
<1>4. Fresh(table, clock)
  BY <1>3, ConstantTypes DEF Fresh
<1>5. req'[w].page = table /\ req'[w].read = clock
      /\ \A v \in Workers : v # w => req'[v] = req[v]
  BY <1>2 DEF TypeOK, Request
<1>6. \A v \in Workers : req'[v].step = "store" => Fresh(req'[v].page, req'[v].read)
  BY <1>4, <1>5 DEF StaleInv
<1> QED BY <1>1, <1>6 DEF StaleInv, Fresh, StaleAtMostTTL

\* What is stored, over whatever is there, was fresh when it was read.
LEMMA StoreStale ==
    ASSUME TypeOK, StaleInv, NEW w \in Workers, Store(w)
    PROVE  StaleInv'
<1> DEFINE r == req[w]
           n == [page |-> r.page, read |-> r.read, put |-> clock]
<1>1. /\ r.query \in Queries /\ r.page \in Versions /\ r.read \in Nat /\ clock \in Nat
      /\ replaced[r.page] \in Nat
  BY ConstantTypes DEF TypeOK, Request
<1>2. r.read <= clock /\ r.read <= replaced[r.page]
  BY DEF Store, StaleInv, Fresh
<1>3. /\ cache' = [cache EXCEPT ![r.query] = n]
      /\ req' = [req EXCEPT ![w] = Idle]
      /\ answer' = [kind |-> "page", page |-> r.page, read |-> r.read, put |-> clock,
                    at |-> clock]
      /\ UNCHANGED <<clock, table, replaced>>
  BY DEF Store, Answer, Page, data
<1>4. \A v \in Workers : req'[v].step = "store" => req'[v] = req[v]
  BY <1>3 DEF TypeOK, Idle
<1>5. \A q \in Queries : cache'[q] # NoEntry =>
          Fresh(cache'[q].page, cache'[q].read) /\ cache'[q].read <= cache'[q].put
  <2> SUFFICES ASSUME NEW q \in Queries, cache'[q] # NoEntry
               PROVE  Fresh(cache'[q].page, cache'[q].read) /\ cache'[q].read <= cache'[q].put
    OBVIOUS
  <2>1. CASE q = r.query
    <3>1. cache'[q] = n
      BY <1>1, <1>3, <2>1 DEF TypeOK
    <3> QED BY <1>2, <3>1 DEF Fresh
  <2>2. CASE q # r.query
    <3>1. cache'[q] = cache[q]
      BY <1>3, <2>2 DEF TypeOK
    <3> QED BY <3>1 DEF StaleInv
  <2> QED BY <2>1, <2>2
<1>6. answer'.kind = "page" => /\ answer'.read <= answer'.put /\ answer'.at <= clock
                               /\ StaleAtMostTTL'
  <2> HIDE DEF r, n
  <2>1. clock <= replaced[r.page] + TTL + (clock - r.read)
    BY <1>1, <1>2, ConstantTypes
  <2> QED BY <1>1, <1>2, <1>3, <2>1 DEF StaleAtMostTTL
<1>7. \A v \in Workers : req'[v].step = "store" => Fresh(req'[v].page, req'[v].read)
  BY <1>4 DEF StaleInv
<1> QED BY <1>3, <1>5, <1>6, <1>7 DEF StaleInv, Fresh

\* A version is replaced after everything that was read of it.
LEMMA RefreshStale ==
    ASSUME TypeOK, StaleInv, Refresh
    PROVE  StaleInv'
<1>1. /\ table \in Versions /\ table + 1 \in Versions /\ clock \in Nat
      /\ replaced' = [replaced EXCEPT ![table] = clock] /\ table' = table + 1
      /\ UNCHANGED <<clock, cache, req, answer>>
  BY ConstantTypes DEF TypeOK, Refresh, limiter
<1>2. replaced \in [Versions -> Times \cup {Never}]
  BY DEF TypeOK
<1>3. \A v \in Versions : v >= table' => replaced'[v] = Never
  BY <1>1, <1>2, ConstantTypes DEF StaleInv
<1>4. ASSUME NEW p \in Versions, NEW t \in Nat, Fresh(p, t) PROVE Fresh(p, t)'
  BY <1>1, <1>2, <1>4 DEF Fresh
<1>5. \A q \in Queries : cache[q] # NoEntry => cache[q].page \in Versions /\ cache[q].read \in Nat
  BY ConstantTypes DEF TypeOK, Entry
<1>6. \A w \in Workers : req[w].page \in Versions /\ req[w].read \in Nat
  BY ConstantTypes DEF TypeOK, Request
<1>7. \A q \in Queries : cache'[q] # NoEntry =>
          Fresh(cache[q].page, cache[q].read)' /\ cache'[q].read <= cache'[q].put
  BY <1>1, <1>4, <1>5 DEF StaleInv
<1>8. \A w \in Workers : req'[w].step = "store" => Fresh(req[w].page, req[w].read)'
  BY <1>1, <1>4, <1>6 DEF StaleInv
<1>9. ASSUME answer.kind = "page"
      PROVE  answer.read <= answer.put /\ answer.at <= clock /\ StaleAtMostTTL'
  <2>1. answer.read <= answer.put /\ answer.at <= clock /\ StaleAtMostTTL
    BY <1>9 DEF StaleInv
  <2>2. /\ answer.page \in Versions /\ answer.read \in Nat /\ answer.put \in Nat
        /\ answer.at \in Nat /\ replaced[answer.page] \in Nat
    BY <1>9, PageFields, ConstantTypes
  <2>3. CASE answer.page = table
    <3>1. replaced'[answer.page] = clock
      BY <1>1, <1>2, <2>3
    <3>2. answer.at <= clock + TTL + (answer.put - answer.read)
      BY <1>1, <2>1, <2>2, ConstantTypes
    <3> QED BY <1>1, <2>1, <3>1, <3>2 DEF StaleAtMostTTL
  <2>4. CASE answer.page # table
    <3>1. replaced'[answer.page] = replaced[answer.page]
      BY <1>1, <1>2, <2>2, <2>4
    <3> QED BY <1>1, <2>1, <3>1 DEF StaleAtMostTTL
  <2> QED BY <2>3, <2>4
<1> QED BY <1>1, <1>3, <1>7, <1>8, <1>9 DEF StaleInv

LEMMA TickStale ==
    ASSUME TypeOK, StaleInv, Tick
    PROVE  StaleInv'
<1>1. /\ clock' = clock + 1 /\ clock \in Nat
      /\ UNCHANGED <<table, replaced, cache, req, answer>>
  BY ConstantTypes DEF TypeOK, Tick, data
<1>2. ASSUME NEW p \in Versions, NEW t \in Nat, Fresh(p, t) PROVE Fresh(p, t)'
  BY <1>1, <1>2 DEF Fresh
<1>3. \A q \in Queries : cache[q] # NoEntry => cache[q].page \in Versions /\ cache[q].read \in Nat
  BY ConstantTypes DEF TypeOK, Entry
<1>4. \A w \in Workers : req[w].page \in Versions /\ req[w].read \in Nat
  BY ConstantTypes DEF TypeOK, Request
<1>5. \A q \in Queries : cache'[q] # NoEntry =>
          Fresh(cache[q].page, cache[q].read)' /\ cache'[q].read <= cache'[q].put
  BY <1>1, <1>2, <1>3 DEF StaleInv
<1>6. \A w \in Workers : req'[w].step = "store" => Fresh(req[w].page, req[w].read)'
  BY <1>1, <1>2, <1>4 DEF StaleInv
<1>7. answer.kind = "page" => answer.at <= clock + 1
  BY <1>1, PageFields, ConstantTypes DEF StaleInv
<1> QED BY <1>1, <1>5, <1>6, <1>7 DEF StaleInv, StaleAtMostTTL

\* A page is answered at most the time to live, and the time its reader took
\* to store it, after a refresh replaced it; for any number of readers that
\* store over one another, refreshes and losses of Redis (SearchService.search,
\* RedisCacheConfig).
THEOREM ServingStaleAtMostTTL == Spec => []StaleAtMostTTL
<1>1. Init => StaleInv
  BY DEF Init, StaleInv, Failure, Idle
<1>2. TypeOK /\ StaleInv /\ [Next]_vars => StaleInv'
  BY FilterStale, LookupStale, QueryStale, StoreStale, RefreshStale, TickStale DEF Next
<1>3. StaleInv => StaleAtMostTTL
  BY DEF StaleInv, StaleAtMostTTL
<1> QED BY <1>1, <1>2, <1>3, ServingType, PTL DEF Spec
=============================================================================
