---------------------------- MODULE ReportsProofs -----------------------------
(***************************************************************************)
(* What is proved of the listings and of the metrics, for feeds, files of  *)
(* filings, tables, samples and traffic of any size.                       *)
(*                                                                         *)
(* Listings: deduplication keeps the best copy of each posting whatever    *)
(* their order, a search that is cut keeps the best of what it found, one  *)
(* that is not shows what the feeds say, and the pages of a search are its *)
(* rows, each once, in order.                                              *)
(*                                                                         *)
(* Metrics: the summary of the traffic counts every request once and its   *)
(* percentiles are durations that enough requests kept to; the metrics of  *)
(* the evaluation do not depend on the order its rows come in, and each is *)
(* what its name says: nDCG rewards the order, the bins of the calibration *)
(* partition the sample and ties share their ranks.                        *)
(***************************************************************************)
EXTENDS Listings, Metrics, FiniteSetTheorems, SequenceTheorems,
        WellFoundedInduction, TLAPS

-----------------------------------------------------------------------------
(* Types.                                                                  *)

\* TypeOK with what it rests on: the file of filings, and where the loops stand.
ListingsType ==
    /\ TypeOK
    /\ filings # NoFile => filings \in Seq(Filing)
    /\ stage = "collapse" => next <= Len(feed) + 1
    /\ stage = "count" => filings # NoFile

Entry == [tier : Tiers, match : Matches]

\* A record that parses is a row of the table.
LEMMA ParsedIsJob ==
  ASSUME NEW r \in Record
  PROVE  /\ FromRecord(r) \in Job /\ FromRecord(r).key \in Keys
         /\ FromRecord(r) # None
<1>1. FromRecord(r) \in Job
  BY DEF FromRecord, Record, Job, Keys
<1>2. FromRecord(r) # None
  BY DEF FromRecord, None
<1> QED BY <1>1, <1>2 DEF Job

\* The curated index has entries of known tiers.
LEMMA SeedType == FromSeed \in [Companies -> Entry \cup {None}]
<1>1. ASSUME NEW c \in Companies
      PROVE  FromSeed[c] \in Entry \cup {None}
  <2>1. Seed[c] \in {"very_high", "high", "agency", "absent"}
    BY ListingsAssumption
  <2>2. CASE Seed[c] = "absent"
    BY <2>2 DEF FromSeed
  <2>3. CASE Seed[c] = "agency"
    BY <2>3 DEF FromSeed, Entry, Tiers, Matches
  <2>4. CASE Seed[c] = "very_high"
    BY <2>4 DEF FromSeed, Entry, Tiers, Matches
  <2>5. CASE Seed[c] = "high"
    BY <2>5 DEF FromSeed, Entry, Tiers, Matches
  <2> QED BY <2>1, <2>2, <2>3, <2>4, <2>5
<1>2. FromSeed = [c \in Companies |-> FromSeed[c]]
  BY DEF FromSeed
<1> QED BY <1>1, <1>2

\* Every number of filings has a tier.
LEMMA TierType ==
  ASSUME NEW n \in Nat
  PROVE  TierFor(n) \in Tiers
<1>1. CASE n >= 5000
  BY <1>1 DEF TierFor, Tiers
<1>2. CASE n \in 1000 .. 4999
  BY <1>2 DEF TierFor, Tiers
<1>3. CASE n \in 100 .. 999
  BY <1>3 DEF TierFor, Tiers
<1>4. CASE n \in 1 .. 99
  BY <1>4 DEF TierFor, Tiers
<1>5. CASE n = 0
  BY <1>5 DEF TierFor, Tiers
<1> QED BY <1>1, <1>2, <1>3, <1>4, <1>5

\* Every row is rated.
LEMMA RatingType ==
  ASSUME NEW j \in Job, index \in [Companies -> Entry \cup {None}]
  PROVE  Rating(j) \in Entry
<1>1. j.key[1] \in Companies
  BY DEF Job, Keys
<1> QED BY <1>1 DEF Rating, Rated, Entry, Tiers, Matches

LEMMA TypeInit == ASSUME Init PROVE ListingsType
<1>1. PICK i \in Inputs : feed = i.feed /\ filings = i.filings
  BY DEF Init
<1>2. feed \in Seq(Record) /\ (filings # NoFile => filings \in Seq(Filing))
  BY <1>1, ListingsAssumption
<1> QED BY <1>2 DEF Init, ListingsType, TypeOK, Stages

LEMMA TypeStep ==
  ASSUME ListingsType, [Next]_vars
  PROVE  ListingsType'
<1> USE DEF ListingsType, TypeOK, Stages
<1>1. CASE Collapse
  <2> DEFINE j == FromRecord(feed[next])
  <2>1. feed[next] \in Record
    BY <1>1 DEF Collapse
  <2>2. j \in Job /\ j.key \in Keys
    BY <2>1, ParsedIsJob
  <2>3. best' = best \/ best' = [best EXCEPT ![j.key] = j]
    BY <1>1 DEF Collapse
  <2> HIDE DEF j
  <2>4. best' \in [Keys -> Job \cup {None}]
    BY <2>2, <2>3
  <2> QED BY <1>1, <2>4 DEF Collapse
<1>2. CASE SeedIndex
  BY <1>2, SeedType DEF SeedIndex, Entry
<1>3. CASE CountFiling
  <2>1. filings[next] \in Filing
    BY <1>3 DEF CountFiling
  <2> DEFINE f == filings[next]
  <2>2. f.company \in Companies /\ f.rows \in Nat
    BY <2>1 DEF Filing
  <2>3. counts' = counts \/ counts' = [counts EXCEPT ![f.company] = counts[f.company] + f.rows]
    BY <1>3 DEF CountFiling
  <2> HIDE DEF f
  <2>4. counts[f.company] + f.rows \in Nat
    BY <2>2
  <2>5. counts' \in [Companies -> Nat]
    BY <2>2, <2>3, <2>4
  <2> QED BY <1>3, <2>5 DEF CountFiling
<1>4. CASE LoadDolCsv
  <2>1. \A c \in Companies : [tier |-> TierFor(counts[c]), match |-> "index:dol"] \in Entry
    BY TierType DEF Entry, Matches
  <2>2. index' \in [Companies -> Entry \cup {None}]
    BY <1>4, <2>1 DEF LoadDolCsv, Entry
  <2> QED BY <1>4, <2>2 DEF LoadDolCsv, Entry
<1>5. CASE Annotate
  <2>1. \A k \in Keys : best[k] # None => best[k] \in Job
    OBVIOUS
  <2>2. Kept \subseteq Job
    BY <2>1 DEF Kept
  <2>3. \A j \in Job : Rating(j) \in Entry
    BY RatingType DEF Entry
  <2>4. jobs' \subseteq [job : Job, rating : Entry]
    BY <1>5, <2>2, <2>3 DEF Annotate
  <2> QED BY <1>5, <2>4 DEF Annotate, Entry
<1>6. CASE UNCHANGED buildVars
  BY <1>6 DEF buildVars
<1>7. UNCHANGED vars => UNCHANGED buildVars
  BY DEF vars, buildVars
<1> QED BY <1>1, <1>2, <1>3, <1>4, <1>5, <1>6, <1>7
        DEF Next, Build, GetJobs, FindJobs, OpenSearch, NextPage

\* The types of the tables, the index and the loops.
THEOREM ListingsTypes == Spec => []ListingsType
<1>1. Init => ListingsType
  BY TypeInit
<1>2. ListingsType /\ [Next]_vars => ListingsType'
  BY TypeStep
<1> QED BY <1>1, <1>2, PTL DEF Spec

\* The types of the module, as it states them.
THEOREM ListingsTypeOK == Spec => []TypeOK
<1>1. ListingsType => TypeOK
  BY DEF ListingsType
<1> QED BY <1>1, ListingsTypes, PTL

-----------------------------------------------------------------------------
(* Deduplication.                                                          *)

\* "Newer" is the order of the pairs (active, date_posted): the copy kept is
\* as good as every copy read, and better than those read before it.
AsGood(b, c) == c.active < b.active \/ (c.active = b.active /\ c.date <= b.date)
FirstOfBest(k, i) ==
    /\ best[k] = FromRecord(feed[i])
    /\ \A n \in Copies(k) : /\ AsGood(best[k], FromRecord(feed[n]))
                            /\ n < i => Newer(best[k], FromRecord(feed[n]))
KeepsFirst ==
    \A k \in Keys :
        /\ best[k] = None <=> Copies(k) = {}
        /\ best[k] # None => \E i \in Copies(k) : FirstOfBest(k, i)

\* Steps that read no record leave what was read and what is kept.
LEMMA NothingRead ==
  ASSUME ListingsType, KeepsFirst, feed' = feed, best' = best, Read' = Read
  PROVE  KeepsFirst'
<1>1. \A k \in Keys : Copies(k)' = Copies(k)
  BY DEF Copies
<1> QED BY <1>1 DEF KeepsFirst, FirstOfBest

LEMMA NewerOrAsGood ==
  ASSUME NEW b \in Job, NEW c \in Job
  PROVE  /\ Newer(c, b) \/ AsGood(b, c)
         /\ Newer(c, b) => \A d \in Job : AsGood(b, d) => AsGood(c, d) /\ Newer(c, d)
         /\ AsGood(c, c)
BY DEF Newer, AsGood, Job

LEMMA CollapseKeepsFirst ==
  ASSUME ListingsType, KeepsFirst, Collapse
  PROVE  KeepsFirst'
<1> DEFINE j == FromRecord(feed[next])
<1>1. /\ feed \in Seq(Record) /\ next \in 1 .. Len(feed) /\ stage = "collapse"
      /\ best \in [Keys -> Job \cup {None}]
  BY DEF Collapse, ListingsType, TypeOK
<1>2. \A i \in 1 .. Len(feed) : FromRecord(feed[i]) \in Job /\ FromRecord(feed[i]) # None
                                 /\ FromRecord(feed[i]).key \in Keys
  BY <1>1, ParsedIsJob
<1>3. Read = 1 .. next - 1 /\ Read' = 1 .. next /\ feed' = feed
  BY <1>1 DEF Collapse, Read
<1>4. /\ best' = IF best[j.key] = None \/ Newer(j, best[j.key])
                 THEN [best EXCEPT ![j.key] = j] ELSE best
  BY DEF Collapse
<1>5. j \in Job /\ j.key \in Keys /\ j # None
  BY <1>1, <1>2
<1>6. ASSUME NEW k \in Keys
      PROVE  Copies(k)' = IF k = j.key THEN Copies(k) \cup {next} ELSE Copies(k)
  BY <1>1, <1>3 DEF Copies
<1>7. \A k \in Keys : Copies(k) \subseteq 1 .. next - 1
  BY <1>1, <1>3 DEF Copies
<1>8. ASSUME NEW k \in Keys
      PROVE  /\ best'[k] = None <=> Copies(k)' = {}
             /\ best'[k] # None => \E i \in Copies(k)' : FirstOfBest(k, i)'
  <2>1. /\ best[k] = None <=> Copies(k) = {}
        /\ best[k] # None => \E i \in Copies(k) : FirstOfBest(k, i)
    BY DEF KeepsFirst
  <2>2. CASE k # j.key
    <3>1. best'[k] = best[k]
      BY <1>1, <1>4, <1>5, <2>2
    <3>2. Copies(k)' = Copies(k)
      BY <1>6, <2>2
    <3> QED BY <1>3, <2>1, <3>1, <3>2 DEF FirstOfBest
  <2>3. CASE k = j.key
    <3>1. Copies(k)' = Copies(k) \cup {next}
      BY <1>6, <2>3
    <3>2. CASE best[k] = None
      <4>1. best'[k] = j /\ Copies(k)' = {next}
        BY <1>1, <1>4, <1>5, <2>1, <2>3, <3>1, <3>2
      <4>2. AsGood(j, j)
        BY <1>5, NewerOrAsGood
      <4>3. PICK i : i = next
        OBVIOUS
      <4>4. FirstOfBest(k, i)'
        BY <1>1, <1>3, <4>1, <4>2, <4>3 DEF FirstOfBest
      <4> QED BY <1>5, <4>1, <4>3, <4>4
    <3>3. CASE best[k] # None /\ Newer(j, best[k])
      <4>1. best'[k] = j
        BY <1>1, <1>4, <1>5, <2>3, <3>3
      <4>2. best[k] \in Job
        BY <1>1, <3>3
      <4>3. \A n \in Copies(k) : AsGood(j, FromRecord(feed[n])) /\ Newer(j, FromRecord(feed[n]))
        BY <1>1, <1>2, <1>5, <1>7, <2>1, <3>3, <4>2, NewerOrAsGood DEF FirstOfBest
      <4>4. AsGood(j, j)
        BY <1>5, NewerOrAsGood
      <4>5. PICK i : i = next
        OBVIOUS
      <4>6. \A n \in Copies(k)' : AsGood(j, FromRecord(feed[n]))
                                   /\ (n < i => Newer(j, FromRecord(feed[n])))
        <5> HIDE DEF j
        <5> QED BY <1>1, <3>1, <4>3, <4>4, <4>5 DEF j
      <4>7. FirstOfBest(k, i)'
        BY <1>3, <4>1, <4>5, <4>6 DEF FirstOfBest
      <4> QED BY <1>5, <3>1, <4>1, <4>5, <4>7
    <3>4. CASE best[k] # None /\ ~Newer(j, best[k])
      <4>1. best'[k] = best[k]
        BY <1>4, <2>3, <3>4
      <4>2. best[k] \in Job
        BY <1>1, <3>4
      <4>3. AsGood(best[k], j)
        BY <1>5, <3>4, <4>2, NewerOrAsGood
      <4>4. PICK i \in Copies(k) : FirstOfBest(k, i)
        BY <2>1, <3>4
      <4>5. i \in 1 .. next - 1
        BY <1>1, <1>7
      <4>6. \A n \in Copies(k)' : AsGood(best[k], FromRecord(feed[n]))
                                   /\ (n < i => Newer(best[k], FromRecord(feed[n])))
        <5>1. \A n \in Copies(k) : AsGood(best[k], FromRecord(feed[n]))
                                     /\ (n < i => Newer(best[k], FromRecord(feed[n])))
          BY <4>4 DEF FirstOfBest
        <5>2. AsGood(best[k], FromRecord(feed[next])) /\ ~(next < i)
          BY <1>1, <4>3, <4>5
        <5> QED BY <3>1, <5>1, <5>2
      <4>7. best'[k] = FromRecord(feed'[i])
        BY <1>3, <4>1, <4>4 DEF FirstOfBest
      <4>8. FirstOfBest(k, i)'
        BY <1>3, <4>1, <4>6, <4>7 DEF FirstOfBest
      <4> QED BY <3>1, <3>4, <4>1, <4>4, <4>8
    <3> QED BY <3>2, <3>3, <3>4
  <2> QED BY <2>2, <2>3
<1>9. KeepsFirst' <=>
        \A k \in Keys :
          /\ best'[k] = None <=> Copies(k)' = {}
          /\ best'[k] # None => \E i \in Copies(k)' : FirstOfBest(k, i)'
  BY DEF KeepsFirst
<1> QED BY <1>8, <1>9

\* Of the copies of a posting the feeds hold, the first of the best is kept.
THEOREM ListingsKeepFirst == Spec => []KeepsFirst
<1>1. Init => KeepsFirst
  BY DEF Init, KeepsFirst, Copies, Read
<1>2. ListingsType /\ KeepsFirst /\ [Next]_vars => KeepsFirst'
  <2> SUFFICES ASSUME ListingsType, KeepsFirst, [Next]_vars PROVE KeepsFirst'
    OBVIOUS
  <2>1. CASE Collapse
    BY <2>1, CollapseKeepsFirst
  <2>2. CASE SeedIndex
    <3>1. Read' = Read
      BY <2>2 DEF SeedIndex, Read, ListingsType, TypeOK
    <3> QED BY <2>2, <3>1, NothingRead DEF SeedIndex
  <2>3. CASE CountFiling \/ LoadDolCsv \/ Annotate
    <3>1. feed' = feed /\ best' = best /\ stage # "collapse" /\ stage' # "collapse"
      BY <2>3 DEF CountFiling, LoadDolCsv, Annotate
    <3>2. Read' = Read
      BY <3>1 DEF Read
    <3> QED BY <3>1, <3>2, NothingRead
  <2>4. CASE UNCHANGED buildVars
    <3>1. Read' = Read /\ feed' = feed /\ best' = best
      BY <2>4 DEF buildVars, Read
    <3> QED BY <3>1, NothingRead
  <2>5. UNCHANGED vars => UNCHANGED buildVars
    BY DEF vars, buildVars
  <2> QED BY <2>1, <2>2, <2>3, <2>4, <2>5
          DEF Next, Build, GetJobs, FindJobs, OpenSearch, NextPage
<1> QED BY <1>1, <1>2, ListingsTypes, PTL DEF Spec

\* However many copies of a posting the feeds hold and in whatever order, an
\* open copy is never given up for a closed one nor a newer for an older
\* (build.dedup).
THEOREM ListingsKeepBestCopy == Spec => []KeepsBestCopy
<1>1. KeepsFirst => KeepsBestCopy
  BY DEF KeepsFirst, FirstOfBest, KeepsBestCopy, AsGood
<1> QED BY <1>1, ListingsKeepFirst, PTL

-----------------------------------------------------------------------------
(* Cut answers.                                                            *)

\* The table is finite, so that a sort that names no row twice names them all.
LEMMA JobsFinite == ASSUME Annotate PROVE IsFiniteSet(jobs')
<1> DEFINE D == {x \in Keys : best[x] # None}
           f == [k \in D |-> best[k]]
           g == [j \in Kept |-> [job |-> j, rating |-> Rating(j)]]
<1>1. IsFiniteSet(Keys)
  BY FS_Product, ListingsAssumption DEF Keys
<1>2. IsFiniteSet(D)
  BY <1>1, FS_Subset
<1>3. f \in Surjection(D, Kept)
  BY DEF Kept, Surjection
<1>4. IsFiniteSet(Kept)
  BY <1>2, <1>3, FS_Surjection
<1>5. g \in Surjection(Kept, jobs')
  BY DEF Annotate, Surjection
<1> QED BY <1>4, <1>5, FS_Surjection

Shown(t) == {t[i] : i \in DOMAIN t}
Cuts(f) == {Cut(f, k) : k \in Int}
RowLists(R) == Injection(1 .. Cardinality(R), R)
Ahead(f, p, o) == \E m, n \in DOMAIN f : m < n /\ f[m] = p /\ f[n] = o

\* In a list of the rows of a set, each once, what the cut leaves out stands
\* behind all it keeps.
LEMMA CutOff ==
  ASSUME NEW R, IsFiniteSet(R), NEW f \in RowLists(R),
         NEW t \in Cuts(f), NEW p \in Shown(t), NEW o \in R \ Shown(t)
  PROVE  Ahead(f, p, o)
<1> DEFINE N == Cardinality(R)
<1>1. N \in Nat
  BY FS_CardinalityType
<1>2. f \in [1 .. N -> R]
  BY DEF Injection, RowLists
<1>3. f \in Seq(R) /\ Len(f) = N /\ DOMAIN f = 1 .. N
  BY <1>1, <1>2
<1>4. IsFiniteSet(1 .. N) /\ Cardinality(1 .. N) = N
  BY <1>1, FS_Interval
<1>5. f \in Surjection(1 .. N, R)
  BY <1>4, FS_Injection DEF RowLists
<1>6. PICK n \in 1 .. N : f[n] = o
  BY <1>5 DEF Surjection
<1>7. \E c \in Int : /\ c <= N
                     /\ DOMAIN t = 1 .. c
                     /\ \A i \in 1 .. c : t[i] = f[i]
  <2> PICK k \in Int : t = Cut(f, k)
    BY DEF Cuts
  <2>1. CASE k = 0
    BY <1>1, <1>3, <2>1 DEF Cut
  <2>2. CASE k > 0 /\ k <= N
    BY <1>1, <1>3, <2>2 DEF Cut, Least
  <2>3. CASE k > N /\ k # 0
    BY <1>1, <1>3, <2>3 DEF Cut, Least
  <2>4. CASE k < 0
    BY <1>1, <1>3, <2>4 DEF Cut, Least
  <2> QED BY <1>1, <2>1, <2>2, <2>3, <2>4
<1>8. PICK c \in Int : c <= N /\ DOMAIN t = 1 .. c /\ \A i \in 1 .. c : t[i] = f[i]
  BY <1>7
<1>9. PICK m \in 1 .. c : t[m] = p
  BY <1>8 DEF Shown
<1>10. n \notin 1 .. c
  BY <1>6, <1>8 DEF Shown
<1> QED BY <1>1, <1>3, <1>6, <1>8, <1>9, <1>10 DEF Ahead

\* A list that names no row twice is an injection.
LEMMA NamesOnce ==
  ASSUME NEW R, NEW f \in [1 .. Cardinality(R) -> R], Cardinality(R) \in Nat,
         \A m, n \in 1 .. Cardinality(R) : m < n => f[m] # f[n]
  PROVE  f \in Injection(1 .. Cardinality(R), R)
<1>1. \A a, b \in 1 .. Cardinality(R) : a < b \/ b < a \/ a = b
  OBVIOUS
<1>2. \A a, b \in 1 .. Cardinality(R) : f[a] = f[b] => a = b
  BY <1>1
<1> QED BY <1>2 DEF Injection, IsInjective

\* An answer under way or given belongs to a table that no longer changes.
CutInv ==
    /\ IsFiniteSet(jobs)
    /\ view # None => /\ stage = "serve" /\ "via" \in DOMAIN view
                      /\ view.via \in {"query", "rank", "paging", "paged"}
    /\ CutKeepsBest

\* query.query's order on rows.
LEMMA BeforeIsTierThenDate ==
  ASSUME NEW r \in [job : Job, rating : Entry], NEW x \in [job : Job, rating : Entry],
         ~Before(r, x)
  PROVE  /\ SponsorRank(x.rating.tier) <= SponsorRank(r.rating.tier)
         /\ x.rating.tier = r.rating.tier => x.job.date >= r.job.date
<1>1. \A t \in Tiers : SponsorRank(t) \in Nat
  BY DEF SponsorRank, Tiers
<1>2. r.rating.tier \in Tiers /\ x.rating.tier \in Tiers
  BY DEF Entry
<1>3. r.job.date \in Nat /\ x.job.date \in Nat
  BY DEF Job
<1> QED BY <1>1, <1>2, <1>3 DEF Before

LEMMA QueryKeepsBest ==
  ASSUME ListingsType, IsFiniteSet(jobs), NEW q \in Queries, GetJobs(q)
  PROVE  CutInv'
<1> DEFINE rows == QueryRows(q)
<1>1. PICK s \in [1 .. Cardinality(rows) -> rows] :
        /\ \A m, n \in DOMAIN s : m < n => s[m] # s[n] /\ ~Before(s[n], s[m])
        /\ view' = [via |-> "query", query |-> q, rows |-> Cut(s, q.max), offset |-> 0]
  BY DEF GetJobs, Orders
<1>2. rows \subseteq jobs /\ jobs \subseteq [job : Job, rating : Entry] /\ jobs' = jobs
      /\ stage = "serve" /\ stage' = stage
  BY DEF QueryRows, Live, GetJobs, buildVars, ListingsType, TypeOK, Entry
<1>3. IsFiniteSet(rows)
  BY <1>2, FS_Subset
<1>4. QueryRows(q)' = rows
  BY <1>2 DEF QueryRows, Live, InRepo, InTiers, InPlace, Finds
<1>5. q.max \in Int
  BY ListingsAssumption DEF Query
<1>6. /\ \A m, n \in DOMAIN s : m < n => s[m] # s[n]
      /\ \A m, n \in DOMAIN s : m < n => ~Before(s[n], s[m])
  BY <1>1
<1> DEFINE t == Cut(s, q.max)
<1> HIDE DEF rows
<1>7. ASSUME NEW x \in Shown(t), NEW r \in rows \ Shown(t)
      PROVE  /\ SponsorRank(x.rating.tier) <= SponsorRank(r.rating.tier)
             /\ x.rating.tier = r.rating.tier => x.job.date >= r.job.date
  <2>1. \E m, n \in DOMAIN s : m < n /\ s[m] = x /\ s[n] = r
    <3>1. Cardinality(rows) \in Nat /\ DOMAIN s = 1 .. Cardinality(rows)
      BY <1>3, FS_CardinalityType
    <3>2. s \in RowLists(rows)
      BY <1>6, <3>1, NamesOnce DEF RowLists
    <3>3. t \in Cuts(s)
      BY <1>5 DEF Cuts
    <3>4. x \in Shown(t) /\ r \in rows \ Shown(t)
      BY <1>7
    <3> HIDE DEF t
    <3>5. Ahead(s, x, r)
      BY <1>3, <3>2, <3>3, <3>4, CutOff
    <3> QED BY <3>5 DEF Ahead
  <2>2. ~Before(r, x)
    BY <1>6, <2>1
  <2>3. x \in jobs /\ r \in jobs
    BY <1>2, <1>6, <2>1
  <2> QED BY <1>2, <2>2, <2>3, BeforeIsTierThenDate
<1> HIDE DEF t
<1>8. view' # None /\ view'.via = "query" /\ view'.query = q /\ view'.rows = t
      /\ "via" \in DOMAIN view'
  BY <1>1 DEF t, None
<1>9. CutKeepsBest'
  BY <1>4, <1>7, <1>8 DEF CutKeepsBest, Shown
<1> QED BY <1>2, <1>8, <1>9 DEF CutInv

LEMMA RankKeepsBest ==
  ASSUME ListingsType, IsFiniteSet(jobs), NEW q \in Queries, NEW scan \in Scans,
         FindJobs(q, scan)
  PROVE  CutInv'
<1> DEFINE rows == FindJobsRows(q)
<1>1. PICK s \in [1 .. Cardinality(rows) -> rows] :
        /\ \A m, n \in DOMAIN s : m < n => s[m] # s[n] /\ ~Later(s[n], s[m])
        /\ view' = [via |-> "rank", query |-> q, rows |-> Cut(s, scan), offset |-> 0]
  BY DEF FindJobs, Orders
<1>2. rows \subseteq jobs /\ jobs \subseteq [job : Job, rating : Entry] /\ jobs' = jobs
      /\ stage = "serve" /\ stage' = stage
  BY DEF FindJobsRows, Live, FindJobs, buildVars, ListingsType, TypeOK, Entry
<1>3. IsFiniteSet(rows)
  BY <1>2, FS_Subset
<1>4. FindJobsRows(q)' = rows
  BY <1>2 DEF FindJobsRows, Live, InRepo, InTiers, Finds
<1>5. scan \in Int
  BY ListingsAssumption
<1>6. /\ \A m, n \in DOMAIN s : m < n => s[m] # s[n]
      /\ \A m, n \in DOMAIN s : m < n => ~Later(s[n], s[m])
  BY <1>1
<1> DEFINE t == Cut(s, scan)
<1> HIDE DEF rows
<1>7. ASSUME NEW x \in Shown(t), NEW r \in rows \ Shown(t)
      PROVE  x.job.date >= r.job.date
  <2>1. \E m, n \in DOMAIN s : m < n /\ s[m] = x /\ s[n] = r
    <3>1. Cardinality(rows) \in Nat /\ DOMAIN s = 1 .. Cardinality(rows)
      BY <1>3, FS_CardinalityType
    <3>2. s \in RowLists(rows)
      BY <1>6, <3>1, NamesOnce DEF RowLists
    <3>3. t \in Cuts(s)
      BY <1>5 DEF Cuts
    <3>4. x \in Shown(t) /\ r \in rows \ Shown(t)
      BY <1>7
    <3> HIDE DEF t
    <3>5. Ahead(s, x, r)
      BY <1>3, <3>2, <3>3, <3>4, CutOff
    <3> QED BY <3>5 DEF Ahead
  <2>2. ~Later(r, x)
    BY <1>6, <2>1
  <2>3. x \in jobs /\ r \in jobs
    BY <1>2, <1>6, <2>1
  <2>4. x.job.date \in Nat /\ r.job.date \in Nat
    BY <1>2, <2>3 DEF Job
  <2> QED BY <2>2, <2>4 DEF Later
<1> HIDE DEF t
<1>8. view' # None /\ view'.via = "rank" /\ view'.query = q /\ view'.rows = t
      /\ "via" \in DOMAIN view'
  BY <1>1 DEF t, None
<1>9. CutKeepsBest'
  BY <1>4, <1>7, <1>8 DEF CutKeepsBest, Shown
<1> QED BY <1>2, <1>8, <1>9 DEF CutInv

\* A client that pages has no cut answer.
LEMMA PagingIsUncut ==
  ASSUME CutInv, NextPage \/ \E q \in Queries, limit \in Limits : OpenSearch(q, limit)
  PROVE  CutInv'
<1>1. CASE \E q \in Queries, limit \in Limits : OpenSearch(q, limit)
  BY <1>1 DEF OpenSearch, CutInv, CutKeepsBest, buildVars, None
<1>2. CASE NextPage
  <2>1. view'.via \in {"paging", "paged"} /\ DOMAIN view' = DOMAIN view
    BY <1>2 DEF NextPage, CutInv
  <2> QED BY <1>2, <2>1 DEF NextPage, CutInv, CutKeepsBest, buildVars
<1> QED BY <1>1, <1>2

\* What is answered is of a finite table that no longer changes, and keeps the
\* best of what it cuts.
THEOREM ListingsCutInv == Spec => []CutInv
<1>1. Init => CutInv
  BY FS_EmptySet DEF Init, CutInv, CutKeepsBest
<1>2. ListingsType /\ CutInv /\ [Next]_vars => CutInv'
  <2> SUFFICES ASSUME ListingsType, CutInv, [Next]_vars PROVE CutInv'
    OBVIOUS
  <2>1. CASE Collapse \/ SeedIndex \/ CountFiling \/ LoadDolCsv
    <3>1. view = None /\ view' = view /\ jobs' = jobs
      BY <2>1 DEF Collapse, SeedIndex, CountFiling, LoadDolCsv, CutInv
    <3> QED BY <3>1 DEF CutInv, CutKeepsBest
  <2>2. CASE Annotate
    <3>1. view = None /\ view' = view
      BY <2>2 DEF Annotate, CutInv
    <3> QED BY <2>2, <3>1, JobsFinite DEF CutInv, CutKeepsBest
  <2>3. CASE \E q \in Queries : \/ GetJobs(q) \/ \E scan \in Scans : FindJobs(q, scan)
    BY <2>3, QueryKeepsBest, RankKeepsBest DEF CutInv
  <2>4. CASE NextPage \/ \E q \in Queries, limit \in Limits : OpenSearch(q, limit)
    BY <2>4, PagingIsUncut
  <2>5. CASE UNCHANGED vars
    BY <2>5 DEF vars, buildVars, CutInv, CutKeepsBest, QueryRows, FindJobsRows, Live,
       InRepo, InTiers, InPlace, Finds
  <2> QED BY <2>1, <2>2, <2>3, <2>4, <2>5 DEF Next, Build
<1> QED BY <1>1, <1>2, ListingsTypes, PTL DEF Spec

\* No row that is cut off would have come before one that is shown, for any
\* table, filters and limit, whatever order the sort leaves equals in
\* (query.query, api_v2._find_jobs).
THEOREM ListingsCutKeepsBest == Spec => []CutKeepsBest
<1>1. CutInv => CutKeepsBest
  BY DEF CutInv
<1> QED BY <1>1, ListingsCutInv, PTL

-----------------------------------------------------------------------------
(* What a search answers.                                                  *)

\* The record kept is the best as the feeds tell it.
LEMMA KeptIsBestRecord ==
  ASSUME ListingsType, KeepsFirst, stage # "collapse", NEW k \in Keys, best[k] # None
  PROVE  /\ BestRecord(k) \in Record
         /\ best[k] = FromRecord(BestRecord(k))
<1> DEFINE Of(a) == {i \in DOMAIN feed : /\ <<feed[i].company, feed[i].posting>> = k
                                         /\ feed[i].active = "yes" <=> a}
           pool == IF Of(TRUE) # {} THEN Of(TRUE) ELSE Of(FALSE)
           latest == {i \in pool : \A n \in pool : feed[n].date <= feed[i].date}
<1>1. feed \in Seq(Record) /\ DOMAIN feed = 1 .. Len(feed)
  BY DEF ListingsType, TypeOK
<1>2. Copies(k) = {i \in 1 .. Len(feed) : <<feed[i].company, feed[i].posting>> = k}
  BY DEF Copies, Read, FromRecord
<1>3. PICK i \in Copies(k) : FirstOfBest(k, i)
  BY DEF KeepsFirst
<1> DEFINE Act(n) == IF feed[n].active = "yes" THEN 1 ELSE 0
<1>4. \A n \in Copies(k) :
         /\ Act(n) < Act(i) \/ (Act(n) = Act(i) /\ feed[n].date <= feed[i].date)
         /\ n < i => Act(i) > Act(n) \/ (Act(i) = Act(n) /\ feed[i].date > feed[n].date)
  BY <1>3 DEF FirstOfBest, AsGood, Newer, FromRecord
<1>5. \A n \in Copies(k) : n \in 1 .. Len(feed) /\ feed[n] \in Record /\ feed[n].date \in Nat
  <2>1. \A n \in Copies(k) : n \in 1 .. Len(feed)
    BY <1>2
  <2>2. \A n \in 1 .. Len(feed) : feed[n] \in Record
    BY <1>1
  <2>3. \A r \in Record : r.date \in Nat
    BY DEF Record
  <2> QED BY <2>1, <2>2, <2>3
<1>6. Of(TRUE) = {n \in Copies(k) : Act(n) = 1} /\ Of(FALSE) = {n \in Copies(k) : Act(n) = 0}
  BY <1>1, <1>2
<1>7. \A n \in Copies(k) : Act(n) \in {0, 1}
  OBVIOUS
<1> HIDE DEF Of, Act
<1>8. pool = {n \in Copies(k) : Act(n) = Act(i)}
  <2>1. CASE Of(TRUE) # {}
    <3>1. PICK n \in Copies(k) : Act(n) = 1
      BY <1>6, <2>1
    <3>2. Act(i) = 1
      BY <1>3, <1>4, <1>7, <3>1
    <3> QED BY <1>6, <2>1, <3>2
  <2>2. CASE Of(TRUE) = {}
    <3>1. Act(i) = 0
      BY <1>3, <1>6, <1>7, <2>2
    <3> QED BY <1>6, <2>2, <3>1
  <2> QED BY <2>1, <2>2
<1> HIDE DEF pool
<1>9. i \in latest
  <2>1. \A n \in pool : feed[n].date <= feed[i].date
    <3> SUFFICES ASSUME NEW n \in pool PROVE feed[n].date <= feed[i].date
      OBVIOUS
    <3>1. n \in Copies(k) /\ Act(n) = Act(i) /\ Act(i) \in {0, 1}
      BY <1>3, <1>7, <1>8
    <3> QED BY <1>4, <3>1
  <2>2. i \in pool
    BY <1>3, <1>8
  <2> QED BY <2>1, <2>2
<1>10. \A n \in latest : i <= n
  <2> SUFFICES ASSUME NEW n \in latest, ~(i <= n) PROVE FALSE
    OBVIOUS
  <2>1. n \in Copies(k) /\ i \in Copies(k) /\ Act(n) = Act(i) /\ feed[i].date <= feed[n].date
    BY <1>3, <1>8, <1>9
  <2>2. n < i /\ Act(i) \in {0, 1}
    BY <1>5, <1>7, <2>1
  <2> QED BY <1>4, <1>5, <2>1, <2>2
<1>11. latest \subseteq Nat
  BY <1>5, <1>8
<1>12. BestRecord(k) = feed[CHOOSE x \in latest : \A n \in latest : x <= n]
  BY DEF BestRecord, pool, Of
<1> HIDE DEF latest
<1>13. (CHOOSE x \in latest : \A n \in latest : x <= n) = i
  <2>1. \A x \in latest : (\A n \in latest : x <= n) => x = i
    BY <1>9, <1>10, <1>11
  <2> QED BY <1>9, <1>10, <2>1
<1>14. feed[i] \in Record
  BY <1>3, <1>5
<1> QED BY <1>3, <1>12, <1>13, <1>14 DEF FirstOfBest

\* The index rules nobody's sponsorship out, and what is served are the copies
\* kept, as rated.
TableInv ==
    /\ \A c \in Companies : index[c] # None => index[c].tier \notin EXCLUDE
    /\ stage = "serve" => jobs = {[job |-> j, rating |-> Rating(j)] : j \in Kept}

LEMMA FilingsNeverRuleOut ==
  ASSUME NEW n \in Nat
  PROVE  TierFor(n) \notin EXCLUDE
<1>1. CASE n >= 5000
  BY <1>1 DEF TierFor, EXCLUDE
<1>2. CASE n \in 1000 .. 4999
  BY <1>2 DEF TierFor, EXCLUDE
<1>3. CASE n \in 100 .. 999
  BY <1>3 DEF TierFor, EXCLUDE
<1>4. CASE n \in 1 .. 99
  BY <1>4 DEF TierFor, EXCLUDE
<1>5. CASE n = 0
  BY <1>5 DEF TierFor, EXCLUDE
<1> QED BY <1>1, <1>2, <1>3, <1>4, <1>5

\* The table that is served is the copies kept, each with its rating.
THEOREM ListingsTable == Spec => []TableInv
<1>1. Init => TableInv
  BY DEF Init, TableInv
<1>2. ListingsType /\ TableInv /\ [Next]_vars => TableInv'
  <2> SUFFICES ASSUME ListingsType, TableInv, [Next]_vars PROVE TableInv'
    OBVIOUS
  <2>1. CASE Collapse \/ CountFiling
    BY <2>1 DEF Collapse, CountFiling, TableInv
  <2>2. CASE SeedIndex
    <3>1. \A c \in Companies : FromSeed[c] # None => FromSeed[c].tier \notin EXCLUDE
      <4> SUFFICES ASSUME NEW c \in Companies, FromSeed[c] # None
                   PROVE  FromSeed[c].tier \notin EXCLUDE
        OBVIOUS
      <4>1. Seed[c] \in {"very_high", "high", "agency", "absent"}
        BY ListingsAssumption
      <4>2. CASE Seed[c] = "absent"
        BY <4>2 DEF FromSeed
      <4>3. CASE Seed[c] = "agency"
        BY <4>3 DEF FromSeed, EXCLUDE
      <4>4. CASE Seed[c] = "very_high"
        BY <4>4 DEF FromSeed, EXCLUDE
      <4>5. CASE Seed[c] = "high"
        BY <4>5 DEF FromSeed, EXCLUDE
      <4> QED BY <4>1, <4>2, <4>3, <4>4, <4>5
    <3> QED BY <2>2, <3>1 DEF SeedIndex, TableInv
  <2>3. CASE LoadDolCsv
    <3>1. \A c \in Companies : counts[c] \in Nat
      BY DEF ListingsType, TypeOK
    <3>2. \A c \in Companies : TierFor(counts[c]) \notin EXCLUDE
      BY <3>1, FilingsNeverRuleOut
    <3> QED BY <2>3, <3>2 DEF LoadDolCsv, TableInv
  <2>4. CASE Annotate
    BY <2>4 DEF Annotate, TableInv, Kept, Rating
  <2>5. CASE UNCHANGED buildVars
    BY <2>5 DEF buildVars, TableInv, Kept, Rating
  <2>6. UNCHANGED vars => UNCHANGED buildVars
    BY DEF vars, buildVars
  <2> QED BY <2>1, <2>2, <2>3, <2>4, <2>5, <2>6
          DEF Next, Build, GetJobs, FindJobs, OpenSearch, NextPage
<1> QED BY <1>1, <1>2, ListingsTypes, PTL DEF Spec

\* An answer that is not cut lists every row that matches, once.
ViewInv ==
    (view # None /\ view.via = "query") =>
        /\ view.query \in Queries
        /\ view.query.max = 0 => view.rows \in RowLists(QueryRows(view.query))

LEMMA ListsAll ==
  ASSUME NEW R, IsFiniteSet(R), NEW f \in RowLists(R)
  PROVE  Shown(f) = R
<1>1. Cardinality(R) \in Nat
  BY FS_CardinalityType
<1>2. IsFiniteSet(1 .. Cardinality(R)) /\ Cardinality(1 .. Cardinality(R)) = Cardinality(R)
  BY <1>1, FS_Interval
<1>3. f \in Surjection(1 .. Cardinality(R), R)
  BY <1>2, FS_Injection DEF RowLists
<1> QED BY <1>3 DEF Surjection, Shown

LEMMA ViewStep ==
  ASSUME CutInv, ViewInv, [Next]_vars
  PROVE  ViewInv'
<1>1. CASE Build
  <2>1. view' = view /\ (view = None \/ stage = "serve")
    BY <1>1 DEF Build, Collapse, SeedIndex, CountFiling, LoadDolCsv, Annotate, CutInv
  <2>2. stage # "serve"
    BY <1>1 DEF Build, Collapse, SeedIndex, CountFiling, LoadDolCsv, Annotate
  <2> QED BY <2>1, <2>2 DEF ViewInv
<1>2. ASSUME NEW q \in Queries, GetJobs(q) PROVE ViewInv'
  <2> DEFINE rows == QueryRows(q)
  <2>1. PICK s \in [1 .. Cardinality(rows) -> rows] :
          /\ \A m, n \in DOMAIN s : m < n => s[m] # s[n] /\ ~Before(s[n], s[m])
          /\ view' = [via |-> "query", query |-> q, rows |-> Cut(s, q.max), offset |-> 0]
    BY <1>2 DEF GetJobs, Orders
  <2>2. rows \subseteq jobs /\ jobs' = jobs
    BY <1>2 DEF QueryRows, Live, GetJobs, buildVars
  <2>3. IsFiniteSet(rows) /\ Cardinality(rows) \in Nat
    BY <2>2, FS_Subset, FS_CardinalityType DEF CutInv
  <2>4. QueryRows(q)' = rows
    BY <2>2 DEF QueryRows, Live, InRepo, InTiers, InPlace, Finds
  <2> HIDE DEF rows
  <2>5. s \in RowLists(rows)
    BY <2>1, <2>3, NamesOnce DEF RowLists
  <2>6. q.max = 0 => Cut(s, q.max) = s
    BY DEF Cut
  <2> QED BY <2>1, <2>4, <2>5, <2>6 DEF ViewInv, RowLists
<1>3. CASE \E q \in Queries : (\E scan \in Scans : FindJobs(q, scan))
                           \/ (\E limit \in Limits : OpenSearch(q, limit))
  BY <1>3 DEF FindJobs, OpenSearch, ViewInv
<1>4. CASE NextPage
  <2>1. view'.via \in {"paging", "paged"}
    BY <1>4 DEF NextPage, CutInv
  <2> QED BY <2>1 DEF ViewInv
<1>5. CASE UNCHANGED vars
  BY <1>5 DEF vars, buildVars, ViewInv, RowLists, QueryRows, Live, InRepo, InTiers, InPlace, Finds
<1> QED BY <1>1, <1>2, <1>3, <1>4, <1>5 DEF Next

\* Whether a posting is served as searched: nothing in the index hides it.
LEMMA RatedOut ==
  ASSUME ListingsType, TableInv, NEW j \in Job
  PROVE  Rating(j).tier \in EXCLUDE <=> j.stated \cap {"no", "citizens"} # {}
<1>1. j.key[1] \in Companies
  BY DEF Job, Keys
<1>2. index[j.key[1]] # None => index[j.key[1]].tier \notin EXCLUDE
  BY <1>1 DEF TableInv
<1> QED BY <1>2 DEF Rating, Rated, EXCLUDE

Whole(q) ==
    /\ q.grad = "any" /\ q.tiers = {} /\ q.location = {} /\ q.needles = {}
    /\ q.agencies /\ q.max = 0

\* From the feeds to the answer: a posting is shown when its best copy is open,
\* visible and of the field, and does not itself rule sponsorship out.
LEMMA ShowsWhatFeedsSay ==
  ASSUME ListingsType, KeepsFirst, TableInv, CutInv, ViewInv
  PROVE  ShownUnlessRuledOut
<1> SUFFICES ASSUME view # None, view.via = "query",
                    view.query = [view.query EXCEPT !.grad = "any", !.tiers = {}, !.location = {},
                                           !.needles = {}, !.agencies = TRUE, !.max = 0]
             PROVE  {view.rows[n].job.key : n \in DOMAIN view.rows} =
                    {k \in {<<feed[i].company, feed[i].posting>> : i \in DOMAIN feed} :
                        /\ BestRecord(k).active = "yes" /\ BestRecord(k).visible # "no"
                        /\ BestRecord(k).category = "software"
                        /\ BestRecord(k).stated \cap {"no", "citizens"} = {}}
  BY DEF ShownUnlessRuledOut
<1> DEFINE q == view.query
           R == QueryRows(q)
<1>1. q \in Query
  BY ListingsAssumption DEF ViewInv
<1>2. Whole(q)
  BY <1>1 DEF Query, Whole
<1>3. stage = "serve" /\ IsFiniteSet(jobs) /\ view.rows \in RowLists(R)
  BY <1>2 DEF CutInv, ViewInv, Whole
<1>4. R \subseteq jobs
  BY DEF QueryRows, Live
<1>5. Shown(view.rows) = R
  <2>1. IsFiniteSet(R)
    BY <1>3, <1>4, FS_Subset
  <2> HIDE DEF R
  <2> QED BY <1>3, <2>1, ListsAll
<1>6. {view.rows[n].job.key : n \in DOMAIN view.rows} = {r.job.key : r \in R}
  BY <1>5 DEF Shown
<1>7. R = {r \in jobs : /\ r.job.active = 1 /\ r.job.visible = 1 /\ r.job.category = "software"
                        /\ r.rating.tier \notin EXCLUDE}
  BY <1>2 DEF QueryRows, Live, InRepo, InTiers, InPlace, Finds, Whole
<1>8. jobs = {[job |-> j, rating |-> Rating(j)] : j \in Kept}
  BY <1>3 DEF TableInv
<1>9. Kept \subseteq Job
  BY DEF Kept, ListingsType, TypeOK
<1>11. ASSUME NEW k \in Keys, best[k] # None
       PROVE  /\ BestRecord(k) \in Record
              /\ best[k] = FromRecord(BestRecord(k))
              /\ best[k].key = k
  <2>1. PICK i \in Copies(k) : FirstOfBest(k, i)
    BY <1>11 DEF KeepsFirst
  <2>2. best[k].key = k
    BY <2>1 DEF FirstOfBest, Copies
  <2> QED BY <1>3, <1>11, <2>2, KeptIsBestRecord
<1>12. {k \in Keys : best[k] # None} = {<<feed[i].company, feed[i].posting>> : i \in DOMAIN feed}
  <2>1. feed \in Seq(Record) /\ DOMAIN feed = 1 .. Len(feed)
    BY DEF ListingsType, TypeOK
  <2>2. \A i \in DOMAIN feed : <<feed[i].company, feed[i].posting>> \in Keys
    <3>1. \A i \in DOMAIN feed : feed[i] \in Record
      BY <2>1
    <3>2. \A r \in Record : <<r.company, r.posting>> \in Keys
      BY DEF Record, Keys
    <3> QED BY <3>1, <3>2
  <2>3. \A k \in Keys : Copies(k) = {i \in DOMAIN feed : <<feed[i].company, feed[i].posting>> = k}
    BY <1>3, <2>1 DEF Copies, Read, FromRecord
  <2>4. \A k \in Keys : best[k] # None <=> Copies(k) # {}
    BY DEF KeepsFirst
  <2> QED BY <2>2, <2>3, <2>4
<1>13. ASSUME NEW k \in Keys, best[k] # None
       PROVE  /\ best[k].active = 1 <=> BestRecord(k).active = "yes"
              /\ best[k].visible = 1 <=> BestRecord(k).visible # "no"
              /\ best[k].category = BestRecord(k).category
              /\ best[k].stated = BestRecord(k).stated
  <2>1. PICK b : b = BestRecord(k)
    OBVIOUS
  <2>2. b \in Record /\ best[k] = FromRecord(b)
    BY <1>11, <1>13, <2>1
  <2> QED BY <2>1, <2>2 DEF FromRecord, Record
<1> DEFINE Fit(k) == /\ best[k].active = 1 /\ best[k].visible = 1 /\ best[k].category = "software"
                     /\ best[k].stated \cap {"no", "citizens"} = {}
           Shows(k) == /\ BestRecord(k).active = "yes" /\ BestRecord(k).visible # "no"
                       /\ BestRecord(k).category = "software"
                       /\ BestRecord(k).stated \cap {"no", "citizens"} = {}
           Known == {k \in Keys : best[k] # None}
<1>14. {r.job.key : r \in R} = {k \in Known : Fit(k)}
  <2>1. \A j \in Kept : Rating(j).tier \notin EXCLUDE <=> j.stated \cap {"no", "citizens"} = {}
    BY <1>9, RatedOut
  <2>2. ASSUME NEW r \in R
        PROVE  r.job.key \in Known /\ Fit(r.job.key)
    <3>1. PICK k \in Keys : best[k] # None /\ r = [job |-> best[k], rating |-> Rating(best[k])]
      BY <1>7, <1>8 DEF Kept
    <3>2. best[k] \in Kept /\ r.job = best[k] /\ r.rating = Rating(best[k]) /\ r.job.key = k
      BY <1>11, <3>1 DEF Kept
    <3>3. /\ r.job.active = 1 /\ r.job.visible = 1 /\ r.job.category = "software"
          /\ r.rating.tier \notin EXCLUDE
      BY <1>7
    <3> QED BY <2>1, <3>1, <3>2, <3>3
  <2>3. ASSUME NEW k \in Known, Fit(k)
        PROVE  \E r \in R : r.job.key = k
    <3> DEFINE r == [job |-> best[k], rating |-> Rating(best[k])]
    <3>1. best[k] \in Kept
      BY DEF Kept
    <3>2. r \in jobs /\ r.job = best[k] /\ r.rating = Rating(best[k]) /\ r.job.key = k
      BY <1>8, <1>11, <3>1
    <3>3. r.rating.tier \notin EXCLUDE
      BY <2>1, <2>3, <3>1, <3>2
    <3> HIDE DEF r
    <3>4. r \in R
      BY <1>7, <2>3, <3>2, <3>3
    <3> QED BY <3>2, <3>4
  <2> HIDE DEF Known, R, Fit
  <2> QED BY <2>2, <2>3
<1>15. \A k \in Known : Fit(k) <=> Shows(k)
  BY <1>13
<1> HIDE DEF Fit, R
<1>16. {k \in Known : Fit(k)} = {k \in Known : Shows(k)}
  <2> HIDE DEF Shows, Known
  <2> QED BY <1>15
<1> QED BY <1>6, <1>12, <1>14, <1>16

RowsOf(R, t) == {r \in R : r.rating.tier = t}
PlacesOf(f, t) == {n \in DOMAIN f : f[n].rating.tier = t}

\* Those of a list of rows of a tier are as many as those of the set.
LEMMA CountsOfTier ==
  ASSUME NEW R, IsFiniteSet(R), NEW f \in RowLists(R), NEW t
  PROVE  Cardinality(RowsOf(R, t)) = Cardinality(PlacesOf(f, t))
<1> DEFINE A == {n \in DOMAIN f : f[n].rating.tier = t}
           B == {r \in R : r.rating.tier = t}
           g == [n \in A |-> f[n]]
<1>1. Shown(f) = R
  BY ListsAll
<1>2. /\ f \in [1 .. Cardinality(R) -> R]
      /\ \A m, n \in DOMAIN f : f[m] = f[n] => m = n
  BY DEF RowLists, Injection, IsInjective
<1>3. IsFiniteSet(A)
  <2>1. IsFiniteSet(1 .. Cardinality(R))
    BY FS_CardinalityType, FS_Interval
  <2>2. A \subseteq 1 .. Cardinality(R)
    BY <1>2
  <2> QED BY <2>1, <2>2, FS_Subset
<1>4. g \in Bijection(A, B)
  <2>1. \A n \in A : f[n] \in B
    BY <1>2
  <2>2. \A r \in B : \E n \in A : f[n] = r
    BY <1>1 DEF Shown
  <2>3. \A m, n \in A : f[m] = f[n] => m = n
    BY <1>2
  <2> HIDE DEF A, B
  <2> QED BY <2>1, <2>2, <2>3 DEF Bijection, Injection, Surjection, IsInjective
<1>5. ExistsBijection(A, B)
  BY <1>4 DEF ExistsBijection
<1> HIDE DEF A, B
<1>6. Cardinality(B) = Cardinality(A)
  BY <1>3, <1>5, FS_Bijection
<1> QED BY <1>6 DEF A, B, RowsOf, PlacesOf

\* The counts of a summary are those of the searches it invites.
LEMMA CountsWhatIsShown ==
  ASSUME CutInv, ViewInv
  PROVE  SummaryAgrees
<1> SUFFICES ASSUME view # None, view.via = "query", view.query.agencies, view.query.max = 0,
                    view.query.grad = "any", view.query.location = {}, view.query.needles = {},
                    NEW t \in Tiers \ EXCLUDE,
                    view.query.tiers = {} \/ t \in view.query.tiers
             PROVE  Summary(t) = Cardinality({n \in DOMAIN view.rows : view.rows[n].rating.tier = t})
  BY DEF SummaryAgrees
<1> DEFINE R == QueryRows(view.query)
           f == view.rows
<1>1. f \in RowLists(R)
  BY DEF ViewInv
<1>2. {r \in Live : r.job.category = "software" /\ r.rating.tier = t}
        = {r \in R : r.rating.tier = t}
  BY DEF QueryRows, InRepo, InTiers, InPlace, Finds
<1>3. IsFiniteSet(R)
  <2>1. R \subseteq jobs
    BY DEF QueryRows, Live
  <2> QED BY <2>1, FS_Subset DEF CutInv
<1>4. Summary(t) = Cardinality(RowsOf(R, t))
  BY <1>2 DEF Summary, RowsOf
<1> HIDE DEF R, f
<1>5. Cardinality(RowsOf(R, t)) = Cardinality(PlacesOf(f, t))
  BY <1>1, <1>3, CountsOfTier
<1> QED BY <1>4, <1>5 DEF f, PlacesOf

\* What a search answers, and how many a summary counts, is what the feeds and
\* the filings say, for feeds and filings of any length (query.query,
\* summary_dict).
THEOREM ListingsSearchAgrees == Spec => []SearchAgrees
<1>1. Init => ViewInv
  BY DEF Init, ViewInv
<1>2. CutInv /\ ViewInv /\ [Next]_vars => ViewInv'
  BY ViewStep
<1>3. ListingsType /\ KeepsFirst /\ TableInv /\ CutInv /\ ViewInv => SearchAgrees
  BY ShowsWhatFeedsSay, CountsWhatIsShown DEF SearchAgrees
<1> QED BY <1>1, <1>2, <1>3, ListingsTypes, ListingsKeepFirst, ListingsTable, ListingsCutInv,
        PTL DEF Spec

-----------------------------------------------------------------------------
(* Paging.                                                                 *)

Distinct(R) == \A r, s \in R : r.job.date = s.job.date => r = s
NewestFirst(R) == Orders(R, Later)

\* Of the naturals of a set one is the least.
LEMMA LeastNatural ==
    ASSUME NEW T \in SUBSET Nat, T # {}
    PROVE  \E n \in T : \A m \in T : n <= m
<1>1. PICK n \in T : \A m \in T : ~(<<m, n>> \in OpToRel(<, Nat))
  BY NatLessThanWellFounded, WFMin
<1>2. \A m \in T : ~(m < n)
  BY <1>1 DEF OpToRel
<1> QED BY <1>2

\* The lists of rows a sort by date may leave, when no two dates are the same.
LEMMA SortedRows ==
  ASSUME NEW R, IsFiniteSet(R), Distinct(R), \A r \in R : r.job.date \in Nat,
         NEW f \in NewestFirst(R)
  PROVE  /\ Cardinality(R) \in Nat /\ f \in Seq(R) /\ Len(f) = Cardinality(R)
         /\ DOMAIN f = 1 .. Cardinality(R)
         /\ f \in RowLists(R) /\ Shown(f) = R
         /\ \A m, n \in 1 .. Cardinality(R) : m < n => f[m].job.date > f[n].job.date
<1> DEFINE N == Cardinality(R)
<1>1. N \in Nat
  BY FS_CardinalityType
<1>2. f \in [1 .. N -> R] /\ \A m, n \in DOMAIN f : m < n => f[m] # f[n] /\ ~Later(f[n], f[m])
  BY DEF NewestFirst, Orders
<1>3. f \in RowLists(R)
  BY <1>1, <1>2, NamesOnce DEF RowLists
<1>4. ASSUME NEW m \in 1 .. N, NEW n \in 1 .. N, m < n PROVE f[m].job.date > f[n].job.date
  <2>1. f[m] \in R /\ f[n] \in R /\ f[m] # f[n] /\ ~(f[n].job.date > f[m].job.date)
    BY <1>2, <1>4 DEF Later
  <2>2. f[m].job.date # f[n].job.date /\ f[m].job.date \in Nat /\ f[n].job.date \in Nat
    BY <2>1 DEF Distinct
  <2> QED BY <2>1, <2>2
<1>5. f \in Seq(R) /\ Len(f) = N /\ DOMAIN f = 1 .. N
  BY <1>1, <1>2
<1> QED BY <1>1, <1>3, <1>4, <1>5, ListsAll

\* In two of them the same row is at the first place where they differ: there
\* is only one.
LEMMA OneOrder ==
  ASSUME NEW R, IsFiniteSet(R), Distinct(R), \A r \in R : r.job.date \in Nat,
         NEW f \in NewestFirst(R), NEW g \in NewestFirst(R)
  PROVE  f = g
<1> DEFINE N == Cardinality(R)
           D == {n \in 1 .. N : f[n] # g[n]}
<1>1. /\ N \in Nat /\ DOMAIN f = 1 .. N /\ f \in RowLists(R) /\ Shown(f) = R
      /\ \A m, n \in 1 .. N : m < n => f[m].job.date > f[n].job.date
  BY SortedRows
<1>2. /\ DOMAIN g = 1 .. N /\ g \in RowLists(R) /\ Shown(g) = R
      /\ \A m, n \in 1 .. N : m < n => g[m].job.date > g[n].job.date
  BY SortedRows
<1> HIDE DEF N
<1>3. f \in [1 .. N -> R] /\ g \in [1 .. N -> R]
  BY <1>1, <1>2 DEF RowLists, Injection, N
<1>4. SUFFICES ASSUME D # {} PROVE FALSE
  <2>1. f = [n \in 1 .. N |-> f[n]] /\ g = [n \in 1 .. N |-> g[n]]
    BY <1>3
  <2>2. D = {} => \A n \in 1 .. N : f[n] = g[n]
    OBVIOUS
  <2>3. (\A n \in 1 .. N : f[n] = g[n]) => f = g
    BY <2>1
  <2> HIDE DEF D
  <2> QED BY <2>2, <2>3
<1>5. PICK n \in D : \A m \in D : n <= m
  <2>1. D \in SUBSET Nat
    BY <1>1
  <2> HIDE DEF D
  <2> QED BY <1>4, <2>1, LeastNatural
<1>6. \A m \in 1 .. N : m < n => f[m] = g[m]
  BY <1>1, <1>5
<1>7. PICK i \in 1 .. N : g[i] = f[n]
  BY <1>2, <1>3, <1>5 DEF Shown
<1>8. PICK j \in 1 .. N : f[j] = g[n]
  BY <1>1, <1>3, <1>5 DEF Shown
<1>9. n \in 1 .. N /\ f[n] # g[n]
  BY <1>5
<1>10. \A a, b \in 1 .. N : (f[a] = f[b] => a = b) /\ (g[a] = g[b] => a = b)
  BY <1>1, <1>2, <1>3 DEF RowLists, Injection, IsInjective
<1>11. i > n
  BY <1>1, <1>6, <1>7, <1>9, <1>10
<1>12. j > n
  BY <1>1, <1>6, <1>8, <1>9, <1>10
<1>13. g[n].job.date > f[n].job.date /\ f[n].job.date > g[n].job.date
  BY <1>1, <1>2, <1>7, <1>8, <1>9, <1>11, <1>12
<1>14. f[n].job.date \in Nat /\ g[n].job.date \in Nat
  BY <1>3, <1>9
<1> QED BY <1>13, <1>14

\* What a client that pages has seen: the first rows of the order, whole pages
\* of them.
Seen(R, f, seen, offset) ==
    /\ seen \in Seq(R)
    /\ Len(seen) = Least(offset, Len(f))
    /\ \A n \in 1 .. Len(seen) : seen[n] = f[n]

Multiple(n, size) == \E p \in Nat : n = p * size

\* queryDatabase's page of an offset that is a multiple of the size begins there.
LEMMA PageAt ==
  ASSUME NEW s, NEW size \in Nat \ {0}, NEW offset \in Nat, Multiple(offset, size)
  PROVE  /\ Page(s, offset, size) = SubSeq(s, offset + 1, Least(offset + size, Len(s)))
         /\ Multiple(offset + size, size)
<1>1. PICK p \in Nat : offset = p * size
  BY DEF Multiple
<1>2. offset \div size = p
  <2>1. \A a \in Nat, b \in Nat \ {0} : (a * b) \div b = a
    OBVIOUS
  <2> QED BY <1>1, <2>1
<1>3. (p + 1) * size = offset + size /\ p + 1 \in Nat
  BY <1>1
<1>4. (offset \div size) * size = offset
  BY <1>1, <1>2
<1>5. ((offset \div size) + 1) * size = offset + size
  BY <1>2, <1>3
<1> QED BY <1>3, <1>4, <1>5 DEF Page, Multiple

LEMMA LeastOf ==
  ASSUME NEW m \in Nat, NEW n \in Nat
  PROVE  /\ m >= n => Least(m, n) = n
         /\ m <= n => Least(m, n) = m
BY DEF Least

\* The next page goes on where the last ended, and is not full only at the end.
LEMMA PageAdds ==
  ASSUME NEW R, NEW s \in Seq(R), NEW size \in Nat \ {0}, NEW offset \in Nat,
         NEW seen, Seen(R, s, seen, offset),
         NEW page, page = SubSeq(s, offset + 1, Least(offset + size, Len(s)))
  PROVE  /\ Seen(R, s, seen \o page, offset + size)
         /\ Len(page) \in Nat
         /\ Len(page) < size => offset + size >= Len(s)
<1>1. PICK N \in Nat : N = Len(s)
  BY LenProperties
<1>2. PICK top : top = Least(offset + size, N)
  OBVIOUS
<1>3. /\ seen \in Seq(R) /\ Len(seen) = Least(offset, N)
      /\ \A n \in 1 .. Len(seen) : seen[n] = s[n]
  BY <1>1 DEF Seen
<1>4. \A n \in 1 .. N : s[n] \in R
  BY <1>1, ElementOfSeq
<1>5. page = SubSeq(s, offset + 1, top)
  BY <1>1, <1>2
<1>6. offset + size \in Nat /\ offset + 1 \in Int /\ offset + size >= offset + 1
  OBVIOUS
<1>7. CASE offset >= N
  <2>1. top = N /\ Least(offset, N) = N /\ offset + size >= N
    BY <1>2, <1>6, <1>7, LeastOf
  <2>2. page = <<>>
    <3>1. PICK m \in Int : m = offset + 1
      BY <1>6
    <3>2. top \in Int /\ top < m
      BY <1>1, <1>7, <2>1, <3>1
    <3> QED BY <1>5, <3>1, <3>2, SubSeqEmpty
  <2>3. seen \o page = seen /\ Len(page) = 0
    BY <1>3, <2>2, ConcatEmptySeq
  <2> QED BY <1>1, <1>2, <1>3, <2>1, <2>3 DEF Seen
<1>8. CASE offset < N
  <2>1. Least(offset, N) = offset
    BY <1>8, LeastOf
  <2>2. /\ top \in Nat /\ offset + 1 <= top /\ top <= N /\ top <= offset + size
        /\ top < offset + size => top = N
    <3>1. CASE offset + size >= N
      <4>1. top = N
        BY <1>2, <1>6, <3>1, LeastOf
      <4> QED BY <1>8, <3>1, <4>1
    <3>2. CASE offset + size < N
      <4>1. top = offset + size
        BY <1>2, <1>6, <3>2, LeastOf
      <4> QED BY <1>6, <3>2, <4>1
    <3> QED BY <1>6, <3>1, <3>2
  <2>3. /\ page \in Seq(R) /\ Len(page) = top - offset
        /\ \A n \in 1 .. top - offset : page[n] = s[offset + n]
    <3>1. \A i \in offset + 1 .. top : s[i] \in R
      BY <1>4, <2>2
    <3>2. PICK m \in Int : m = offset + 1
      BY <1>6
    <3>3. top \in Int /\ m <= top
      BY <2>2, <3>2
    <3>4. /\ page \in Seq(R) /\ Len(page) = top - m + 1
          /\ \A i \in 1 .. top - m + 1 : page[i] = s[m + i - 1]
      <4>1. \A i \in m .. top : s[i] \in R
        BY <3>1, <3>2
      <4>2. page = SubSeq(s, m, top)
        BY <1>5, <3>2
      <4>3. Len(page) = IF m <= top THEN top - m + 1 ELSE 0
        BY <3>3, <4>1, <4>2, SubSeqProperties
      <4>4. /\ SubSeq(s, m, top) \in Seq(R)
            /\ \A i \in 1 .. top - m + 1 : SubSeq(s, m, top)[i] = s[m + i - 1]
        BY <3>3, <4>1, SubSeqProperties
      <4> QED BY <3>3, <4>2, <4>3, <4>4
    <3>5. top - m + 1 = top - offset /\ \A i \in Int : m + i - 1 = offset + i
      BY <2>2, <3>2
    <3> QED BY <3>4, <3>5
  <2>4. /\ seen \o page \in Seq(R) /\ Len(seen \o page) = top
        /\ \A n \in 1 .. top : (seen \o page)[n] = s[n]
    <3>1. /\ seen \o page \in Seq(R) /\ Len(seen \o page) = Len(seen) + Len(page)
          /\ \A n \in 1 .. Len(seen) + Len(page) :
                (seen \o page)[n] = IF n <= Len(seen) THEN seen[n] ELSE page[n - Len(seen)]
      BY <1>3, <2>3, ConcatProperties
    <3>2. Len(seen) = offset /\ Len(seen) + Len(page) = top
      BY <1>3, <2>1, <2>2, <2>3
    <3>3. ASSUME NEW n \in 1 .. top PROVE (seen \o page)[n] = s[n]
      <4>1. CASE n <= offset
        BY <1>3, <2>2, <3>1, <3>2, <4>1
      <4>2. CASE n > offset
        <5>1. n - offset \in 1 .. top - offset /\ offset + (n - offset) = n
          BY <2>2, <4>2
        <5>2. page[n - offset] = s[n]
          BY <2>3, <5>1
        <5> QED BY <2>2, <3>1, <3>2, <4>2, <5>2
      <4>3. n <= offset \/ n > offset
        BY <2>2, <3>3
      <4> QED BY <4>1, <4>2, <4>3
    <3> QED BY <3>1, <3>2, <3>3
  <2>5. Seen(R, s, seen \o page, offset + size)
    BY <1>1, <1>2, <2>4 DEF Seen
  <2>6. Len(page) \in Nat /\ (Len(page) < size => offset + size >= N)
    BY <2>2, <2>3
  <2> QED BY <1>1, <2>5, <2>6
<1>9. offset >= N \/ offset < N
  BY <1>1
<1> QED BY <1>7, <1>8, <1>9

\* Every page size is a size.
LEMMA ClampedIsSize ==
  ASSUME NEW limit \in Limits
  PROVE  Clamped(limit) \in Nat \ {0}
<1>1. limit \in Int \cup {Unset} /\ MAX_LIMIT \in Nat \ {0} /\ DEFAULT_LIMIT \in 1 .. MAX_LIMIT
  BY ListingsAssumption
<1>2. CASE limit = Unset
  BY <1>1, <1>2 DEF Clamped
<1>3. CASE limit # Unset /\ limit < 1
  BY <1>3 DEF Clamped
<1>4. CASE limit # Unset /\ ~(limit < 1)
  BY <1>1, <1>4 DEF Clamped, Least
<1> QED BY <1>2, <1>3, <1>4

\* A client that pages has seen whole pages of the one order there is.
Paged(v) ==
    /\ v = [via |-> v.via, query |-> v.query, rows |-> v.rows, offset |-> v.offset,
            limit |-> v.limit]
    /\ v.limit \in Limits
    /\ v.offset \in Nat /\ Multiple(v.offset, Clamped(v.limit))

InOrder(R, v) ==
    Distinct(R) =>
        \/ v.via = "paging" /\ v.rows = <<>> /\ v.offset = 0
        \/ \E s \in NewestFirst(R) : /\ Seen(R, s, v.rows, v.offset)
                                     /\ v.via = "paged" => v.offset >= Len(s)

PageInv ==
    (view # None /\ view.via \in {"paging", "paged"}) =>
        Paged(view) /\ InOrder(SearchRows(view.query), view)

\* A step of paging, whatever the answer before it.
LEMMA NextPageKeeps ==
  ASSUME NEW R, IsFiniteSet(R), \A r \in R : r.job.date \in Nat,
         NEW v, v.via = "paging", Paged(v), InOrder(R, v),
         NEW s \in NewestFirst(R), NEW size, size = Clamped(v.limit),
         NEW page, page = Page(s, v.offset, size),
         NEW w, w = [via    |-> IF Len(page) < size THEN "paged" ELSE v.via,
                     query  |-> v.query, rows |-> v.rows \o page,
                     offset |-> v.offset + size, limit |-> v.limit]
  PROVE  Paged(w) /\ InOrder(R, w)
<1>1. size \in Nat \ {0} /\ v.offset \in Nat /\ v.limit \in Limits /\ Multiple(v.offset, size)
  BY ClampedIsSize DEF Paged
<1>2. PICK offset \in Nat : offset = v.offset
  BY <1>1
<1>3. PICK seen : seen = v.rows
  OBVIOUS
<1>4. /\ Page(s, offset, size) = SubSeq(s, offset + 1, Least(offset + size, Len(s)))
      /\ Multiple(offset + size, size)
  BY <1>1, <1>2, PageAt
<1>5. /\ w.via = (IF Len(page) < size THEN "paged" ELSE "paging")
      /\ w.query = v.query /\ w.rows = seen \o page /\ w.offset = offset + size
      /\ w.limit = v.limit
      /\ w = [via |-> w.via, query |-> w.query, rows |-> w.rows, offset |-> w.offset,
              limit |-> w.limit]
  BY <1>2, <1>3
<1>6. Paged(w)
  <2>1. w.limit \in Limits /\ Clamped(w.limit) = size
    BY <1>1, <1>5
  <2>2. w.offset \in Nat
    BY <1>1, <1>2, <1>5
  <2>3. Multiple(w.offset, Clamped(w.limit))
    BY <1>4, <1>5, <2>1
  <2> QED BY <1>5, <2>1, <2>2, <2>3 DEF Paged
<1>7. ASSUME Distinct(R) PROVE InOrder(R, w)
  <2>1. s \in Seq(R) /\ Len(s) \in Nat
    BY <1>7, SortedRows
  <2>2. Seen(R, s, seen, offset)
    <3>1. CASE v.rows = <<>> /\ v.offset = 0
      <4>1. Least(0, Len(s)) = 0
        BY <2>1, LeastOf
      <4>2. seen = <<>> /\ offset = 0 /\ seen \in Seq(R) /\ Len(seen) = 0
        BY <1>2, <1>3, <3>1
      <4> QED BY <4>1, <4>2 DEF Seen
    <3>2. CASE \E t \in NewestFirst(R) : Seen(R, t, v.rows, v.offset)
      <4>1. PICK t \in NewestFirst(R) : Seen(R, t, v.rows, v.offset)
        BY <3>2
      <4>2. t = s
        BY <1>7, OneOrder
      <4> QED BY <1>2, <1>3, <4>1, <4>2
    <3> QED BY <1>7, <3>1, <3>2 DEF InOrder
  <2>3. /\ Seen(R, s, seen \o page, offset + size)
        /\ Len(page) \in Nat
        /\ Len(page) < size => offset + size >= Len(s)
    <3>1. page = SubSeq(s, offset + 1, Least(offset + size, Len(s)))
      BY <1>2, <1>4
    <3> QED BY <1>1, <1>2, <2>1, <2>2, <3>1, PageAdds
  <2>4. w.via = "paged" => w.offset >= Len(s)
    BY <1>5, <2>3
  <2> QED BY <1>5, <2>3, <2>4 DEF InOrder
<1> QED BY <1>6, <1>7 DEF InOrder

LEMMA MatchingRows ==
  ASSUME ListingsType, CutInv, NEW q
  PROVE  IsFiniteSet(SearchRows(q)) /\ \A r \in SearchRows(q) : r.job.date \in Nat
<1>1. SearchRows(q) \subseteq jobs
  BY DEF SearchRows, Live
<1>2. \A r \in jobs : r.job.date \in Nat
  BY DEF ListingsType, TypeOK, Job
<1> QED BY <1>1, <1>2, FS_Subset DEF CutInv

LEMMA PageStep ==
  ASSUME ListingsType, CutInv, PageInv, [Next]_vars
  PROVE  PageInv'
<1>1. CASE Build
  <2>1. view' = view /\ (view = None \/ stage = "serve")
    BY <1>1 DEF Build, Collapse, SeedIndex, CountFiling, LoadDolCsv, Annotate, CutInv
  <2>2. stage # "serve"
    BY <1>1 DEF Build, Collapse, SeedIndex, CountFiling, LoadDolCsv, Annotate
  <2> QED BY <2>1, <2>2 DEF PageInv
<1>2. CASE \E q \in Queries : GetJobs(q) \/ \E scan \in Scans : FindJobs(q, scan)
  BY <1>2 DEF GetJobs, FindJobs, PageInv
<1>3. ASSUME NEW q \in Queries, NEW limit \in Limits, OpenSearch(q, limit) PROVE PageInv'
  <2>1. view' = [via |-> "paging", query |-> q, rows |-> <<>>, offset |-> 0, limit |-> limit]
    BY <1>3 DEF OpenSearch
  <2>2. PICK v : v = view'
    OBVIOUS
  <2>3. v.via = "paging" /\ v.rows = <<>> /\ v.offset = 0 /\ v.limit = limit
        /\ v = [via |-> v.via, query |-> v.query, rows |-> v.rows, offset |-> v.offset,
                limit |-> v.limit]
    BY <2>1, <2>2
  <2>4. Multiple(0, Clamped(limit))
    <3>1. 0 = 0 * Clamped(limit)
      BY ClampedIsSize
    <3> QED BY <3>1 DEF Multiple
  <2>5. Paged(v) /\ \A R : InOrder(R, v)
    BY <2>3, <2>4 DEF Paged, InOrder
  <2> QED BY <2>2, <2>5 DEF PageInv
<1>4. CASE NextPage
  <2>1. view # None /\ view.via = "paging" /\ Paged(view) /\ InOrder(SearchRows(view.query), view)
    BY <1>4 DEF NextPage, PageInv
  <2> DEFINE R == SearchRows(view.query)
             size == Clamped(view.limit)
  <2>2. PICK s \in NewestFirst(R) :
           view' = [view EXCEPT !.rows = view.rows \o Page(s, view.offset, size),
                                !.offset = view.offset + size,
                                !.via = IF Len(Page(s, view.offset, size)) < size THEN "paged"
                                                                              ELSE view.via]
    BY <1>4 DEF NextPage, NewestFirst
  <2>3. jobs' = jobs
    BY <1>4 DEF NextPage, buildVars
  <2> DEFINE page == Page(s, view.offset, size)
  <2>4. view' = [via    |-> IF Len(page) < size THEN "paged" ELSE view.via,
                 query  |-> view.query, rows |-> view.rows \o page,
                 offset |-> view.offset + size, limit |-> view.limit]
    <3>1. view = [via |-> view.via, query |-> view.query, rows |-> view.rows,
                  offset |-> view.offset, limit |-> view.limit]
      BY <2>1 DEF Paged
    <3> HIDE DEF size, page
    <3> QED BY <2>2, <3>1 DEF page
  <2>5. view'.query = view.query
    BY <2>4
  <2>6. SearchRows(view.query)' = R
    BY <2>3, <2>5 DEF SearchRows, Live, InPlace, InTiers, Finds, OfSeniority
  <2>7. IsFiniteSet(R) /\ \A r \in R : r.job.date \in Nat
    BY MatchingRows
  <2> HIDE DEF R, size, page
  <2>8. PICK w : w = view'
    OBVIOUS
  <2>9. Paged(w) /\ InOrder(R, w)
    BY <2>1, <2>2, <2>4, <2>7, <2>8, NextPageKeeps DEF R, size, page
  <2> QED BY <2>6, <2>8, <2>9 DEF PageInv
<1>5. CASE UNCHANGED vars
  <2>1. view' = view /\ jobs' = jobs
    BY <1>5 DEF vars, buildVars
  <2>2. \A q : SearchRows(q)' = SearchRows(q)
    BY <2>1 DEF SearchRows, Live, InPlace, InTiers, Finds, OfSeniority
  <2> QED BY <2>1, <2>2 DEF PageInv
<1> QED BY <1>1, <1>2, <1>3, <1>4, <1>5 DEF Next

\* Pages of the one order are in order, and together all of it.
LEMMA PagesTile ==
  ASSUME ListingsType, CutInv, PageInv
  PROVE  PagesPartition
<1> SUFFICES ASSUME view # None, view.via \in {"paging", "paged"},
                    Distinct(SearchRows(view.query))
             PROVE  /\ \A m, n \in DOMAIN view.rows :
                          m < n => Later(view.rows[m], view.rows[n])
                    /\ view.via = "paged" =>
                          {view.rows[n] : n \in DOMAIN view.rows} = SearchRows(view.query)
  BY DEF PagesPartition, Distinct
<1> DEFINE R == SearchRows(view.query)
<1>1. PICK seen : seen = view.rows
  OBVIOUS
<1>2. IsFiniteSet(R) /\ \A r \in R : r.job.date \in Nat
  BY MatchingRows
<1>3. Paged(view) /\ InOrder(R, view)
  BY DEF PageInv
<1>4. CASE view.via = "paging" /\ view.rows = <<>>
  BY <1>4
<1>5. ASSUME NEW s \in NewestFirst(R), Seen(R, s, view.rows, view.offset),
             view.via = "paged" => view.offset >= Len(s)
      PROVE  /\ \A m, n \in DOMAIN seen : m < n => Later(seen[m], seen[n])
             /\ view.via = "paged" => Shown(seen) = R
  <2> HIDE DEF R
  <2>1. PICK N \in Nat : N = Cardinality(R)
    BY <1>2, FS_CardinalityType
  <2>2. /\ s \in Seq(R) /\ Len(s) = N /\ DOMAIN s = 1 .. N /\ Shown(s) = R
        /\ \A m, n \in 1 .. N : m < n => s[m].job.date > s[n].job.date
    BY <1>2, <1>5, <2>1, SortedRows DEF R
  <2>3. PICK offset \in Nat : offset = view.offset
    BY <1>3 DEF Paged
  <2>4. /\ seen \in Seq(R) /\ Len(seen) = Least(offset, N)
        /\ \A n \in 1 .. Len(seen) : seen[n] = s[n]
    BY <1>1, <1>5, <2>2, <2>3 DEF Seen
  <2>5. DOMAIN seen = 1 .. Len(seen) /\ Len(seen) \in Nat
    BY <2>4
  <2>6. Len(seen) <= N /\ (offset >= N => Len(seen) = N)
    <3>1. offset >= N \/ offset <= N
      BY <2>1, <2>3
    <3> QED BY <2>1, <2>3, <2>4, <3>1, LeastOf
  <2>7. \A n \in DOMAIN seen : n \in 1 .. N /\ seen[n] = s[n]
    BY <2>1, <2>4, <2>5, <2>6
  <2>8. \A m, n \in DOMAIN seen : m < n => Later(seen[m], seen[n])
    BY <2>2, <2>7 DEF Later
  <2>9. ASSUME view.via = "paged" PROVE Shown(seen) = R
    <3>1. Len(seen) = N
      BY <1>5, <2>2, <2>3, <2>6, <2>9
    <3>2. DOMAIN seen = DOMAIN s
      BY <2>2, <2>5, <3>1
    <3> QED BY <2>2, <2>7, <3>2 DEF Shown
  <2> QED BY <2>8, <2>9
<1> HIDE DEF R
<1> QED BY <1>1, <1>3, <1>4, <1>5 DEF InOrder, R, Shown

\* Paging through a search shows each match once, newest first, for any table,
\* page size and number of pages, if no two were posted in the same second
\* (SearchQuery.normalized, SearchService.queryDatabase).
THEOREM ListingsPagesPartition == Spec => []PagesPartition
<1>1. Init => PageInv
  BY DEF Init, PageInv
<1>2. ListingsType /\ CutInv /\ PageInv /\ [Next]_vars => PageInv'
  BY PageStep
<1>3. ListingsType /\ CutInv /\ PageInv => PagesPartition
  BY PagesTile
<1> QED BY <1>1, <1>2, <1>3, ListingsTypes, ListingsCutInv, PTL DEF Spec

-----------------------------------------------------------------------------
(* Induction over finite sets and over the naturals, with the property      *)
(* given by the set of what has it.                                         *)
LEMMA SubsetInduction ==
    ASSUME NEW S, IsFiniteSet(S), NEW T,
           \A s \in SUBSET S : (\A x \in s : s \ {x} \in T) => s \in T
    PROVE  \A s \in SUBSET S : s \in T
<1> DEFINE Bad == {s \in SUBSET S : s \notin T}
<1>1. SUFFICES ASSUME Bad # {} PROVE FALSE
  OBVIOUS
<1>2. IsWellFoundedOn(StrictSubsetOrdering(S), SUBSET S)
  BY FS_StrictSubsetOrderingWellFounded, FS_FiniteSubsetsOfFinite
<1>3. PICK s \in Bad : \A t \in Bad : ~(<<t, s>> \in StrictSubsetOrdering(S))
  BY <1>1, <1>2, WFMin
<1>4. ASSUME NEW x \in s PROVE s \ {x} \in T
  <2>1. s \ {x} \in SUBSET S /\ <<s \ {x}, s>> \in StrictSubsetOrdering(S)
    BY DEF StrictSubsetOrdering
  <2> QED BY <1>3, <2>1
<1> QED BY <1>4

LEMMA NaturalInduction ==
    ASSUME NEW T, 0 \in T, \A n \in Nat : n \in T => n + 1 \in T
    PROVE  Nat \subseteq T
<1>1. SUFFICES ASSUME Nat \ T # {} PROVE FALSE
  OBVIOUS
<1>2. PICK n \in Nat \ T : \A m \in Nat \ T : n <= m
  BY <1>1, LeastNatural
<1>3. n - 1 \in Nat /\ n - 1 \notin Nat \ T
  BY <1>2
<1> QED BY <1>2, <1>3

-----------------------------------------------------------------------------
(* Sums.  A fold adds the values of a finite set in an order that CHOOSE   *)
(* picks; the sum does not depend on it.                                   *)

Picked(s) == CHOOSE x \in s : TRUE
Summed(f, s, g) == IF s = {} THEN 0 ELSE f[Picked(s)] + g[s \ {Picked(s)}]
IsSum(f, D, g) == g = [s \in D |-> Summed(f, s, g)]
SumOf(f, S) == CHOOSE g : IsSum(f, SUBSET S, g)

LEMMA PickedIn == ASSUME NEW s, s # {} PROVE Picked(s) \in s
BY DEF Picked

LEMMA SumIsFold ==
    ASSUME NEW f, NEW S
    PROVE  SumFunctionOnSet(f, S) = SumOf(f, S)[S]
BY DEF SumFunctionOnSet, FoldFunctionOnSet, MapThenFoldSet, SumOf, IsSum, Summed, Picked

\* The fold is defined on every subset of a finite set: by the size of subsets.
LEMMA SumExists ==
    ASSUME NEW f, NEW S, IsFiniteSet(S)
    PROVE  IsSum(f, SUBSET S, SumOf(f, S))
<1> DEFINE D(n) == {s \in SUBSET S : Cardinality(s) <= n}
           T == {n \in Nat : \E g : IsSum(f, D(n), g)}
<1>0. \A s \in SUBSET S : IsFiniteSet(s) /\ Cardinality(s) \in Nat
                          /\ (Cardinality(s) = 0 <=> s = {})
  BY FS_Subset, FS_CardinalityType, FS_EmptySet
<1>1. 0 \in T
  <2> DEFINE g == [s \in D(0) |-> 0]
  <2>1. \A s \in D(0) : s = {}
    BY <1>0
  <2>2. IsSum(f, D(0), g)
    BY <2>1 DEF IsSum, Summed
  <2> QED BY <2>2
<1>2. ASSUME NEW n \in Nat, n \in T PROVE n + 1 \in T
  <2>1. PICK h : IsSum(f, D(n), h)
    BY <1>2
  <2>g. PICK g : g = [s \in D(n + 1) |-> Summed(f, s, h)]
    OBVIOUS
  <2>2. ASSUME NEW s \in D(n + 1), s # {}
        PROVE  g[s \ {Picked(s)}] = h[s \ {Picked(s)}]
    <3> DEFINE t == s \ {Picked(s)}
    <3>1. t \in D(n)
      <4>1. Picked(s) \in s
        BY <2>2, PickedIn
      <4>2. Cardinality(t) = Cardinality(s) - 1
        BY <1>0, <4>1, FS_RemoveElement
      <4> QED BY <1>0, <4>2
    <3>2. t \in D(n + 1)
      BY <1>0, <3>1
    <3> HIDE DEF t
    <3>3. h[t] = Summed(f, t, h)
      BY <2>1, <3>1 DEF IsSum
    <3> QED BY <2>g, <3>2, <3>3 DEF t
  <2>3. \A s \in D(n + 1) : Summed(f, s, g) = Summed(f, s, h)
    BY <2>2 DEF Summed
  <2>4. IsSum(f, D(n + 1), g)
    BY <2>g, <2>3 DEF IsSum
  <2> QED BY <2>4
<1>3. Cardinality(S) \in T
  <2> HIDE DEF T
  <2> QED BY <1>1, <1>2, <1>0, NaturalInduction
<1>4. D(Cardinality(S)) = SUBSET S
  BY <1>0, FS_Subset
<1>5. \E g : IsSum(f, SUBSET S, g)
  BY <1>3, <1>4
<1> QED BY <1>5 DEF SumOf

\* Whichever element is taken out first.
LEMMA SumTakesOut ==
    ASSUME NEW f, NEW S, IsFiniteSet(S), \A x \in S : f[x] \in Int, NEW g,
           IsSum(f, SUBSET S, g)
    PROVE  \A s \in SUBSET S : g[s] \in Int /\ \A x \in s : g[s] = f[x] + g[s \ {x}]
<1>1. \A s \in SUBSET S : g[s] \in Int
  <2> DEFINE T == {s \in SUBSET S : g[s] \in Int}
  <2>1. ASSUME NEW s \in SUBSET S, \A x \in s : s \ {x} \in T PROVE s \in T
    <3>1. g[s] = Summed(f, s, g)
      BY DEF IsSum
    <3>2. CASE s # {}
      <4>1. Picked(s) \in s
        BY <3>2, PickedIn
      <4> QED BY <2>1, <3>1, <3>2, <4>1 DEF Summed
    <3> QED BY <3>1, <3>2 DEF Summed
  <2> HIDE DEF T
  <2>2. \A s \in SUBSET S : s \in T
    BY <2>1, SubsetInduction
  <2> QED BY <2>2 DEF T
<1> DEFINE T == {s \in SUBSET S : \A x \in s : g[s] = f[x] + g[s \ {x}]}
<1>2. ASSUME NEW s \in SUBSET S, \A x \in s : s \ {x} \in T PROVE s \in T
  <2> SUFFICES ASSUME s # {}, NEW x \in s PROVE g[s] = f[x] + g[s \ {x}]
    OBVIOUS
  <2>1. PICK c \in s : g[s] = f[c] + g[s \ {c}]
    BY PickedIn DEF IsSum, Summed
  <2>2. CASE x # c
    <3> DEFINE t == (s \ {c}) \ {x}
    <3>1. g[s \ {c}] = f[x] + g[t]
      BY <1>2, <2>2
    <3>2. g[s \ {x}] = f[c] + g[t]
      <4>1. s \ {x} \in T /\ c \in s \ {x} /\ (s \ {x}) \ {c} = t
        BY <1>2, <2>2
      <4> QED BY <4>1
    <3>3. f[x] \in Int /\ f[c] \in Int /\ g[t] \in Int
      <4>1. t \in SUBSET S
        OBVIOUS
      <4> QED BY <1>1, <4>1
    <3> HIDE DEF t
    <3> QED BY <2>1, <3>1, <3>2, <3>3
  <2> QED BY <2>1, <2>2
<1> HIDE DEF T
<1>3. \A s \in SUBSET S : s \in T
  BY <1>2, SubsetInduction
<1> QED BY <1>1, <1>3 DEF T

\* The sum over a subset is read off the fold over any set that holds it, for
\* any function that agrees on it.
LEMMA SumOfSubset ==
    ASSUME NEW f, NEW h, NEW S, IsFiniteSet(S), NEW R, IsFiniteSet(R), NEW t \in SUBSET S,
           t \subseteq R, \A x \in t : f[x] = h[x]
    PROVE  SumOf(f, S)[t] = SumOf(h, R)[t]
<1> DEFINE g == SumOf(f, S)
           k == SumOf(h, R)
           T == {s \in SUBSET t : g[s] = k[s]}
<1>1. IsSum(f, SUBSET S, g) /\ IsSum(h, SUBSET R, k)
  BY SumExists
<1> HIDE DEF g, k
<1>2. ASSUME NEW s \in SUBSET t, \A x \in s : s \ {x} \in T PROVE s \in T
  <2>1. s \in SUBSET S /\ s \in SUBSET R
    OBVIOUS
  <2>2. g[s] = Summed(f, s, g) /\ k[s] = Summed(h, s, k)
    BY <1>1, <2>1 DEF IsSum
  <2>3. Summed(f, s, g) = Summed(h, s, k)
    BY <1>2, PickedIn DEF Summed
  <2> QED BY <2>2, <2>3
<1> HIDE DEF T
<1>3. IsFiniteSet(t)
  BY FS_Subset
<1>4. \A s \in SUBSET t : s \in T
  BY <1>2, <1>3, SubsetInduction
<1> QED BY <1>4 DEF T, g, k

LEMMA SumEmpty == ASSUME NEW f PROVE SumFunctionOnSet(f, {}) = 0
<1>1. IsSum(f, SUBSET {}, SumOf(f, {}))
  BY SumExists, FS_EmptySet
<1>2. SumOf(f, {})[{}] = 0
  BY <1>1 DEF IsSum, Summed
<1> QED BY <1>2, SumIsFold

LEMMA SumRemove ==
    ASSUME NEW f, NEW S, IsFiniteSet(S), \A x \in S : f[x] \in Int
    PROVE  /\ SumFunctionOnSet(f, S) \in Int
           /\ \A x \in S : SumFunctionOnSet(f, S) = f[x] + SumFunctionOnSet(f, S \ {x})
<1>1. IsSum(f, SUBSET S, SumOf(f, S))
  BY SumExists
<1>2. /\ SumOf(f, S)[S] \in Int
      /\ \A x \in S : SumOf(f, S)[S] = f[x] + SumOf(f, S)[S \ {x}]
  BY <1>1, SumTakesOut
<1>3. ASSUME NEW x \in S PROVE SumOf(f, S)[S \ {x}] = SumOf(f, S \ {x})[S \ {x}]
  BY SumOfSubset, FS_RemoveElement
<1> QED BY <1>2, <1>3, SumIsFold

LEMMA SumAgrees ==
    ASSUME NEW f, NEW h, NEW S, IsFiniteSet(S), \A x \in S : f[x] = h[x]
    PROVE  SumFunctionOnSet(f, S) = SumFunctionOnSet(h, S)
BY SumIsFold, SumOfSubset

LEMMA SumMonotone ==
    ASSUME NEW f, NEW h, NEW S, IsFiniteSet(S),
           \A x \in S : f[x] \in Int /\ h[x] \in Int /\ f[x] <= h[x]
    PROVE  SumFunctionOnSet(f, S) <= SumFunctionOnSet(h, S)
<1> DEFINE T == {s \in SUBSET S : SumFunctionOnSet(f, s) <= SumFunctionOnSet(h, s)}
<1>1. ASSUME NEW s \in SUBSET S, \A x \in s : s \ {x} \in T PROVE s \in T
  <2>1. CASE s = {}
    BY <2>1, SumEmpty
  <2>2. ASSUME NEW x \in s PROVE s \in T
    <3>1. IsFiniteSet(s) /\ IsFiniteSet(s \ {x})
      BY FS_Subset
    <3>2. /\ SumFunctionOnSet(f, s) = f[x] + SumFunctionOnSet(f, s \ {x})
          /\ SumFunctionOnSet(f, s \ {x}) \in Int
      BY <3>1, SumRemove
    <3>3. /\ SumFunctionOnSet(h, s) = h[x] + SumFunctionOnSet(h, s \ {x})
          /\ SumFunctionOnSet(h, s \ {x}) \in Int
      BY <3>1, SumRemove
    <3>4. SumFunctionOnSet(f, s \ {x}) <= SumFunctionOnSet(h, s \ {x})
      BY <1>1
    <3> QED BY <3>2, <3>3, <3>4
  <2> QED BY <2>1, <2>2
<1> HIDE DEF T
<1>2. \A s \in SUBSET S : s \in T
  BY <1>1, SubsetInduction
<1> QED BY <1>2 DEF T

\* The sum of zeros is zero, and that of naturals is one.
LEMMA SumOfZeros ==
    ASSUME NEW f, NEW S, IsFiniteSet(S), \A x \in S : f[x] = 0
    PROVE  SumFunctionOnSet(f, S) = 0
<1> DEFINE T == {s \in SUBSET S : SumFunctionOnSet(f, s) = 0}
<1>1. ASSUME NEW s \in SUBSET S, \A x \in s : s \ {x} \in T PROVE s \in T
  <2>1. CASE s = {}
    BY <2>1, SumEmpty
  <2>2. ASSUME NEW x \in s PROVE s \in T
    <3>0. IsFiniteSet(s) /\ \A y \in s : f[y] \in Int
      BY FS_Subset
    <3>1. SumFunctionOnSet(f, s) = f[x] + SumFunctionOnSet(f, s \ {x})
      BY <3>0, SumRemove
    <3> QED BY <1>1, <3>1
  <2> QED BY <2>1, <2>2
<1> HIDE DEF T
<1>2. \A s \in SUBSET S : s \in T
  BY <1>1, SubsetInduction
<1> QED BY <1>2 DEF T

LEMMA SumNotNegative ==
    ASSUME NEW f, NEW S, IsFiniteSet(S), \A x \in S : f[x] \in Nat
    PROVE  SumFunctionOnSet(f, S) \in Nat
<1> DEFINE T == {s \in SUBSET S : SumFunctionOnSet(f, s) \in Nat}
<1>1. ASSUME NEW s \in SUBSET S, \A x \in s : s \ {x} \in T PROVE s \in T
  <2>1. CASE s = {}
    BY <2>1, SumEmpty
  <2>2. ASSUME NEW x \in s PROVE s \in T
    <3>0. IsFiniteSet(s) /\ \A y \in s : f[y] \in Int
      BY FS_Subset
    <3>1. SumFunctionOnSet(f, s) = f[x] + SumFunctionOnSet(f, s \ {x})
      BY <3>0, SumRemove
    <3> QED BY <1>1, <3>1
  <2> QED BY <2>1, <2>2
<1> HIDE DEF T
<1>2. \A s \in SUBSET S : s \in T
  BY <1>1, SubsetInduction
<1> QED BY <1>2 DEF T

\* A sum over a set of records is one over the function of their fields.
LEMMA SumUnique ==
    ASSUME NEW f, NEW S, IsFiniteSet(S), NEW g, NEW h,
           IsSum(f, SUBSET S, g), IsSum(f, SUBSET S, h)
    PROVE  g[S] = h[S]
<1> DEFINE T == {s \in SUBSET S : g[s] = h[s]}
<1>1. ASSUME NEW s \in SUBSET S, \A x \in s : s \ {x} \in T PROVE s \in T
  <2>1. g[s] = Summed(f, s, g) /\ h[s] = Summed(f, s, h)
    BY DEF IsSum
  <2>2. Summed(f, s, g) = Summed(f, s, h)
    BY <1>1, PickedIn DEF Summed
  <2> QED BY <2>1, <2>2
<1> HIDE DEF T
<1>2. \A s \in SUBSET S : s \in T
  BY <1>1, SubsetInduction
<1> QED BY <1>2 DEF T

\* The sums over records that the properties name, as sums of functions.
LEMMA SumOfRequests ==
    ASSUME NEW S, IsFiniteSet(S), NEW f, \A r \in S : f[r] = r.requests
    PROVE  MapThenSumSet(LAMBDA r : r.requests, S) = SumFunctionOnSet(f, S)
<1> DEFINE Value(s, g) == IF s = {} THEN 0
                          ELSE (LET r == Picked(s) IN r.requests) + g[s \ {Picked(s)}]
           IsFold(g) == g = [s \in SUBSET S |-> Value(s, g)]
           F == CHOOSE g : IsFold(g)
<1>1. MapThenSumSet(LAMBDA r : r.requests, S) = F[S]
  BY DEF MapThenSumSet, MapThenFoldSet, Picked
<1>2. ASSUME NEW s \in SUBSET S, NEW g PROVE Value(s, g) = Summed(f, s, g)
  BY PickedIn DEF Summed
<1> HIDE DEF Value
<1>3. \A g : IsFold(g) <=> IsSum(f, SUBSET S, g)
  BY <1>2 DEF IsSum
<1>4. IsSum(f, SUBSET S, SumOf(f, S))
  BY SumExists
<1>5. IsSum(f, SUBSET S, F)
  BY <1>3, <1>4
<1> HIDE DEF IsFold, F
<1>6. F[S] = SumOf(f, S)[S]
  BY <1>4, <1>5, SumUnique
<1> QED BY <1>1, <1>6, SumIsFold

LEMMA SumOfSizes ==
    ASSUME NEW S, IsFiniteSet(S), NEW f, \A b \in S : f[b] = b.n
    PROVE  MapThenSumSet(LAMBDA b : b.n, S) = SumFunctionOnSet(f, S)
<1> DEFINE Value(s, g) == IF s = {} THEN 0
                          ELSE (LET b == Picked(s) IN b.n) + g[s \ {Picked(s)}]
           IsFold(g) == g = [s \in SUBSET S |-> Value(s, g)]
           F == CHOOSE g : IsFold(g)
<1>1. MapThenSumSet(LAMBDA b : b.n, S) = F[S]
  BY DEF MapThenSumSet, MapThenFoldSet, Picked
<1>2. ASSUME NEW s \in SUBSET S, NEW g PROVE Value(s, g) = Summed(f, s, g)
  BY PickedIn DEF Summed
<1> HIDE DEF Value
<1>3. \A g : IsFold(g) <=> IsSum(f, SUBSET S, g)
  BY <1>2 DEF IsSum
<1>4. IsSum(f, SUBSET S, SumOf(f, S))
  BY SumExists
<1>5. IsSum(f, SUBSET S, F)
  BY <1>3, <1>4
<1> HIDE DEF IsFold, F
<1>6. F[S] = SumOf(f, S)[S]
  BY <1>4, <1>5, SumUnique
<1> QED BY <1>1, <1>6, SumIsFold

LEMMA SumOfRates ==
    ASSUME NEW S, IsFiniteSet(S), NEW f, \A b \in S : f[b] = (2 * b.rate * b.n + UNIT) \div (2 * UNIT)
    PROVE  MapThenSumSet(LAMBDA b : (2 * b.rate * b.n + UNIT) \div (2 * UNIT), S) = SumFunctionOnSet(f, S)
<1> DEFINE Value(s, g) == IF s = {} THEN 0
                          ELSE (LET b == Picked(s) IN (2 * b.rate * b.n + UNIT) \div (2 * UNIT)) + g[s \ {Picked(s)}]
           IsFold(g) == g = [s \in SUBSET S |-> Value(s, g)]
           F == CHOOSE g : IsFold(g)
<1>1. MapThenSumSet(LAMBDA b : (2 * b.rate * b.n + UNIT) \div (2 * UNIT), S) = F[S]
  BY DEF MapThenSumSet, MapThenFoldSet, Picked
<1>2. ASSUME NEW s \in SUBSET S, NEW g PROVE Value(s, g) = Summed(f, s, g)
  BY PickedIn DEF Summed
<1> HIDE DEF Value
<1>3. \A g : IsFold(g) <=> IsSum(f, SUBSET S, g)
  BY <1>2 DEF IsSum
<1>4. IsSum(f, SUBSET S, SumOf(f, S))
  BY SumExists
<1>5. IsSum(f, SUBSET S, F)
  BY <1>3, <1>4
<1> HIDE DEF IsFold, F
<1>6. F[S] = SumOf(f, S)[S]
  BY <1>4, <1>5, SumUnique
<1> QED BY <1>1, <1>6, SumIsFold

\* Parts of a finite set that do not overlap have as many elements, added up,
\* as their union.
LEMMA SumOfParts ==
    ASSUME NEW R, IsFiniteSet(R), NEW D, IsFiniteSet(D), NEW part,
           \A r \in R : part[r] \in SUBSET D,
           \A r, t \in R : r # t => part[r] \cap part[t] = {},
           NEW size, \A r \in R : size[r] = Cardinality(part[r])
    PROVE  SumFunctionOnSet(size, R) = Cardinality({x \in D : \E r \in R : x \in part[r]})
<1> DEFINE Together(s) == {x \in D : \E r \in s : x \in part[r]}
           T == {s \in SUBSET R : SumFunctionOnSet(size, s) = Cardinality(Together(s))}
<1>1. \A X \in SUBSET D : IsFiniteSet(X) /\ Cardinality(X) \in Nat
  BY FS_Subset, FS_CardinalityType
<1>2. ASSUME NEW s \in SUBSET R, \A x \in s : s \ {x} \in T PROVE s \in T
  <2>1. CASE s = {}
    <3>1. Together(s) = {}
      BY <2>1
    <3> QED BY <2>1, <3>1, SumEmpty, FS_EmptySet
  <2>2. ASSUME NEW r \in s PROVE s \in T
    <3>1. IsFiniteSet(s) /\ \A y \in s : size[y] \in Int
      BY <1>1, FS_Subset
    <3>2. SumFunctionOnSet(size, s) = size[r] + SumFunctionOnSet(size, s \ {r})
      BY <3>1, SumRemove
    <3>3. PICK A, B : A = part[r] /\ B = Together(s \ {r})
      OBVIOUS
    <3>4. A \in SUBSET D /\ B \in SUBSET D /\ Together(s) = A \cup B /\ A \cap B = {}
      <4>1. A \in SUBSET D /\ B \in SUBSET D
        BY <3>3
      <4>2. Together(s) = A \cup B
        BY <3>3
      <4>3. A \cap B = {}
        BY <3>3
      <4> QED BY <4>1, <4>2, <4>3
    <3>5. size[r] = Cardinality(A) /\ SumFunctionOnSet(size, s \ {r}) = Cardinality(B)
      BY <1>2, <3>3
    <3> HIDE DEF Together
    <3>6. IsFiniteSet(A) /\ IsFiniteSet(B) /\ Cardinality(A) \in Nat /\ Cardinality(B) \in Nat
      BY <1>1, <3>4
    <3>7. Cardinality(A \cup B) = Cardinality(A) + Cardinality(B)
      <4>1. Cardinality(A \cup B) = Cardinality(A) + Cardinality(B) - Cardinality({})
        BY <3>4, <3>6, FS_Union
      <4> QED BY <3>6, <4>1, FS_EmptySet
    <3> QED BY <3>2, <3>4, <3>5, <3>7
  <2> QED BY <2>1, <2>2
<1> HIDE DEF T
<1>3. \A s \in SUBSET R : s \in T
  BY <1>2, SubsetInduction
<1> QED BY <1>3 DEF T

-----------------------------------------------------------------------------
(* Sorting.  The key of each place decides what comes before it, the place *)
(* itself among equals.                                                    *)

IsAhead(key, i, j) == key[i] < key[j] \/ (key[i] = key[j] /\ i < j)
Earlier(key, i)    == {j \in DOMAIN key : IsAhead(key, j, i)}
Standing(key)      == [i \in DOMAIN key |-> Cardinality(Earlier(key, i))]
OrderOf(key)       == [n \in DOMAIN key |-> CHOOSE i \in DOMAIN key : Standing(key)[i] = n - 1]
IsKey(key, n)      == n \in Nat /\ key \in [1 .. n -> Int]

(* How many come before a place says where it stands, and no two stand at  *)
(* the same.                                                               *)
LEMMA StandingIs ==
    ASSUME NEW key, NEW n, IsKey(key, n)
    PROVE  /\ \A i \in 1 .. n : Standing(key)[i] \in 0 .. n - 1
           /\ \A i, j \in 1 .. n : IsAhead(key, i, j) => Standing(key)[i] < Standing(key)[j]
           /\ \A i, j \in 1 .. n : Standing(key)[i] = Standing(key)[j] => i = j
           /\ \A m \in 1 .. n : \E i \in 1 .. n : Standing(key)[i] = m - 1
<1> DEFINE D == 1 .. n
           E(i) == Earlier(key, i)
           f == Standing(key)
<1>1. DOMAIN key = D /\ IsFiniteSet(D) /\ Cardinality(D) = n /\ n \in Nat
  <2>1. IsFiniteSet(1 .. n) /\ Cardinality(1 .. n) = IF 1 > n THEN 0 ELSE n - 1 + 1
    BY FS_Interval DEF IsKey
  <2> QED BY <2>1 DEF IsKey
<1>2. \A i \in D : E(i) \in SUBSET (D \ {i}) /\ key[i] \in Int
  BY <1>1 DEF Earlier, IsAhead, IsKey
<1>3. \A i \in D : f[i] = Cardinality(E(i))
  BY <1>1 DEF Standing
<1>4. ASSUME NEW i \in D
      PROVE  IsFiniteSet(E(i)) /\ Cardinality(E(i)) \in 0 .. n - 1
  <2>1. IsFiniteSet(D \ {i}) /\ Cardinality(D \ {i}) = n - 1
    <3> HIDE DEF D
    <3> QED BY <1>1, FS_RemoveElement
  <2>2. IsFiniteSet(E(i)) /\ Cardinality(E(i)) <= n - 1
    <3> HIDE DEF D, E
    <3> QED BY <1>2, <2>1, FS_Subset
  <2>3. Cardinality(E(i)) \in Nat
    <3> HIDE DEF D, E
    <3> QED BY <2>2, FS_CardinalityType
  <2> HIDE DEF D, E
  <2> QED BY <1>1, <2>2, <2>3
<1>5. ASSUME NEW i \in D, NEW j \in D, IsAhead(key, i, j) PROVE f[i] < f[j]
  <2>1. E(i) \subseteq E(j)
    <3>1. ASSUME NEW k \in D, IsAhead(key, k, i) PROVE IsAhead(key, k, j)
      BY <1>2, <1>5, <3>1 DEF IsAhead
    <3> QED BY <1>1, <3>1 DEF Earlier
  <2>2. i \in E(j) /\ i \notin E(i)
    BY <1>1, <1>2, <1>5 DEF Earlier
  <2> HIDE DEF D, E
  <2>3. IsFiniteSet(E(i)) /\ IsFiniteSet(E(j)) /\ Cardinality(E(i)) \in Nat
        /\ Cardinality(E(j)) \in Nat
    BY <1>4, 0 .. n - 1 \subseteq Nat
  <2>4. Cardinality(E(i)) <= Cardinality(E(j)) /\ Cardinality(E(i)) # Cardinality(E(j))
    BY <2>1, <2>2, <2>3, FS_Subset
  <2> QED BY <1>3, <2>3, <2>4
<1>6. ASSUME NEW i \in D, NEW j \in D, f[i] = f[j] PROVE i = j
  <2>1. i # j => IsAhead(key, i, j) \/ IsAhead(key, j, i)
    BY <1>2 DEF IsAhead
  <2>2. f[i] \in Int /\ f[j] \in Int
    <3> HIDE DEF f, E
    <3> QED BY <1>3, <1>4
  <2> HIDE DEF f
  <2> QED BY <1>5, <1>6, <2>1, <2>2
<1>7. \A m \in D : \E i \in D : f[i] = m - 1
  <2> DEFINE Z == 0 .. n - 1
  <2>1. IsFiniteSet(Z) /\ Cardinality(Z) = n
    <3>1. IsFiniteSet(0 .. n - 1) /\ Cardinality(0 .. n - 1) = IF 0 > n - 1 THEN 0 ELSE n - 1 - 0 + 1
      BY <1>1, FS_Interval
    <3> QED BY <1>1, <3>1
  <2>2. f \in [D -> Z]
    <3>1. \A i \in D : f[i] \in Z
      <4> HIDE DEF f, E
      <4> QED BY <1>3, <1>4
    <3>2. f = [i \in D |-> f[i]]
      BY <1>1 DEF Standing
    <3> HIDE DEF f, Z, D
    <3> QED BY <3>1, <3>2
  <2> HIDE DEF f, Z
  <2>3. f \in Injection(D, Z)
    BY <1>6, <2>2 DEF Injection, IsInjective
  <2>4. f \in Surjection(D, Z)
    <3> HIDE DEF D
    <3> QED BY <1>1, <2>1, <2>3, FS_Injection
  <2>5. \A z \in Z : \E i \in D : f[i] = z
    BY <2>4 DEF Surjection
  <2> QED BY <1>1, <2>5 DEF Z
<1> QED BY <1>3, <1>4, <1>5, <1>6, <1>7

(* So there is one order of the places, and it is that of the keys. *)
LEMMA OrderIs ==
    ASSUME NEW key, NEW n, IsKey(key, n)
    PROVE  /\ OrderOf(key) \in Bijection(1 .. n, 1 .. n)
           /\ \A m \in 1 .. n : Standing(key)[OrderOf(key)[m]] = m - 1
           /\ \A i \in 1 .. n : OrderOf(key)[Standing(key)[i] + 1] = i
           /\ \A l, m \in 1 .. n : l <= m => key[OrderOf(key)[l]] <= key[OrderOf(key)[m]]
<1> DEFINE D == 1 .. n
           f == Standing(key)
           p == OrderOf(key)
<1>1. DOMAIN key = D /\ n \in Nat /\ \A i \in D : key[i] \in Int
  BY DEF IsKey
<1>2. /\ \A i \in D : f[i] \in 0 .. n - 1
      /\ \A i, j \in D : IsAhead(key, i, j) => f[i] < f[j]
      /\ \A i, j \in D : f[i] = f[j] => i = j
      /\ \A m \in D : \E i \in D : f[i] = m - 1
  BY StandingIs
<1>3. p = [m \in D |-> CHOOSE i \in D : f[i] = m - 1]
  BY <1>1 DEF OrderOf
<1> HIDE DEF f, p
<1>4. \A m \in D : p[m] \in D /\ f[p[m]] = m - 1
  BY <1>2, <1>3
<1>5. \A i \in D : f[i] + 1 \in D /\ p[f[i] + 1] = i
  <2> SUFFICES ASSUME NEW i \in D PROVE f[i] + 1 \in D /\ p[f[i] + 1] = i
    OBVIOUS
  <2>1. f[i] + 1 \in D
    BY <1>1, <1>2
  <2>2. f[p[f[i] + 1]] = f[i] /\ p[f[i] + 1] \in D
    BY <1>2, <1>4, <2>1
  <2> QED BY <1>2, <2>1, <2>2
<1>6. p \in Bijection(D, D)
  <2>1. p \in [D -> D]
    BY <1>3, <1>4
  <2>2. \A l, m \in D : p[l] = p[m] => l = m
    <3> SUFFICES ASSUME NEW l \in D, NEW m \in D, p[l] = p[m] PROVE l = m
      OBVIOUS
    <3>1. l - 1 = m - 1 /\ l \in Int /\ m \in Int
      BY <1>4
    <3> QED BY <3>1
  <2>3. \A i \in D : \E m \in D : p[m] = i
    BY <1>5
  <2> HIDE DEF D
  <2> QED BY <2>1, <2>2, <2>3 DEF Bijection, Injection, Surjection, IsInjective
<1>7. ASSUME NEW l \in D, NEW m \in D, l <= m PROVE key[p[l]] <= key[p[m]]
  <2>1. p[l] \in D /\ p[m] \in D /\ f[p[l]] = l - 1 /\ f[p[m]] = m - 1
    BY <1>4
  <2>2. ~IsAhead(key, p[m], p[l])
    BY <1>2, <1>7, <2>1
  <2>3. key[p[l]] \in Int /\ key[p[m]] \in Int
    BY <1>1, <2>1
  <2> QED BY <2>2, <2>3 DEF IsAhead
<1> QED BY <1>4, <1>5, <1>6, <1>7 DEF f, p

DurationKey(es) == [i \in DOMAIN es |-> es[i].duration]
ScoreKey(s)     == [i \in DOMAIN s |-> 0 - s[i].score]

\* The durations and the outcomes, sorted, are those of the places in order.
LEMMA DurationsAre ==
    ASSUME NEW es \in Seq(Event)
    PROVE  /\ IsKey(DurationKey(es), Len(es))
           /\ Durations(es) = [m \in 1 .. Len(es) |-> es[OrderOf(DurationKey(es))[m]].duration]
           /\ \A i \in 1 .. Len(es) : es[i].duration \in Nat
<1> DEFINE D == 1 .. Len(es)
           key == DurationKey(es)
<1>1. DOMAIN es = D /\ Len(es) \in Nat
  OBVIOUS
<1>2. \A i \in D : es[i].duration \in Nat
  <2>1. \A i \in D : es[i] \in Event
    OBVIOUS
  <2> QED BY <2>1 DEF Event
<1>3. DOMAIN key = D /\ \A i \in D : key[i] = es[i].duration
  BY <1>1 DEF DurationKey
<1>4. IsKey(key, Len(es))
  BY <1>1, <1>2 DEF DurationKey, IsKey
<1> DEFINE ds == [i \in DOMAIN es |-> es[i].duration]
           Sooner(i) == {j \in D : ds[j] < ds[i] \/ (~(ds[i] < ds[j]) /\ j < i)}
           before == [i \in D |-> Cardinality(Sooner(i))]
<1>5. before = Standing(key)
  <2>1. \A i \in D : ds[i] = key[i] /\ key[i] \in Int
    BY <1>1, <1>2, <1>3
  <2>2. ASSUME NEW i \in D PROVE Sooner(i) = Earlier(key, i)
    <3> HIDE DEF ds, key
    <3>1. \A j \in D : (ds[j] < ds[i] \/ (~(ds[i] < ds[j]) /\ j < i)) <=> IsAhead(key, j, i)
      BY <2>1 DEF IsAhead
    <3> QED BY <1>3, <3>1 DEF Earlier
  <2> HIDE DEF Sooner, ds, key
  <2> QED BY <1>3, <2>2 DEF Standing
<1>6. Durations(es) = [n \in D |-> ds[CHOOSE i \in D : before[i] = n - 1]]
  <2>1. DOMAIN ds = D
    BY <1>1
  <2> QED BY <2>1 DEF Durations, SortedBy
<1>7. Durations(es) = [n \in D |-> ds[OrderOf(key)[n]]]
  <2>1. \A n \in D : OrderOf(key)[n] = CHOOSE i \in D : before[i] = n - 1
    BY <1>3, <1>5 DEF OrderOf
  <2> HIDE DEF before, ds, key, D
  <2> QED BY <1>6, <2>1
<1>8. \A n \in D : OrderOf(key)[n] \in D
  <2>1. OrderOf(key) \in Bijection(1 .. Len(es), 1 .. Len(es))
    BY <1>4, OrderIs
  <2> QED BY <2>1 DEF Bijection, Injection
<1>9. \A n \in D : ds[OrderOf(key)[n]] = es[OrderOf(key)[n]].duration
  BY <1>1, <1>8
<1>10. Durations(es) = [n \in D |-> es[OrderOf(key)[n]].duration]
  <2> HIDE DEF D, ds, key
  <2> QED BY <1>7, <1>9
<1> QED BY <1>2, <1>4, <1>10

\* Ranking negates the scores: the best first.
LEMMA RankedAre ==
    ASSUME NEW s \in Seq(Outcome)
    PROVE  /\ IsKey(ScoreKey(s), Len(s))
           /\ Ranked(s) = [m \in 1 .. Len(s) |-> s[OrderOf(ScoreKey(s))[m]]]
<1> DEFINE D == 1 .. Len(s)
           key == ScoreKey(s)
<1>1. DOMAIN s = D /\ Len(s) \in Nat
  OBVIOUS
<1>2. \A i \in D : s[i].score \in Nat
  <2>1. \A i \in D : s[i] \in Outcome
    OBVIOUS
  <2>2. \A o \in Outcome : o.score \in 0 .. 1000
    BY DEF Outcome
  <2>3. 0 .. 1000 \subseteq Nat
    OBVIOUS
  <2>4. \A i \in D : s[i].score \in 0 .. 1000
    BY <2>1, <2>2
  <2> HIDE DEF D
  <2> QED BY <2>3, <2>4
<1>3. DOMAIN key = D /\ \A i \in D : key[i] = 0 - s[i].score
  BY <1>1 DEF ScoreKey
<1>4. IsKey(key, Len(s))
  BY <1>1, <1>2 DEF ScoreKey, IsKey
<1> DEFINE Better(i) == {j \in D : s[j].score > s[i].score
                                    \/ (~(s[i].score > s[j].score) /\ j < i)}
           before == [i \in D |-> Cardinality(Better(i))]
<1>5. before = Standing(key)
  <2>1. ASSUME NEW i \in D PROVE Better(i) = Earlier(key, i)
    <3>1. \A j \in D : (s[j].score > s[i].score \/ (~(s[i].score > s[j].score) /\ j < i))
                       <=> IsAhead(key, j, i)
      BY <1>2, <1>3 DEF IsAhead
    <3> HIDE DEF key
    <3> QED BY <1>3, <3>1 DEF Earlier
  <2> HIDE DEF Better, key
  <2> QED BY <1>3, <2>1 DEF Standing
<1>6. Ranked(s) = [n \in D |-> s[CHOOSE i \in D : before[i] = n - 1]]
  BY <1>1 DEF Ranked, SortedBy
<1>7. \A n \in D : OrderOf(key)[n] = CHOOSE i \in D : before[i] = n - 1
  BY <1>3, <1>5 DEF OrderOf
<1>8. Ranked(s) = [n \in D |-> s[OrderOf(key)[n]]]
  <2> HIDE DEF before, key, D
  <2> QED BY <1>6, <1>7
<1> QED BY <1>4, <1>8

-----------------------------------------------------------------------------
(* Percentiles.                                                            *)

\* p is the nearest rank at pct of the events es.
UpTo(es, d) == {i \in DOMAIN es : es[i].duration <= d}
IsNearestRank(es, pct, p) ==
    /\ 100 * Cardinality(UpTo(es, p)) >= pct * Len(es)
    /\ \E i \in DOMAIN es : es[i].duration = p
    /\ \A i \in DOMAIN es : es[i].duration < p =>
          100 * Cardinality(UpTo(es, es[i].duration)) < pct * Len(es)

Quantile(pct, n) == (100 * pct * n + 9999) \div 10000

\* The place of a percentile is one of the list's.
LEMMA QuantileIs ==
    ASSUME NEW n \in Nat, n > 0, NEW pct \in {50, 95, 99}
    PROVE  /\ Quantile(pct, n) \in 1 .. n
           /\ 100 * Quantile(pct, n) >= pct * n
           /\ 100 * (Quantile(pct, n) - 1) < pct * n
<1>1. CASE pct = 50
  BY <1>1 DEF Quantile
<1>2. CASE pct = 95
  BY <1>2 DEF Quantile
<1>3. CASE pct = 99
  BY <1>3 DEF Quantile
<1> QED BY <1>1, <1>2, <1>3

\* A percentile is the value at that place.
LEMMA PercentileIs ==
    ASSUME NEW s, NEW n \in Nat, n > 0, DOMAIN s = 1 .. n, Len(s) = n, NEW pct \in {50, 95, 99}
    PROVE  Percentile(s, pct) = s[Quantile(pct, n)]
<1>1. s # <<>>
  OBVIOUS
<1>2. PICK q : q = Quantile(pct, n)
  OBVIOUS
<1>3. q \in 1 .. n
  BY <1>2, QuantileIs
<1>4. Percentile(s, pct) = s[IF q < 1 THEN 1 ELSE Atmost(q, n)]
  BY <1>1, <1>2 DEF Percentile, Quantile, UNIT
<1>5. (IF q < 1 THEN 1 ELSE Atmost(q, n)) = q
  BY <1>3 DEF Atmost
<1> QED BY <1>2, <1>4, <1>5

(* The durations up to that of a place in the order are at least as many as *)
(* the places up to it, and those shorter are before it.                    *)
LEMMA PercentileIsNearest ==
    ASSUME NEW es \in Seq(Event), es # <<>>, NEW pct \in {50, 95, 99}
    PROVE  IsNearestRank(es, pct, Percentile(Durations(es), pct))
<1> DEFINE n == Len(es)
           D == 1 .. n
<1>1. DOMAIN es = D /\ n \in Nat /\ n > 0
  OBVIOUS
<1>2. PICK key : key = DurationKey(es)
  OBVIOUS
<1>3. PICK p : p = OrderOf(key)
  OBVIOUS
<1>4. /\ IsKey(key, n)
      /\ Durations(es) = [m \in D |-> es[p[m]].duration]
      /\ \A i \in D : es[i].duration \in Nat
  BY <1>2, <1>3, DurationsAre
<1>5. /\ p \in Bijection(D, D)
      /\ \A i \in D : p[Standing(key)[i] + 1] = i
      /\ \A l, m \in D : l <= m => key[p[l]] <= key[p[m]]
      /\ \A i \in D : Standing(key)[i] \in 0 .. n - 1
  BY <1>3, <1>4, OrderIs, StandingIs
<1>6. p \in [D -> D] /\ \A l, m \in D : p[l] = p[m] => l = m
  BY <1>5 DEF Bijection, Injection, IsInjective
<1>7. \A i \in D : key[i] = es[i].duration
  BY <1>1, <1>2 DEF DurationKey
<1>8. PICK q : q = Quantile(pct, n)
  OBVIOUS
<1>9. q \in D /\ 100 * q >= pct * n /\ 100 * (q - 1) < pct * n
  BY <1>1, <1>8, QuantileIs
<1>10. PICK d : d = Percentile(Durations(es), pct)
  OBVIOUS
<1>11. d = es[p[q]].duration
  <2>1. PICK ds : ds = Durations(es)
    OBVIOUS
  <2>2. DOMAIN ds = 1 .. n /\ Len(ds) = n
    BY <1>1, <1>4, <2>1
  <2>3. Percentile(ds, pct) = ds[q]
    BY <1>1, <1>8, <2>2, PercentileIs
  <2> QED BY <1>4, <1>9, <1>10, <2>1, <2>3
<1>12. \A x : IsFiniteSet(UpTo(es, x)) /\ Cardinality(UpTo(es, x)) \in Nat
  <2>1. IsFiniteSet(D)
    BY <1>1, FS_Interval
  <2>2. \A x : UpTo(es, x) \in SUBSET D
    BY <1>1 DEF UpTo
  <2> HIDE DEF D
  <2> QED BY <2>1, <2>2, FS_Subset, FS_CardinalityType
<1>13. \A l, m \in D : l <= m => es[p[l]].duration <= es[p[m]].duration
  <2>1. \A l \in D : p[l] \in D /\ key[p[l]] = es[p[l]].duration
    BY <1>6, <1>7
  <2> HIDE DEF D
  <2> QED BY <1>5, <2>1
<1>14. Cardinality(UpTo(es, d)) >= q
  <2> DEFINE S == 1 .. q
             T == UpTo(es, d)
             f == [m \in S |-> p[m]]
  <2>1. IsFiniteSet(S) /\ Cardinality(S) = q
    BY <1>9, FS_Interval
  <2>2. \A m \in S : m \in D /\ p[m] \in T
    <3> SUFFICES ASSUME NEW m \in S PROVE m \in D /\ p[m] \in T
      OBVIOUS
    <3>1. m \in D /\ m <= q
      BY <1>9
    <3>2. p[m] \in D /\ es[p[m]].duration <= d
      BY <1>6, <1>9, <1>11, <1>13, <3>1
    <3> QED BY <1>1, <3>1, <3>2 DEF UpTo
  <2>3. f \in Injection(S, T)
    <3>1. \A l, m \in S : f[l] = f[m] => l = m
      BY <1>6, <2>2
    <3>2. f \in [S -> T]
      BY <2>2
    <3> HIDE DEF f, S, T
    <3> QED BY <3>1, <3>2 DEF Injection, IsInjective
  <2> HIDE DEF f, S, T
  <2>4. IsFiniteSet(T)
    BY <1>12 DEF T
  <2>5. Cardinality(S) <= Cardinality(T)
    BY <2>3, <2>4, FS_Injection
  <2> QED BY <2>1, <2>5 DEF T
<1>15. ASSUME NEW i \in D, es[i].duration < d
       PROVE  Cardinality(UpTo(es, es[i].duration)) <= q - 1
  <2> DEFINE S == UpTo(es, es[i].duration)
             T == 1 .. q - 1
             f == [j \in S |-> Standing(key)[j] + 1]
  <2>1. IsFiniteSet(T) /\ Cardinality(T) = q - 1
    <3>1. PICK b \in Nat : b = q - 1
      BY <1>9
    <3>2. IsFiniteSet(1 .. b) /\ Cardinality(1 .. b) = IF 1 > b THEN 0 ELSE b - 1 + 1
      BY FS_Interval
    <3> QED BY <3>1, <3>2
  <2>2. \A j \in S : j \in D /\ f[j] \in T /\ p[f[j]] = j
    <3> SUFFICES ASSUME NEW j \in S PROVE j \in D /\ f[j] \in T /\ p[f[j]] = j
      OBVIOUS
    <3>1. j \in D /\ es[j].duration <= es[i].duration
      BY <1>1 DEF UpTo
    <3>2. f[j] \in D /\ p[f[j]] = j
      BY <1>5, <3>1
    <3> HIDE DEF f, S
    <3>3. es[p[f[j]]].duration < es[p[q]].duration
      <4>1. es[j].duration \in Nat /\ es[i].duration \in Nat
        BY <1>4, <3>1
      <4>2. d \in Nat
        BY <1>4, <1>6, <1>9, <1>11
      <4> QED BY <1>11, <1>15, <3>1, <3>2, <4>1, <4>2
    <3>4. ~(q <= f[j])
      <4>0. p[f[j]] \in D /\ p[q] \in D
        BY <1>6, <1>9, <3>2
      <4>1. es[p[f[j]]].duration \in Nat /\ es[p[q]].duration \in Nat
        BY <1>4, <4>0
      <4>2. q <= f[j] => es[p[q]].duration <= es[p[f[j]]].duration
        BY <1>9, <1>13, <3>2
      <4> QED BY <3>3, <4>1, <4>2
    <3>5. f[j] \in T
      BY <1>9, <3>2, <3>4
    <3> QED BY <3>1, <3>2, <3>5
  <2>3. f \in Injection(S, T)
    <3>1. \A j, k \in S : f[j] = f[k] => j = k
      <4> HIDE DEF f, S, T
      <4> QED BY <2>2
    <3>2. f \in [S -> T]
      <4>1. f = [j \in S |-> f[j]]
        OBVIOUS
      <4> HIDE DEF f, S, T
      <4> QED BY <2>2, <4>1
    <3> HIDE DEF f, S, T
    <3> QED BY <3>1, <3>2 DEF Injection, IsInjective
  <2> HIDE DEF f, S, T
  <2>4. Cardinality(S) <= Cardinality(T)
    BY <2>1, <2>3, FS_Injection
  <2> QED BY <2>1, <2>4 DEF S
<1>16. IsNearestRank(es, pct, d)
  <2>1. pct \in Nat /\ pct * n \in Nat
    BY <1>1
  <2>2. PICK b : b = pct * n
    OBVIOUS
  <2>3. 100 * Cardinality(UpTo(es, d)) >= b
    BY <1>9, <1>12, <1>14, <2>1, <2>2
  <2>4. \A i \in D : es[i].duration < d => 100 * Cardinality(UpTo(es, es[i].duration)) < b
    <3> SUFFICES ASSUME NEW i \in D, es[i].duration < d
                 PROVE  100 * Cardinality(UpTo(es, es[i].duration)) < b
      OBVIOUS
    <3>1. PICK c \in Nat : c = Cardinality(UpTo(es, es[i].duration))
      BY <1>12
    <3>2. c <= q - 1
      BY <1>15, <3>1
    <3> QED BY <1>9, <2>1, <2>2, <3>1, <3>2
  <2>5. p[q] \in D
    BY <1>6, <1>9
  <2> QED BY <1>1, <1>11, <2>2, <2>3, <2>4, <2>5 DEF IsNearestRank
<1> QED BY <1>10, <1>16

\* The median is no longer than the 95th percentile.
LEMMA PercentilesGrow ==
    ASSUME NEW es \in Seq(Event), es # <<>>
    PROVE  Percentile(Durations(es), 50) <= Percentile(Durations(es), 95)
<1> DEFINE n == Len(es)
           D == 1 .. n
<1>1. n \in Nat /\ n > 0
  OBVIOUS
<1>2. PICK p : p = OrderOf(DurationKey(es))
  OBVIOUS
<1>3. PICK ds : ds = Durations(es)
  OBVIOUS
<1>4. ds = [m \in D |-> es[p[m]].duration] /\ IsKey(DurationKey(es), n)
  BY <1>2, <1>3, DurationsAre
<1>5. p \in [D -> D] /\ \A l, m \in D : l <= m => DurationKey(es)[p[l]] <= DurationKey(es)[p[m]]
  BY <1>2, <1>4, OrderIs DEF Bijection, Injection
<1>6. Percentile(ds, 50) = ds[Quantile(50, n)] /\ Percentile(ds, 95) = ds[Quantile(95, n)]
  <2>1. DOMAIN ds = D /\ Len(ds) = n
    BY <1>1, <1>4
  <2> QED BY <1>1, <2>1, PercentileIs
<1>7. PICK l, m : l = Quantile(50, n) /\ m = Quantile(95, n)
  OBVIOUS
<1>8. l \in D /\ m \in D
  BY <1>1, <1>7, QuantileIs
<1>9. l <= m
  BY <1>1, <1>7 DEF Quantile
<1>10. \A i \in D : DurationKey(es)[i] = es[i].duration
  BY DEF DurationKey
<1>11. es[p[l]].duration <= es[p[m]].duration
  <2>1. p[l] \in D /\ p[m] \in D
    BY <1>5, <1>8
  <2> QED BY <1>5, <1>8, <1>9, <1>10, <2>1
<1>12. ds[l] <= ds[m]
  BY <1>4, <1>8, <1>11
<1> QED BY <1>3, <1>6, <1>7, <1>12

-----------------------------------------------------------------------------
(* The rows of a route.                                                    *)

(* The last of some places in a list. *)
LEMMA MaxIn ==
    ASSUME NEW n \in Nat, NEW s \in SUBSET (1 .. n), s # {}
    PROVE  Max(s) \in s
<1> DEFINE T == {n - x : x \in s}
<1>0. \A x \in s : x \in Nat /\ n - x \in Nat
  OBVIOUS
<1>1. T \in SUBSET Nat /\ T # {}
  BY <1>0
<1>2. PICK m \in T : \A k \in T : m <= k
  <2> HIDE DEF T
  <2> QED BY <1>1, LeastNatural
<1>3. PICK x \in s : m = n - x
  OBVIOUS
<1>4. ASSUME NEW y \in s PROVE x >= y
  <2>1. m <= n - y
    BY <1>2
  <2> QED BY <1>0, <1>3, <2>1
<1> QED BY <1>4 DEF Max

\* The fold of OfRoute over the places s, the last place last.
Listed(es, route, s, g) ==
    IF s = {} THEN <<>>
    ELSE IF es[Max(s)].route = route THEN Append(g[s \ {Max(s)}], es[Max(s)])
                                     ELSE g[s \ {Max(s)}]
IsListed(es, route, D, g) == g = [s \in D |-> Listed(es, route, s, g)]
ListingOf(es, route)      == CHOOSE g : IsListed(es, route, SUBSET (DOMAIN es), g)

\* The rows of a route are what the fold makes of all its places.
LEMMA OfRouteIs ==
    ASSUME NEW es, NEW route
    PROVE  OfRoute(es, route) = ListingOf(es, route)[DOMAIN es]
BY DEF OfRoute, FoldLeft, MapThenFoldSet, ListingOf, IsListed, Listed

\* The fold is defined on every set of places: by their number.
LEMMA ListingExists ==
    ASSUME NEW es, NEW n \in Nat, DOMAIN es = 1 .. n, NEW route
    PROVE  IsListed(es, route, SUBSET (1 .. n), ListingOf(es, route))
<1> DEFINE S == 1 .. n
           D(k) == {s \in SUBSET S : Cardinality(s) <= k}
           T == {k \in Nat : \E g : IsListed(es, route, D(k), g)}
<1>0. /\ IsFiniteSet(S)
      /\ \A s \in SUBSET S : IsFiniteSet(s) /\ Cardinality(s) \in Nat
                             /\ (Cardinality(s) = 0 <=> s = {})
  <2>1. IsFiniteSet(S)
    BY FS_Interval
  <2> HIDE DEF S
  <2> QED BY <2>1, FS_Subset, FS_CardinalityType, FS_EmptySet
<1>1. 0 \in T
  <2> DEFINE g == [s \in D(0) |-> <<>>]
  <2>1. \A s \in D(0) : s = {}
    BY <1>0
  <2>2. IsListed(es, route, D(0), g)
    BY <2>1 DEF IsListed, Listed
  <2> QED BY <2>2
<1>2. ASSUME NEW k \in Nat, k \in T PROVE k + 1 \in T
  <2>1. PICK h : IsListed(es, route, D(k), h)
    BY <1>2
  <2>2. \A s \in D(k) : s \in SUBSET S
    OBVIOUS
  <2>3. PICK g : g = [s \in D(k + 1) |-> Listed(es, route, s, h)]
    OBVIOUS
  <2>4. ASSUME NEW s \in D(k + 1), s # {}
        PROVE  g[s \ {Max(s)}] = h[s \ {Max(s)}]
    <3> DEFINE t == s \ {Max(s)}
    <3>1. t \in D(k)
      <4>1. Max(s) \in s
        BY <2>4, MaxIn
      <4>2. Cardinality(t) = Cardinality(s) - 1
        BY <1>0, <4>1, FS_RemoveElement
      <4>3. s \in SUBSET S /\ t \in SUBSET S /\ Cardinality(s) <= k + 1
        BY <2>4
      <4>4. Cardinality(t) \in Nat /\ Cardinality(s) \in Nat
        BY <1>0, <4>3
      <4> HIDE DEF t
      <4>5. Cardinality(t) <= k
        BY <4>2, <4>3, <4>4
      <4> QED BY <4>3, <4>5
    <3>2. t \in D(k + 1)
      BY <1>0, <3>1
    <3> HIDE DEF t
    <3>3. h[t] = Listed(es, route, t, h)
      BY <2>1, <3>1 DEF IsListed
    <3> QED BY <2>3, <3>2, <3>3 DEF t
  <2>5. \A s \in D(k + 1) : Listed(es, route, s, g) = Listed(es, route, s, h)
    BY <2>4 DEF Listed
  <2>6. IsListed(es, route, D(k + 1), g)
    BY <2>3, <2>5 DEF IsListed
  <2>7. k + 1 \in Nat
    OBVIOUS
  <2> HIDE DEF D
  <2> QED BY <2>6, <2>7
<1>3. Cardinality(S) \in T
  <2> HIDE DEF T
  <2> QED BY <1>1, <1>2, <1>0, NaturalInduction
<1>4. D(Cardinality(S)) = SUBSET S
  BY <1>0, FS_Subset
<1>5. \E g : IsListed(es, route, SUBSET S, g)
  BY <1>3, <1>4
<1> QED BY <1>5 DEF ListingOf

AtRoute(es, route) == {i \in DOMAIN es : es[i].route = route}

(* The rows of a route are events, as many as there are of the route. *)
LEMMA RouteHasItsEvents ==
    ASSUME NEW es \in Seq(Event), NEW route
    PROVE  /\ OfRoute(es, route) \in Seq(Event)
           /\ Len(OfRoute(es, route)) = Cardinality(AtRoute(es, route))
<1> DEFINE n == Len(es)
           G == AtRoute(es, route)
<1>1. n \in Nat /\ DOMAIN es = 1 .. n /\ \A i \in 1 .. n : es[i] \in Event
  OBVIOUS
<1>2. PICK g : g = ListingOf(es, route)
  OBVIOUS
<1>3. IsListed(es, route, SUBSET (1 .. n), g)
  BY <1>1, <1>2, ListingExists
<1>4. \A s \in SUBSET (1 .. n) : g[s] = Listed(es, route, s, g)
  BY <1>3 DEF IsListed
<1> DEFINE T == {s \in SUBSET (1 .. n) :
                   g[s] \in Seq(Event) /\ Len(g[s]) = Cardinality(s \cap G)}
<1>5. IsFiniteSet(1 .. n)
  BY <1>1, FS_Interval
<1>6. ASSUME NEW s \in SUBSET (1 .. n), \A x \in s : s \ {x} \in T PROVE s \in T
  <2>1. CASE s = {}
    <3>1. g[s] = <<>> /\ s \cap G = {}
      BY <1>4, <2>1 DEF Listed
    <3>2. Len(g[s]) = Cardinality(s \cap G)
      <4>1. Cardinality({}) = 0
        BY FS_EmptySet
      <4>2. Len(g[s]) = 0
        BY <3>1
      <4> HIDE DEF G
      <4> QED BY <3>1, <4>1, <4>2
    <3>3. g[s] \in Seq(Event)
      <4> HIDE DEF G
      <4> QED BY <3>1
    <3> HIDE DEF G
    <3> QED BY <1>6, <3>2, <3>3
  <2>2. CASE s # {}
    <3>1. PICK m : m = Max(s)
      OBVIOUS
    <3>2. m \in s /\ m \in 1 .. n
      BY <1>1, <2>2, <3>1, MaxIn
    <3>3. PICK t : t = s \ {m}
      OBVIOUS
    <3>4. t \in T
      BY <1>6, <3>2, <3>3
    <3>5. g[t] \in Seq(Event) /\ Len(g[t]) = Cardinality(t \cap G)
      BY <3>4
    <3>6. g[s] = IF es[m].route = route THEN Append(g[t], es[m]) ELSE g[t]
      BY <1>4, <2>2, <3>1, <3>3 DEF Listed
    <3>7. CASE es[m].route # route
      <4>1. g[s] = g[t] /\ s \cap G = t \cap G
        BY <3>2, <3>3, <3>6, <3>7 DEF AtRoute
      <4> QED BY <1>6, <3>5, <4>1
    <3>8. CASE es[m].route = route
      <4>1. s \cap G = (t \cap G) \cup {m} /\ m \notin t \cap G
        BY <1>1, <3>2, <3>3, <3>8 DEF AtRoute
      <4>2. IsFiniteSet(t \cap G)
        <5>1. t \cap G \in SUBSET (1 .. n)
          BY <1>6, <3>3
        <5> HIDE DEF G
        <5> QED BY <1>5, <5>1, FS_Subset
      <4>3. Cardinality(s \cap G) = Cardinality(t \cap G) + 1
        <5> HIDE DEF G
        <5> QED BY <4>1, <4>2, FS_AddElement
      <4>4. g[s] = Append(g[t], es[m]) /\ es[m] \in Event
        BY <1>1, <3>2, <3>6, <3>8
      <4>5. g[s] \in Seq(Event) /\ Len(g[s]) = Len(g[t]) + 1
        BY <3>5, <4>4
      <4>6. Len(g[s]) = Cardinality(s \cap G)
        <5> HIDE DEF G
        <5> QED BY <3>5, <4>3, <4>5
      <4> QED BY <1>6, <4>5, <4>6
    <3> QED BY <3>7, <3>8
  <2> QED BY <2>1, <2>2
<1> HIDE DEF T
<1>7. \A s \in SUBSET (1 .. n) : s \in T
  BY <1>5, <1>6, SubsetInduction
<1>8. 1 .. n \in T
  BY <1>7
<1>9. (1 .. n) \cap G = G
  BY <1>1 DEF AtRoute
<1>10. OfRoute(es, route) = g[1 .. n]
  BY <1>1, <1>2, OfRouteIs
<1> QED BY <1>8, <1>9, <1>10 DEF T

-----------------------------------------------------------------------------
(* The requests of all routes.                                             *)

(* The row of a route that was requested. *)
LEMMA RouteRowIs ==
    ASSUME NEW es \in Seq(Event), NEW i \in DOMAIN es
    PROVE  LET r == RouteRow(es, es[i].route) IN
           /\ r.route = es[i].route
           /\ r.requests = Cardinality(AtRoute(es, es[i].route))
           /\ r.requests > 0 /\ r.errors <= r.requests /\ r.p50 <= r.p95
<1>1. PICK route : route = es[i].route
  OBVIOUS
<1>2. PICK rs : rs = OfRoute(es, route)
  OBVIOUS
<1>3. rs \in Seq(Event) /\ Len(rs) = Cardinality(AtRoute(es, route))
  BY <1>2, RouteHasItsEvents
<1>4. Len(rs) > 0
  <2>1. i \in AtRoute(es, route)
    BY <1>1 DEF AtRoute
  <2>2. IsFiniteSet(AtRoute(es, route))
    <3>1. IsFiniteSet(DOMAIN es)
      BY Len(es) \in Nat, DOMAIN es = 1 .. Len(es), FS_Interval
    <3>2. AtRoute(es, route) \in SUBSET (DOMAIN es)
      BY DEF AtRoute
    <3> QED BY <3>1, <3>2, FS_Subset
  <2>3. Cardinality(AtRoute(es, route)) # 0
    BY <2>1, <2>2, FS_EmptySet
  <2> QED BY <1>3, <2>3
<1>5. Percentile(Durations(rs), 50) <= Percentile(Durations(rs), 95)
  BY <1>3, <1>4, PercentilesGrow
<1>6. Errors(rs) <= Len(rs)
  <2>1. IsFiniteSet(1 .. Len(rs)) /\ Cardinality(1 .. Len(rs)) = Len(rs)
    <3>1. PICK n \in Nat : n = Len(rs) /\ n > 0
      BY <1>3, <1>4
    <3>2. IsFiniteSet(1 .. n) /\ Cardinality(1 .. n) = IF 1 > n THEN 0 ELSE n - 1 + 1
      BY FS_Interval
    <3> QED BY <3>1, <3>2
  <2>2. {k \in DOMAIN rs : rs[k].status >= 500} \in SUBSET (1 .. Len(rs))
    BY <1>3
  <2>3. Cardinality({k \in DOMAIN rs : rs[k].status >= 500}) <= Cardinality(1 .. Len(rs))
    BY <2>1, <2>2, FS_Subset
  <2> QED BY <2>1, <2>3 DEF Errors
<1>7. RouteRow(es, route) = [route |-> route, requests |-> Len(rs),
                             p50 |-> Percentile(Durations(rs), 50),
                             p95 |-> Percentile(Durations(rs), 95), errors |-> Errors(rs)]
  BY <1>2 DEF RouteRow
<1> QED BY <1>1, <1>3, <1>4, <1>5, <1>6, <1>7

\* What the summary is made of.
LEMMA SummaryIs ==
    ASSUME NEW es \in Seq(Event)
    PROVE  LET v == Summarise(es) IN
           /\ v.requests = Len(es)
           /\ v.errors = IF es = <<>> THEN 0 ELSE Rounded(Errors(es), Len(es))
           /\ \A pct \in {50, 95, 99} : v.latency[pct] = Percentile(Durations(es), pct)
           /\ v.routes = {RouteRow(es, r) : r \in {es[i].route : i \in DOMAIN es}}
BY DEF Summarise

(* The rows are one for each route, and together they count every event. *)
LEMMA RoutesCount ==
    ASSUME NEW es \in Seq(Event), NEW rows,
           rows = {RouteRow(es, r) : r \in {es[i].route : i \in DOMAIN es}}
    PROVE  MapThenSumSet(LAMBDA r : r.requests, rows) = Len(es)
<1> DEFINE D == DOMAIN es
<1>0. \A r \in rows : \E i \in D : r = RouteRow(es, es[i].route)
  OBVIOUS
<1>1. \A r \in rows : /\ r.requests = Cardinality(AtRoute(es, r.route))
                      /\ \E i \in D : r = RouteRow(es, es[i].route) /\ r.route = es[i].route
  BY <1>0, RouteRowIs
<1>2. \A q, r \in rows : q.route = r.route => q = r
  BY <1>1
<1>3. IsFiniteSet(D) /\ Cardinality(D) = Len(es) /\ D = 1 .. Len(es) /\ Len(es) \in Nat
  <2>1. D = 1 .. Len(es) /\ Len(es) \in Nat
    OBVIOUS
  <2>2. IsFiniteSet(1 .. Len(es))
        /\ Cardinality(1 .. Len(es)) = IF 1 > Len(es) THEN 0 ELSE Len(es) - 1 + 1
    BY <2>1, FS_Interval
  <2> QED BY <2>1, <2>2
<1>4. IsFiniteSet(rows)
  <2>1. PICK f : f = [i \in D |-> RouteRow(es, es[i].route)]
    OBVIOUS
  <2>2. f \in Surjection(D, rows)
    BY <2>1 DEF Surjection
  <2> HIDE DEF D
  <2> QED BY <1>3, <2>2, FS_Surjection
<1>5. PICK part, size : /\ part = [r \in rows |-> AtRoute(es, r.route)]
                        /\ size = [r \in rows |-> r.requests]
  OBVIOUS
<1>6. /\ \A r \in rows : part[r] \in SUBSET D /\ size[r] = Cardinality(part[r])
      /\ \A q, r \in rows : q # r => part[q] \cap part[r] = {}
  BY <1>1, <1>2, <1>5 DEF AtRoute
<1>7. {i \in D : \E r \in rows : i \in part[r]} = D
  <2>1. ASSUME NEW i \in D PROVE \E r \in rows : i \in part[r]
    <3>1. RouteRow(es, es[i].route) \in rows /\ RouteRow(es, es[i].route).route = es[i].route
      BY RouteRowIs
    <3> QED BY <1>5, <3>1 DEF AtRoute
  <2> QED BY <2>1
<1> HIDE DEF D
<1>8. SumFunctionOnSet(size, rows) = Cardinality({i \in D : \E r \in rows : i \in part[r]})
  <2>1. /\ IsFiniteSet(rows) /\ IsFiniteSet(D)
        /\ \A r \in rows : part[r] \in SUBSET D
        /\ \A q, r \in rows : q # r => part[q] \cap part[r] = {}
        /\ \A r \in rows : size[r] = Cardinality(part[r])
    BY <1>3, <1>4, <1>6
  <2> QED BY ONLY <2>1, SumOfParts
<1>9. MapThenSumSet(LAMBDA r : r.requests, rows) = SumFunctionOnSet(size, rows)
  BY <1>4, <1>5, SumOfRequests
<1> QED BY <1>3, <1>7, <1>8, <1>9

\* The error rate is of server errors alone.
LEMMA NoErrors ==
    ASSUME NEW es \in Seq(Event), \A i \in DOMAIN es : es[i].status < 500
    PROVE  Summarise(es).errors = 0
<1>1. CASE es = <<>>
  BY <1>1, SummaryIs
<1>2. CASE es # <<>>
  <2>1. PICK n \in Nat : n = Len(es) /\ n > 0
    BY <1>2
  <2>2. Errors(es) = 0
    <3>1. \A i \in DOMAIN es : es[i].status \in Nat
      <4>1. \A e \in Event : e.status \in Nat
        BY DEF Event
      <4> QED BY <4>1
    <3>2. {i \in DOMAIN es : es[i].status >= 500} = {}
      BY <3>1
    <3> QED BY <3>2, FS_EmptySet DEF Errors
  <2>3. PICK d \in Nat : d = 2 * n /\ n < d
    BY <2>1
  <2>4. Rounded(0, n) = n \div d
    BY <2>1, <2>3 DEF Rounded, UNIT
  <2>5. n \div d = 0
    BY <2>1, <2>3
  <2> QED BY <1>2, <2>1, <2>2, <2>4, <2>5, SummaryIs
<1> QED BY <1>1, <1>2

\* The two parts of TrafficAgrees: the rows ...
LEMMA RoutesOfSummary ==
    ASSUME traffic \in Seq(Event), report.of = "traffic", report.value = Summarise(traffic)
    PROVE  RoutesAddUp
<1>1. PICK es : es = traffic
  OBVIOUS
<1>2. PICK v : v = Summarise(es)
  OBVIOUS
<1>3. /\ es \in Seq(Event) /\ v = report.value /\ v.requests = Len(es)
      /\ \A pct \in {50, 95, 99} : v.latency[pct] = Percentile(Durations(es), pct)
      /\ v.routes = {RouteRow(es, r) : r \in {es[i].route : i \in DOMAIN es}}
  BY <1>1, <1>2, SummaryIs
<1>4. MapThenSumSet(LAMBDA r : r.requests, v.routes) = v.requests
  BY <1>3, RoutesCount
<1>5. (\A i \in DOMAIN es : es[i].status < 500) => v.errors = 0
  BY <1>2, <1>3, NoErrors
<1>6. ASSUME NEW r \in v.routes
      PROVE  /\ r.requests > 0 /\ r.errors <= r.requests /\ r.p50 <= r.p95
             /\ v.latency[50] <= v.latency[95]
  <2>1. PICK i \in DOMAIN es : r = RouteRow(es, es[i].route)
    BY <1>3, <1>6
  <2>2. r.requests > 0 /\ r.errors <= r.requests /\ r.p50 <= r.p95
    BY <1>3, <2>1, RouteRowIs
  <2>3. es # <<>>
    BY <2>1
  <2>4. v.latency[50] <= v.latency[95]
    BY <1>3, <2>3, PercentilesGrow
  <2> QED BY <2>2, <2>4
<1> QED BY <1>1, <1>3, <1>4, <1>5, <1>6 DEF RoutesAddUp

\* ... and the percentiles.
LEMMA NearestOfSummary ==
    ASSUME traffic \in Seq(Event), report.of = "traffic", report.value = Summarise(traffic)
    PROVE  NearestRank
<1> SUFFICES ASSUME traffic # <<>>, NEW pct \in {50, 95, 99}
             PROVE  IsNearestRank(traffic, pct, report.value.latency[pct])
  BY DEF NearestRank, IsNearestRank, UpTo
<1>1. report.value.latency[pct] = Percentile(Durations(traffic), pct)
  BY SummaryIs
<1> QED BY <1>1, PercentileIsNearest

\* What a report is of: the sample or the traffic as it is.
ReportInv ==
    /\ sample \in Samples /\ sample \in Seq(Outcome) /\ traffic \in Seq(Event)
    /\ report = NoReport \/ report = [of |-> "sample", value |-> Evaluate(sample)]
                         \/ report = [of |-> "traffic", value |-> Summarise(traffic)]

(* A report is that of the rows it was made from (outcomes.evaluate,         *)
(* analytics.summary): nothing changes them or it.                           *)
THEOREM MetricsReport == MetricsSpec => []ReportInv
<1>1. MetricsInit => ReportInv
  BY MetricsAssumption DEF MetricsInit, ReportInv
<1>2. ReportInv /\ [MetricsNext]_metricsVars => ReportInv'
  <2> SUFFICES ASSUME ReportInv, [MetricsNext]_metricsVars PROVE ReportInv'
    OBVIOUS
  <2>1. CASE GetEvaluation
    BY <2>1 DEF GetEvaluation, ReportInv, Evaluate
  <2>2. CASE AnalyticsSummary
    BY <2>2 DEF AnalyticsSummary, ReportInv, Summarise
  <2>3. CASE UNCHANGED metricsVars
    BY <2>3 DEF metricsVars, ReportInv
  <2> QED BY <2>1, <2>2, <2>3 DEF MetricsNext
<1> QED BY <1>1, <1>2, PTL DEF MetricsSpec

(* The traffic report is that of the requests served, however many: a        *)
(* percentile is the least duration that the given share of them does not    *)
(* exceed, and the routes' rows add up to the whole (analytics.summary).     *)
THEOREM MetricsTrafficAgrees == MetricsSpec => []TrafficAgrees
<1>1. ReportInv => TrafficAgrees
  <2> SUFFICES ASSUME ReportInv PROVE TrafficAgrees
    OBVIOUS
  <2>1. CASE report.of # "traffic"
    BY <2>1 DEF TrafficAgrees, NearestRank, RoutesAddUp
  <2>2. CASE report.of = "traffic"
    <3>1. report.value = Summarise(traffic)
      BY <2>2 DEF ReportInv, NoReport
    <3>2. traffic \in Seq(Event)
      BY DEF ReportInv
    <3> QED BY <2>2, <3>1, <3>2, RoutesOfSummary, NearestOfSummary DEF TrafficAgrees
  <2> QED BY <2>1, <2>2
<1> QED BY <1>1, MetricsReport, PTL

-----------------------------------------------------------------------------
(* The order of the sample.                                                *)

\* Places i and i + 1 change.
Exchanged(i, a) == IF a = i THEN i + 1 ELSE IF a = i + 1 THEN i ELSE a

\* Exchanging two neighbours makes a sample of the same outcomes.
LEMMA SwappedIs ==
    ASSUME NEW s \in Seq(Outcome), NEW i \in 1 .. Len(s) - 1
    PROVE  /\ Swapped(s, i) \in Seq(Outcome) /\ Len(Swapped(s, i)) = Len(s)
           /\ \A a \in 1 .. Len(s) : /\ Exchanged(i, a) \in 1 .. Len(s)
                                     /\ Swapped(s, i)[a] = s[Exchanged(i, a)]
<1> DEFINE D == 1 .. Len(s)
<1>1. DOMAIN s = D /\ Len(s) \in Nat /\ i \in D /\ i + 1 \in D /\ \A a \in D : s[a] \in Outcome
  OBVIOUS
<1>2. PICK t : t = Swapped(s, i)
  OBVIOUS
<1>3. t = [[s EXCEPT ![i] = s[i + 1]] EXCEPT ![i + 1] = s[i]]
  BY <1>2 DEF Swapped
<1>4. DOMAIN t = D /\ \A a \in D : t[a] = s[Exchanged(i, a)] /\ Exchanged(i, a) \in D
  BY <1>1, <1>3 DEF Exchanged
<1>5. t = [a \in D |-> t[a]] /\ \A a \in D : t[a] \in Outcome
  BY <1>1, <1>3, <1>4
<1>6. t \in Seq(Outcome) /\ Len(t) = Len(s)
  BY <1>1, <1>4, <1>5
<1> QED BY <1>2, <1>4, <1>6

(* When their keys differ, who comes before whom does not depend on which   *)
(* of the two came first ...                                               *)
LEMMA AheadExchanged ==
    ASSUME NEW n, NEW key, IsKey(key, n), NEW other, IsKey(other, n),
           NEW i \in 1 .. n - 1, key[i] # key[i + 1],
           \A a \in 1 .. n : other[a] = key[Exchanged(i, a)],
           NEW a \in 1 .. n, NEW b \in 1 .. n
    PROVE  IsAhead(other, a, b) <=> IsAhead(key, Exchanged(i, a), Exchanged(i, b))
<1>1. /\ n \in Nat /\ i \in 1 .. n /\ i + 1 \in 1 .. n
      /\ \A c \in 1 .. n : key[c] \in Int
  BY DEF IsKey
<1>2. PICK x, y : x = Exchanged(i, a) /\ y = Exchanged(i, b)
  OBVIOUS
<1>3. x \in 1 .. n /\ y \in 1 .. n /\ other[a] = key[x] /\ other[b] = key[y]
  BY <1>1, <1>2 DEF Exchanged
<1>4. key[x] \in Int /\ key[y] \in Int
  BY <1>1, <1>3
<1>5. key[x] = key[y] => (a < b <=> x < y)
  <2>1. CASE a \in {i, i + 1} /\ b \in {i, i + 1} /\ a # b
    BY <1>1, <1>2, <2>1 DEF Exchanged
  <2>2. CASE ~(a \in {i, i + 1} /\ b \in {i, i + 1} /\ a # b)
    BY <1>1, <1>2, <2>2 DEF Exchanged
  <2> QED BY <2>1, <2>2
<1> QED BY <1>2, <1>3, <1>4, <1>5 DEF IsAhead

(* ... so each stands where it stood ...                                   *)
LEMMA StandingExchanged ==
    ASSUME NEW n, NEW key, IsKey(key, n), NEW other, IsKey(other, n),
           NEW i \in 1 .. n - 1, key[i] # key[i + 1],
           \A a \in 1 .. n : other[a] = key[Exchanged(i, a)],
           NEW a \in 1 .. n
    PROVE  Standing(other)[a] = Standing(key)[Exchanged(i, a)]
<1> DEFINE D == 1 .. n
           x(b) == Exchanged(i, b)
<1>1. /\ n \in Nat /\ DOMAIN key = D /\ DOMAIN other = D /\ IsFiniteSet(D)
      /\ \A b \in D : x(b) \in D /\ x(x(b)) = b
  <2>1. n \in Nat /\ DOMAIN key = D /\ DOMAIN other = D
    BY DEF IsKey
  <2>2. IsFiniteSet(D)
    BY <2>1, FS_Interval
  <2>3. \A b \in D : x(b) \in D /\ x(x(b)) = b
    BY <2>1 DEF Exchanged
  <2> QED BY <2>1, <2>2, <2>3
<1>2. PICK A, B : A = Earlier(other, a) /\ B = Earlier(key, x(a))
  OBVIOUS
<1>3. A \in SUBSET D /\ B \in SUBSET D
  BY <1>1, <1>2 DEF Earlier
<1>4. \A b \in D : b \in A <=> x(b) \in B
  <2>1. \A b \in D : IsAhead(other, b, a) <=> IsAhead(key, x(b), x(a))
    BY AheadExchanged
  <2> HIDE DEF x, D
  <2> QED BY <1>1, <1>2, <2>1 DEF Earlier
<1>5. PICK f : f = [b \in A |-> x(b)]
  OBVIOUS
<1> HIDE DEF x, D
<1>6. f \in Bijection(A, B)
  <2>1. f \in [A -> B]
    BY <1>3, <1>4, <1>5
  <2>2. \A b, c \in A : f[b] = f[c] => b = c
    BY <1>1, <1>3, <1>5
  <2>3. \A b \in B : \E c \in A : f[c] = b
    <3> SUFFICES ASSUME NEW b \in B PROVE x(b) \in A /\ f[x(b)] = b
      OBVIOUS
    <3>1. b \in D /\ x(b) \in D /\ x(x(b)) = b
      BY <1>1, <1>3
    <3>2. x(b) \in A
      BY <1>4, <3>1
    <3> QED BY <1>5, <3>1, <3>2
  <2> QED BY <2>1, <2>2, <2>3 DEF Bijection, Injection, Surjection, IsInjective
<1>7. Cardinality(A) = Cardinality(B)
  <2>1. IsFiniteSet(A)
    BY <1>1, <1>3, FS_Subset
  <2>2. ExistsBijection(A, B)
    BY <1>6 DEF ExistsBijection
  <2> QED BY <2>1, <2>2, FS_Bijection
<1>8. a \in D /\ x(a) \in D
  BY <1>1 DEF D
<1>9. Standing(other)[a] = Cardinality(A) /\ Standing(key)[x(a)] = Cardinality(B)
  BY <1>1, <1>2, <1>8 DEF Standing
<1> QED BY <1>7, <1>9 DEF x

(* ... and the ranking is the same.                                        *)
LEMMA RankedSwapped ==
    ASSUME NEW s \in Seq(Outcome), NEW i \in 1 .. Len(s) - 1, s[i].score # s[i + 1].score
    PROVE  Ranked(Swapped(s, i)) = Ranked(s)
<1> DEFINE n == Len(s)
           D == 1 .. n
<1>1. PICK t : t = Swapped(s, i)
  OBVIOUS
<1>2. /\ t \in Seq(Outcome) /\ Len(t) = n /\ DOMAIN t = D
      /\ \A a \in D : Exchanged(i, a) \in D /\ t[a] = s[Exchanged(i, a)]
  <2>1. /\ t \in Seq(Outcome) /\ Len(t) = n
        /\ \A a \in D : Exchanged(i, a) \in D /\ t[a] = s[Exchanged(i, a)]
    BY <1>1, SwappedIs
  <2> QED BY <2>1
<1>3. PICK key, other : key = ScoreKey(s) /\ other = ScoreKey(t)
  OBVIOUS
<1>4. PICK p, q : p = OrderOf(key) /\ q = OrderOf(other)
  OBVIOUS
<1>5. /\ IsKey(key, n) /\ Ranked(s) = [m \in D |-> s[p[m]]]
      /\ IsKey(other, n) /\ Ranked(t) = [m \in D |-> t[q[m]]]
  BY <1>2, <1>3, <1>4, RankedAre
<1>6. /\ i \in D /\ i + 1 \in D /\ n \in Nat
      /\ \A a \in D : key[a] = 0 - s[a].score /\ other[a] = 0 - t[a].score
  BY <1>2, <1>3 DEF ScoreKey
<1>7. \A a \in D : other[a] = key[Exchanged(i, a)]
  BY <1>2, <1>6
<1>8. key[i] # key[i + 1]
  <2>1. s[i].score \in Int /\ s[i + 1].score \in Int
    <3>1. s[i] \in Outcome /\ s[i + 1] \in Outcome
      BY <1>6
    <3>2. \A o \in Outcome : o.score \in 0 .. 1000
      BY DEF Outcome
    <3>3. 0 .. 1000 \subseteq Int
      OBVIOUS
    <3>4. s[i].score \in 0 .. 1000 /\ s[i + 1].score \in 0 .. 1000
      BY <3>1, <3>2
    <3> QED BY <3>3, <3>4, Zenon
  <2> QED BY <1>6, <2>1
<1>9. ASSUME NEW m \in D PROVE Exchanged(i, q[m]) = p[m] /\ q[m] \in D
  <2>1. q[m] \in D /\ Standing(other)[q[m]] = m - 1
    BY <1>4, <1>5, OrderIs DEF Bijection, Injection
  <2>2. Standing(key)[Exchanged(i, q[m])] = m - 1
    BY <1>5, <1>7, <1>8, <2>1, StandingExchanged
  <2>3. PICK x \in D : x = Exchanged(i, q[m])
    BY <1>2, <2>1
  <2>4. p[Standing(key)[x] + 1] = x
    BY <1>4, <1>5, OrderIs
  <2>5. Standing(key)[x] + 1 = m
    BY <2>2, <2>3
  <2> QED BY <2>1, <2>3, <2>4, <2>5
<1>10. \A m \in D : t[q[m]] = s[p[m]]
  BY <1>2, <1>9
<1> HIDE DEF D
<1> QED BY <1>1, <1>5, <1>10

\* As many of the outcomes are positive.
LEMMA PositivesSwapped ==
    ASSUME NEW s \in Seq(Outcome), NEW i \in 1 .. Len(s) - 1
    PROVE  Positives(Swapped(s, i)) = Positives(s)
<1> DEFINE D == 1 .. Len(s)
           x(b) == Exchanged(i, b)
<1>1. PICK t : t = Swapped(s, i)
  OBVIOUS
<1>2. /\ DOMAIN s = D /\ DOMAIN t = D /\ IsFiniteSet(D)
      /\ \A a \in D : t[a] = s[x(a)] /\ x(a) \in D /\ x(x(a)) = a
  <2>1. /\ t \in Seq(Outcome) /\ Len(t) = Len(s)
        /\ \A a \in D : t[a] = s[x(a)] /\ x(a) \in D
    BY <1>1, SwappedIs
  <2>2. \A a \in D : x(x(a)) = a
    BY Len(s) \in Nat DEF Exchanged
  <2>3. IsFiniteSet(D)
    BY Len(s) \in Nat, FS_Interval
  <2> QED BY <2>1, <2>2, <2>3
<1>3. PICK A, B : A = {a \in D : Positive(t[a])} /\ B = {a \in D : Positive(s[a])}
  OBVIOUS
<1>4. PICK f : f = [a \in A |-> x(a)]
  OBVIOUS
<1> HIDE DEF x, D
<1>5. f \in Bijection(A, B)
  <2>1. f \in [A -> B]
    BY <1>2, <1>3, <1>4
  <2>2. \A b, c \in A : f[b] = f[c] => b = c
    BY <1>2, <1>3, <1>4
  <2>3. \A b \in B : \E c \in A : f[c] = b
    <3> SUFFICES ASSUME NEW b \in B PROVE x(b) \in A /\ f[x(b)] = b
      OBVIOUS
    <3>1. b \in D /\ x(b) \in D /\ x(x(b)) = b /\ Positive(s[b])
      BY <1>2, <1>3
    <3>2. t[x(b)] = s[b]
      BY <1>2, <3>1
    <3>3. x(b) \in A
      BY <1>3, <3>1, <3>2
    <3> QED BY <1>4, <3>1, <3>3
  <2> QED BY <2>1, <2>2, <2>3 DEF Bijection, Injection, Surjection, IsInjective
<1>6. Cardinality(A) = Cardinality(B)
  <2>1. IsFiniteSet(A)
    BY <1>2, <1>3, FS_Subset
  <2>2. ExistsBijection(A, B)
    BY <1>5 DEF ExistsBijection
  <2> QED BY <2>1, <2>2, FS_Bijection
<1> QED BY <1>1, <1>2, <1>3, <1>6 DEF Positives

(* The evaluation does not depend on the order in which the database         *)
(* returned the outcomes: two neighbours of different scores may change      *)
(* places, and no metric moves (outcomes.py 234-237).                        *)
THEOREM MetricsOrderFree == MetricsSpec => []OrderFree
<1>1. ReportInv => OrderFree
  <2> SUFFICES ASSUME ReportInv, report.of = "sample", NEW i \in 1 .. Len(sample) - 1,
                      sample[i].score # sample[i + 1].score
               PROVE  Evaluate(Swapped(sample, i)) = report.value
    BY DEF OrderFree
  <2>1. PICK s : s = sample
    OBVIOUS
  <2>2. s \in Seq(Outcome) /\ report.value = Evaluate(s)
    BY <2>1 DEF ReportInv, NoReport
  <2>3. PICK t : t = Swapped(s, i)
    OBVIOUS
  <2>4. Ranked(t) = Ranked(s) /\ Positives(t) = Positives(s) /\ Len(t) = Len(s)
    BY <2>1, <2>2, <2>3, RankedSwapped, PositivesSwapped, SwappedIs
  <2>5. Evaluate(t) = Evaluate(s)
    BY <2>4 DEF Evaluate
  <2> QED BY <2>1, <2>2, <2>3, <2>5
<1> QED BY <1>1, MetricsReport, PTL

-----------------------------------------------------------------------------
(* Sums over the first places of a list.                                   *)

Prefix(f, j) == SumFunctionOnSet(f, 1 .. j)
Numbers(f, n) == n \in Nat /\ \A i \in 1 .. n : f[i] \in Int

\* Induction up to a bound.
LEMMA CountingUp ==
    ASSUME NEW n \in Nat, NEW T, 0 \in T, \A i \in 0 .. n - 1 : i \in T => i + 1 \in T
    PROVE  \A i \in 0 .. n : i \in T
<1> DEFINE U == {i \in Nat : i <= n => i \in T}
<1>1. 0 \in U
  OBVIOUS
<1>2. ASSUME NEW i \in Nat, i \in U PROVE i + 1 \in U
  <2> SUFFICES ASSUME i + 1 <= n PROVE i + 1 \in T
    OBVIOUS
  <2>1. i \in 0 .. n - 1 /\ i \in T
    BY <1>2
  <2> QED BY <2>1
<1> HIDE DEF U
<1>3. Nat \subseteq U
  BY <1>1, <1>2, NaturalInduction
<1> QED BY <1>3 DEF U

LEMMA PrefixStep ==
    ASSUME NEW f, NEW n, Numbers(f, n)
    PROVE  /\ Prefix(f, 0) = 0
           /\ \A j \in 0 .. n : Prefix(f, j) \in Int
           /\ \A j \in 0 .. n - 1 : Prefix(f, j + 1) = Prefix(f, j) + f[j + 1]
<1>1. Prefix(f, 0) = 0
  <2>1. 1 .. 0 = {}
    OBVIOUS
  <2> QED BY <2>1, SumEmpty DEF Prefix
<1>2. ASSUME NEW j \in 0 .. n PROVE Prefix(f, j) \in Int
  <2>1. IsFiniteSet(1 .. j)
    BY j \in Int, FS_Interval
  <2>2. \A i \in 1 .. j : f[i] \in Int
    BY DEF Numbers
  <2> QED BY <2>1, <2>2, SumRemove DEF Prefix
<1>3. ASSUME NEW j \in 0 .. n - 1 PROVE Prefix(f, j + 1) = Prefix(f, j) + f[j + 1]
  <2>1. PICK S : S = 1 .. j + 1
    OBVIOUS
  <2>2. IsFiniteSet(S)
    <3>1. j + 1 \in Int /\ 1 \in Int
      BY DEF Numbers
    <3> QED BY <2>1, <3>1, FS_Interval
  <2>3. j + 1 \in S /\ S \ {j + 1} = 1 .. j /\ \A i \in S : f[i] \in Int
    BY <2>1 DEF Numbers
  <2>4. SumFunctionOnSet(f, S) = f[j + 1] + SumFunctionOnSet(f, S \ {j + 1})
    BY <2>2, <2>3, SumRemove
  <2>5. j \in 0 .. n /\ f[j + 1] \in Int
    BY <2>1, <2>3 DEF Numbers
  <2>6. Prefix(f, j) \in Int
    BY <1>2, <2>5
  <2>7. Prefix(f, j + 1) = SumFunctionOnSet(f, S)
    BY ONLY <2>1 DEF Prefix
  <2>8. Prefix(f, j) = SumFunctionOnSet(f, S \ {j + 1})
    BY ONLY <2>3 DEF Prefix
  <2>9. Prefix(f, j + 1) = f[j + 1] + Prefix(f, j)
    BY ONLY <2>4, <2>7, <2>8
  <2> QED BY ONLY <2>5, <2>6, <2>9
<1>4. \A j \in 0 .. n : Prefix(f, j) \in Int
  BY <1>2
<1>5. \A j \in 0 .. n - 1 : Prefix(f, j + 1) = Prefix(f, j) + f[j + 1]
  BY <1>3
<1> QED BY <1>1, <1>4, <1>5

\* With naturals it grows, and stays where only zeros are added.
LEMMA PrefixGrows ==
    ASSUME NEW f, NEW n \in Nat, \A i \in 1 .. n : f[i] \in Nat, NEW j \in 0 .. n
    PROVE  /\ Prefix(f, j) \in Nat /\ Prefix(f, j) <= Prefix(f, n)
           /\ (\A i \in j + 1 .. n : f[i] = 0) => Prefix(f, j) = Prefix(f, n)
<1>1. Numbers(f, n)
  BY DEF Numbers
<1> DEFINE Below(i) == /\ Prefix(f, i) \in Nat
                       /\ i >= j => /\ Prefix(f, j) <= Prefix(f, i)
                                    /\ (\A l \in j + 1 .. n : f[l] = 0) => Prefix(f, j) = Prefix(f, i)
           T == {i \in 0 .. n : Below(i)}
<1>2. \A i \in 0 .. n : Prefix(f, i) \in Int
  BY <1>1, PrefixStep
<1>3. 0 \in T
  <2>1. Prefix(f, 0) = 0
    BY <1>1, PrefixStep
  <2> QED BY <2>1
<1>4. ASSUME NEW i \in 0 .. n - 1, i \in T PROVE i + 1 \in T
  <2>1. Prefix(f, i + 1) = Prefix(f, i) + f[i + 1] /\ f[i + 1] \in Nat
    BY <1>1, PrefixStep
  <2>2. Below(i)
    BY <1>4
  <2>3. Below(i + 1)
    <3>1. CASE i >= j
      <4>1. i + 1 \in j + 1 .. n
        BY <3>1
      <4> QED BY <2>1, <2>2, <3>1, <4>1, <1>2
    <3>2. CASE i < j
      <4>1. i + 1 >= j => i + 1 = j
        BY <3>2
      <4>2. Prefix(f, i + 1) \in Nat
        BY <2>1, <2>2
      <4> QED BY <4>1, <4>2
    <3> QED BY <3>1, <3>2
  <2> QED BY <2>3
<1> HIDE DEF T
<1>5. \A i \in 0 .. n : i \in T
  BY <1>3, <1>4, CountingUp
<1>6. n \in T /\ j \in T /\ j <= n
  BY <1>5
<1> QED BY <1>6 DEF T

-----------------------------------------------------------------------------
(* Discounted gains: the more the first places hold, for every number of   *)
(* them, the more the list counts, since discounts fall.                   *)

Gains(v) == [i \in DOMAIN v |-> v[i] * Discounts[i]]
Weighed(v, j) == Prefix(Gains(v), j)

\* What a unit of relevance loses from place i to the next of the first m.
Loss(i, m) == Discounts[i] - (IF i < m THEN Discounts[i + 1] ELSE 0)

Falling(m) == m \in Nat /\ \A i \in 1 .. m : Discounts[i] \in Nat /\ Loss(i, m) > 0

Relevant(v, n) == n \in Nat /\ v \in [1 .. n -> 0 .. 5]

LEMMA WeighOne ==
    ASSUME NEW x \in Int, NEW a \in Nat, NEW b \in Nat, b <= a, NEW w \in Nat,
           NEW g \in Int, NEW h \in Int, NEW e \in Int, x >= a * w + e
    PROVE  /\ x + (g * b - h * b) >= b * (w + (g - h)) + e
           /\ w >= 1 => x + (g * b - h * b) >= b * (w + (g - h)) + e + (a - b)
  OBVIOUS

\* The list w has no more in its first places than v, and less in the first at.
LEMMA Weighing ==
    ASSUME NEW m, Falling(m), NEW n, m <= n, NEW v, Relevant(v, n), NEW w, Relevant(w, n),
           \A j \in 0 .. m : Prefix(w, j) <= Prefix(v, j),
           NEW at \in 0 .. m, at # 0 => Prefix(w, at) < Prefix(v, at)
    PROVE  /\ Weighed(w, m) \in Int /\ Weighed(v, m) \in Int
           /\ Weighed(v, m) >= Weighed(w, m) + IF at = 0 THEN 0 ELSE Loss(at, m)
<1> DEFINE more(j) == Prefix(v, j) - Prefix(w, j)
           gap(j) == Weighed(v, j) - Weighed(w, j)
           bonus(j) == IF at # 0 /\ at < j THEN Loss(at, m) ELSE 0
           T == {j \in 0 .. m : j # 0 => gap(j) >= Discounts[j] * more(j) + bonus(j)}
<1>1. /\ m \in Nat /\ n \in Nat
      /\ \A i \in 1 .. n : v[i] \in Nat /\ w[i] \in Nat
      /\ DOMAIN v = 1 .. n /\ DOMAIN w = 1 .. n
  <2>1. 0 .. 5 \subseteq Nat
    OBVIOUS
  <2> QED BY <2>1 DEF Falling, Relevant
<1>2. /\ \A i \in 1 .. m : Gains(v)[i] = v[i] * Discounts[i] /\ Gains(w)[i] = w[i] * Discounts[i]
      /\ Numbers(v, m) /\ Numbers(w, m) /\ Numbers(Gains(v), m) /\ Numbers(Gains(w), m)
  <2>1. ASSUME NEW i \in 1 .. m
        PROVE  /\ Gains(v)[i] = v[i] * Discounts[i] /\ Gains(w)[i] = w[i] * Discounts[i]
               /\ v[i] \in Int /\ w[i] \in Int /\ Gains(v)[i] \in Int /\ Gains(w)[i] \in Int
    <3>1. i \in 1 .. n /\ Discounts[i] \in Nat
      BY <1>1 DEF Falling
    <3> QED BY <1>1, <3>1 DEF Gains
  <2> QED BY <1>1, <2>1 DEF Numbers
<1>3. \A j \in 0 .. m : /\ Prefix(v, j) \in Int /\ Prefix(w, j) \in Int
                        /\ Weighed(v, j) \in Int /\ Weighed(w, j) \in Int
  BY <1>2, PrefixStep DEF Weighed
<1>4. /\ Prefix(v, 0) = 0 /\ Prefix(w, 0) = 0 /\ Weighed(v, 0) = 0 /\ Weighed(w, 0) = 0
      /\ \A j \in 0 .. m - 1 :
            /\ Prefix(v, j + 1) = Prefix(v, j) + v[j + 1]
            /\ Prefix(w, j + 1) = Prefix(w, j) + w[j + 1]
            /\ Weighed(v, j + 1) = Weighed(v, j) + v[j + 1] * Discounts[j + 1]
            /\ Weighed(w, j + 1) = Weighed(w, j) + w[j + 1] * Discounts[j + 1]
  <2>1. /\ Prefix(v, 0) = 0 /\ Prefix(w, 0) = 0 /\ Weighed(v, 0) = 0 /\ Weighed(w, 0) = 0
    BY <1>2, PrefixStep DEF Weighed
  <2>2. ASSUME NEW j \in 0 .. m - 1
        PROVE  /\ Prefix(v, j + 1) = Prefix(v, j) + v[j + 1]
               /\ Prefix(w, j + 1) = Prefix(w, j) + w[j + 1]
               /\ Weighed(v, j + 1) = Weighed(v, j) + v[j + 1] * Discounts[j + 1]
               /\ Weighed(w, j + 1) = Weighed(w, j) + w[j + 1] * Discounts[j + 1]
    <3>1. j + 1 \in 1 .. m
      BY <1>1
    <3> QED BY <1>2, <3>1, PrefixStep DEF Weighed
  <2> QED BY <2>1, <2>2
<1>5. \A j \in 0 .. m : more(j) \in Nat /\ (j = at /\ at # 0 => more(j) >= 1)
  BY <1>3
<1>6. 0 \in T
  BY <1>1
<1>7. ASSUME NEW j \in 0 .. m - 1, j \in T PROVE j + 1 \in T
  <2>1. /\ j \in 0 .. m /\ j + 1 \in 0 .. m /\ j + 1 \in 1 .. m /\ j + 1 \in 1 .. n
        /\ j \in Nat /\ at \in Nat
    BY <1>1
  <2>2. PICK g, h, b : g = v[j + 1] /\ h = w[j + 1] /\ b = Discounts[j + 1]
    OBVIOUS
  <2>3. g \in Int /\ h \in Int /\ b \in Nat
    BY <1>1, <2>1, <2>2 DEF Falling
  <2>4. more(j + 1) = more(j) + (g - h) /\ gap(j + 1) = gap(j) + (g * b - h * b)
    <3>1. g * b \in Int /\ h * b \in Int
      BY <2>3
    <3> QED BY <1>3, <1>4, <2>1, <2>2, <2>3, <3>1
  <2>5. gap(j) \in Int /\ more(j) \in Nat
    BY <1>3, <1>5, <2>1
  <2>6. CASE j = 0
    <3>1. bonus(j + 1) = 0
      BY <2>1, <2>6
    <3>2. more(j) = 0 /\ gap(j) = 0
      BY <1>4, <2>6
    <3>3. gap(j + 1) = b * more(j + 1)
      BY <2>3, <2>4, <3>2
    <3>4. b * more(j + 1) \in Int
      BY <2>3, <2>4, <2>5
    <3> HIDE DEF gap, more, bonus
    <3> QED BY <2>1, <2>2, <3>1, <3>3, <3>4
  <2>7. CASE j # 0
    <3>1. PICK a, e, x, y : a = Discounts[j] /\ e = bonus(j) /\ x = gap(j) /\ y = more(j)
      OBVIOUS
    <3>2. j \in 1 .. m /\ j < m
      BY <1>1, <2>1, <2>7
    <3>3. a \in Nat /\ b <= a
      BY <2>2, <2>3, <3>1, <3>2 DEF Falling, Loss
    <3>4. e \in Int
      <4>1. CASE at # 0 /\ at < j
        <5>1. at \in 1 .. m /\ at < m
          BY <1>1, <2>1, <3>2, <4>1
        <5>2. at + 1 \in 1 .. m
          BY <1>1, <5>1
        <5>3. Discounts[at] \in Nat /\ Discounts[at + 1] \in Nat
          BY <5>1, <5>2 DEF Falling
        <5> QED BY <3>1, <4>1, <5>1, <5>3 DEF Loss
      <4> QED BY <3>1, <4>1
    <3>5. x >= a * y + e
      BY <1>7, <2>7, <3>1
    <3>6. /\ x + (g * b - h * b) >= b * (y + (g - h)) + e
          /\ y >= 1 => x + (g * b - h * b) >= b * (y + (g - h)) + e + (a - b)
      BY <2>3, <2>5, <3>1, <3>3, <3>4, <3>5, WeighOne
    <3>7. at = j => y >= 1 /\ e = 0 /\ bonus(j + 1) = a - b
      <4> SUFFICES ASSUME at = j PROVE y >= 1 /\ e = 0 /\ bonus(j + 1) = a - b
        OBVIOUS
      <4>1. y >= 1 /\ e = 0
        BY <1>5, <2>1, <2>7, <3>1
      <4>2. bonus(j + 1) = Loss(j, m)
        BY <2>1, <2>7
      <4> QED BY <2>2, <3>1, <3>2, <4>1, <4>2 DEF Loss
    <3>8. at # j => bonus(j + 1) = e
      <4>1. at < j + 1 /\ at # j <=> at < j
        BY <2>1
      <4> QED BY <3>1, <4>1
    <3>9. gap(j + 1) = x + (g * b - h * b) /\ more(j + 1) = y + (g - h)
      BY <2>4, <3>1
    <3>10. gap(j + 1) >= b * more(j + 1) + bonus(j + 1)
      <4> HIDE DEF gap, more, bonus
      <4>1. CASE at = j
        <5>1. e + (a - b) = a - b /\ b * (y + (g - h)) \in Int
          BY <2>3, <2>5, <3>1, <3>3, <3>7, <4>1
        <5>2. b * (y + (g - h)) + e + (a - b) = b * (y + (g - h)) + (a - b)
          BY <2>3, <3>3, <3>7, <4>1, <5>1
        <5> QED BY <3>6, <3>7, <3>9, <4>1, <5>2
      <4>2. CASE at # j
        BY <3>6, <3>8, <3>9, <4>2
      <4> QED BY <4>1, <4>2
    <3> HIDE DEF gap, more, bonus
    <3> QED BY <2>1, <2>2, <3>10
  <2> QED BY <2>6, <2>7
<1>8. m \in T
  <2> HIDE DEF T
  <2>1. \A j \in 0 .. m : j \in T
    BY <1>1, <1>6, <1>7, CountingUp
  <2> QED BY <1>1, <2>1
<1>9. gap(m) >= IF at = 0 THEN 0 ELSE Loss(at, m)
  <2>1. CASE m = 0
    BY <1>4, <2>1
  <2>2. CASE m # 0
    <3>1. PICK d, y : d = Discounts[m] /\ y = more(m)
      OBVIOUS
    <3>2. d \in Nat /\ y \in Nat /\ gap(m) \in Int
      BY <1>1, <1>3, <1>5, <2>2, <3>1 DEF Falling
    <3>3. gap(m) >= d * y + bonus(m) /\ d * y >= 0
      BY <1>8, <2>2, <3>1, <3>2
    <3>4. CASE at = m
      <4>1. y >= 1 /\ Loss(at, m) = d /\ bonus(m) = 0
        BY <1>1, <1>5, <2>2, <3>1, <3>2, <3>4 DEF Loss
      <4>2. d * y >= d
        BY <3>2, <4>1
      <4> HIDE DEF gap, more, bonus
      <4> QED BY <2>2, <3>2, <3>3, <3>4, <4>1, <4>2
    <3>5. CASE at < m
      <4>1. bonus(m) = IF at = 0 THEN 0 ELSE Loss(at, m)
        BY <3>5
      <4>2. bonus(m) \in Int
        <5>1. CASE at # 0
          <6>1. at \in 1 .. m /\ at + 1 \in 1 .. m
            BY <1>1, <3>5, <5>1
          <6>2. Discounts[at] \in Nat /\ Discounts[at + 1] \in Nat
            BY <6>1 DEF Falling
          <6> QED BY <4>1, <5>1, <3>5, <6>2 DEF Loss
        <5> QED BY <5>1
      <4>3. d * y \in Int
        BY <3>2
      <4> HIDE DEF gap, more, bonus
      <4> QED BY <3>2, <3>3, <4>1, <4>2, <4>3
    <3> QED BY <1>1, <3>4, <3>5
  <2> QED BY <2>1, <2>2
<1>10. Weighed(w, m) \in Int /\ Weighed(v, m) \in Int
  BY <1>1, <1>3
<1>11. (IF at = 0 THEN 0 ELSE Loss(at, m)) \in Int
  <2>1. CASE at # 0
    <3>1. at \in 1 .. m
      BY <1>1, <2>1
    <3> QED BY <2>1, <3>1 DEF Falling, Loss
  <2> QED BY <2>1
<1> QED BY <1>9, <1>10, <1>11

\* The discounts of the code fall by more than rounding hides.
LEMMA DiscountsFall ==
    ASSUME NEW k \in Cutoffs, NEW m \in Nat, m <= k
    PROVE  /\ Falling(m) /\ Prefix(Discounts, k) \in Nat
           /\ Prefix(Discounts, m) \in Nat /\ Prefix(Discounts, m) <= Prefix(Discounts, k)
           /\ \A i \in 1 .. m : 2 * UNIT * Loss(i, m) > 5 * Prefix(Discounts, k)
<1>1. k \in Nat /\ k >= 1 /\ \A i \in 1 .. k : Discounts[i] \in Nat
  <2>1. k \in Nat \ {0} /\ k <= Len(Discounts) /\ Discounts \in Seq(Nat \ {0})
    BY MetricsAssumption
  <2>2. \A i \in 1 .. Len(Discounts) : Discounts[i] \in Nat
    BY <2>1
  <2> QED BY <2>1, <2>2, Len(Discounts) \in Nat
<1>2. FineDiscounts(k)
  BY MetricsAssumption
<1>3. /\ Prefix(Discounts, k) \in Nat /\ Prefix(Discounts, m) \in Nat
      /\ Prefix(Discounts, m) <= Prefix(Discounts, k)
  <2>1. m \in 0 .. k /\ k \in 0 .. k
    BY <1>1
  <2> QED BY <1>1, <2>1, PrefixGrows
<1>4. ASSUME NEW i \in 1 .. m
      PROVE  /\ 2 * UNIT * Loss(i, m) > 5 * Prefix(Discounts, k)
             /\ Loss(i, m) > 0 /\ Discounts[i] \in Nat
  <2>1. PICK sum : sum = Prefix(Discounts, k)
    OBVIOUS
  <2>2. i \in 1 .. k /\ Discounts[i] \in Nat
    BY <1>1
  <2>3. 20000 * (Discounts[i] - (IF i < k THEN Discounts[i + 1] ELSE 0)) > 5 * sum
    <3>1. 2 * UNIT * (Discounts[i] - (IF i < k THEN Discounts[i + 1] ELSE 0))
            > 5 * SumFunctionOnSet(Discounts, 1 .. k)
      BY <1>2, <2>2 DEF FineDiscounts
    <3>2. 2 * UNIT = 20000
      BY DEF UNIT
    <3> QED BY <2>1, <3>1, <3>2 DEF Prefix
  <2>4. sum \in Nat
    BY <1>3, <2>1
  <2>5. i < k => i + 1 \in 1 .. k /\ Discounts[i + 1] \in Nat
    BY <1>1, <2>2
  <2>6. 20000 * Loss(i, m) > 5 * sum /\ Loss(i, m) > 0
    <3>1. CASE i < m
      <4>1. i < k
        BY <1>1, <3>1
      <4> QED BY <2>2, <2>3, <2>4, <2>5, <3>1, <4>1 DEF Loss
    <3>2. CASE ~(i < m)
      <4>1. CASE i < k
        BY <2>2, <2>3, <2>4, <2>5, <3>2, <4>1 DEF Loss
      <4>2. CASE ~(i < k)
        BY <2>2, <2>3, <2>4, <3>2, <4>2 DEF Loss
      <4> QED BY <4>1, <4>2
    <3> QED BY <3>1, <3>2
  <2> QED BY <2>1, <2>2, <2>6 DEF UNIT
<1> QED BY <1>3, <1>4 DEF Falling

\* No list counts more than the highest relevance everywhere.
LEMMA WeighedAtMost ==
    ASSUME NEW m, Falling(m), NEW n, m <= n, NEW v, Relevant(v, n)
    PROVE  /\ Weighed(v, m) \in Nat /\ Weighed(v, m) <= 5 * Prefix(Discounts, m)
           /\ \A i \in 1 .. m : Gains(v)[i] = v[i] * Discounts[i] /\ Gains(v)[i] \in Nat
           /\ (\E i \in 1 .. m : v[i] > 0) => Weighed(v, m) > 0
<1>1. /\ m \in Nat /\ n \in Nat /\ DOMAIN v = 1 .. n
      /\ \A i \in 1 .. n : v[i] \in 0 .. 5
      /\ \A i \in 1 .. m : i \in 1 .. n /\ Discounts[i] \in Nat /\ Loss(i, m) > 0
  BY DEF Falling, Relevant
<1>2. ASSUME NEW i \in 1 .. m
      PROVE  /\ Gains(v)[i] = v[i] * Discounts[i] /\ Gains(v)[i] \in Nat
             /\ Gains(v)[i] <= 5 * Discounts[i]
             /\ v[i] > 0 => Gains(v)[i] > 0
  <2>1. PICK x, d : x = v[i] /\ d = Discounts[i]
    OBVIOUS
  <2>2. Gains(v)[i] = x * d
    BY <1>1, <2>1 DEF Gains
  <2>3. x \in 0 .. 5 /\ d \in Nat /\ d > 0
    <3>1. Loss(i, m) > 0
      BY <1>1
    <3>2. i < m => i + 1 \in 1 .. m
      BY <1>1
    <3>3. i < m => Discounts[i + 1] \in Nat
      BY <1>1, <3>2
    <3> QED BY <1>1, <2>1, <3>1, <3>3 DEF Loss
  <2>4. x * d \in Nat /\ x * d <= 5 * d /\ (x > 0 => x * d > 0)
    BY <2>3
  <2> QED BY <2>1, <2>2, <2>4
<1>3. Numbers(Gains(v), m) /\ Numbers(Discounts, m)
  BY <1>1, <1>2 DEF Numbers
<1> DEFINE T == {j \in 0 .. m : Weighed(v, j) <= 5 * Prefix(Discounts, j)}
<1>4. 0 \in T
  BY <1>1, <1>3, PrefixStep DEF Weighed
<1>5. ASSUME NEW j \in 0 .. m - 1, j \in T PROVE j + 1 \in T
  <2>1. j + 1 \in 1 .. m /\ j + 1 \in 0 .. m /\ j \in 0 .. m
    BY <1>1
  <2>2. /\ Weighed(v, j + 1) = Weighed(v, j) + Gains(v)[j + 1] /\ Weighed(v, j) \in Int
        /\ Prefix(Discounts, j + 1) = Prefix(Discounts, j) + Discounts[j + 1]
        /\ Prefix(Discounts, j) \in Int
    BY <1>3, <2>1, PrefixStep DEF Weighed
  <2>3. Gains(v)[j + 1] \in Nat /\ Gains(v)[j + 1] <= 5 * Discounts[j + 1] /\ Discounts[j + 1] \in Nat
    BY <1>1, <1>2, <2>1
  <2> QED BY <1>5, <2>1, <2>2, <2>3
<1>6. m \in T
  <2> HIDE DEF T
  <2>1. \A j \in 0 .. m : j \in T
    BY <1>1, <1>4, <1>5, CountingUp
  <2> QED BY <1>1, <2>1
<1>7. Weighed(v, m) \in Nat
  <2>1. \A i \in 1 .. m : Gains(v)[i] \in Nat
    BY <1>2
  <2>2. IsFiniteSet(1 .. m)
    BY <1>1, FS_Interval
  <2> QED BY <2>1, <2>2, SumNotNegative DEF Weighed, Prefix
<1>8. ASSUME NEW i \in 1 .. m, v[i] > 0 PROVE Weighed(v, m) > 0
  <2>1. PICK S : S = 1 .. m
    OBVIOUS
  <2>2. IsFiniteSet(S) /\ i \in S /\ \A l \in S : Gains(v)[l] \in Nat
    BY <1>1, <1>2, <2>1, FS_Interval
  <2>3. IsFiniteSet(S \ {i}) /\ \A l \in S \ {i} : Gains(v)[l] \in Nat
    BY <2>2, FS_RemoveElement
  <2>4. SumFunctionOnSet(Gains(v), S) = Gains(v)[i] + SumFunctionOnSet(Gains(v), S \ {i})
    <3>1. IsFiniteSet(S) /\ i \in S /\ \A l \in S : Gains(v)[l] \in Int
      BY <2>2
    <3> QED BY ONLY <3>1, SumRemove
  <2>5. SumFunctionOnSet(Gains(v), S \ {i}) \in Nat
    BY <2>3, SumNotNegative
  <2>6. Gains(v)[i] > 0 /\ Gains(v)[i] \in Nat
    BY <1>2, <1>8
  <2>7. Weighed(v, m) = SumFunctionOnSet(Gains(v), S)
    BY <2>1 DEF Weighed, Prefix
  <2> QED BY ONLY <2>4, <2>5, <2>6, <2>7
<1> QED BY <1>2, <1>6, <1>7, <1>8

\* nDCG weighs as many places as the cutoff and the list have.
LEMMA DcgIs ==
    ASSUME NEW k \in Cutoffs, NEW n, NEW v, Relevant(v, n)
    PROVE  /\ Atmost(k, n) \in Nat /\ Atmost(k, n) <= k /\ Atmost(k, n) <= n
           /\ Len(v) = n /\ Dcg(v, k) = Weighed(v, Atmost(k, n))
<1>1. k \in Nat /\ n \in Nat /\ DOMAIN v = 1 .. n
  BY MetricsAssumption DEF Relevant
<1>2. PICK m : m = Atmost(k, n)
  OBVIOUS
<1>3. m \in Nat /\ m <= k /\ m <= n
  BY <1>1, <1>2 DEF Atmost
<1>4. Len(v) = n
  BY <1>1 DEF Relevant
<1>5. PICK f : f = [i \in 1 .. m |-> v[i] * Discounts[i]]
  OBVIOUS
<1>6. Dcg(v, k) = SumFunctionOnSet(f, 1 .. m)
  <2>1. Dcg(v, k) = SumFunction(f)
    BY <1>2, <1>4, <1>5 DEF Dcg
  <2>2. DOMAIN f = 1 .. m
    BY <1>5
  <2> QED BY <2>1, <2>2 DEF SumFunction
<1>7. \A i \in 1 .. m : f[i] = Gains(v)[i]
  BY <1>1, <1>3, <1>5 DEF Gains
<1>8. SumFunctionOnSet(f, 1 .. m) = SumFunctionOnSet(Gains(v), 1 .. m)
  <2>1. IsFiniteSet(1 .. m)
    BY <1>3, FS_Interval
  <2> QED BY <1>7, <2>1, SumAgrees
<1> QED BY <1>2, <1>3, <1>4, <1>6, <1>8 DEF Weighed, Prefix

-----------------------------------------------------------------------------
(* The ideal order has the most in its first places, however many of them. *)

\* A sum does not depend on the order of the places.
LEMMA SumPermuted ==
    ASSUME NEW D, IsFiniteSet(D), NEW p, p \in Bijection(D, D),
           NEW f, NEW g, \A x \in D : f[x] \in Int /\ g[x] = f[p[x]]
    PROVE  SumFunctionOnSet(g, D) = SumFunctionOnSet(f, D)
<1> DEFINE At(s) == {p[x] : x \in s}
           T == {s \in SUBSET D : SumFunctionOnSet(g, s) = SumFunctionOnSet(f, At(s))}
<1>1. /\ \A x \in D : p[x] \in D
      /\ \A x, y \in D : p[x] = p[y] => x = y
      /\ \A y \in D : \E x \in D : p[x] = y
  BY DEF Bijection, Injection, Surjection, IsInjective
<1>2. ASSUME NEW s \in SUBSET D, \A x \in s : s \ {x} \in T PROVE s \in T
  <2>1. CASE s = {}
    BY <2>1, SumEmpty
  <2>2. ASSUME NEW x \in s PROVE s \in T
    <3>1. PICK y, J, K : y = p[x] /\ J = At(s) /\ K = At(s \ {x})
      OBVIOUS
    <3>2. J \in SUBSET D /\ y \in J /\ J \ {y} = K
      BY <1>1, <3>1
    <3>3. IsFiniteSet(J) /\ y \in J /\ \A z \in J : f[z] \in Int
      BY <3>2, FS_Subset
    <3>4. SumFunctionOnSet(f, J) = f[y] + SumFunctionOnSet(f, K)
      BY ONLY <3>2, <3>3, SumRemove
    <3>5. IsFiniteSet(s) /\ x \in s /\ \A z \in s : g[z] \in Int
      BY <1>1, FS_Subset
    <3>6. SumFunctionOnSet(g, s) = g[x] + SumFunctionOnSet(g, s \ {x})
      BY ONLY <3>5, SumRemove
    <3>7. SumFunctionOnSet(g, s \ {x}) = SumFunctionOnSet(f, K)
      BY <1>2, <3>1
    <3>8. SumFunctionOnSet(g, s) = SumFunctionOnSet(f, At(s))
      BY <3>1, <3>4, <3>6, <3>7
    <3> QED BY <3>8
  <2> QED BY <2>1, <2>2
<1>3. D \in T
  <2> HIDE DEF T
  <2>1. \A s \in SUBSET D : s \in T
    BY <1>2, SubsetInduction
  <2> QED BY <2>1
<1>4. At(D) = D
  BY <1>1
<1> HIDE DEF At
<1> QED BY <1>3, <1>4

\* With so much more in each place there is that much more in all of them.
LEMMA PrefixShifted ==
    ASSUME NEW n \in Nat, NEW f, NEW g, NEW t \in Int,
           \A i \in 1 .. n : f[i] \in Int /\ g[i] \in Int /\ f[i] <= g[i] + t
    PROVE  /\ Prefix(f, n) \in Int /\ Prefix(g, n) \in Int
           /\ Prefix(f, n) <= Prefix(g, n) + n * t
           /\ (\A i \in 1 .. n : f[i] = g[i] + t) => Prefix(f, n) = Prefix(g, n) + n * t
<1>1. Numbers(f, n) /\ Numbers(g, n)
  BY DEF Numbers
<1> DEFINE Same == \A i \in 1 .. n : f[i] = g[i] + t
           T == {j \in 0 .. n : /\ Prefix(f, j) <= Prefix(g, j) + j * t
                                /\ Same => Prefix(f, j) = Prefix(g, j) + j * t}
<1>2. \A j \in 0 .. n : Prefix(f, j) \in Int /\ Prefix(g, j) \in Int
  BY <1>1, PrefixStep
<1>3. 0 \in T
  BY <1>1, PrefixStep
<1>4. ASSUME NEW j \in 0 .. n - 1, j \in T PROVE j + 1 \in T
  <2>1. j + 1 \in 1 .. n /\ j + 1 \in 0 .. n /\ j \in 0 .. n /\ j \in Int
    OBVIOUS
  <2>2. /\ Prefix(f, j + 1) = Prefix(f, j) + f[j + 1]
        /\ Prefix(g, j + 1) = Prefix(g, j) + g[j + 1]
    BY <1>1, PrefixStep
  <2>3. PICK a, b, x, y : /\ a = Prefix(f, j) /\ b = Prefix(g, j)
                          /\ x = f[j + 1] /\ y = g[j + 1]
    OBVIOUS
  <2>4. a \in Int /\ b \in Int /\ x \in Int /\ y \in Int /\ x <= y + t /\ (Same => x = y + t)
    BY <1>2, <2>1, <2>3
  <2>5. a <= b + j * t /\ (Same => a = b + j * t)
    BY <1>4, <2>3
  <2>6. (j + 1) * t = j * t + t /\ j * t \in Int
    BY <2>1
  <2> HIDE DEF Same
  <2>7. a + x <= b + y + (j + 1) * t /\ (Same => a + x = b + y + (j + 1) * t)
    BY <2>4, <2>5, <2>6
  <2> QED BY <2>1, <2>2, <2>3, <2>7
<1>5. n \in T
  <2> HIDE DEF T
  <2>1. \A j \in 0 .. n : j \in T
    BY <1>3, <1>4, CountingUp
  <2> QED BY <2>1
<1> QED BY <1>2, <1>5

IdealKey(v) == [i \in DOMAIN v |-> 0 - v[i]]

\* The most relevant first.
LEMMA IdealIs ==
    ASSUME NEW n, NEW v, Relevant(v, n)
    PROVE  /\ IsKey(IdealKey(v), n) /\ Relevant(Ideal(v), n)
           /\ OrderOf(IdealKey(v)) \in Bijection(1 .. n, 1 .. n)
           /\ Ideal(v) = [m \in 1 .. n |-> v[OrderOf(IdealKey(v))[m]]]
           /\ \A l, m \in 1 .. n : l <= m => Ideal(v)[m] <= Ideal(v)[l]
<1> DEFINE D == 1 .. n
           key == IdealKey(v)
<1>1. n \in Nat /\ DOMAIN v = D /\ \A i \in D : v[i] \in 0 .. 5 /\ v[i] \in Int
  BY DEF Relevant
<1>2. DOMAIN key = D /\ \A i \in D : key[i] = 0 - v[i]
  BY <1>1 DEF IdealKey
<1>3. IsKey(key, n)
  BY <1>1 DEF IdealKey, IsKey
<1> DEFINE Better(i) == {j \in D : v[j] > v[i] \/ (~(v[i] > v[j]) /\ j < i)}
           before == [i \in D |-> Cardinality(Better(i))]
<1>4. before = Standing(key)
  <2>1. ASSUME NEW i \in D PROVE Better(i) = Earlier(key, i)
    <3>1. \A j \in D : (v[j] > v[i] \/ (~(v[i] > v[j]) /\ j < i)) <=> IsAhead(key, j, i)
      BY <1>1, <1>2 DEF IsAhead
    <3> HIDE DEF key
    <3> QED BY <1>2, <3>1 DEF Earlier
  <2> HIDE DEF Better, key
  <2> QED BY <1>2, <2>1 DEF Standing
<1>5. Ideal(v) = [m \in D |-> v[CHOOSE i \in D : before[i] = m - 1]]
  BY <1>1 DEF Ideal, SortedBy
<1>6. \A m \in D : OrderOf(key)[m] = CHOOSE i \in D : before[i] = m - 1
  BY <1>2, <1>4 DEF OrderOf
<1>7. Ideal(v) = [m \in D |-> v[OrderOf(key)[m]]]
  <2> HIDE DEF before, key, D
  <2> QED BY <1>5, <1>6
<1>8. /\ OrderOf(key) \in Bijection(D, D)
      /\ \A l, m \in D : l <= m => key[OrderOf(key)[l]] <= key[OrderOf(key)[m]]
  BY <1>3, OrderIs
<1>9. \A m \in D : OrderOf(key)[m] \in D
  BY <1>8 DEF Bijection, Injection
<1>10. Relevant(Ideal(v), n)
  <2>1. \A m \in D : v[OrderOf(key)[m]] \in 0 .. 5
    BY <1>1, <1>9
  <2> HIDE DEF D, key
  <2> QED BY <1>1, <1>7, <2>1 DEF Relevant, D
<1>11. ASSUME NEW l \in D, NEW m \in D, l <= m PROVE Ideal(v)[m] <= Ideal(v)[l]
  <2>1. PICK a, b : a = OrderOf(key)[l] /\ b = OrderOf(key)[m]
    OBVIOUS
  <2>2. a \in D /\ b \in D /\ key[a] <= key[b]
    BY <1>8, <1>9, <1>11, <2>1
  <2>3. v[b] <= v[a]
    BY <1>1, <1>2, <2>2
  <2> QED BY <1>7, <2>1, <2>3
<1> QED BY <1>3, <1>7, <1>8, <1>10, <1>11

\* What places hold above t.
Excess(v, t) == [i \in DOMAIN v |-> IF v[i] > t THEN v[i] - t ELSE 0]

LEMMA IdealLeads ==
    ASSUME NEW n, NEW v, Relevant(v, n), NEW j \in 0 .. n
    PROVE  Prefix(v, j) <= Prefix(Ideal(v), j)
<1> DEFINE D == 1 .. n
           p == OrderOf(IdealKey(v))
<1>0. n \in Nat /\ j \in Nat
  BY DEF Relevant
<1>1. PICK w : w = Ideal(v)
  OBVIOUS
<1>2. /\ p \in Bijection(D, D) /\ w = [m \in D |-> v[p[m]]] /\ Relevant(w, n)
      /\ \A l, m \in D : l <= m => w[m] <= w[l]
  BY <1>1, IdealIs
<1>3. DOMAIN v = D /\ DOMAIN w = D /\ \A i \in D : v[i] \in Nat /\ w[i] \in Nat /\ p[i] \in D
  <2>1. 0 .. 5 \subseteq Nat
    OBVIOUS
  <2> HIDE DEF p
  <2> QED BY <1>2, <2>1 DEF Relevant, Bijection, Injection
<1>4. CASE j = 0
  <2>1. Numbers(v, 0) /\ Numbers(w, 0)
    BY DEF Numbers
  <2>2. Prefix(v, 0) = 0 /\ Prefix(w, 0) = 0
    BY <2>1, PrefixStep
  <2> QED BY <1>1, <1>4, <2>2
<1>5. CASE j # 0
  <2>1. PICK t : t = w[j]
    OBVIOUS
  <2>2. j \in D /\ t \in Nat
    BY <1>0, <1>3, <1>5, <2>1
  <2>3. PICK e, f : e = Excess(v, t) /\ f = Excess(w, t)
    OBVIOUS
  <2>4. /\ \A i \in D : e[i] \in Nat /\ v[i] <= e[i] + t
        /\ \A i \in D : f[i] \in Nat /\ w[i] <= f[i] + t /\ f[i] = e[p[i]]
    <3>1. \A i \in D : /\ e[i] = IF v[i] > t THEN v[i] - t ELSE 0
                       /\ f[i] = IF w[i] > t THEN w[i] - t ELSE 0
      BY <1>3, <2>3 DEF Excess
    <3>2. \A i \in D : e[i] \in Nat /\ f[i] \in Nat /\ v[i] <= e[i] + t /\ w[i] <= f[i] + t
      <4> HIDE DEF p, D
      <4> QED BY <1>3, <2>2, <3>1
    <3>3. \A i \in D : f[i] = e[p[i]]
      <4> HIDE DEF p, D
      <4> QED BY <1>2, <1>3, <3>1
    <3> QED BY <3>2, <3>3
  <2>5. \A i \in 1 .. j : i \in D /\ w[i] = f[i] + t
    <3> SUFFICES ASSUME NEW i \in 1 .. j PROVE i \in D /\ w[i] = f[i] + t
      OBVIOUS
    <3>1. i \in D /\ t <= w[i]
      BY <1>0, <1>2, <2>1, <2>2
    <3>2. f[i] = IF w[i] > t THEN w[i] - t ELSE 0
      BY <1>3, <2>3, <3>1 DEF Excess
    <3>3. w[i] \in Nat
      BY <1>3, <3>1
    <3> QED BY <2>2, <3>1, <3>2, <3>3
  <2>6. \A i \in j + 1 .. n : f[i] = 0
    <3> SUFFICES ASSUME NEW i \in j + 1 .. n PROVE f[i] = 0
      OBVIOUS
    <3>1. i \in D /\ w[i] <= t
      BY <1>0, <1>2, <2>1, <2>2
    <3>2. f[i] = IF w[i] > t THEN w[i] - t ELSE 0
      BY <1>3, <2>3, <3>1 DEF Excess
    <3>3. w[i] \in Nat
      BY <1>3, <3>1
    <3> QED BY <2>2, <3>1, <3>2, <3>3
  <2>7. Prefix(v, j) <= Prefix(e, j) + j * t
    <3>1. \A i \in 1 .. j : v[i] \in Int /\ e[i] \in Int /\ v[i] <= e[i] + t
      BY <1>0, <1>3, <2>4
    <3>2. j \in Nat /\ t \in Int
      BY <1>0, <2>2
    <3> QED BY ONLY <3>1, <3>2, PrefixShifted
  <2>8. Prefix(w, j) = Prefix(f, j) + j * t
    <3>1. \A i \in 1 .. j : w[i] \in Int /\ f[i] \in Int /\ w[i] <= f[i] + t /\ w[i] = f[i] + t
      <4>1. \A i \in 1 .. j : i \in D /\ w[i] \in Int /\ f[i] \in Int
        BY <1>0, <1>3, <2>4
      <4> QED BY <2>2, <2>5, <4>1
    <3>2. j \in Nat /\ t \in Int
      BY <1>0, <2>2
    <3> QED BY ONLY <3>1, <3>2, PrefixShifted
  <2>9. Prefix(e, j) \in Nat /\ Prefix(e, j) <= Prefix(e, n) /\ Prefix(f, j) = Prefix(f, n)
    <3>1. n \in Nat /\ j \in 0 .. n /\ \A i \in 1 .. n : e[i] \in Nat /\ f[i] \in Nat
      BY <1>0, <2>4
    <3> QED BY ONLY <3>1, <2>6, PrefixGrows
  <2>10. Prefix(f, n) = Prefix(e, n)
    <3>1. IsFiniteSet(D) /\ p \in Bijection(D, D)
      BY <1>0, <1>2, FS_Interval
    <3>2. \A i \in D : e[i] \in Int /\ f[i] = e[p[i]]
      BY <2>4
    <3> HIDE DEF D, p
    <3>3. SumFunctionOnSet(f, D) = SumFunctionOnSet(e, D)
      BY ONLY <3>1, <3>2, SumPermuted
    <3> QED BY <3>3 DEF D, Prefix
  <2>11. j * t \in Int /\ Prefix(e, n) \in Int /\ Prefix(v, j) \in Int
    <3>1. Numbers(e, n) /\ Numbers(v, n) /\ n \in 0 .. n
      BY <1>0, <1>3, <2>4 DEF Numbers
    <3>2. Prefix(e, n) \in Int /\ Prefix(v, j) \in Int
      BY <3>1, PrefixStep
    <3> QED BY <1>0, <2>2, <3>2
  <2> QED BY <1>1, <2>7, <2>8, <2>9, <2>10, <2>11
<1> QED BY <1>4, <1>5

\* Lists with as much in as many first places are the same.
LEMMA SamePrefixes ==
    ASSUME NEW m, NEW v, NEW w, Numbers(v, m), Numbers(w, m),
           \A j \in 0 .. m : Prefix(v, j) = Prefix(w, j)
    PROVE  \A i \in 1 .. m : v[i] = w[i]
<1> SUFFICES ASSUME NEW i \in 1 .. m PROVE v[i] = w[i]
  OBVIOUS
<1>1. PICK j : j = i - 1
  OBVIOUS
<1>2. m \in Nat /\ v[i] \in Int /\ w[i] \in Int
  BY DEF Numbers
<1>3. j \in 0 .. m - 1 /\ j \in 0 .. m /\ i \in 0 .. m /\ i = j + 1
  BY <1>1, <1>2
<1>4. /\ Prefix(v, j) \in Int /\ Prefix(v, j + 1) = Prefix(v, j) + v[j + 1]
      /\ Prefix(w, j) \in Int /\ Prefix(w, j + 1) = Prefix(w, j) + w[j + 1]
  BY <1>3, PrefixStep
<1>5. Prefix(v, j) = Prefix(w, j) /\ Prefix(v, i) = Prefix(w, i)
  BY <1>3
<1> QED BY <1>2, <1>3, <1>4, <1>5

-----------------------------------------------------------------------------
(* nDCG: the ideal order and no other has all of the gain.                 *)

LEMMA RoundedRatio ==
    ASSUME NEW a \in Nat, NEW b \in Nat, NEW d \in Nat, d > 0
    PROVE  /\ Rounded(a, d) \in Int
           /\ a <= b => Rounded(a, d) <= Rounded(b, d)
           /\ a <= d => Rounded(a, d) <= UNIT
           /\ a = d => Rounded(a, d) = UNIT
           /\ 2 * UNIT * (d - a) > d => Rounded(a, d) < UNIT
<1>1. /\ Rounded(a, d) = (20000 * a + d) \div (2 * d)
      /\ Rounded(b, d) = (20000 * b + d) \div (2 * d)
  BY DEF Rounded, UNIT
<1>2. PICK q, r : q = Rounded(a, d) /\ r = Rounded(b, d)
  OBVIOUS
<1>3. /\ q \in Int /\ (2 * d) * q <= 20000 * a + d /\ 20000 * a + d < (2 * d) * q + 2 * d
  BY <1>1, <1>2
<1>4. /\ r \in Int /\ (2 * d) * r <= 20000 * b + d /\ 20000 * b + d < (2 * d) * r + 2 * d
  BY <1>1, <1>2
<1>5. a <= b => q <= r
  <2> SUFFICES ASSUME a <= b, r + 1 <= q PROVE FALSE
    BY <1>3, <1>4
  <2>1. (2 * d) * (r + 1) <= (2 * d) * q
    BY <1>3, <1>4
  <2>2. (2 * d) * (r + 1) = (2 * d) * r + 2 * d
    BY <1>4
  <2> QED BY <1>3, <1>4, <2>1, <2>2
<1>6. a <= d => q <= 10000
  <2> SUFFICES ASSUME a <= d, 10001 <= q PROVE FALSE
    BY <1>3
  <2>1. (2 * d) * 10001 <= (2 * d) * q
    BY <1>3
  <2> QED BY <1>3, <2>1
<1>7. a = d => q = 10000
  <2> SUFFICES ASSUME a = d, q <= 9999 PROVE FALSE
    BY <1>3, <1>6
  <2>1. (2 * d) * q <= (2 * d) * 9999
    BY <1>3
  <2> QED BY <1>3, <2>1
<1>8. 20000 * (d - a) > d => q < 10000
  <2> SUFFICES ASSUME 20000 * (d - a) > d, 10000 <= q PROVE FALSE
    BY <1>3
  <2>1. (2 * d) * 10000 <= (2 * d) * q
    BY <1>3
  <2> QED BY <1>3, <2>1
<1> QED BY <1>2, <1>3, <1>5, <1>6, <1>7, <1>8 DEF UNIT

SomeRelevant(v, n) == \E i \in 1 .. n : v[i] > 0

\* With anything relevant there is an ideal gain, and nDCG is its share.
LEMMA NdcgIs ==
    ASSUME NEW k \in Cutoffs, NEW n, NEW v, Relevant(v, n), SomeRelevant(v, n),
           NEW m, m = Atmost(k, n)
    PROVE  /\ m \in Nat /\ m <= k /\ m <= n /\ Falling(m)
           /\ Relevant(Ideal(v), n) /\ Len(v) = n /\ Len(Ideal(v)) = n
           /\ Weighed(v, m) \in Nat /\ Weighed(Ideal(v), m) \in Nat
           /\ Weighed(Ideal(v), m) > 0
           /\ Weighed(Ideal(v), m) <= 5 * Prefix(Discounts, k)
           /\ NdcgAtK(v, k) = Rounded(Weighed(v, m), Weighed(Ideal(v), m))
<1>1. PICK w : w = Ideal(v)
  OBVIOUS
<1>2. /\ Relevant(w, n)
      /\ OrderOf(IdealKey(v)) \in Bijection(1 .. n, 1 .. n)
      /\ w = [l \in 1 .. n |-> v[OrderOf(IdealKey(v))[l]]]
      /\ \A l, j \in 1 .. n : l <= j => w[j] <= w[l]
  BY <1>1, IdealIs
<1>3. /\ m \in Nat /\ m <= k /\ m <= n /\ Len(v) = n /\ Len(w) = n
      /\ Dcg(v, k) = Weighed(v, m) /\ Dcg(w, k) = Weighed(w, m)
  BY <1>2, DcgIs
<1>4. /\ Falling(m) /\ Prefix(Discounts, k) \in Nat
      /\ Prefix(Discounts, m) \in Nat /\ Prefix(Discounts, m) <= Prefix(Discounts, k)
  BY <1>3, DiscountsFall
<1>5. /\ Weighed(v, m) \in Nat /\ Weighed(w, m) \in Nat
      /\ Weighed(w, m) <= 5 * Prefix(Discounts, m)
      /\ (\E i \in 1 .. m : w[i] > 0) => Weighed(w, m) > 0
  BY <1>2, <1>3, <1>4, WeighedAtMost
<1>6. 1 \in 1 .. m /\ w[1] > 0
  <2>1. PICK i \in 1 .. n : v[i] > 0
    BY DEF SomeRelevant
  <2>2. PICK l \in 1 .. n : OrderOf(IdealKey(v))[l] = i
    BY <1>2 DEF Bijection, Surjection
  <2>3. n \in Nat /\ k \in Nat /\ k >= 1
    BY MetricsAssumption DEF Relevant
  <2>4. 1 \in 1 .. n /\ 1 <= l
    BY <2>3
  <2>5. w[l] <= w[1] /\ w[l] = v[i]
    BY <1>2, <2>2, <2>4
  <2>6. w[1] \in 0 .. 5 /\ w[l] \in 0 .. 5
    BY <1>2, <2>4 DEF Relevant
  <2>7. m >= 1
    BY <2>3, <2>4 DEF Atmost
  <2> QED BY <1>3, <2>1, <2>5, <2>6, <2>7
<1>7. Weighed(w, m) > 0
  BY <1>5, <1>6
<1>8. NdcgAtK(v, k) = Rounded(Weighed(v, m), Weighed(w, m))
  <2>1. Weighed(w, m) # 0
    BY <1>5, <1>7
  <2> QED BY <1>1, <1>3, <2>1 DEF NdcgAtK
<1>9. Weighed(w, m) <= 5 * Prefix(Discounts, k)
  BY <1>4, <1>5
<1> QED BY <1>1, <1>2, <1>3, <1>4, <1>5, <1>7, <1>8, <1>9

\* It is 1 when the first places are those of the ideal order, and less otherwise.
LEMMA NdcgAtMostOne ==
    ASSUME NEW k \in Cutoffs, NEW n, NEW v, Relevant(v, n), SomeRelevant(v, n),
           NEW m, m = Atmost(k, n)
    PROVE  /\ NdcgAtK(v, k) \in Int /\ NdcgAtK(v, k) <= UNIT
           /\ NdcgAtK(v, k) = UNIT <=> \A i \in 1 .. m : v[i] = Ideal(v)[i]
<1>1. PICK w : w = Ideal(v)
  OBVIOUS
<1>2. PICK a, d : a = Weighed(v, m) /\ d = Weighed(w, m)
  OBVIOUS
<1>3. /\ m \in Nat /\ m <= k /\ m <= n /\ Falling(m) /\ Relevant(w, n)
      /\ a \in Nat /\ d \in Nat /\ d > 0 /\ d <= 5 * Prefix(Discounts, k)
      /\ NdcgAtK(v, k) = Rounded(a, d)
  BY <1>1, <1>2, NdcgIs
<1>4. \A j \in 0 .. n : Prefix(v, j) <= Prefix(w, j)
  BY <1>1, IdealLeads
<1>5. Numbers(v, m) /\ Numbers(w, m) /\ n \in Nat
  <2>1. n \in Nat /\ \A i \in 1 .. n : v[i] \in Int /\ w[i] \in Int
    <3>1. 0 .. 5 \subseteq Int
      OBVIOUS
    <3> QED BY <1>3, <3>1 DEF Relevant
  <2> QED BY <1>3, <2>1 DEF Numbers
<1>6. /\ \A j \in 0 .. m : Prefix(v, j) <= Prefix(w, j)
      /\ \A j \in 0 .. m : Prefix(v, j) \in Int /\ Prefix(w, j) \in Int
  <2>1. \A j \in 0 .. m : j \in 0 .. n
    BY <1>3, <1>5
  <2> QED BY <1>4, <1>5, <2>1, PrefixStep
<1>7. a <= d
  <2>1. 0 \in 0 .. m
    BY <1>3
  <2>2. Weighed(w, m) >= Weighed(v, m) + 0
    BY <1>3, <1>6, <2>1, Weighing
  <2> QED BY <1>2, <1>3, <2>2
<1>8. ASSUME \A i \in 1 .. m : v[i] = w[i] PROVE a = d
  <2>1. \A i \in 1 .. m : Gains(v)[i] = Gains(w)[i]
    <3>1. \A i \in 1 .. m : i \in DOMAIN v /\ i \in DOMAIN w
      BY <1>3, <1>5 DEF Relevant
    <3> QED BY <1>8, <3>1 DEF Gains
  <2>2. IsFiniteSet(1 .. m)
    BY <1>3, FS_Interval
  <2>3. SumFunctionOnSet(Gains(v), 1 .. m) = SumFunctionOnSet(Gains(w), 1 .. m)
    BY ONLY <2>1, <2>2, SumAgrees
  <2> QED BY <1>2, <2>3 DEF Weighed, Prefix
<1>9. ASSUME ~(\A i \in 1 .. m : v[i] = w[i]) PROVE 2 * UNIT * (d - a) > d
  <2>1. PICK at \in 0 .. m : Prefix(v, at) # Prefix(w, at)
    BY <1>5, <1>9, SamePrefixes
  <2>2. Prefix(v, at) < Prefix(w, at)
    BY <1>6, <2>1
  <2>3. at # 0
    <3>1. Prefix(v, 0) = 0 /\ Prefix(w, 0) = 0
      BY <1>5, PrefixStep
    <3> QED BY <2>1, <3>1
  <2>4. Weighed(w, m) >= Weighed(v, m) + Loss(at, m)
    <3>1. Weighed(w, m) >= Weighed(v, m) + IF at = 0 THEN 0 ELSE Loss(at, m)
      BY <1>3, <1>6, <2>2, Weighing
    <3> QED BY <2>3, <3>1
  <2>5. at \in 1 .. m
    BY <1>3, <2>3
  <2>6. 2 * UNIT * Loss(at, m) > 5 * Prefix(Discounts, k) /\ Prefix(Discounts, k) \in Nat
    BY <1>3, <2>5, DiscountsFall
  <2>7. Loss(at, m) \in Int
    <3>1. at < m => at + 1 \in 1 .. m
      BY <1>3, <2>5
    <3> QED BY <1>3, <2>5, <3>1 DEF Falling, Loss
  <2>8. PICK l, top : l = Loss(at, m) /\ top = Prefix(Discounts, k)
    OBVIOUS
  <2>9. d >= a + l /\ 20000 * l > 5 * top /\ d <= 5 * top /\ l \in Int /\ top \in Nat
    BY <1>2, <1>3, <2>4, <2>6, <2>7, <2>8 DEF UNIT
  <2>10. 20000 * (d - a) > d
    BY <1>3, <2>9
  <2> QED BY <2>10 DEF UNIT
<1>10. /\ Rounded(a, d) \in Int /\ Rounded(a, d) <= UNIT
       /\ a = d => Rounded(a, d) = UNIT
       /\ 2 * UNIT * (d - a) > d => Rounded(a, d) < UNIT
  BY <1>3, <1>7, RoundedRatio
<1>11. UNIT \in Int
  BY DEF UNIT
<1>12. Rounded(a, d) = UNIT <=> \A i \in 1 .. m : v[i] = w[i]
  <2>1. Rounded(a, d) < UNIT => Rounded(a, d) # UNIT
    BY <1>10, <1>11
  <2> QED BY <1>8, <1>9, <1>10, <2>1
<1> QED BY <1>1, <1>3, <1>10, <1>12

\* The first places of two lists, as sequences.
LEMMA SameBest ==
    ASSUME NEW n, NEW v, Relevant(v, n), NEW w, Relevant(w, n), NEW m \in Nat, m <= n
    PROVE  SubSeq(v, 1, m) = SubSeq(w, 1, m) <=> \A i \in 1 .. m : v[i] = w[i]
<1>1. /\ n \in Nat /\ v \in Seq(0 .. 5) /\ w \in Seq(0 .. 5) /\ Len(v) = n /\ Len(w) = n
  BY DEF Relevant
<1>2. /\ SubSeq(v, 1, m) = [i \in 1 .. m |-> v[i]]
      /\ SubSeq(w, 1, m) = [i \in 1 .. m |-> w[i]]
  BY <1>1
<1>3. PICK f, g : f = [i \in 1 .. m |-> v[i]] /\ g = [i \in 1 .. m |-> w[i]]
  OBVIOUS
<1>4. (f = g) <=> \A i \in 1 .. m : v[i] = w[i]
  <2>1. \A i \in 1 .. m : f[i] = v[i] /\ g[i] = w[i]
    BY <1>3
  <2> QED BY <1>3, <2>1
<1> QED BY <1>2, <1>3, <1>4

-----------------------------------------------------------------------------
(* Moving the better of two neighbours up.                                 *)

LEMMA RelevanceSwapped ==
    ASSUME NEW n, NEW v, Relevant(v, n), NEW i \in 1 .. n - 1
    PROVE  /\ Relevant(Swapped(v, i), n) /\ i \in 1 .. n /\ i + 1 \in 1 .. n
           /\ \A a \in 1 .. n : /\ Exchanged(i, a) \in 1 .. n
                                /\ Swapped(v, i)[a] = v[Exchanged(i, a)]
<1> DEFINE D == 1 .. n
<1>1. n \in Nat /\ DOMAIN v = D /\ i \in D /\ i + 1 \in D /\ \A a \in D : v[a] \in 0 .. 5
  BY DEF Relevant
<1>2. PICK t : t = Swapped(v, i)
  OBVIOUS
<1>3. t = [[v EXCEPT ![i] = v[i + 1]] EXCEPT ![i + 1] = v[i]]
  BY <1>2 DEF Swapped
<1>4. DOMAIN t = D /\ \A a \in D : t[a] = v[Exchanged(i, a)] /\ Exchanged(i, a) \in D
  BY <1>1, <1>3 DEF Exchanged
<1>5. t = [a \in D |-> t[a]] /\ \A a \in D : t[a] \in 0 .. 5
  <2>1. \A a \in D : t[a] \in 0 .. 5
    BY <1>1, <1>4
  <2>2. t = [a \in D |-> t[a]]
    BY <1>1, <1>3, <1>4
  <2> QED BY <2>1, <2>2
<1>6. Relevant(t, n)
  BY <1>1, <1>5 DEF Relevant
<1> QED BY <1>1, <1>2, <1>4, <1>6

\* The ideal order does not depend on where the two stood ...
LEMMA IdealSwapped ==
    ASSUME NEW n, NEW v, Relevant(v, n), NEW i \in 1 .. n - 1, v[i] # v[i + 1]
    PROVE  Ideal(Swapped(v, i)) = Ideal(v)
<1> DEFINE D == 1 .. n
<1>1. PICK t : t = Swapped(v, i)
  OBVIOUS
<1>2. /\ Relevant(t, n) /\ i \in D /\ i + 1 \in D
      /\ \A a \in D : Exchanged(i, a) \in D /\ t[a] = v[Exchanged(i, a)]
  BY <1>1, RelevanceSwapped
<1>3. PICK key, other : key = IdealKey(v) /\ other = IdealKey(t)
  OBVIOUS
<1>4. PICK p, q : p = OrderOf(key) /\ q = OrderOf(other)
  OBVIOUS
<1>5. /\ IsKey(key, n) /\ Ideal(v) = [m \in D |-> v[p[m]]]
      /\ IsKey(other, n) /\ Ideal(t) = [m \in D |-> t[q[m]]]
  BY <1>2, <1>3, <1>4, IdealIs
<1>6. \A a \in D : key[a] = 0 - v[a] /\ other[a] = 0 - t[a] /\ v[a] \in Int
  <2>1. DOMAIN v = D /\ DOMAIN t = D /\ \A a \in D : v[a] \in 0 .. 5
    BY <1>2 DEF Relevant
  <2>2. 0 .. 5 \subseteq Int
    OBVIOUS
  <2> HIDE DEF D
  <2> QED BY <1>3, <2>1, <2>2 DEF IdealKey
<1>7. \A a \in D : other[a] = key[Exchanged(i, a)]
  BY <1>2, <1>6
<1>8. key[i] # key[i + 1]
  BY <1>2, <1>6
<1>9. ASSUME NEW m \in D PROVE Exchanged(i, q[m]) = p[m] /\ q[m] \in D
  <2>1. q[m] \in D /\ Standing(other)[q[m]] = m - 1
    BY <1>4, <1>5, OrderIs DEF Bijection, Injection
  <2>2. Standing(key)[Exchanged(i, q[m])] = m - 1
    BY <1>5, <1>7, <1>8, <2>1, StandingExchanged
  <2>3. PICK x \in D : x = Exchanged(i, q[m])
    BY <1>2, <2>1
  <2>4. p[Standing(key)[x] + 1] = x
    BY <1>4, <1>5, OrderIs
  <2>5. Standing(key)[x] + 1 = m
    BY <2>2, <2>3
  <2> QED BY <2>1, <2>3, <2>4, <2>5
<1>10. \A m \in D : t[q[m]] = v[p[m]]
  BY <1>2, <1>9
<1> HIDE DEF D
<1> QED BY <1>1, <1>5, <1>10

\* ... the first places hold no less, with the better of the two moved up ...
LEMMA PrefixSwapped ==
    ASSUME NEW n, NEW v, Relevant(v, n), NEW i \in 1 .. n - 1, v[i] < v[i + 1]
    PROVE  \A j \in 0 .. n : Prefix(v, j) <= Prefix(Swapped(v, i), j)
<1>1. PICK t : t = Swapped(v, i)
  OBVIOUS
<1>2. /\ Relevant(t, n) /\ n \in Nat /\ i \in 1 .. n /\ i + 1 \in 1 .. n
      /\ \A a \in 1 .. n : t[a] = v[Exchanged(i, a)]
  <2>1. n \in Nat
    BY DEF Relevant
  <2>2. /\ Relevant(Swapped(v, i), n) /\ i \in 1 .. n /\ i + 1 \in 1 .. n
        /\ \A a \in 1 .. n : /\ Exchanged(i, a) \in 1 .. n
                             /\ Swapped(v, i)[a] = v[Exchanged(i, a)]
    BY RelevanceSwapped
  <2> QED BY ONLY <1>1, <2>1, <2>2
<1>3. /\ Numbers(v, n) /\ Numbers(t, n)
      /\ \A a \in 1 .. n : v[a] \in Int /\ t[a] \in Int
  <2>1. \A a \in 1 .. n : v[a] \in Int /\ t[a] \in Int
    BY <1>2 DEF Relevant
  <2> QED BY <1>2, <2>1 DEF Numbers
<1> DEFINE extra(j) == IF j = i THEN v[i + 1] - v[i] ELSE 0
           T == {j \in 0 .. n : Prefix(t, j) = Prefix(v, j) + extra(j)}
<1>4. 0 \in T
  BY <1>2, <1>3, PrefixStep
<1>5. ASSUME NEW j \in 0 .. n - 1, j \in T PROVE j + 1 \in T
  <2>1. j + 1 \in 1 .. n /\ j + 1 \in 0 .. n /\ j \in 0 .. n /\ j \in Int
    BY <1>2
  <2>2. /\ Prefix(v, j + 1) = Prefix(v, j) + v[j + 1] /\ Prefix(v, j) \in Int
        /\ Prefix(t, j + 1) = Prefix(t, j) + t[j + 1]
    BY <1>3, <2>1, PrefixStep
  <2>3. Prefix(t, j) = Prefix(v, j) + extra(j)
    BY <1>5
  <2>4. t[j + 1] = v[Exchanged(i, j + 1)]
    BY <1>2, <2>1
  <2>5. /\ v[i] \in Int /\ v[i + 1] \in Int /\ v[j + 1] \in Int
    BY <1>2, <1>3, <2>1
  <2>6. extra(j) + t[j + 1] = v[j + 1] + extra(j + 1)
    <3>1. CASE j + 1 = i
      BY <1>2, <2>1, <2>4, <2>5, <3>1 DEF Exchanged
    <3>2. CASE j = i
      <4>1. t[j + 1] = v[i]
        BY <1>2, <2>1, <2>4, <3>2 DEF Exchanged
      <4>2. extra(j) = v[i + 1] - v[i] /\ extra(j + 1) = 0
        BY <1>2, <2>1, <3>2
      <4> QED BY <2>5, <3>2, <4>1, <4>2
    <3>3. CASE j + 1 # i /\ j # i
      <4>1. t[j + 1] = v[j + 1]
        BY <1>2, <2>1, <2>4, <3>3 DEF Exchanged
      <4> QED BY <2>1, <2>5, <3>3, <4>1
    <3> QED BY <3>1, <3>2, <3>3
  <2>7. extra(j) \in Int /\ extra(j + 1) \in Int /\ t[j + 1] \in Int
    BY <1>3, <2>1, <2>5
  <2> HIDE DEF extra
  <2> QED BY <2>1, <2>2, <2>3, <2>5, <2>6, <2>7
<1>6. \A j \in 0 .. n : j \in T
  <2> HIDE DEF T
  <2> QED BY <1>2, <1>4, <1>5, CountingUp
<1> SUFFICES ASSUME NEW j \in 0 .. n PROVE Prefix(v, j) <= Prefix(t, j)
  BY <1>1
<1>7. Prefix(v, j) \in Int /\ extra(j) \in Int /\ extra(j) >= 0
  <2>1. v[i] \in Int /\ v[i + 1] \in Int
    BY <1>2, <1>3
  <2> QED BY <1>3, <2>1, PrefixStep
<1>8. Prefix(t, j) = Prefix(v, j) + extra(j)
  BY <1>6
<1> HIDE DEF extra
<1> QED BY <1>7, <1>8

\* ... and nDCG is no lower.
LEMMA NdcgSwapped ==
    ASSUME NEW k \in Cutoffs, NEW n, NEW v, Relevant(v, n), SomeRelevant(v, n),
           NEW i \in 1 .. n - 1, v[i] < v[i + 1]
    PROVE  NdcgAtK(Swapped(v, i), k) >= NdcgAtK(v, k)
<1>1. PICK t, m, w : t = Swapped(v, i) /\ m = Atmost(k, n) /\ w = Ideal(v)
  OBVIOUS
<1>2. /\ Relevant(t, n) /\ i \in 1 .. n /\ i + 1 \in 1 .. n /\ n \in Nat
      /\ \A a \in 1 .. n : Exchanged(i, a) \in 1 .. n /\ t[a] = v[Exchanged(i, a)]
  <2>1. n \in Nat
    BY DEF Relevant
  <2>2. /\ Relevant(Swapped(v, i), n) /\ i \in 1 .. n /\ i + 1 \in 1 .. n
        /\ \A a \in 1 .. n : /\ Exchanged(i, a) \in 1 .. n
                             /\ Swapped(v, i)[a] = v[Exchanged(i, a)]
    BY RelevanceSwapped
  <2> QED BY ONLY <1>1, <2>1, <2>2
<1>3. v[i] \in Int /\ v[i + 1] \in Int
  <2>1. \A a \in 1 .. n : v[a] \in Int
    BY DEF Relevant
  <2> QED BY <1>2, <2>1
<1>4. SomeRelevant(t, n)
  <2>1. PICK a \in 1 .. n : v[a] > 0
    BY DEF SomeRelevant
  <2>2. PICK b : b = Exchanged(i, a)
    OBVIOUS
  <2>3. b \in 1 .. n /\ Exchanged(i, b) = a
    BY <1>2, <2>2 DEF Exchanged
  <2>4. t[b] = v[a]
    BY <1>2, <2>3
  <2> QED BY <2>1, <2>3, <2>4 DEF SomeRelevant
<1>5. Ideal(t) = w
  BY <1>1, <1>3, IdealSwapped
<1>6. /\ m \in Nat /\ m <= n /\ Falling(m)
      /\ Weighed(v, m) \in Nat /\ Weighed(w, m) \in Nat /\ Weighed(w, m) > 0
      /\ NdcgAtK(v, k) = Rounded(Weighed(v, m), Weighed(w, m))
  BY <1>1, NdcgIs
<1>7. Weighed(t, m) \in Nat /\ NdcgAtK(t, k) = Rounded(Weighed(t, m), Weighed(w, m))
  BY <1>1, <1>2, <1>4, <1>5, NdcgIs
<1>8. Weighed(v, m) <= Weighed(t, m)
  <2>1. \A j \in 0 .. n : Prefix(v, j) <= Prefix(t, j)
    BY <1>1, PrefixSwapped
  <2>2. \A j \in 0 .. m : j \in 0 .. n
    BY <1>2, <1>6
  <2>3. \A j \in 0 .. m : Prefix(v, j) <= Prefix(t, j)
    BY <2>1, <2>2
  <2>4. 0 \in 0 .. m
    BY <1>6
  <2>5. Weighed(t, m) >= Weighed(v, m) + 0
    BY <1>2, <1>6, <2>3, <2>4, Weighing
  <2> QED BY <1>6, <1>7, <2>5
<1>9. /\ Rounded(Weighed(v, m), Weighed(w, m)) <= Rounded(Weighed(t, m), Weighed(w, m))
      /\ Rounded(Weighed(v, m), Weighed(w, m)) \in Int
      /\ Rounded(Weighed(t, m), Weighed(w, m)) \in Int
  BY <1>6, <1>7, <1>8, RoundedRatio
<1> QED BY <1>1, <1>6, <1>7, <1>9

\* The sample, ranked: its outcomes in the order of their scores.
LEMMA RankedIs ==
    ASSUME NEW s \in Seq(Outcome)
    PROVE  /\ OrderOf(ScoreKey(s)) \in Bijection(1 .. Len(s), 1 .. Len(s))
           /\ Ranked(s) = [m \in 1 .. Len(s) |-> s[OrderOf(ScoreKey(s))[m]]]
           /\ Ranked(s) \in Seq(Outcome) /\ Len(Ranked(s)) = Len(s)
           /\ Relevant(Relevances(Ranked(s)), Len(s))
           /\ \A m \in 1 .. Len(s) : Relevances(Ranked(s))[m] = Ranked(s)[m].relevance
<1>1. PICK p, r, n : p = OrderOf(ScoreKey(s)) /\ r = Ranked(s) /\ n = Len(s)
  OBVIOUS
<1>2. n \in Nat /\ \A i \in 1 .. n : s[i] \in Outcome
  BY <1>1
<1>3. p \in Bijection(1 .. n, 1 .. n) /\ r = [m \in 1 .. n |-> s[p[m]]]
  BY <1>1, RankedAre, OrderIs
<1>4. \A m \in 1 .. n : p[m] \in 1 .. n
  BY <1>3 DEF Bijection, Injection
<1>5. \A m \in 1 .. n : r[m] \in Outcome
  BY <1>2, <1>3, <1>4
<1>6. r \in Seq(Outcome) /\ Len(r) = n /\ DOMAIN r = 1 .. n
  BY <1>2, <1>3, <1>5
<1>7. \A m \in 1 .. n : r[m].relevance \in 0 .. 5
  <2>1. \A o \in Outcome : o.relevance \in 0 .. 5
    BY DEF Outcome
  <2> QED BY <1>5, <2>1
<1>8. Relevances(r) = [m \in 1 .. n |-> r[m].relevance]
  BY <1>6 DEF Relevances
<1>9. Relevant(Relevances(r), n)
  BY <1>2, <1>7, <1>8 DEF Relevant
<1> QED BY <1>1, <1>3, <1>6, <1>8, <1>9

\* A sample with a positive has something relevant, wherever it is ranked.
LEMMA PositiveIsRelevant ==
    ASSUME NEW s \in Seq(Outcome), Positives(s) # 0
    PROVE  SomeRelevant(Relevances(Ranked(s)), Len(s))
<1>1. PICK p, v, n : p = OrderOf(ScoreKey(s)) /\ v = Relevances(Ranked(s)) /\ n = Len(s)
  OBVIOUS
<1>2. PICK i \in 1 .. n : Positive(s[i])
  <2>1. {i \in DOMAIN s : Positive(s[i])} # {}
    BY FS_EmptySet DEF Positives
  <2> QED BY <1>1, <2>1
<1>3. /\ p \in Bijection(1 .. n, 1 .. n) /\ Ranked(s) = [m \in 1 .. n |-> s[p[m]]]
      /\ Relevant(v, n) /\ \A m \in 1 .. n : v[m] = Ranked(s)[m].relevance
  BY <1>1, RankedIs
<1>4. PICK m \in 1 .. n : p[m] = i
  BY <1>3 DEF Bijection, Surjection
<1>5. v[m] = s[i].relevance
  BY <1>3, <1>4
<1>6. v[m] >= 1 /\ v[m] \in 0 .. 5
  BY <1>2, <1>3, <1>5 DEF Positive, Relevant
<1>7. v[m] > 0
  BY <1>6
<1> QED BY <1>1, <1>7 DEF SomeRelevant

\* What a report that is not withheld is of.
LEMMA GradedIs ==
    ASSUME ReportInv, Graded
    PROVE  /\ sample \in Seq(Outcome) /\ Positives(sample) # 0
           /\ report.value = Evaluate(sample)
           /\ report.value = [withheld |-> FALSE,
                ndcg        |-> [k \in Cutoffs |-> NdcgAtK(Relevances(Ranked(sample)), k)],
                precision   |-> [k \in Cutoffs |-> PrecisionAtK(Ranked(sample), k)],
                lift        |-> [k \in Cutoffs |-> LiftAtK(Ranked(sample), k)],
                spearman    |-> Spearman([i \in DOMAIN Ranked(sample) |-> Ranked(sample)[i].score],
                                         Relevances(Ranked(sample))),
                calibration |-> CalibrationBins(Ranked(sample))]
<1>1. sample \in Seq(Outcome) /\ report.value = Evaluate(sample)
  BY DEF ReportInv, Graded, NoReport
<1>2. ~(Len(sample) < MIN_SAMPLE \/ Positives(sample) = 0)
  <2> SUFFICES ASSUME Len(sample) < MIN_SAMPLE \/ Positives(sample) = 0 PROVE FALSE
    OBVIOUS
  <2>1. Evaluate(sample) = Withheld
    BY DEF Evaluate
  <2> QED BY <1>1, <2>1 DEF Graded, Withheld
<1> QED BY <1>1, <1>2 DEF Evaluate

\* nDCG, of a report.
LEMMA NdcgOfReport == ASSUME ReportInv PROVE NdcgRewardsOrder
<1> SUFFICES ASSUME Graded, NEW k \in Cutoffs,
                    NEW v, v = Relevances(Ranked(sample)),
                    NEW m, m = Atmost(k, Len(v))
             PROVE  /\ report.value.ndcg[k] <= UNIT
                    /\ report.value.ndcg[k] = UNIT
                         <=> SubSeq(v, 1, m) = SubSeq(Ideal(v), 1, m)
                    /\ \A i \in 1 .. Len(v) - 1 :
                          v[i] < v[i + 1] => NdcgAtK(Swapped(v, i), k) >= report.value.ndcg[k]
  BY DEF NdcgRewardsOrder
<1>1. /\ sample \in Seq(Outcome) /\ Positives(sample) # 0
      /\ report.value.ndcg = [l \in Cutoffs |-> NdcgAtK(v, l)]
  BY GradedIs
<1>2. PICK n : n = Len(sample)
  OBVIOUS
<1>3. Relevant(v, n) /\ SomeRelevant(v, n)
  BY <1>1, <1>2, RankedIs, PositiveIsRelevant
<1>4. Len(v) = n
  BY <1>3, DcgIs
<1>5. report.value.ndcg[k] = NdcgAtK(v, k)
  BY <1>1
<1>6. /\ NdcgAtK(v, k) <= UNIT
      /\ NdcgAtK(v, k) = UNIT <=> \A i \in 1 .. m : v[i] = Ideal(v)[i]
  BY <1>3, <1>4, NdcgAtMostOne
<1>7. SubSeq(v, 1, m) = SubSeq(Ideal(v), 1, m) <=> \A i \in 1 .. m : v[i] = Ideal(v)[i]
  <2>1. m \in Nat /\ m <= n /\ Relevant(Ideal(v), n)
    BY <1>3, <1>4, NdcgIs
  <2> QED BY <1>3, <2>1, SameBest
<1>8. \A i \in 1 .. n - 1 : v[i] < v[i + 1] => NdcgAtK(Swapped(v, i), k) >= NdcgAtK(v, k)
  BY <1>3, NdcgSwapped
<1> QED BY <1>4, <1>5, <1>6, <1>7, <1>8

-----------------------------------------------------------------------------
(* The calibration.                                                        *)

\* As many of the ranked as of the given outcomes are of a kind.
LEMMA RankedCount ==
    ASSUME NEW D, IsFiniteSet(D), NEW p, p \in Bijection(D, D),
           NEW A, A \in SUBSET D, NEW B, B \in SUBSET D, \A m \in D : m \in A <=> p[m] \in B
    PROVE  Cardinality(A) = Cardinality(B)
<1>1. /\ p \in [D -> D] /\ \A x, y \in D : p[x] = p[y] => x = y
      /\ \A y \in D : \E x \in D : p[x] = y
  BY DEF Bijection, Injection, Surjection, IsInjective
<1>2. PICK f : f = [m \in A |-> p[m]]
  OBVIOUS
<1>3. f \in Bijection(A, B)
  <2>1. f \in [A -> B]
    BY <1>1, <1>2
  <2>2. \A b, c \in A : f[b] = f[c] => b = c
    BY <1>1, <1>2
  <2>3. \A b \in B : \E c \in A : f[c] = b
    BY <1>1, <1>2
  <2> QED BY <2>1, <2>2, <2>3 DEF Bijection, Injection, Surjection, IsInjective
<1>4. IsFiniteSet(A) /\ ExistsBijection(A, B)
  BY <1>3, FS_Subset DEF ExistsBijection
<1> QED BY <1>4, FS_Bijection

\* Which scores are in a bin.
InBin(x, b) == x * Bins >= b * 1000 /\ (x * Bins < (b + 1) * 1000 \/ b = Bins - 1)

LEMMA BinIs ==
    ASSUME NEW x \in 0 .. 1000
    PROVE  /\ BinOf(x) \in 0 .. 4 /\ BinOf(x) < Bins
           /\ \A b \in 0 .. 4 : BinOf(x) = b <=> InBin(x, b)
<1>1. PICK q : q = (x * 5) \div 1000
  OBVIOUS
<1>2. q \in Int /\ 1000 * q <= x * 5 /\ x * 5 < 1000 * q + 1000
  BY <1>1
<1>3. BinOf(x) = IF 4 < q THEN 4 ELSE q
  BY <1>1 DEF BinOf, Atmost, Bins
<1>4. BinOf(x) \in 0 .. 4
  BY <1>2, <1>3
<1>5. ASSUME NEW b \in 0 .. 4 PROVE BinOf(x) = b <=> InBin(x, b)
  BY <1>2, <1>3 DEF InBin, Bins
<1> QED BY <1>4, <1>5 DEF Bins

\* A rate of fewer than ten thousand, rounded, still says how many.
LEMMA RateSaysHowMany ==
    ASSUME NEW a \in Nat, NEW d \in Nat, 0 < d, d < UNIT, a <= d
    PROVE  (2 * Rounded(a, d) * d + UNIT) \div (2 * UNIT) = a
<1>1. PICK q : q = (20000 * a + d) \div (2 * d)
  OBVIOUS
<1>2. q = Rounded(a, d)
  BY <1>1 DEF Rounded, UNIT
<1>3. q \in Int /\ (2 * d) * q <= 20000 * a + d /\ 20000 * a + d < (2 * d) * q + 2 * d
  BY <1>1
<1>4. PICK y : y = 2 * q * d + 10000
  OBVIOUS
<1>5. y = (2 * d) * q + 10000
  BY <1>3, <1>4
<1>6. y \in Int /\ 20000 * a <= y /\ y < 20000 * a + 20000
  BY <1>3, <1>5 DEF UNIT
<1>7. y \div 20000 = a
  BY <1>6
<1> QED BY <1>2, <1>4, <1>7 DEF UNIT

\* The outcomes of a bin, the positive ones of them, and its row.
OfBin(r, b) == {i \in DOMAIN r : BinOf(r[i].score) = b}
PosOfBin(r, b) == {i \in OfBin(r, b) : Positive(r[i])}
BinRow(r, b) == [bin |-> b, n |-> Cardinality(OfBin(r, b)),
                 rate |-> Rounded(Cardinality(PosOfBin(r, b)), Cardinality(OfBin(r, b)))]
BinsOf(r) == {BinOf(r[i].score) : i \in DOMAIN r}

LEMMA CalibrationIs ==
    ASSUME NEW r \in Seq(Outcome), NEW C, C = CalibrationBins(r), NEW n, n = Len(r)
    PROVE  /\ n \in Nat /\ DOMAIN r = 1 .. n /\ IsFiniteSet(1 .. n) /\ IsFiniteSet(C)
           /\ \A i \in 1 .. n : r[i].score \in 0 .. 1000
           /\ \A c \in C : c.bin \in 0 .. 4 /\ c.bin \in BinsOf(r) /\ c = BinRow(r, c.bin)
           /\ \A b \in BinsOf(r) : BinRow(r, b) \in C
<1>1. n \in Nat /\ DOMAIN r = 1 .. n /\ \A i \in 1 .. n : r[i] \in Outcome
  OBVIOUS
<1>2. IsFiniteSet(1 .. n)
  BY <1>1, FS_Interval
<1>3. \A i \in 1 .. n : r[i].score \in 0 .. 1000
  <2>1. \A o \in Outcome : o.score \in 0 .. 1000
    BY DEF Outcome
  <2> QED BY <1>1, <2>1
<1>4. BinsOf(r) \subseteq 0 .. 4
  <2>1. \A i \in 1 .. n : BinOf(r[i].score) \in 0 .. 4
    BY <1>3, BinIs
  <2> QED BY <1>1, <2>1 DEF BinsOf
<1>5. C = {BinRow(r, b) : b \in BinsOf(r)}
  BY DEF CalibrationBins, BinRow, BinsOf, OfBin, PosOfBin
<1>6. IsFiniteSet(C)
  <2>1. IsFiniteSet(BinsOf(r))
    <3>1. IsFiniteSet(0 .. 4)
      BY 0 \in Int, 4 \in Int, FS_Interval
    <3> QED BY <1>4, <3>1, FS_Subset
  <2>2. PICK f : f = [b \in BinsOf(r) |-> BinRow(r, b)]
    OBVIOUS
  <2>3. f \in Surjection(BinsOf(r), C)
    BY <1>5, <2>2 DEF Surjection
  <2> QED BY <2>1, <2>3, FS_Surjection
<1>7. \A b : BinRow(r, b).bin = b
  BY DEF BinRow
<1>8. \A c \in C : c.bin \in 0 .. 4 /\ c.bin \in BinsOf(r) /\ c = BinRow(r, c.bin)
  BY <1>4, <1>5, <1>7
<1>9. \A b \in BinsOf(r) : BinRow(r, b) \in C
  BY <1>5
<1> QED BY <1>1, <1>2, <1>3, <1>6, <1>8, <1>9

\* The bins have every outcome once, and every positive one.
LEMMA BinsAddUp ==
    ASSUME NEW r \in Seq(Outcome), NEW C, C = CalibrationBins(r), Len(r) < UNIT
    PROVE  /\ MapThenSumSet(LAMBDA b : b.n, C) = Len(r)
           /\ MapThenSumSet(LAMBDA b : (2 * b.rate * b.n + UNIT) \div (2 * UNIT), C)
                = Positives(r)
<1>1. PICK n, D : n = Len(r) /\ D = 1 .. n
  OBVIOUS
<1>2. /\ n \in Nat /\ DOMAIN r = D /\ IsFiniteSet(D) /\ IsFiniteSet(C)
      /\ \A c \in C : c.bin \in BinsOf(r) /\ c = BinRow(r, c.bin)
      /\ \A b \in BinsOf(r) : BinRow(r, b) \in C
  BY <1>1, CalibrationIs
<1>3. PICK all, pos : /\ all = [c \in C |-> OfBin(r, c.bin)]
                      /\ pos = [c \in C |-> PosOfBin(r, c.bin)]
  OBVIOUS
<1>4. PICK size, good : /\ size = [c \in C |-> Cardinality(all[c])]
                        /\ good = [c \in C |-> Cardinality(pos[c])]
  OBVIOUS
<1>5. \A c \in C : all[c] \in SUBSET D /\ pos[c] \in SUBSET all[c] /\ pos[c] \in SUBSET D
  BY <1>2, <1>3 DEF OfBin, PosOfBin
<1>6. \A c, d \in C : c # d => all[c] \cap all[d] = {} /\ pos[c] \cap pos[d] = {}
  <2> SUFFICES ASSUME NEW c \in C, NEW d \in C, c # d
               PROVE  all[c] \cap all[d] = {} /\ pos[c] \cap pos[d] = {}
    OBVIOUS
  <2>1. c.bin # d.bin
    BY <1>2
  <2>2. \A x : ~(x \in all[c] /\ x \in all[d])
    BY <1>3, <2>1 DEF OfBin
  <2>3. pos[c] \subseteq all[c] /\ pos[d] \subseteq all[d]
    BY <1>5
  <2> QED BY <2>2, <2>3
<1>7. \A x \in D : \E c \in C : x \in all[c] /\ (Positive(r[x]) => x \in pos[c])
  <2> SUFFICES ASSUME NEW x \in D
               PROVE  \E c \in C : x \in all[c] /\ (Positive(r[x]) => x \in pos[c])
    OBVIOUS
  <2>1. PICK b : b = BinOf(r[x].score)
    OBVIOUS
  <2>2. PICK c : c = BinRow(r, b)
    OBVIOUS
  <2>3. c \in C /\ c.bin = b
    <3>1. b \in BinsOf(r)
      BY <1>2, <2>1 DEF BinsOf
    <3>2. c.bin = b
      BY <2>2 DEF BinRow
    <3> QED BY <1>2, <2>2, <3>1, <3>2
  <2>4. x \in OfBin(r, b) /\ (Positive(r[x]) => x \in PosOfBin(r, b))
    BY <1>2, <2>1 DEF OfBin, PosOfBin
  <2> QED BY <1>3, <2>3, <2>4
<1>8. SumFunctionOnSet(size, C) = Cardinality({x \in D : \E c \in C : x \in all[c]})
  <2>1. /\ \A c \in C : all[c] \in SUBSET D /\ size[c] = Cardinality(all[c])
        /\ \A c, d \in C : c # d => all[c] \cap all[d] = {}
    BY <1>4, <1>5, <1>6
  <2> QED BY ONLY <1>2, <2>1, SumOfParts
<1>9. SumFunctionOnSet(good, C) = Cardinality({x \in D : \E c \in C : x \in pos[c]})
  <2>1. /\ \A c \in C : pos[c] \in SUBSET D /\ good[c] = Cardinality(pos[c])
        /\ \A c, d \in C : c # d => pos[c] \cap pos[d] = {}
    BY <1>4, <1>5, <1>6
  <2> QED BY ONLY <1>2, <2>1, SumOfParts
<1>10. {x \in D : \E c \in C : x \in all[c]} = D /\ Cardinality(D) = n
  <2>1. {x \in D : \E c \in C : x \in all[c]} = D
    BY <1>7
  <2>2. Cardinality(1 .. n) = IF 1 > n THEN 0 ELSE n - 1 + 1
    BY <1>2, FS_Interval
  <2> QED BY <1>1, <1>2, <2>1, <2>2
<1>11. {x \in D : \E c \in C : x \in pos[c]} = {i \in D : Positive(r[i])}
  <2>1. \A c \in C : \A x \in pos[c] : Positive(r[x])
    BY <1>3 DEF PosOfBin
  <2> QED BY <1>7, <2>1
<1>12. \A c \in C : size[c] = c.n
  <2> SUFFICES ASSUME NEW c \in C PROVE size[c] = c.n
    OBVIOUS
  <2>1. c.n = Cardinality(OfBin(r, c.bin))
    BY <1>2 DEF BinRow
  <2> QED BY <1>3, <1>4, <2>1
<1>13. \A c \in C : good[c] = (2 * c.rate * c.n + UNIT) \div (2 * UNIT)
  <2> SUFFICES ASSUME NEW c \in C PROVE good[c] = (2 * c.rate * c.n + UNIT) \div (2 * UNIT)
    OBVIOUS
  <2>1. PICK a, d : a = good[c] /\ d = size[c]
    OBVIOUS
  <2>2. c.n = d /\ c.rate = Rounded(a, d)
    <3>1. c.rate = Rounded(Cardinality(PosOfBin(r, c.bin)), Cardinality(OfBin(r, c.bin)))
      BY <1>2 DEF BinRow
    <3> QED BY <1>3, <1>4, <1>12, <2>1, <3>1
  <2>3. /\ IsFiniteSet(all[c]) /\ IsFiniteSet(pos[c])
        /\ Cardinality(all[c]) <= Cardinality(D) /\ Cardinality(pos[c]) <= Cardinality(all[c])
    <3>1. all[c] \in SUBSET D /\ pos[c] \in SUBSET all[c]
      BY <1>5
    <3>2. IsFiniteSet(all[c]) /\ Cardinality(all[c]) <= Cardinality(D)
      BY <1>2, <3>1, FS_Subset
    <3> QED BY <3>1, <3>2, FS_Subset
  <2>4. all[c] # {}
    <3>1. c.bin \in BinsOf(r)
      BY <1>2
    <3>2. PICK i \in DOMAIN r : c.bin = BinOf(r[i].score)
      BY <3>1 DEF BinsOf
    <3>3. i \in OfBin(r, c.bin)
      BY <3>2 DEF OfBin
    <3> QED BY <1>3, <3>3
  <2>5. a = Cardinality(pos[c]) /\ d = Cardinality(all[c])
    BY <1>4, <2>1
  <2>6. a \in Nat /\ d \in Nat /\ d # 0 /\ a <= d /\ d <= n
    <3>1. a \in Nat /\ d \in Nat /\ d # 0
      BY <2>3, <2>4, <2>5, FS_CardinalityType, FS_EmptySet
    <3> QED BY <1>10, <2>3, <2>5, <3>1
  <2>7. 0 < d /\ d < UNIT
    BY <1>1, <1>2, <2>6 DEF UNIT
  <2>8. (2 * Rounded(a, d) * d + UNIT) \div (2 * UNIT) = a
    BY <2>6, <2>7, RateSaysHowMany
  <2> QED BY <2>1, <2>2, <2>8
<1>14. MapThenSumSet(LAMBDA b : b.n, C) = SumFunctionOnSet(size, C)
  BY <1>2, <1>12, SumOfSizes
<1>15. MapThenSumSet(LAMBDA b : (2 * b.rate * b.n + UNIT) \div (2 * UNIT), C)
         = SumFunctionOnSet(good, C)
  BY <1>2, <1>13, SumOfRates
<1>16. Positives(r) = Cardinality({i \in D : Positive(r[i])})
  BY <1>2 DEF Positives
<1> QED BY <1>1, <1>8, <1>9, <1>10, <1>11, <1>14, <1>15, <1>16

\* The calibration, of a report of fewer than ten thousand outcomes.
LEMMA BinsOfReport == ASSUME ReportInv, Len(sample) < UNIT PROVE BinsPartition
<1> SUFFICES ASSUME Graded, NEW C, C = report.value.calibration
             PROVE  /\ \A b \in C : /\ b.bin < Bins
                                    /\ b.n = Cardinality({i \in DOMAIN sample : InBin(sample[i].score, b.bin)})
                    /\ MapThenSumSet(LAMBDA b : b.n, C) = Len(sample)
                    /\ MapThenSumSet(LAMBDA b : (2 * b.rate * b.n + UNIT) \div (2 * UNIT), C)
                         = Positives(sample)
  BY DEF BinsPartition, InBin
<1>1. PICK s, r, n, D : s = sample /\ r = Ranked(s) /\ n = Len(s) /\ D = 1 .. n
  OBVIOUS
<1>2. s \in Seq(Outcome) /\ C = CalibrationBins(r)
  BY <1>1, GradedIs
<1>3. PICK p : p = OrderOf(ScoreKey(s))
  OBVIOUS
<1>4. /\ p \in Bijection(D, D) /\ r = [m \in D |-> s[p[m]]]
      /\ r \in Seq(Outcome) /\ Len(r) = n
  BY <1>1, <1>2, <1>3, RankedIs
<1>5. /\ DOMAIN r = D /\ IsFiniteSet(D) /\ DOMAIN s = D
      /\ \A i \in D : r[i].score \in 0 .. 1000
      /\ \A c \in C : c.bin \in 0 .. 4 /\ c = BinRow(r, c.bin)
  <2>1. DOMAIN s = D
    BY <1>1, <1>2
  <2>2. r \in Seq(Outcome) /\ C = CalibrationBins(r) /\ n = Len(r)
    BY <1>2, <1>4
  <2>3. /\ DOMAIN r = 1 .. n /\ IsFiniteSet(1 .. n)
        /\ \A i \in 1 .. n : r[i].score \in 0 .. 1000
        /\ \A c \in C : c.bin \in 0 .. 4 /\ c = BinRow(r, c.bin)
    BY ONLY <2>2, CalibrationIs
  <2> QED BY <1>1, <2>1, <2>3
<1>6. \A m \in D : p[m] \in D /\ r[m] = s[p[m]]
  BY <1>4 DEF Bijection, Injection
<1>7. ASSUME NEW c \in C
      PROVE  /\ c.bin < Bins
             /\ c.n = Cardinality({i \in DOMAIN s : InBin(s[i].score, c.bin)})
  <2>1. PICK b, A, B : /\ b = c.bin /\ A = OfBin(r, b)
                       /\ B = {i \in DOMAIN s : InBin(s[i].score, b)}
    OBVIOUS
  <2>2. A \in SUBSET D /\ B \in SUBSET D /\ b \in 0 .. 4
    BY <1>5, <2>1 DEF OfBin
  <2>3. \A m \in D : m \in A <=> p[m] \in B
    <3> SUFFICES ASSUME NEW m \in D PROVE m \in A <=> p[m] \in B
      OBVIOUS
    <3>1. BinOf(r[m].score) = b <=> InBin(r[m].score, b)
      BY <1>5, <2>2, BinIs
    <3>2. m \in A <=> BinOf(r[m].score) = b
      BY <1>5, <2>1 DEF OfBin
    <3>3. p[m] \in B <=> InBin(s[p[m]].score, b)
      BY <1>5, <1>6, <2>1
    <3> QED BY <1>6, <3>1, <3>2, <3>3
  <2>4. Cardinality(A) = Cardinality(B)
    BY ONLY <1>4, <1>5, <2>2, <2>3, RankedCount
  <2>5. c.n = Cardinality(A)
    <3>1. c = BinRow(r, b)
      BY <1>5, <2>1
    <3> QED BY <2>1, <3>1 DEF BinRow
  <2>6. c.bin < Bins
    BY <2>1, <2>2 DEF Bins
  <2> QED BY <2>1, <2>4, <2>5, <2>6
<1>8. Positives(r) = Positives(s)
  <2>1. PICK A, B : A = {i \in DOMAIN r : Positive(r[i])} /\ B = {i \in DOMAIN s : Positive(s[i])}
    OBVIOUS
  <2>2. A \in SUBSET D /\ B \in SUBSET D /\ \A m \in D : m \in A <=> p[m] \in B
    BY <1>5, <1>6, <2>1
  <2>3. Cardinality(A) = Cardinality(B)
    BY ONLY <1>4, <1>5, <2>2, RankedCount
  <2> QED BY <2>1, <2>3 DEF Positives
<1>9. /\ MapThenSumSet(LAMBDA b : b.n, C) = Len(r)
      /\ MapThenSumSet(LAMBDA b : (2 * b.rate * b.n + UNIT) \div (2 * UNIT), C) = Positives(r)
  <2>1. Len(r) < UNIT
    BY <1>1, <1>4
  <2> QED BY <1>2, <1>4, <2>1, BinsAddUp
<1> QED BY <1>1, <1>4, <1>7, <1>8, <1>9

-----------------------------------------------------------------------------
(* The ranks and their correlation.                                        *)

Less(v, i)  == {j \in DOMAIN v : v[j] < v[i]}
Equal(v, i) == {j \in DOMAIN v : v[j] = v[i]}

\* Where values that are equal stand: after the lesser, next to each other.
RunOf(v, i) == {p \in DOMAIN v : v[OrderOf(v)[p]] = v[i]}

LEMMA RunIs ==
    ASSUME NEW n, NEW v, IsKey(v, n), NEW i \in 1 .. n,
           NEW l, l = Cardinality(Less(v, i)), NEW e, e = Cardinality(Equal(v, i))
    PROVE  l \in Nat /\ e \in Nat \ {0} /\ RunOf(v, i) = l + 1 .. l + e
<1> DEFINE D == 1 .. n
           p == OrderOf(v)
<1>1. n \in Nat /\ DOMAIN v = D /\ \A j \in D : v[j] \in Int
  BY DEF IsKey
<1>2. IsFiniteSet(D)
  BY <1>1, FS_Interval
<1>3. PICK L, Q, R : L = Less(v, i) /\ Q = Equal(v, i) /\ R = RunOf(v, i)
  OBVIOUS
<1>4. /\ L \in SUBSET D /\ Q \in SUBSET D /\ R \in SUBSET D /\ L \cap Q = {} /\ i \in Q
      /\ \A j \in D : (j \in L <=> v[j] < v[i]) /\ (j \in Q <=> v[j] = v[i])
  BY <1>1, <1>3 DEF Less, Equal, RunOf
<1>5. IsFiniteSet(L) /\ IsFiniteSet(Q) /\ IsFiniteSet(L \cup Q)
  BY <1>2, <1>4, FS_Subset, FS_Union
<1>6. l \in Nat /\ e \in Nat /\ e # 0 /\ l = Cardinality(L) /\ e = Cardinality(Q)
  <2>1. l \in Nat /\ e \in Nat /\ l = Cardinality(L) /\ e = Cardinality(Q)
    BY <1>3, <1>5, FS_CardinalityType
  <2>2. e # 0
    BY <1>4, <1>5, <2>1, FS_EmptySet
  <2> QED BY <2>1, <2>2
<1>7. Cardinality(L \cup Q) = l + e
  <2>1. Cardinality(L \cup Q) = Cardinality(L) + Cardinality(Q) - Cardinality(L \cap Q)
    BY <1>5, FS_Union
  <2>2. Cardinality(L \cap Q) = 0
    BY <1>4, FS_EmptySet
  <2> QED BY <1>6, <2>1, <2>2
<1>8. /\ p \in Bijection(D, D)
      /\ \A m \in D : Standing(v)[p[m]] = m - 1
  BY OrderIs
<1>9. \A m \in D : p[m] \in D
  BY <1>8 DEF Bijection, Injection
<1>10. ASSUME NEW j \in Q PROVE Standing(v)[j] \in l .. l + e - 1
  <2>1. j \in D /\ v[j] = v[i]
    BY <1>4
  <2>2. PICK E : E = Earlier(v, j)
    OBVIOUS
  <2>3. \A x \in D : x \in E <=> IsAhead(v, x, j)
    BY <1>1, <2>2 DEF Earlier
  <2>4. E \in SUBSET D /\ L \subseteq E /\ E \subseteq (L \cup Q) \ {j}
    <3>1. E \in SUBSET D
      BY <1>1, <2>2 DEF Earlier
    <3>2. \A x \in D : /\ x \in L => IsAhead(v, x, j)
                       /\ IsAhead(v, x, j) => (x \in L \/ x \in Q) /\ x # j
      BY <1>1, <1>4, <2>1 DEF IsAhead
    <3> HIDE DEF D
    <3> QED BY <1>4, <2>3, <3>1, <3>2
  <2>5. /\ IsFiniteSet((L \cup Q) \ {j})
        /\ Cardinality((L \cup Q) \ {j}) = l + e - 1
    <3>1. j \in L \cup Q
      OBVIOUS
    <3>2. PICK LQ : LQ = L \cup Q
      OBVIOUS
    <3>3. IsFiniteSet(LQ) /\ j \in LQ
      BY <1>5, <3>1, <3>2
    <3>4. IsFiniteSet(LQ \ {j}) /\ Cardinality(LQ \ {j}) = Cardinality(LQ) - 1
      BY ONLY <3>3, FS_RemoveElement
    <3>5. Cardinality(LQ) = l + e
      BY ONLY <1>7, <3>2
    <3>6. IsFiniteSet(LQ \ {j}) /\ Cardinality(LQ \ {j}) = l + e - 1
      BY ONLY <1>6, <3>4, <3>5
    <3> QED BY ONLY <3>2, <3>6, Zenon
  <2>6. IsFiniteSet(E) /\ Cardinality(E) <= l + e - 1
    <3>1. PICK X : X = (L \cup Q) \ {j}
      OBVIOUS
    <3>2. IsFiniteSet(X) /\ E \in SUBSET X /\ Cardinality(X) = l + e - 1
      BY <2>4, <2>5, <3>1
    <3>3. IsFiniteSet(E) /\ Cardinality(E) <= Cardinality(X)
      BY ONLY <3>2, FS_Subset
    <3> QED BY <3>2, <3>3
  <2>7. l <= Cardinality(E) /\ Cardinality(E) \in Nat
    <3>1. L \in SUBSET E /\ IsFiniteSet(E)
      BY <2>4, <2>6
    <3>2. Cardinality(L) <= Cardinality(E)
      BY ONLY <3>1, FS_Subset
    <3>3. Cardinality(E) \in Nat
      BY ONLY <2>6, FS_CardinalityType
    <3> QED BY <1>6, <3>2, <3>3
  <2>8. Standing(v)[j] = Cardinality(E)
    BY <1>1, <2>1, <2>2 DEF Standing
  <2> HIDE DEF D
  <2> QED BY <1>6, <2>6, <2>7, <2>8
<1>11. R \subseteq l + 1 .. l + e
  <2> SUFFICES ASSUME NEW m \in R PROVE m \in l + 1 .. l + e
    OBVIOUS
  <2>1. m \in D /\ p[m] \in Q
    <3>1. m \in D /\ v[p[m]] = v[i]
      BY <1>1, <1>3 DEF RunOf
    <3> QED BY <1>4, <1>9, <3>1
  <2>2. m - 1 \in l .. l + e - 1
    BY <1>8, <1>10, <2>1
  <2>3. m \in Int
    BY <2>1
  <2> HIDE DEF D
  <2> QED BY <1>6, <2>2, <2>3
<1>12. Cardinality(R) = e
  <2>1. \A m \in D : m \in R <=> p[m] \in Q
    <3>1. \A m \in D : m \in R <=> v[p[m]] = v[i]
      BY <1>1, <1>3 DEF RunOf
    <3> HIDE DEF D, p
    <3> QED BY <1>4, <1>9, <3>1
  <2>2. Cardinality(R) = Cardinality(Q)
    <3> HIDE DEF D, p
    <3>1. /\ IsFiniteSet(D) /\ p \in Bijection(D, D) /\ R \in SUBSET D /\ Q \in SUBSET D
          /\ \A m \in D : m \in R <=> p[m] \in Q
      BY <1>2, <1>4, <1>8, <2>1
    <3> QED BY ONLY <3>1, RankedCount
  <2> QED BY <1>6, <2>2
<1>13. R = l + 1 .. l + e
  <2>1. PICK J, a, b : a = l + 1 /\ b = l + e /\ J = a .. b
    OBVIOUS
  <2>2. a \in Int /\ b \in Int
    BY <1>6, <2>1
  <2>3. IsFiniteSet(J) /\ Cardinality(J) = IF a > b THEN 0 ELSE b - a + 1
    BY ONLY <2>1, <2>2, FS_Interval
  <2>4. Cardinality(J) = e
    BY <1>6, <2>1, <2>3
  <2>5. R \subseteq J
    BY <1>11, <2>1
  <2>6. R = J
    BY ONLY <1>12, <2>3, <2>4, <2>5, FS_Subset
  <2> QED BY <2>1, <2>6
<1> QED BY <1>3, <1>6, <1>13

\* Twice the rank is one more than twice the lesser and the equal.
LEMMA RanksAre ==
    ASSUME NEW n, NEW v, IsKey(v, n)
    PROVE  /\ DOMAIN Ranks(v) = 1 .. n
           /\ \A i \in 1 .. n : /\ Cardinality(Less(v, i)) \in Nat
                                /\ Cardinality(Equal(v, i)) \in Nat
                                /\ Ranks(v)[i] = 1 + 2 * Cardinality(Less(v, i))
                                                   + Cardinality(Equal(v, i))
<1> DEFINE D == 1 .. n
           places == [i \in DOMAIN v |-> i]
           Sooner(i) == {j \in D : v[places[j]] < v[places[i]]
                                     \/ (~(v[places[i]] < v[places[j]]) /\ j < i)}
           before == [i \in D |-> Cardinality(Sooner(i))]
           order == SortedBy(places, LAMBDA i, j : v[i] < v[j])
           Run(i) == {p \in DOMAIN order : v[order[p]] = v[i]}
           First(i) == CHOOSE p \in Run(i) : \A q \in Run(i) : p <= q
           Final(i) == CHOOSE p \in Run(i) : \A q \in Run(i) : p >= q
<1>1. n \in Nat /\ DOMAIN v = D /\ \A i \in D : v[i] \in Int /\ places[i] = i
  BY DEF IsKey
<1>2. DOMAIN places = D
  BY <1>1
<1>3. before = Standing(v)
  <2>1. ASSUME NEW i \in D PROVE Sooner(i) = Earlier(v, i)
    <3>1. \A j \in D : (v[places[j]] < v[places[i]] \/ (~(v[places[i]] < v[places[j]]) /\ j < i))
                       <=> IsAhead(v, j, i)
      <4> HIDE DEF places
      <4> QED BY <1>1 DEF IsAhead
    <3> HIDE DEF places
    <3> QED BY <1>1, <3>1 DEF Earlier
  <2> HIDE DEF Sooner, places
  <2> QED BY <1>1, <2>1 DEF Standing
<1>4. order = [m \in D |-> places[CHOOSE i \in D : before[i] = m - 1]]
  BY <1>2 DEF SortedBy
<1>5. order = [m \in D |-> places[OrderOf(v)[m]]]
  <2>1. \A m \in D : OrderOf(v)[m] = CHOOSE i \in D : before[i] = m - 1
    BY <1>1, <1>3 DEF OrderOf
  <2> HIDE DEF before, places, D, order
  <2> QED BY <1>4, <2>1
<1>6. \A m \in D : OrderOf(v)[m] \in D
  BY OrderIs DEF Bijection, Injection
<1>7. DOMAIN order = D /\ \A m \in D : order[m] = OrderOf(v)[m]
  <2> HIDE DEF places, D, order
  <2> QED BY <1>1, <1>5, <1>6
<1>8. Ranks(v) = [i \in D |-> First(i) + Final(i)]
  BY <1>1 DEF Ranks
<1>9. ASSUME NEW i \in D PROVE Run(i) = RunOf(v, i)
  <2> HIDE DEF order, D
  <2> QED BY <1>1, <1>7 DEF RunOf
<1> HIDE DEF Run, order, places, before, Sooner
<1>10. ASSUME NEW i \in D
       PROVE  /\ Cardinality(Less(v, i)) \in Nat /\ Cardinality(Equal(v, i)) \in Nat
              /\ First(i) + Final(i) = 1 + 2 * Cardinality(Less(v, i)) + Cardinality(Equal(v, i))
  <2>1. PICK l, e : l = Cardinality(Less(v, i)) /\ e = Cardinality(Equal(v, i))
    OBVIOUS
  <2>2. l \in Nat /\ e \in Nat \ {0} /\ Run(i) = l + 1 .. l + e
    BY <1>9, <2>1, RunIs
  <2>3. First(i) = l + 1
    <3>1. PICK S : S = l + 1 .. l + e
      OBVIOUS
    <3>2. l + 1 \in S /\ \A q \in S : l + 1 <= q /\ q \in Int
      BY <2>2, <3>1
    <3>3. \A p \in S : (\A q \in S : p <= q) => p = l + 1
      BY <2>2, <3>2
    <3>4. (CHOOSE p \in S : \A q \in S : p <= q) = l + 1
      BY ONLY <3>2, <3>3
    <3> QED BY <2>2, <3>1, <3>4
  <2>4. Final(i) = l + e
    <3>1. PICK S : S = l + 1 .. l + e
      OBVIOUS
    <3>2. l + e \in S /\ \A q \in S : l + e >= q /\ q \in Int
      BY <2>2, <3>1
    <3>3. \A p \in S : (\A q \in S : p >= q) => p = l + e
      BY <2>2, <3>2
    <3>4. (CHOOSE p \in S : \A q \in S : p >= q) = l + e
      BY ONLY <3>2, <3>3
    <3> QED BY <2>2, <3>1, <3>4
  <2> HIDE DEF First, Final
  <2> QED BY <2>1, <2>2, <2>3, <2>4
<1> HIDE DEF First, Final
<1> QED BY <1>8, <1>10

\* The covariance of two lists is never more than their variances allow.
LEMMA CauchyStep ==
    ASSUME NEW c \in Int, NEW x \in Nat, NEW y \in Nat, NEW a \in Int, NEW b \in Int,
           c * c <= x * y
    PROVE  (c + a * b) * (c + a * b) <= (x + a * a) * (y + b * b)
  OBVIOUS

LEMMA Cauchy ==
    ASSUME NEW S, IsFiniteSet(S), NEW u, NEW w, \A i \in S : u[i] \in Int /\ w[i] \in Int,
           NEW uw, NEW uu, NEW ww,
           \A i \in S : uw[i] = u[i] * w[i] /\ uu[i] = u[i] * u[i] /\ ww[i] = w[i] * w[i]
    PROVE  SumFunctionOnSet(uw, S) * SumFunctionOnSet(uw, S)
             <= SumFunctionOnSet(uu, S) * SumFunctionOnSet(ww, S)
<1> DEFINE Bounded(s) == SumFunctionOnSet(uw, s) * SumFunctionOnSet(uw, s)
                           <= SumFunctionOnSet(uu, s) * SumFunctionOnSet(ww, s)
           T == {s \in SUBSET S : Bounded(s)}
<1>1. \A i \in S : uw[i] \in Int /\ uu[i] \in Nat /\ ww[i] \in Nat
  <2> SUFFICES ASSUME NEW i \in S PROVE uw[i] \in Int /\ uu[i] \in Nat /\ ww[i] \in Nat
    OBVIOUS
  <2>1. PICK a, b : a = u[i] /\ b = w[i]
    OBVIOUS
  <2>2. a \in Int /\ b \in Int
    BY <2>1
  <2>3. a * b \in Int /\ a * a \in Nat /\ b * b \in Nat
    BY ONLY <2>2
  <2> QED BY <2>1, <2>3
<1>2. ASSUME NEW s \in SUBSET S, \A i \in s : s \ {i} \in T PROVE s \in T
  <2>1. CASE s = {}
    BY <2>1, SumEmpty
  <2>2. ASSUME NEW i \in s PROVE s \in T
    <3>1. PICK t, c, x, y : /\ t = s \ {i} /\ c = SumFunctionOnSet(uw, t)
                            /\ x = SumFunctionOnSet(uu, t) /\ y = SumFunctionOnSet(ww, t)
      OBVIOUS
    <3>2. PICK a, b : a = u[i] /\ b = w[i]
      OBVIOUS
    <3>3. /\ IsFiniteSet(s) /\ IsFiniteSet(t) /\ t \subseteq s
          /\ \A j \in s : uw[j] \in Int /\ uu[j] \in Nat /\ ww[j] \in Nat
      BY <1>1, <3>1, FS_Subset
    <3>4. /\ \A j \in s : uw[j] \in Int
          /\ \A j \in s : uu[j] \in Int
          /\ \A j \in s : ww[j] \in Int
      BY <3>3
    <3>5. /\ SumFunctionOnSet(uw, s) = uw[i] + c
          /\ SumFunctionOnSet(uu, s) = uu[i] + x
          /\ SumFunctionOnSet(ww, s) = ww[i] + y
      <4>1. SumFunctionOnSet(uw, s) = uw[i] + SumFunctionOnSet(uw, s \ {i})
        BY ONLY <3>3, <3>4, <2>2, SumRemove
      <4>2. SumFunctionOnSet(uu, s) = uu[i] + SumFunctionOnSet(uu, s \ {i})
        BY ONLY <3>3, <3>4, <2>2, SumRemove
      <4>3. SumFunctionOnSet(ww, s) = ww[i] + SumFunctionOnSet(ww, s \ {i})
        BY ONLY <3>3, <3>4, <2>2, SumRemove
      <4> QED BY <3>1, <4>1, <4>2, <4>3
    <3>6. c \in Int /\ x \in Nat /\ y \in Nat
      <4>1. \A j \in t : uw[j] \in Int /\ uu[j] \in Nat /\ ww[j] \in Nat
        BY <3>3
      <4>2. c \in Int
        BY <3>1, <3>3, <4>1, SumRemove
      <4>3. x \in Nat /\ y \in Nat
        BY <3>1, <3>3, <4>1, SumNotNegative
      <4> QED BY <4>2, <4>3
    <3>7. a \in Int /\ b \in Int /\ uw[i] = a * b /\ uu[i] = a * a /\ ww[i] = b * b
      BY <3>2
    <3>8. c * c <= x * y
      BY <1>2, <3>1
    <3>9. (c + a * b) * (c + a * b) <= (x + a * a) * (y + b * b)
      BY ONLY <3>6, <3>7, <3>8, CauchyStep
    <3>10. uw[i] + c = c + a * b /\ uu[i] + x = x + a * a /\ ww[i] + y = y + b * b
      <4>1. a * b \in Int /\ a * a \in Int /\ b * b \in Int
        BY ONLY <3>7
      <4> QED BY ONLY <3>6, <3>7, <4>1
    <3>11. Bounded(s)
      BY ONLY <3>5, <3>9, <3>10
    <3> QED BY <3>11
  <2> QED BY <2>1, <2>2
<1>3. S \in T
  <2> HIDE DEF T
  <2>1. \A s \in SUBSET S : s \in T
    BY <1>2, SubsetInduction
  <2> QED BY <2>1
<1> QED BY <1>3

\* The correlation of the ranks, of keys as long as each other.
LEMMA SpearmanIs ==
    ASSUME NEW n, NEW a, NEW b, IsKey(a, n), IsKey(b, n), NEW c, c = Spearman(a, b)
    PROVE  /\ (\A i, j \in 1 .. n : b[i] = b[j]) => c.cov = 0
           /\ c.cov * c.cov <= c.va * c.vb
<1> DEFINE D == 1 .. n
<1>1. n \in Nat /\ Len(a) = n /\ IsFiniteSet(D) /\ DOMAIN b = D
  <2>1. n \in Nat /\ Len(a) = n
    BY DEF IsKey
  <2>2. IsFiniteSet(D)
    BY <2>1, FS_Interval
  <2>3. DOMAIN b = D
    BY DEF IsKey
  <2> QED BY <2>1, <2>2, <2>3
<1>2. PICK x, y : x = Ranks(a) /\ y = Ranks(b)
  OBVIOUS
<1>3. \A i \in D : /\ Cardinality(Less(b, i)) \in Nat /\ Cardinality(Equal(b, i)) \in Nat
                   /\ y[i] = 1 + 2 * Cardinality(Less(b, i)) + Cardinality(Equal(b, i))
  BY <1>2, RanksAre
<1>4. \A i \in D : x[i] \in Int /\ y[i] \in Int
  <2>1. \A i \in D : /\ Cardinality(Less(a, i)) \in Nat /\ Cardinality(Equal(a, i)) \in Nat
                     /\ x[i] = 1 + 2 * Cardinality(Less(a, i)) + Cardinality(Equal(a, i))
    BY <1>2, RanksAre
  <2> HIDE DEF D
  <2> QED BY <1>3, <2>1
<1>5. PICK u, w : u = [i \in D |-> x[i] - (n + 1)] /\ w = [i \in D |-> y[i] - (n + 1)]
  OBVIOUS
<1>6. PICK uw, uu, ww : /\ uw = [i \in D |-> (x[i] - (n + 1)) * (y[i] - (n + 1))]
                        /\ uu = [i \in D |-> (x[i] - (n + 1)) * (x[i] - (n + 1))]
                        /\ ww = [i \in D |-> (y[i] - (n + 1)) * (y[i] - (n + 1))]
  OBVIOUS
<1>7. /\ c.cov = SumFunctionOnSet(uw, D) /\ c.va = SumFunctionOnSet(uu, D)
      /\ c.vb = SumFunctionOnSet(ww, D)
  <2>1. c.cov = SumFunction(uw) /\ c.va = SumFunction(uu) /\ c.vb = SumFunction(ww)
    BY <1>1, <1>2, <1>6 DEF Spearman
  <2>2. DOMAIN uw = D /\ DOMAIN uu = D /\ DOMAIN ww = D
    BY <1>6
  <2> QED BY <2>1, <2>2 DEF SumFunction
<1> HIDE DEF D
<1>8. /\ \A i \in D : u[i] \in Int /\ w[i] \in Int
      /\ \A i \in D : uw[i] = u[i] * w[i] /\ uu[i] = u[i] * u[i] /\ ww[i] = w[i] * w[i]
  <2>1. \A i \in D : u[i] = x[i] - (n + 1) /\ w[i] = y[i] - (n + 1)
    BY <1>5
  <2>2. \A i \in D : u[i] \in Int /\ w[i] \in Int
    BY <1>1, <1>4, <2>1
  <2>3. \A i \in D : uw[i] = u[i] * w[i] /\ uu[i] = u[i] * u[i] /\ ww[i] = w[i] * w[i]
    BY <1>6, <2>1
  <2> QED BY <2>2, <2>3
<1>9. c.cov * c.cov <= c.va * c.vb
  <2>1. SumFunctionOnSet(uw, D) * SumFunctionOnSet(uw, D)
          <= SumFunctionOnSet(uu, D) * SumFunctionOnSet(ww, D)
    BY ONLY <1>1, <1>8, Cauchy
  <2> QED BY <1>7, <2>1
<1>10. ASSUME \A i, j \in D : b[i] = b[j] PROVE c.cov = 0
  <2>1. ASSUME NEW i \in D PROVE uw[i] = 0
    <3>1. Equal(b, i) = D /\ Less(b, i) = {}
      <4>1. \A j \in D : b[j] = b[i] /\ b[j] \in Int
        BY <1>10 DEF IsKey, D
      <4>2. \A j \in D : ~(b[j] < b[i])
        BY <4>1
      <4> QED BY <1>1, <4>1, <4>2 DEF Equal, Less
    <3>2. Cardinality(D) = n
      <4>1. Cardinality(1 .. n) = IF 1 > n THEN 0 ELSE n - 1 + 1
        BY <1>1, FS_Interval
      <4> QED BY <1>1, <4>1 DEF D
    <3>3. y[i] = 1 + n
      <4>1. y[i] = 1 + 2 * Cardinality(Less(b, i)) + Cardinality(Equal(b, i))
        BY <1>3 DEF D
      <4>2. Cardinality(Less(b, i)) = 0 /\ Cardinality(Equal(b, i)) = n
        BY <3>1, <3>2, FS_EmptySet
      <4> QED BY <1>1, <4>1, <4>2
    <3>4. w[i] = 0 /\ u[i] \in Int
      <4>1. w[i] = y[i] - (n + 1) /\ u[i] \in Int
        BY <1>5, <1>8
      <4> QED BY <1>1, <3>3, <4>1
    <3>5. uw[i] = u[i] * w[i]
      BY <1>8
    <3> QED BY ONLY <3>4, <3>5
  <2>2. SumFunctionOnSet(uw, D) = 0
    BY <1>1, <2>1, SumOfZeros
  <2> QED BY <1>7, <2>2
<1> QED BY <1>9, <1>10 DEF D

\* The rank correlation, of a report.
LEMMA TiesOfReport == ASSUME ReportInv PROVE TiesShareRanks
<1> SUFFICES ASSUME Graded, NEW v, v = Relevances(Ranked(sample)),
                    NEW c, c = report.value.spearman
             PROVE  /\ \A i \in DOMAIN v : Ranks(v)[i] = 1 + 2 * Cardinality(Less(v, i))
                                                         + Cardinality(Equal(v, i))
                    /\ (\A i, j \in DOMAIN v : v[i] = v[j]) => c.cov = 0
                    /\ c.cov * c.cov <= c.va * c.vb
  BY DEF TiesShareRanks, Less, Equal
<1>1. PICK r, n : r = Ranked(sample) /\ n = Len(sample)
  OBVIOUS
<1>2. PICK a : a = [i \in DOMAIN r |-> r[i].score]
  OBVIOUS
<1>3. sample \in Seq(Outcome) /\ c = Spearman(a, v)
  BY <1>1, <1>2, GradedIs
<1>4. /\ r \in Seq(Outcome) /\ Len(r) = n /\ Relevant(v, n)
  BY <1>1, <1>3, RankedIs
<1>5. n \in Nat /\ DOMAIN r = 1 .. n /\ DOMAIN v = 1 .. n
  BY <1>4 DEF Relevant
<1>6. IsKey(v, n)
  <2>1. 0 .. 5 \subseteq Int
    OBVIOUS
  <2> QED BY <1>4, <1>5, <2>1 DEF IsKey, Relevant
<1>7. IsKey(a, n)
  <2>1. \A o \in Outcome : o.score \in 0 .. 1000
    BY DEF Outcome
  <2>2. \A i \in 1 .. n : r[i] \in Outcome
    BY <1>4, <1>5
  <2>3. 0 .. 1000 \subseteq Int
    OBVIOUS
  <2>4. \A i \in 1 .. n : r[i].score \in 0 .. 1000
    BY <2>1, <2>2
  <2> QED BY <1>2, <1>5, <2>3, <2>4 DEF IsKey
<1>8. \A i \in 1 .. n : Ranks(v)[i] = 1 + 2 * Cardinality(Less(v, i)) + Cardinality(Equal(v, i))
  BY <1>6, RanksAre
<1>9. /\ (\A i, j \in 1 .. n : v[i] = v[j]) => c.cov = 0
      /\ c.cov * c.cov <= c.va * c.vb
  BY <1>3, <1>6, <1>7, SpearmanIs
<1> QED BY <1>5, <1>8, <1>9

(* nDCG is 1 for the ideal order and no other, and grows as the better of    *)
(* two neighbours moves up; ties share their ranks, and what tells nothing   *)
(* apart is not correlated: for samples of any size (outcomes.ndcg_at_k,     *)
(* outcomes.spearman).                                                       *)
THEOREM MetricsRanking == MetricsSpec => [](NdcgRewardsOrder /\ TiesShareRanks)
<1>1. ReportInv => NdcgRewardsOrder /\ TiesShareRanks
  BY NdcgOfReport, TiesOfReport
<1> QED BY <1>1, MetricsReport, PTL

\* A rate of ten-thousandths says how many positives are behind it while there
\* are fewer outcomes than that.
FewOutcomes == \A s \in Samples : Len(s) < UNIT

(* Each metric of the evaluation is what its name says, of the sample that   *)
(* was measured: the order, the bins and the ranks (outcomes.evaluate).      *)
THEOREM MetricsEvaluationAgrees ==
    ASSUME FewOutcomes
    PROVE  MetricsSpec => []EvaluationAgrees
<1>1. ReportInv => EvaluationAgrees
  <2> SUFFICES ASSUME ReportInv PROVE EvaluationAgrees
    OBVIOUS
  <2>1. Len(sample) < UNIT
    BY DEF ReportInv, FewOutcomes
  <2> QED BY <2>1, NdcgOfReport, TiesOfReport, BinsOfReport DEF EvaluationAgrees
<1> QED BY <1>1, MetricsReport, PTL

=============================================================================
