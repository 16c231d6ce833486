------------------------------ MODULE Listings ------------------------------
(***************************************************************************)
(* From the two raw feeds to what a searcher is shown: build parses the     *)
(* records, collapses copies of one posting, and rates each employer by the *)
(* curated index, or by a file of visa filings laid over it; then the       *)
(* Python API, the decision worker and core-api each search the table.      *)
(*                                                                          *)
(* The loops over records and filings take a step for each.  How a name, a  *)
(* title and a URL are normalised is data: a record comes with the employer *)
(* and the posting they stand for.                                          *)
(***************************************************************************)
EXTENDS Integers, Sequences, FiniteSets

CONSTANTS Companies,   \* employers, by normalised name
          Postings,    \* title and URL of a posting, normalised
          Needles,     \* texts a searcher may look for
          Inputs,      \* what build is given: the records of the two feeds, the intern
                       \* file's first, and a file of filings or NoFile
          Queries,     \* the searches made
          Scans,       \* RankIn.scan: 1 to MAX_SCAN
          Limits,      \* page sizes asked of core-api; Unset when there is none
          Seed,        \* the curated tiers: "very_high", "high", "agency" or "absent"
          MAX_LIMIT,   \* SearchQuery.MAX_LIMIT: 200
          DEFAULT_LIMIT, \* SearchQuery.DEFAULT_LIMIT: 50
          Unset, NoFile

VARIABLES feed,    \* records of both files
          filings, \* the file of filings
          next,    \* the record or filing that is next
          stage,   \* how far build has come
          best,    \* the copy kept of each posting so far
          counts,  \* certified filings of each employer so far
          index,   \* SponsorIndex._entries
          jobs,    \* the jobs table
          view     \* the search under way or answered

buildVars == <<feed, filings, next, stage, best, counts, index, jobs>>
vars == <<buildVars, view>>

Keys == Companies \X Postings
None == <<>>

Categories == {"software", "other"}
Statements == {"no", "citizens", "offers"}
Repos == {"intern", "newgrad"}

\* A record as published: a flag may be missing.
Record == [repo : Repos, company : Companies, posting : Postings, category : Categories,
           texts : SUBSET Needles, active : {"yes", "no", "absent"},
           visible : {"yes", "no", "absent"}, date : Nat, stated : SUBSET Statements]

Job == [repo : Repos, key : Keys, category : Categories, texts : SUBSET Needles,
        active : {0, 1}, visible : {0, 1}, date : Nat, stated : SUBSET Statements]

\* The rows of a filings file of one employer and one status.
Filing == [company : Companies, status : {"certified", "denied"}, rows : Nat]

Tiers == {"very_high", "high", "offers", "medium", "low", "unknown",
          "does_not_sponsor", "citizen_only"}
Matches == {"index:seed", "index:seed:agency", "index:dol",
            "simplify:stated", "simplify:offers", ""}

\* A search as it is asked; core-api and /rank read some of the filters.
Query == [grad : STRING, tiers : SUBSET STRING, location : SUBSET STRING,
          needles : SUBSET STRING, agencies : BOOLEAN, seniority : STRING, max : Int]

ASSUME ListingsAssumption ==
    /\ \A i \in Inputs : i.feed \in Seq(Record)
    /\ \A i \in Inputs : i.filings # NoFile => i.filings \in Seq(Filing)
    /\ Seed \in [Companies -> {"very_high", "high", "agency", "absent"}]
    /\ MAX_LIMIT \in Nat \ {0} /\ DEFAULT_LIMIT \in 1 .. MAX_LIMIT
    /\ Scans \subseteq Nat \ {0}
    /\ Limits \subseteq Int \cup {Unset}
    /\ Queries \subseteq Query
    /\ IsFiniteSet(Companies) /\ IsFiniteSet(Postings)
-----------------------------------------------------------------------------
(* Parsing and deduplication.                                              *)

\* _from_record: a posting is closed and visible unless the record says so.
FromRecord(r) ==
    [repo     |-> r.repo,
     key      |-> <<r.company, r.posting>>,
     category |-> r.category,
     texts    |-> r.texts,
     active   |-> IF r.active = "yes" THEN 1 ELSE 0,
     visible  |-> IF r.visible = "no" THEN 0 ELSE 1,
     date     |-> r.date,
     stated   |-> r.stated]

\* Mutant: the newest copy, open or closed.
NewerByDate(j, k) == j.date > k.date

\* The pair (active, date_posted) compared as Python compares tuples.
Newer(j, k) == j.active > k.active \/ (j.active = k.active /\ j.date > k.date)

Init ==
    /\ \E i \in Inputs : feed = i.feed /\ filings = i.filings
    /\ next = 1
    /\ stage = "collapse"
    /\ best = [k \in Keys |-> None]
    /\ counts = [c \in Companies |-> 0]
    /\ index = [c \in Companies |-> None]
    /\ jobs = {}
    /\ view = None

Collapse ==
    /\ stage = "collapse"
    /\ next <= Len(feed)
    /\ LET j == FromRecord(feed[next])
           cur == best[j.key]
       IN  best' = IF cur = None \/ Newer(j, cur) THEN [best EXCEPT ![j.key] = j] ELSE best
    /\ next' = next + 1
    /\ UNCHANGED <<feed, filings, stage, counts, index, jobs, view>>
-----------------------------------------------------------------------------
(* The sponsor index.                                                      *)

FromSeed ==
    [c \in Companies |->
        CASE Seed[c] = "absent" -> None
          [] Seed[c] = "agency" -> [tier |-> "high", match |-> "index:seed:agency"]
          [] OTHER              -> [tier |-> Seed[c], match |-> "index:seed"]]

\* Feeds that parse to no record at all are refused.
SeedIndex ==
    /\ stage = "collapse"
    /\ next > Len(feed) /\ feed # <<>>
    /\ index' = FromSeed
    /\ stage' = IF filings = NoFile THEN "annotate" ELSE "count"
    /\ next' = 1
    /\ UNCHANGED <<feed, filings, best, counts, jobs, view>>

\* An entry of the file stands for its rows of one employer and one status.
CountFiling ==
    /\ stage = "count"
    /\ next <= Len(filings)
    /\ LET f == filings[next]
       IN  counts' = IF f.status = "certified" THEN [counts EXCEPT ![f.company] = @ + f.rows]
                                               ELSE counts
    /\ next' = next + 1
    /\ UNCHANGED <<feed, filings, stage, best, index, jobs, view>>

TierFor(count) ==
    CASE count >= 5000                 -> "very_high"
      [] count \in 1000 .. 4999        -> "high"
      [] count \in 100 .. 999          -> "medium"
      [] count \in 1 .. 99             -> "low"
      [] OTHER                         -> "unknown"

LoadDolCsv ==
    /\ stage = "count"
    /\ next > Len(filings)
    /\ index' = [c \in Companies |-> IF counts[c] = 0 THEN index[c]
                                     ELSE [tier |-> TierFor(counts[c]), match |-> "index:dol"]]
    /\ stage' = "annotate"
    /\ UNCHANGED <<feed, filings, next, best, counts, jobs, view>>

Rated(tier, match) == [tier |-> tier, match |-> match]

\* Mutant: the employer's record is preferred to what the posting says.
RatingByIndex(j) ==
    IF index[j.key[1]] # None THEN index[j.key[1]]
    ELSE IF "no" \in j.stated THEN Rated("does_not_sponsor", "simplify:stated")
    ELSE IF "citizens" \in j.stated THEN Rated("citizen_only", "simplify:stated")
    ELSE IF "offers" \in j.stated THEN Rated("offers", "simplify:offers")
    ELSE Rated("unknown", "")

\* SponsorIndex.annotate: the first that applies.
Rating(j) ==
    IF "no" \in j.stated THEN Rated("does_not_sponsor", "simplify:stated")
    ELSE IF "citizens" \in j.stated THEN Rated("citizen_only", "simplify:stated")
    ELSE IF index[j.key[1]] # None THEN index[j.key[1]]
    ELSE IF "offers" \in j.stated THEN Rated("offers", "simplify:offers")
    ELSE Rated("unknown", "")

Kept == {best[k] : k \in {x \in Keys : best[x] # None}}

Annotate ==
    /\ stage = "annotate"
    /\ jobs' = {[job |-> j, rating |-> Rating(j)] : j \in Kept}
    /\ stage' = "serve"
    /\ UNCHANGED <<feed, filings, next, best, counts, index, view>>
-----------------------------------------------------------------------------
(* Searching.                                                              *)

EXCLUDE == {"does_not_sponsor", "citizen_only"}

\* SPONSOR_RANK, best first.
SponsorRank(tier) ==
    CASE tier = "very_high" -> 0 [] tier = "high"   -> 1 [] tier = "offers" -> 2
      [] tier = "medium"    -> 3 [] tier = "low"    -> 4 [] tier = "unknown" -> 5
      [] OTHER              -> 9

Live == {r \in jobs : r.job.active = 1 /\ r.job.visible = 1}

\* Filters that are not given let everything pass.
InRepo(r, q) == q.grad = "any" \/ r.job.repo = q.grad
InTiers(r, q) == q.tiers = {} \/ r.rating.tier \in q.tiers
Finds(r, q) == q.needles \subseteq r.job.texts
InPlace(r, q) == q.location = {} \/ q.location \cap r.job.texts # {}

\* query.query: the rows it keeps.
QueryRows(q) ==
    {r \in Live :
        /\ r.job.category = "software"
        /\ InRepo(r, q) /\ InTiers(r, q) /\ InPlace(r, q) /\ Finds(r, q)
        /\ r.rating.tier \notin EXCLUDE
        /\ q.agencies \/ r.rating.match # "index:seed:agency"}

\* _find_jobs: tiers and agencies are shown if they are not filtered away.
FindJobsRows(q) == {r \in Live : InRepo(r, q) /\ Finds(r, q) /\ InTiers(r, q)}

\* JobSpecifications.seniority: the bands are compared with the category.
OfSeniority(r, q) ==
    CASE q.seniority = "any"    -> TRUE
      [] q.seniority = "senior" -> "senior" \in r.job.texts
      [] OTHER                  -> r.job.category = q.seniority

\* JobSpecifications.from
SearchRows(q) ==
    {r \in Live : InPlace(r, q) /\ InTiers(r, q) /\ Finds(r, q) /\ OfSeniority(r, q)}

\* query.query's order: the better tier, then the newer posting.
Before(r, s) ==
    \/ SponsorRank(r.rating.tier) < SponsorRank(s.rating.tier)
    \/ r.rating.tier = s.rating.tier /\ r.job.date > s.job.date

Later(r, s) == r.job.date > s.job.date

\* The orders a sort may leave the rows in: those equal under it come as they
\* will.
Orders(rows, Precedes(_, _)) ==
    {s \in [1 .. Cardinality(rows) -> rows] :
        \A m, n \in DOMAIN s : m < n => s[m] # s[n] /\ ~Precedes(s[n], s[m])}

Least(m, n) == IF m < n THEN m ELSE n

\* Mutant: the last rows are returned.
CutTail(s, max) == IF max = 0 THEN s ELSE SubSeq(s, 1 + Len(s) - Least(max, Len(s)), Len(s))

\* out[:max_rows] if max_rows else out
Cut(s, max) ==
    IF max = 0 THEN s
    ELSE SubSeq(s, 1, IF max > 0 THEN Least(max, Len(s)) ELSE Len(s) + max)

\* GET /api/jobs and `jobengine query`.
GetJobs(q) ==
    /\ stage = "serve" /\ view = None
    /\ \E s \in Orders(QueryRows(q), Before) :
          view' = [via |-> "query", query |-> q, rows |-> Cut(s, q.max), offset |-> 0]
    /\ UNCHANGED buildVars

\* The postings POST /rank scores.
FindJobs(q, scan) ==
    /\ stage = "serve" /\ view = None
    /\ \E s \in Orders(FindJobsRows(q), Later) :
          view' = [via |-> "rank", query |-> q, rows |-> Cut(s, scan), offset |-> 0]
    /\ UNCHANGED buildVars

\* summary_dict
Summary(tier) ==
    Cardinality({r \in Live : r.job.category = "software" /\ r.rating.tier = tier})

\* SearchQuery.normalized
Clamped(limit) ==
    IF limit = Unset THEN DEFAULT_LIMIT
    ELSE IF limit < 1 THEN 1 ELSE Least(limit, MAX_LIMIT)

\* Mutant: the offset is passed on as the number of the page.
PageByOffset(s, offset, limit) ==
    SubSeq(s, offset * limit + 1, Least((offset + 1) * limit, Len(s)))

\* queryDatabase: PageRequest.of(offset / limit, limit).
Page(s, offset, limit) ==
    LET page == offset \div limit
    IN  SubSeq(s, page * limit + 1, Least((page + 1) * limit, Len(s)))

\* A client begins to page through a search of core-api,
OpenSearch(q, limit) ==
    /\ stage = "serve" /\ view = None
    /\ view' = [via |-> "paging", query |-> q, rows |-> <<>>, offset |-> 0, limit |-> limit]
    /\ UNCHANGED buildVars

\* asks for the next page, and ends with one that is not full.  Each page is
\* the answer to a query of its own.
NextPage ==
    /\ stage = "serve" /\ view # None
    /\ view.via = "paging"
    /\ LET size == Clamped(view.limit)
       IN  \E s \in Orders(SearchRows(view.query), Later) :
             LET page == Page(s, view.offset, size)
             IN  view' = [view EXCEPT !.rows = @ \o page, !.offset = @ + size,
                                      !.via = IF Len(page) < size THEN "paged" ELSE @]
    /\ UNCHANGED buildVars

Build == Collapse \/ SeedIndex \/ CountFiling \/ LoadDolCsv \/ Annotate

Next ==
    \/ Build
    \/ \E q \in Queries :
          \/ GetJobs(q)
          \/ \E scan \in Scans : FindJobs(q, scan)
          \/ \E limit \in Limits : OpenSearch(q, limit)
    \/ NextPage

Spec == Init /\ [][Next]_vars
-----------------------------------------------------------------------------
(* Properties.                                                             *)

Stages == {"collapse", "count", "annotate", "serve"}

TypeOK ==
    /\ feed \in Seq(Record)
    /\ next \in Nat \ {0}
    /\ stage \in Stages
    /\ best \in [Keys -> Job \cup {None}]
    /\ counts \in [Companies -> Nat]
    /\ index \in [Companies -> [tier : Tiers, match : Matches] \cup {None}]
    /\ jobs \subseteq [job : Job, rating : [tier : Tiers, match : Matches]]

\* The records read so far.
Read == 1 .. (IF stage = "collapse" THEN next - 1 ELSE Len(feed))
Copies(k) == {i \in Read : FromRecord(feed[i]).key = k}

\* However the copies of a posting are spread over the feeds, one is kept,
\* and none is better: an open copy is never given up for a closed one, nor a
\* newer for an older among equals (build.dedup: "Keeps the most recently
\* posted record, preferring active postings").
KeepsBestCopy ==
    \A k \in Keys :
        /\ best[k] = None <=> Copies(k) = {}
        /\ best[k] # None => \E i \in Copies(k) :
              /\ best[k] = FromRecord(feed[i])
              /\ \A n \in Copies(k) :
                    LET c == FromRecord(feed[n])
                    IN  \/ c.active < best[k].active
                        \/ c.active = best[k].active /\ c.date <= best[k].date

\* The best copy of a posting in the raw feeds, told without the loop: of the
\* open ones, or of all if none is open, the first of the latest.
BestRecord(k) ==
    LET Of(a) == {i \in DOMAIN feed : /\ <<feed[i].company, feed[i].posting>> = k
                                      /\ feed[i].active = "yes" <=> a}
        pool == IF Of(TRUE) # {} THEN Of(TRUE) ELSE Of(FALSE)
        latest == {i \in pool : \A n \in pool : feed[n].date <= feed[i].date}
    IN  feed[CHOOSE i \in latest : \A n \in latest : i <= n]

\* What an unfiltered search with agencies shows, from the feeds to the answer:
\* a posting whose best copy is open, visible and of the field, unless that
\* copy itself rules sponsorship out.  Nothing an employer filed makes up for
\* what its posting says, and an employer of whom nothing is known is shown:
\* "unknown, never 'does_not_sponsor'" (sponsor_index.py 14-18).
ShownUnlessRuledOut ==
    (view # None /\ view.via = "query"
        /\ view.query = [view.query EXCEPT !.grad = "any", !.tiers = {}, !.location = {},
                                           !.needles = {}, !.agencies = TRUE, !.max = 0]) =>
        {view.rows[n].job.key : n \in DOMAIN view.rows} =
        {k \in {<<feed[i].company, feed[i].posting>> : i \in DOMAIN feed} :
            LET r == BestRecord(k)
            IN  /\ r.active = "yes" /\ r.visible # "no" /\ r.category = "software"
                /\ r.stated \cap {"no", "citizens"} = {}}

\* A cut answer holds the best of what matched: no row that was cut off would
\* have come before one that is shown, whatever the tiers, the dates and the
\* limit (query.query and _find_jobs).
CutKeepsBest ==
    (view # None /\ view.via \in {"query", "rank"}) =>
        LET shown == {view.rows[n] : n \in DOMAIN view.rows}
            cut   == (IF view.via = "query" THEN QueryRows(view.query)
                                            ELSE FindJobsRows(view.query)) \ shown
        IN  \A r \in cut, s \in shown :
                IF view.via = "query"
                THEN /\ SponsorRank(s.rating.tier) <= SponsorRank(r.rating.tier)
                     /\ s.rating.tier = r.rating.tier => s.job.date >= r.job.date
                ELSE s.job.date >= r.job.date

\* The counts of `jobengine summary` are those of the searches it invites: a
\* tier's count is the number of rows a search for that tier shows, tiers that
\* searches never show apart.
SummaryAgrees ==
    (view # None /\ view.via = "query" /\ view.query.agencies /\ view.query.max = 0
        /\ view.query.grad = "any" /\ view.query.location = {} /\ view.query.needles = {}) =>
        \A t \in Tiers \ EXCLUDE :
            (view.query.tiers = {} \/ t \in view.query.tiers) =>
                Summary(t) = Cardinality({n \in DOMAIN view.rows : view.rows[n].rating.tier = t})

\* Paging through a search shows each match once, newest first, whatever page
\* size was asked for, if no two were posted in the same second
\* (SearchQuery.normalized, SearchService.queryDatabase).
PagesPartition ==
    (view # None /\ view.via \in {"paging", "paged"}) =>
        LET matches == SearchRows(view.query)
        IN  (\A r, s \in matches : r.job.date = s.job.date => r = s) =>
                /\ \A m, n \in DOMAIN view.rows :
                      m < n => Later(view.rows[m], view.rows[n])
                /\ view.via = "paged" => {view.rows[n] : n \in DOMAIN view.rows} = matches

\* What a search answers, and how many a summary counts, is what the feeds and
\* the filings say (query.query, summary_dict).
SearchAgrees == ShownUnlessRuledOut /\ SummaryAgrees

\* "Staffing agencies are tagged so query.py can exclude them by default"
\* (sponsor_index.py 40-41): a search that does not ask for agencies shows none.
AgenciesHidden ==
    (view # None /\ view.via = "query" /\ ~view.query.agencies) =>
        \A n \in DOMAIN view.rows : Seed[view.rows[n].job.key[1]] # "agency"
=============================================================================
