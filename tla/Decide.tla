------------------------------- MODULE Decide -------------------------------
(***************************************************************************)
(* POST /decide and POST /rank of roleradar.api_v2: score, explain, rank.  *)
(*                                                                         *)
(* A request is served on a thread of its own.  Scoring (module Gate) is   *)
(* one step: it reads nothing that is shared.  An explanation may be       *)
(* written by a language model: the cached reply to the same prompt, or up *)
(* to MaxRetries + 1 calls of the provider, and whatever comes back is     *)
(* validated against the evidence the prompt showed.  The cache is a       *)
(* directory of files that all requests share.  A request that came        *)
(* through core-api has a gateway waiting for it, Patience seconds at most.*)
(***************************************************************************)
EXTENDS Gate

CONSTANTS Requests,     \* requests that ask for a model's explanation
          Scorings,     \* those that do not: /decide without a model, /rank
          Postings,     \* the postings scored
          Candidates,   \* the candidates, each with a profile and a resume
          Explained,    \* bound: the postings explained by a model
          Pools,        \* bound: the sequences of postings ranked
          Limits,       \* RankIn.limit: 1 to 100
          Replies,      \* what a model may write: sets of claims
          MaxRetries,   \* MAX_RETRIES: 2
          Timeout,      \* ROLERADAR_LLM_TIMEOUT, in seconds: 30
          Patience,     \* jobengine.roleradar.timeout, in seconds: 30
          MaxRequests   \* bound: requests served

VARIABLES req,      \* each request
          cache,    \* the files of ROLERADAR_LLM_CACHE
          replied   \* history: what the provider replied to which prompt

vars == <<req, cache, replied>>

\* A fraction, in ten-thousandths.
Share == 0 .. 10000

\* What extract_requirements reads of a posting: sets that a regular
\* expression filled, one constraint for each kind of sponsorship line.
PostingAssumption(job) ==
    /\ Len(job.lines) \in Nat /\ DOMAIN job.lines = 1 .. Len(job.lines)
    /\ \A i \in DOMAIN job.lines :
          /\ IsFiniteSet(job.lines[i].skills) /\ IsFiniteSet(job.lines[i].asks)
          /\ IsFiniteSet(job.lines[i].years) /\ job.lines[i].years \subseteq Nat
          /\ \A c \in job.lines[i].asks :
                c.kind = "sponsorship" => c.value \in {"available", "unavailable"}
    /\ IsFiniteSet(job.titleSkills)
    /\ job.seniority \in DOMAIN JobLevel \cup {"unknown"}
    /\ job.similarity \in Share /\ job.company \in Nat

\* A resume is a finite list of units, whose ids are ordered.
CandidateAssumption(p) ==
    /\ DOMAIN p = {"needs_sponsorship", "us_citizen", "security_clearance", "relocates",
                    "graduation", "degree", "seniority", "location", "units"}
    /\ p.seniority \in DOMAIN CandidateLevel
    /\ IsFiniteSet(p.units) /\ \A u \in p.units : u.id \in Nat

\* The rows of a search: the key of a row is its primary key.
PoolAssumption(pool) ==
    /\ pool \in Seq(Postings)
    /\ \A i, j \in DOMAIN pool : pool[i].key = pool[j].key => i = j

ASSUME DecideAssumption ==
    /\ Requests \cap Scorings = {}
    /\ Explained \subseteq Postings
    /\ Limits \subseteq Nat \ {0}
    /\ \A job \in Postings : PostingAssumption(job)
    /\ \A p \in Candidates : CandidateAssumption(p)
    /\ \A pool \in Pools : PoolAssumption(pool)
    /\ MaxRetries \in Nat /\ Timeout \in Nat /\ Patience \in Nat /\ MaxRequests \in Nat

All == Requests \cup Scorings
New == [step |-> "new"]

\* A decision on its way: how often the provider was called, the seconds
\* since the request came, what its client was told, the claims published.
Decision(job, p, via) ==
    [step |-> "done", job |-> job, candidate |-> p, decision |-> DecidePrepared(job, p),
     via |-> via, calls |-> 0, waited |-> 0, client |-> "waiting", reply |-> {},
     claims |-> {}]

Steps   == {"lookup", "call", "store", "done"}
Answers == {"waiting", "decided", "error", "timed out"}

-----------------------------------------------------------------------------
(* explain: the prompt, and what of a reply is published.                  *)

\* The units that the strengths and gaps cite; only they may be cited back.
ShownEvidence(q) ==
    {u \in q.candidate.units :
        \E c \in Strengths(q.decision.coverages) \cup Gaps(q.decision.coverages) :
            u.id \in c.cites}

\* _context: the prompt has the final verdict and the rows behind it.
Context(q) ==
    [job     |-> q.decision.job,
     verdict |-> q.decision.verdict,
     score   |-> Ratio(q.decision.score, 100),
     flags   |-> {v \in q.decision.gate : v.status # "ok"},
     rows    |-> Strengths(q.decision.coverages) \cup Gaps(q.decision.coverages),
     shown   |-> ShownEvidence(q)]

\* Mutant: the reply is cached for the posting and its verdict is forgotten.
CacheKeyOfJob(context) == context.job

\* _cache_key: a digest of the whole prompt.
CacheKey(context) == context

\* Mutant: the ids are checked, the numbers are not.
ValidateCitations(reply, shown) ==
    {c \in reply : c.formed /\ c.ids # {} /\ c.ids \subseteq {u.id : u \in shown}}

\* A claim stays that cites what was shown and has no number of its own.  A
\* reply that is no JSON, or whose claims are no list, has no claims.
ValidateGrounding(reply, shown) ==
    {c \in reply :
        /\ c.formed
        /\ c.ids # {}
        /\ c.ids \subseteq {u.id : u \in shown}
        /\ c.numbers \subseteq UNION {u.numbers : u \in {v \in shown : v.id \in c.ids}}}

\* The explanation is the model's as far as a claim is left of it.
Source(q) == IF q.claims = {} THEN "deterministic" ELSE "llm"

\* The request ends; a client that is still there is told.
Told(q, answer) ==
    [q EXCEPT !.step = "done", !.client = IF @ = "waiting" THEN answer ELSE @]

Deterministic(q) == Told(q, "decided")

Explanation(q, reply) ==
    Told([q EXCEPT !.claims = ValidateGrounding(reply, ShownEvidence(q))], "decided")

-----------------------------------------------------------------------------
(* The routes.                                                             *)

Begins(r) ==
    /\ req[r] = New
    /\ Cardinality({x \in All : req[x] # New}) < MaxRequests

\* /decide without a model: none was asked for, or none is configured.
DecidePlain(r, job, p) ==
    /\ Begins(r)
    /\ req' = [req EXCEPT ![r] = Deterministic(Decision(job, p, FALSE))]
    /\ UNCHANGED <<cache, replied>>

\* No model is asked about a dead end.
AsksModel(q) == Passed(q.decision.gate)

DecideExplained(r, job, p, via) ==
    LET q == Decision(job, p, via)
    IN  /\ Begins(r)
        /\ req' = [req EXCEPT ![r] = IF AsksModel(q) THEN [q EXCEPT !.step = "lookup"]
                                                     ELSE Deterministic(q)]
        /\ UNCHANGED <<cache, replied>>

\* Mutant: by score, then company, blocked or not.
PrecedesByScore(d, e) ==
    \/ d.score > e.score
    \/ d.score = e.score /\ d.company < e.company

\* The sort key (blocked, -score, company).
Precedes(d, e) ==
    \/ d.verdict # "blocked" /\ e.verdict = "blocked"
    \/ /\ (d.verdict = "blocked") = (e.verdict = "blocked")
       /\ \/ d.score > e.score
          \/ d.score = e.score /\ d.company < e.company

\* decide_many: a stable sort, then the cut.
DecideMany(pool, p, limit) ==
    LET all == [i \in DOMAIN pool |-> DecidePrepared(pool[i], p)]
        Rank(i) == 1 + Cardinality({j \in DOMAIN pool :
                       \/ Precedes(all[j], all[i])
                       \/ j < i /\ ~Precedes(all[i], all[j])})
    IN  [n \in 1 .. AtMost(limit, Len(pool)) |->
            all[CHOOSE i \in DOMAIN pool : Rank(i) = n]]

\* /rank: no model, whatever was asked for.
RankPool(r, pool, p, limit) ==
    /\ Begins(r)
    /\ req' = [req EXCEPT ![r] = [step |-> "ranked", pool |-> pool, candidate |-> p,
                                  ranking |-> DecideMany(pool, p, limit)]]
    /\ UNCHANGED <<cache, replied>>

-----------------------------------------------------------------------------
(* llm_client.complete_json.                                               *)

Key(r) == CacheKey(Context(req[r]))

\* write_text truncates the file and then writes it: while another request
\* is about to, the file may be the old one, the new one or no reply at all.
Writing(r) == {x \in Requests \ {r} : req[x].step = "store" /\ Key(x) = Key(r)}

CacheHit(r) ==
    /\ req[r].step = "lookup"
    /\ \E e \in cache : /\ e.key = Key(r)
                        /\ req' = [req EXCEPT ![r] = Explanation(@, e.reply)]
    /\ UNCHANGED <<cache, replied>>

\* No file, one that is being written, or one that does not parse.
CacheMiss(r) ==
    /\ req[r].step = "lookup"
    /\ (\A e \in cache : e.key # Key(r)) \/ Writing(r) # {}
    /\ req' = [req EXCEPT ![r].step = "call"]
    /\ UNCHANGED <<cache, replied>>

\* The call of the provider that is under way takes some seconds and ends.
\* A gateway that has waited for its patience answers 504 and goes.
Called(q, seconds) ==
    LET waited == q.waited + seconds
    IN  [q EXCEPT !.calls = @ + 1, !.waited = waited,
                  !.client = IF q.via /\ @ = "waiting" /\ waited >= Patience
                             THEN "timed out" ELSE @]

\* Text came back.
Replied(r, reply) ==
    /\ req[r].step = "call"
    /\ req' = [req EXCEPT ![r] = [Called(@, 0) EXCEPT !.step = "store", !.reply = reply]]
    /\ replied' = replied \cup {[context |-> Context(req[r]), reply |-> reply]}
    /\ UNCHANGED cache

\* An empty reply, or an HTTP error other than 429 and 5xx: not retried.
GivesUp(r) ==
    /\ req[r].step = "call"
    /\ req' = [req EXCEPT ![r] = Deterministic(Called(@, 0))]
    /\ UNCHANGED <<cache, replied>>

\* Mutant: one retry too many.
IsLastOffByOne(q) == q.calls > MaxRetries

IsLast(q) == q.calls = MaxRetries

\* Mutant: when the last attempt fails, the request is tried again from the start.
FailsStartingOver(r, seconds) ==
    /\ req[r].step = "call"
    /\ req' = [req EXCEPT ![r] =
                  IF IsLast(@) THEN [@ EXCEPT !.step = "lookup", !.calls = 0, !.waited = 0]
                  ELSE Called(@, seconds + 2 ^ @.calls)]
    /\ UNCHANGED <<cache, replied>>

\* 429, 5xx, a socket error, no answer in time, a body without the fields:
\* retried after 1, 2, ... seconds.
Fails(r, seconds) ==
    /\ req[r].step = "call"
    /\ req' = [req EXCEPT ![r] = IF IsLast(@) THEN Deterministic(Called(@, seconds))
                                 ELSE Called(@, seconds + 2 ^ @.calls)]
    /\ UNCHANGED <<cache, replied>>

\* A body that is JSON of another shape (a list, null, content that is no
\* string), or that breaks off: TypeError, AttributeError and IncompleteRead
\* are not caught.
Raises(r) ==
    /\ req[r].step = "call"
    /\ req' = [req EXCEPT ![r] = Told(Called(@, 0), "error")]
    /\ UNCHANGED <<cache, replied>>

\* _cache_put, then the explanation.  The file is written; or cut short, or
\* garbled by another write of it, and does not parse, which is as good as
\* none; or it could not be opened.  Errors of the file system are ignored.
Store(r) ==
    LET others == {e \in cache : e.key # Key(r)}
    IN  /\ req[r].step = "store"
        /\ \/ cache' = others \cup {[key |-> Key(r), reply |-> req[r].reply]}
           \/ cache' = others
           \/ UNCHANGED cache
        /\ req' = [req EXCEPT ![r] = Explanation(@, req[r].reply)]
        /\ UNCHANGED replied

-----------------------------------------------------------------------------
Init ==
    /\ req = [r \in All |-> New]
    /\ cache = {}
    /\ replied = {}

\* What the thread of a request does next.
Serve(r) ==
    \/ CacheHit(r) \/ CacheMiss(r) \/ Store(r)
    \/ \E reply \in Replies : Replied(r, reply)
    \/ GivesUp(r)
    \/ \E seconds \in {0, Timeout} : Fails(r, seconds)
    \/ Raises(r)

Next ==
    \/ \E r \in Requests :
          \/ Serve(r)
          \/ \E job \in Explained, p \in Candidates, via \in BOOLEAN :
                DecideExplained(r, job, p, via)
    \/ \E r \in Scorings, p \in Candidates :
          \/ \E job \in Postings : DecidePlain(r, job, p)
          \/ \E pool \in Pools, limit \in Limits : RankPool(r, pool, p, limit)

Spec == Init /\ [][Next]_vars

\* A thread that has a request goes on with it, and a call of the provider
\* ends: urlopen has a timeout.  Nothing is assumed of what comes back.
FairSpec == Spec /\ \A r \in Requests : WF_vars(Serve(r))

-----------------------------------------------------------------------------
(* Correctness.                                                            *)

Decided == {r \in All : req[r].step = "done"}
Ranked  == {r \in All : req[r].step = "ranked"}

\* What a request, an entry of the cache and a ranking look like.
TypeOK ==
    /\ \A r \in All :
          \/ req[r] = New
          \/ /\ req[r].step = "ranked"
             /\ req[r].pool \in Pools /\ req[r].candidate \in Candidates
             /\ Len(req[r].ranking) <= Len(req[r].pool)
          \/ /\ req[r].step \in Steps /\ req[r].client \in Answers
             /\ req[r].job \in Postings /\ req[r].candidate \in Candidates
             /\ req[r].decision.score \in Share
             /\ req[r].reply \in Replies \cup {{}} /\ req[r].via \in BOOLEAN
             /\ req[r].step # "done" => req[r].client \in {"waiting", "timed out"}
             /\ req[r].step = "done" => req[r].client # "waiting"
    /\ \A e \in cache \cup {[key |-> CacheKey(a.context), reply |-> a.reply] : a \in replied} :
          e.reply \in Replies

\* What a model is quoted with stands in the candidate's own resume: each
\* claim cites units of it, and each number of the claim is in the text of a
\* unit it cites (explain.py 66-111), however the reply came.
Grounded ==
    \A r \in Decided : \A c \in req[r].claims :
        LET cited == {u \in req[r].candidate.units : u.id \in c.ids}
        IN  /\ cited # {} /\ c.ids = {u.id : u \in cited}
            /\ c.numbers \subseteq UNION {u.numbers : u \in cited}

\* A published claim was written for this very prompt: with this verdict,
\* these flags and this evidence, not for another candidate's request or an
\* earlier version of this one's, whatever the shared cache holds.
OwnWords ==
    \A r \in Decided : req[r].claims # {} =>
        \E a \in replied : a.context = Context(req[r]) /\ req[r].claims \subseteq a.reply

\* A request calls the provider MaxRetries + 1 times at most, and never about
\* a dead end; it holds its thread no longer than those calls and the pauses
\* between them.
CallBudget ==
    \A r \in Requests : req[r].step \in Steps =>
        /\ req[r].calls <= MaxRetries + 1
        /\ req[r].decision.verdict = "blocked" => req[r].calls = 0
        /\ req[r].waited <= (MaxRetries + 1) * Timeout + 2 ^ MaxRetries - 1

\* A posting that anywhere says it does not sponsor, or says nothing of it
\* and comes from an employer whose filings say so, is blocked for a
\* candidate who needs sponsorship, however good the match and whatever else
\* it says; and one that only says it sponsors is not blocked on that account.
SponsorDeadEnd ==
    \A r \in Decided :
        LET job     == req[r].job
            Some(v) == \E i \in DOMAIN job.lines : Says(job.lines[i].asks, "sponsorship", v)
            no      == \/ Some("unavailable")
                       \/ /\ ~Some("available")
                          /\ job.tier \in {"does_not_sponsor", "citizen_only"}
        IN  req[r].candidate.needs_sponsorship = "yes" =>
                /\ no => req[r].decision.verdict = "blocked"
                /\ ~no => \A v \in req[r].decision.gate :
                        v.constraint.kind = "sponsorship" => v.status # "blocked"

\* The section a line stands in: that of the last header above it.
SectionOf(lines, i) ==
    LET headers == {j \in 1 .. i - 1 : lines[j].header # "none"}
    IN  IF headers = {} THEN "neutral"
        ELSE lines[CHOOSE j \in headers : \A k \in headers : k <= j].header

\* A skill that several lines ask for is required if any of them requires it
\* ("the strictest reading", requirements.py 253), in whatever order they
\* stand; a title only adds skills that no line names.
StrictestReading ==
    \A r \in Decided : \A c \in req[r].decision.coverages :
        LET lines    == req[r].job.lines
            options  == c.requirement.options
            asking   == {i \in DOMAIN lines :
                            lines[i].header = "none" /\ options \in AsksOf(lines[i])}
        IN  options # {} =>
            (c.requirement.importance = "required" <=>
                \/ asking = {}
                \/ \E i \in asking :
                      LineImportance(lines[i], SectionOf(lines, i)) = "required")

\* Risks are a penalty and not a veto: they never talk a candidate out of a
\* perfect match (constraints.py 233-240), although the cap leaves it exactly
\* at the threshold.
RisksNeverVeto ==
    \A r \in Decided :
        LET d == req[r].decision
        IN  /\ Passed(d.gate)
            /\ \A c \in d.coverages : c.score = 10000
            /\ req[r].job.similarity = 10000
            /\ SeniorityFit(req[r].job, req[r].candidate) = 10000
            => d.verdict = "apply"

\* A resume with less in it never covers the requirements better: no unit of
\* evidence hides a stronger one (skills_match.py 81-120).
MoreEvidenceNeverHurts ==
    \A r \in Decided : \A u \in req[r].candidate.units :
        LET without == CoverAll(req[r].job, [req[r].candidate EXCEPT !.units = @ \ {u}])
        IN  /\ RequiredCoverage(without) <= RequiredCoverage(req[r].decision.coverages)
            /\ PreferredCoverage(without) <= PreferredCoverage(req[r].decision.coverages)

\* In a ranking no posting is shown twice, no eligible posting stands behind a
\* blocked one or is cut off for it, and within each kind nothing that is left
\* out scores more than what is shown (decision.py 89-100).
EligibleFirst ==
    \A r \in Ranked :
        LET shown   == req[r].ranking
            pool    == {DecidePrepared(req[r].pool[i], req[r].candidate) :
                           i \in DOMAIN req[r].pool}
            Kind(d) == d.verdict = "blocked"
        IN  /\ \A m, n \in DOMAIN shown : m < n =>
                  /\ Kind(shown[m]) => Kind(shown[n])
                  /\ Kind(shown[m]) = Kind(shown[n]) => shown[m].score >= shown[n].score
            /\ \A d \in pool \ ToSet(shown) : \A n \in DOMAIN shown :
                  /\ Kind(shown[n]) => Kind(d)
                  /\ Kind(shown[n]) = Kind(d) => shown[n].score >= d.score
            /\ Cardinality(ToSet(shown)) = Len(shown)

\* The request was ended by an exception nobody catches.
Raised(r) == req[r].step = "done" /\ req[r].client = "error"

\* Every request that asks a model is decided, with an explanation of the model
\* or without one, however often the provider fails or hangs, whatever the cache
\* holds and the other requests do (llm_client.py 5-10), unless an exception ends
\* it: that one may is what NeverRaises is about.
EveryRequestIsAnswered ==
    \A r \in Requests :
        \/ (req[r].step = "lookup") ~> (req[r].step = "done" /\ ~Raised(r))
        \/ <>Raised(r)

-----------------------------------------------------------------------------
(* What the comments say and the code does not do.                         *)

\* "Every entry point returns `None` instead of raising when there is [...] a
\* malformed body" (llm_client.py 5-7): no answer of the provider ends a request
\* with an error.
NeverRaises == \A r \in Requests : ~Raised(r)

=============================================================================
