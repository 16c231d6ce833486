----------------------------- MODULE MCReports -----------------------------
(* Listings and Metrics on small instances; a behaviour is of one of them.  *)
EXTENDS Listings, Metrics

-----------------------------------------------------------------------------
(* Listings.                                                               *)

Plain == [repo |-> "intern", company |-> "acme", posting |-> "a", category |-> "software",
          texts |-> {}, active |-> "yes", visible |-> "absent", date |-> 1, stated |-> {}]

\* Copies of two postings in every order.
Copied == {[Plain EXCEPT !.posting = p, !.active = a, !.date = d] :
              p \in {"a", "b"}, a \in {"yes", "no"}, d \in {1, 2}}
CopyFeeds == [1 .. 3 -> Copied]

\* A posting of any kind beside a plain one of each employer.
Odd == {[Plain EXCEPT !.company = c, !.category = g, !.visible = v, !.active = a, !.stated = s] :
           c \in {"acme", "temps", "newco"}, g \in {"software", "other"},
           v \in {"yes", "no", "absent"}, a \in {"yes", "absent"},
           s \in {{}, {"no"}, {"citizens"}, {"offers"}, {"no", "offers"}}}
OddFeeds == {<<o, [Plain EXCEPT !.company = c, !.posting = "b", !.repo = "newgrad",
                                !.texts = {"x"}]>> :
                o \in Odd, c \in {"acme", "temps", "newco"}}

\* Five postings, of which two may be of the same second.
Many(d) == <<[Plain EXCEPT !.date = 3], [Plain EXCEPT !.company = "newco", !.date = 5],
             [Plain EXCEPT !.posting = "b", !.date = d],
             [Plain EXCEPT !.company = "temps", !.date = 2, !.texts = {"senior"}],
             [Plain EXCEPT !.company = "newco", !.posting = "b", !.date = 1]>>

Filed(c, s, n) == [company |-> c, status |-> s, rows |-> n]
Files == {<<Filed("acme", "denied", 5000), Filed("newco", "certified", 1)>>,
          <<Filed("temps", "certified", 60), Filed("temps", "certified", 40)>>}

MCInputs ==
    {[feed |-> f, filings |-> NoFile] : f \in CopyFeeds \cup {<<>>}}
    \cup {[feed |-> f, filings |-> n] : f \in OddFeeds, n \in Files \cup {NoFile}}
    \cup {[feed |-> Many(d), filings |-> NoFile] : d \in {3, 4}}

MCSeed == [c \in Companies |-> CASE c = "acme" -> "very_high" [] c = "temps" -> "agency"
                                 [] OTHER -> "absent"]

Whole == [grad |-> "any", tiers |-> {}, location |-> {}, needles |-> {}, agencies |-> TRUE,
          seniority |-> "any", max |-> 0]
MCQueries ==
    {Whole, [Whole EXCEPT !.agencies = FALSE], [Whole EXCEPT !.tiers = {"unknown", "low"}]}
    \cup {[Whole EXCEPT !.max = m] : m \in {1, 2, -1}}
    \cup {[Whole EXCEPT !.grad = "newgrad", !.location = {"x"}],
          [Whole EXCEPT !.needles = {"x"}, !.seniority = "senior"],
          [Whole EXCEPT !.seniority = "intern"]}

MCLimits == {Unset, 0, 1, 2, 5}

-----------------------------------------------------------------------------
(* Metrics.                                                                *)

MCSamples ==
    {<<>>} \cup UNION {[1 .. n -> [score : {200, 599, 1000}, relevance : {0, 1, 3}]] : n \in {2, 4}}

MCDiscounts == <<10000, 6309, 5000, 4307>>

MCEvents == [route : {"/api/jobs", "/api/health"}, status : {200, 404, 500},
             duration : {3, 7}, user : {NoUser, 1}]

\* Mixed requests, and many of which the slowest are few.
Slow(n, slow) == [i \in 1 .. n |-> [route |-> "/api/jobs", status |-> 200, user |-> NoUser,
                                    duration |-> IF i <= slow THEN 100 + i ELSE i]]
MCTraffic == UNION {[1 .. n -> MCEvents] : n \in 0 .. 2}
             \cup {Slow(n, slow) : n \in {19, 20, 21, 100, 101}, slow \in 0 .. 3}

-----------------------------------------------------------------------------
\* A behaviour builds and searches, or reports on one sample or one window.
ReportsInit ==
    \/ Init /\ sample = <<>> /\ traffic = <<>> /\ report = [of |-> "listings"]
    \/ /\ MetricsInit
       /\ sample = <<>> \/ traffic = <<>>
       /\ feed = <<>> /\ filings = NoFile /\ next = 1 /\ stage = "collapse"
       /\ best = [k \in Keys |-> None] /\ counts = [c \in Companies |-> 0]
       /\ index = [c \in Companies |-> None] /\ jobs = {} /\ view = None

ReportsNext ==
    \/ Next /\ UNCHANGED metricsVars
    \/ MetricsNext /\ UNCHANGED vars

ReportsSpec == ReportsInit /\ [][ReportsNext]_<<vars, metricsVars>>
=============================================================================
