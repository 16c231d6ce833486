------------------------------ MODULE Metrics ------------------------------
(***************************************************************************)
(* The two reports computed from what the system recorded: the evaluation   *)
(* of the ranking (roleradar.outcomes) and the rollup of the HTTP traffic   *)
(* (jobengine.analytics).                                                   *)
(*                                                                          *)
(* Numbers are integers: a score is in thousandths, a ratio in              *)
(* ten-thousandths, the precision the code rounds to, and a discount        *)
(* 1 / log2(i + 1) of nDCG in units of the constant Discounts.  The square  *)
(* root of the rank correlation is left to whoever compares it.             *)
(***************************************************************************)
EXTENDS Integers, Sequences, FiniteSets, SequencesExt

CONSTANTS Samples,    \* the outcomes to evaluate, as the database returns them
          Traffic,    \* the rows of api_events within the window
          Discounts,  \* what position 1, 2, ... of a ranking counts
          Cutoffs,    \* the k of nDCG, precision and lift: 5 and 10
          MIN_SAMPLE  \* 10

VARIABLES sample, traffic, report

metricsVars == <<sample, traffic, report>>

\* relevance is the depth in the funnel; "oa", the first step, is positive.
Outcome == [score : 0 .. 1000, relevance : 0 .. 5]
Event == [route : STRING, status : Nat, duration : Nat, user : Nat]
NoUser == 0

UNIT == 10000
Rounded(n, d) == (2 * UNIT * n + d) \div (2 * d)
Atmost(k, n) == IF k < n THEN k ELSE n

\* The discounts fall, each by more than rounding hides: half a ten-thousandth
\* of the most that k outcomes of the highest relevance count.
FineDiscounts(k) ==
    \A i \in 1 .. k :
        LET after == IF i < k THEN Discounts[i + 1] ELSE 0
        IN  2 * UNIT * (Discounts[i] - after) > 5 * SumFunctionOnSet(Discounts, 1 .. k)

ASSUME MetricsAssumption ==
    /\ \A s \in Samples : s \in Seq(Outcome)
    /\ \A es \in Traffic : es \in Seq(Event)
    /\ MIN_SAMPLE \in Nat \ {0}
    /\ Cutoffs \subseteq Nat \ {0}
    /\ Discounts \in Seq(Nat \ {0})
    /\ \A k \in Cutoffs : k <= Len(Discounts) /\ FineDiscounts(k)

Positive(o) == o.relevance >= 1
\* A stable sort: the n-th is the one that n - 1 others come before.
SortedBy(s, Precedes(_, _)) ==
    LET Ahead(i, j) == \/ Precedes(s[i], s[j])
                       \/ ~Precedes(s[j], s[i]) /\ i < j
        before == [i \in DOMAIN s |-> Cardinality({j \in DOMAIN s : Ahead(j, i)})]
    IN  [n \in DOMAIN s |-> s[CHOOSE i \in DOMAIN s : before[i] = n - 1]]

Positives(s) == Cardinality({i \in DOMAIN s : Positive(s[i])})
-----------------------------------------------------------------------------
(* The evaluation of a ranking, best score first.                          *)

\* Mutant: the outcomes are evaluated as the database returned them.
RankedAsGiven(s) == s

\* By score, highest first.
Ranked(s) == SortedBy(s, LAMBDA a, b : a.score > b.score)

Relevances(s) == [i \in DOMAIN s |-> s[i].relevance]
Ideal(rels) == SortedBy(rels, LAMBDA a, b : a > b)

Dcg(rels, k) == SumFunction([i \in 1 .. Atmost(k, Len(rels)) |-> rels[i] * Discounts[i]])

NdcgAtK(rels, k) ==
    LET ideal == Dcg(Ideal(rels), k)
    IN  IF ideal = 0 THEN 0 ELSE Rounded(Dcg(rels, k), ideal)

PrecisionAtK(s, k) ==
    IF s = <<>> THEN 0
    ELSE Rounded(Positives(SubSeq(s, 1, Atmost(k, Len(s)))), Atmost(k, Len(s)))

\* The precision at k over the base rate.
LiftAtK(s, k) ==
    IF Positives(s) = 0 THEN 0
    ELSE Rounded(PrecisionAtK(s, k) * Len(s), Positives(s) * UNIT)

Bins == 5

BinOf(score) == Atmost(Bins - 1, (score * Bins) \div 1000)

\* Empty bins are left out.
CalibrationBins(s) ==
    LET Of(b) == {i \in DOMAIN s : BinOf(s[i].score) = b}
    IN  {[bin  |-> b,
          n    |-> Cardinality(Of(b)),
          rate |-> Rounded(Cardinality({i \in Of(b) : Positive(s[i])}), Cardinality(Of(b)))] :
            b \in {BinOf(s[i].score) : i \in DOMAIN s}}

\* Mutant: ties are ranked as they come.
RanksAsTheyCome(values) ==
    LET order == SortedBy([i \in DOMAIN values |-> i], LAMBDA i, j : values[i] < values[j])
    IN  [i \in DOMAIN values |-> 2 * (CHOOSE p \in DOMAIN order : order[p] = i)]

\* Twice the rank: along the sorted positions each run of equal values shares
\* the average of its first and last.
Ranks(values) ==
    LET order == SortedBy([i \in DOMAIN values |-> i], LAMBDA i, j : values[i] < values[j])
        Run(i) == {p \in DOMAIN order : values[order[p]] = values[i]}
        First(i) == CHOOSE p \in Run(i) : \A q \in Run(i) : p <= q
        Final(i) == CHOOSE p \in Run(i) : \A q \in Run(i) : p >= q
    IN  [i \in DOMAIN values |-> First(i) + Final(i)]

\* The covariance and the variances of the ranks.
Spearman(a, b) ==
    LET n == Len(a)
        x == Ranks(a)
        y == Ranks(b)
        mean == n + 1
    IN  [cov |-> SumFunction([i \in 1 .. n |-> (x[i] - mean) * (y[i] - mean)]),
         va  |-> SumFunction([i \in 1 .. n |-> (x[i] - mean) * (x[i] - mean)]),
         vb  |-> SumFunction([i \in 1 .. n |-> (y[i] - mean) * (y[i] - mean)])]

Withheld == [withheld |-> TRUE]

\* evaluate: below the minimum, or without a positive, nothing is reported.
Evaluate(s) ==
    LET r == Ranked(s)
    IN  IF Len(s) < MIN_SAMPLE \/ Positives(s) = 0 THEN Withheld
        ELSE [withheld    |-> FALSE,
              ndcg        |-> [k \in Cutoffs |-> NdcgAtK(Relevances(r), k)],
              precision   |-> [k \in Cutoffs |-> PrecisionAtK(r, k)],
              lift        |-> [k \in Cutoffs |-> LiftAtK(r, k)],
              spearman    |-> Spearman([i \in DOMAIN r |-> r[i].score], Relevances(r)),
              calibration |-> CalibrationBins(r)]
-----------------------------------------------------------------------------
(* The rollup of the traffic.                                              *)

\* Mutant: the index is cut, not rounded up.
PercentileCut(sorted, pct) ==
    IF sorted = <<>> THEN 0
    ELSE LET i == (pct * Len(sorted)) \div 100
         IN  sorted[IF i < 1 THEN 1 ELSE Atmost(i, Len(sorted))]

\* int(pct * N + 0.9999), clamped to the sample; pct is in hundredths.
Percentile(sorted, pct) ==
    IF sorted = <<>> THEN 0
    ELSE LET i == (100 * pct * Len(sorted) + 9999) \div UNIT
         IN  sorted[IF i < 1 THEN 1 ELSE Atmost(i, Len(sorted))]

Durations(es) == SortedBy([i \in DOMAIN es |-> es[i].duration], LAMBDA a, b : a < b)

Errors(es) == Cardinality({i \in DOMAIN es : es[i].status >= 500})
ClientErrors(es) == Cardinality({i \in DOMAIN es : es[i].status \in 400 .. 499})

OfRoute(es, route) ==
    FoldLeft(LAMBDA rs, e : IF e.route = route THEN Append(rs, e) ELSE rs, <<>>, es)

RouteRow(es, route) ==
    LET rs == OfRoute(es, route)
    IN  [route |-> route, requests |-> Len(rs), p50 |-> Percentile(Durations(rs), 50),
         p95 |-> Percentile(Durations(rs), 95), errors |-> Errors(rs)]

Summarise(es) ==
    LET ds == Durations(es)
    IN  [requests |-> Len(es),
         active   |-> Cardinality({es[i].user : i \in DOMAIN es} \ {NoUser}),
         errors   |-> IF es = <<>> THEN 0 ELSE Rounded(Errors(es), Len(es)),
         refused  |-> IF es = <<>> THEN 0 ELSE Rounded(ClientErrors(es), Len(es)),
         latency  |-> [pct \in {50, 95, 99} |-> Percentile(ds, pct)],
         routes   |-> {RouteRow(es, r) : r \in {es[i].route : i \in DOMAIN es}}]
-----------------------------------------------------------------------------
NoReport == [of |-> "nothing"]

MetricsInit == sample \in Samples /\ traffic \in Traffic /\ report = NoReport

\* GET /evaluation and `roleradar evaluate`.
GetEvaluation ==
    /\ report = NoReport
    /\ report' = [of |-> "sample", value |-> Evaluate(sample)]
    /\ UNCHANGED <<sample, traffic>>

\* GET /api/analytics/summary.
AnalyticsSummary ==
    /\ report = NoReport
    /\ report' = [of |-> "traffic", value |-> Summarise(traffic)]
    /\ UNCHANGED <<sample, traffic>>

MetricsNext == GetEvaluation \/ AnalyticsSummary

MetricsSpec == MetricsInit /\ [][MetricsNext]_metricsVars
-----------------------------------------------------------------------------
(* Properties.                                                             *)

Graded == report.of = "sample" /\ ~report.value.withheld

Swapped(s, i) == [s EXCEPT ![i] = s[i + 1], ![i + 1] = s[i]]

\* The evaluation is about the outcomes, not about the order a database
\* returns them in: two neighbours may change places and no metric moves, as
\* long as their scores differ ("a caller that forgot would get
\* plausible-looking nonsense", outcomes.py 234-237).
OrderFree ==
    report.of = "sample" =>
        \A i \in 1 .. Len(sample) - 1 :
            sample[i].score # sample[i + 1].score =>
                Evaluate(Swapped(sample, i)) = report.value

\* nDCG is 1 for the ideal order and for no other, never more, and moving the
\* better of two neighbours up never lowers it (outcomes.ndcg_at_k).
NdcgRewardsOrder ==
    Graded =>
        LET rels == Relevances(Ranked(sample))
        IN  \A k \in Cutoffs :
              LET best == SubSeq(Ideal(rels), 1, Atmost(k, Len(rels)))
              IN  /\ report.value.ndcg[k] <= UNIT
                  /\ report.value.ndcg[k] = UNIT <=> SubSeq(rels, 1, Atmost(k, Len(rels))) = best
                  /\ \A i \in 1 .. Len(rels) - 1 :
                        rels[i] < rels[i + 1] =>
                            NdcgAtK(Swapped(rels, i), k) >= report.value.ndcg[k]

\* The bins of the calibration partition the sample: each outcome is in the
\* one whose bounds hold its score, a score of 1 in the last, and the positives
\* of the bins are those of the sample (outcomes.calibration_bins).
BinsPartition ==
    Graded =>
        LET bins == report.value.calibration
        IN  /\ \A b \in bins :
                  /\ b.bin < Bins
                  /\ b.n = Cardinality({i \in DOMAIN sample :
                               /\ sample[i].score * Bins >= b.bin * 1000
                               /\ \/ sample[i].score * Bins < (b.bin + 1) * 1000
                                  \/ b.bin = Bins - 1})
            /\ MapThenSumSet(LAMBDA b : b.n, bins) = Len(sample)
            /\ MapThenSumSet(LAMBDA b : (2 * b.rate * b.n + UNIT) \div (2 * UNIT), bins)
                  = Positives(sample)

\* Ties share their ranks: the rank of a value is set by how many are below
\* and how many are equal, not by where it stands, and a ranking that tells
\* nothing apart is not correlated with anything (outcomes.spearman: "the
\* naive implementation ... systematically overstates correlation").
TiesShareRanks ==
    Graded =>
        LET rels == Relevances(Ranked(sample))
            c    == report.value.spearman
        IN  /\ \A i \in DOMAIN rels :
                  Ranks(rels)[i] = 1 + 2 * Cardinality({j \in DOMAIN rels : rels[j] < rels[i]})
                                     + Cardinality({j \in DOMAIN rels : rels[j] = rels[i]})
            /\ (\A i, j \in DOMAIN rels : rels[i] = rels[j]) => c.cov = 0
            /\ c.cov * c.cov <= c.va * c.vb

\* A percentile is the least duration that the given share of the requests
\* does not exceed (analytics._percentile, "Nearest-rank").
NearestRank ==
    (report.of = "traffic" /\ traffic # <<>>) =>
        \A pct \in {50, 95, 99} :
            LET p == report.value.latency[pct]
                UpTo(d) == Cardinality({i \in DOMAIN traffic : traffic[i].duration <= d})
            IN  /\ 100 * UpTo(p) >= pct * Len(traffic)
                /\ \E i \in DOMAIN traffic : traffic[i].duration = p
                /\ \A i \in DOMAIN traffic :
                      traffic[i].duration < p => 100 * UpTo(traffic[i].duration) < pct * Len(traffic)

\* The routes' rows add up to the whole, and nothing a client did wrong counts
\* as an error of the server: with no status of 500 or more the error rate is
\* 0 whatever was refused (analytics.summary 96-100).
RoutesAddUp ==
    report.of = "traffic" =>
        /\ MapThenSumSet(LAMBDA r : r.requests, report.value.routes) = report.value.requests
        /\ (\A i \in DOMAIN traffic : traffic[i].status < 500) => report.value.errors = 0
        /\ \A r \in report.value.routes :
              /\ r.requests > 0 /\ r.errors <= r.requests /\ r.p50 <= r.p95
              /\ report.value.latency[50] <= report.value.latency[95]

\* Each metric of the evaluation is what its name says: the order, the bins
\* and the ranks of what was measured (outcomes.evaluate).
EvaluationAgrees == NdcgRewardsOrder /\ BinsPartition /\ TiesShareRanks

\* The traffic report is that of the requests served (analytics.summary).
TrafficAgrees == NearestRank /\ RoutesAddUp
=============================================================================
