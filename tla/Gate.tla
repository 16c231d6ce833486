-------------------------------- MODULE Gate --------------------------------
(***************************************************************************)
(* One posting scored against one candidate: roleradar's constraints,      *)
(* skills_match and ranking.  No state: operators on a posting (module     *)
(* Posting) and a candidate,                                               *)
(*   needs_sponsorship, us_citizen      "yes", "no" or "unset"             *)
(*   security_clearance, relocates      BOOLEAN                            *)
(*   graduation                         a year, 0 when not set             *)
(*   degree                             0 .. 3, associates to phd          *)
(*   seniority, location                                                   *)
(*   units      the evidence of the resume: [id, demonstrated, direct,     *)
(*              implied, numbers], the skills it names, those they imply   *)
(*              and the numbers in its text                                *)
(* Fractions are counted in ten-thousandths, as the code rounds them.      *)
(***************************************************************************)
EXTENDS Integers, Posting

-----------------------------------------------------------------------------
(* constraints: a status for each hard constraint.                         *)

Sponsorship(c, p) ==
    IF c.value = "available" THEN "ok"
    ELSE [no |-> "ok", yes |-> "blocked", unset |-> "unknown"][p.needs_sponsorship]

Citizenship(p) ==
    [yes |-> "ok", no |-> "blocked", unset |-> "unknown"][p.us_citizen]

Clearance(c, p) ==
    IF p.security_clearance THEN "ok" ELSE IF c.active THEN "blocked" ELSE "risk"

WorkAuth(p) == IF p.needs_sponsorship = "yes" THEN "risk" ELSE "ok"

Graduation(c, p) ==
    IF p.graduation = 0 THEN "unknown"
    ELSE IF c.years = {} THEN "risk"
    ELSE IF \E y, z \in c.years : y <= p.graduation /\ p.graduation <= z
    THEN "ok" ELSE "blocked"

Degree(c, p) == IF p.degree >= c.degree THEN "ok" ELSE "risk"

Enrollment(p) == IF p.seniority = "student" THEN "ok" ELSE "blocked"

Location(c, p) ==
    IF c.value = "remote" \/ p.location \in c.places THEN "ok"
    ELSE IF p.relocates THEN "risk" ELSE "blocked"

StatusOf(c, p) ==
    CASE c.kind = "sponsorship"        -> Sponsorship(c, p)
      [] c.kind = "citizenship"        -> Citizenship(p)
      [] c.kind = "clearance"          -> Clearance(c, p)
      [] c.kind = "work_authorization" -> WorkAuth(p)
      [] c.kind = "graduation_window"  -> Graduation(c, p)
      [] c.kind = "degree"             -> Degree(c, p)
      [] c.kind = "enrollment"         -> Enrollment(p)
      [] c.kind = "location"           -> Location(c, p)
      [] OTHER                         -> "unknown"

\* The gate: the verdict on each constraint.
Evaluate(job, p) == {[constraint |-> c, status |-> StatusOf(c, p)] : c \in Constraints(job)}

Passed(gate) == \A v \in gate : v.status # "blocked"
Risks(gate)  == {v \in gate : v.status \in {"risk", "unknown"}}

RiskWeight(kind) ==
    CASE kind = "clearance" -> 1200
      [] kind \in {"citizenship", "sponsorship"} -> 1000
      [] kind = "graduation_window" -> 800
      [] kind \in {"degree", "enrollment"} -> 500
      [] kind \in {"location", "work_authorization"} -> 400
      [] OTHER -> 300

AtMost(a, b) == IF a <= b THEN a ELSE b

\* Mutant: the penalty has no cap.
RiskPenaltyUncapped(gate) ==
    SumFunction([v \in Risks(gate) |-> RiskWeight(v.constraint.kind)])

RiskPenalty(gate) ==
    AtMost(3000, SumFunction([v \in Risks(gate) |-> RiskWeight(v.constraint.kind)]))

-----------------------------------------------------------------------------
(* skills_match: the coverage of a requirement and the evidence it cites.  *)

ScoreFor(relation, demonstrated) ==
    CASE relation = "direct"  /\ demonstrated  -> 10000
      [] relation = "implied" /\ demonstrated  -> 7500
      [] relation = "direct"  /\ ~demonstrated -> 5500
      [] OTHER -> 4000

\* The index's entries for these options; a skill named outright is direct.
Scored(options, units) ==
    {[unit |-> e[1], option |-> e[2],
      score |-> ScoreFor(IF e[2] \in e[1].direct THEN "direct" ELSE "implied",
                         e[1].demonstrated)] :
        e \in {x \in units \X options : x[2] \in x[1].direct \cup x[1].implied}}

\* The order of citation: the strongest first, then by id.
Outranks(e, f) == \/ e.score > f.score
                  \/ e.score = f.score /\ e.unit.id < f.unit.id

\* Mutant: the first evidence found is taken for the strongest.
BestScoreFirst(scored) ==
    (CHOOSE e \in scored : \A f \in scored : e.unit.id <= f.unit.id).score

BestScore(scored) == (CHOOSE e \in scored : \A f \in scored : ~Outranks(f, e)).score

MaxCitations == 3

Cited(scored) ==
    {e.unit.id : e \in {f \in scored :
        Cardinality({g \in scored : Outranks(g, f)}) < MaxCitations}}

\* n / d, rounded.
Ratio(n, d) == (2 * n + d) \div (2 * d)

SeniorityTenths == [student |-> 5, junior |-> 15, mid |-> 35, senior |-> 70, staff |-> 100]

CoverYears(years, p) ==
    IF years = 0 THEN 10000
    ELSE AtMost(10000, Ratio(SeniorityTenths[p.seniority] * 1000, years))

CoverRequirement(r, p) ==
    LET scored == Scored(r.options, p.units)
    IN  [requirement |-> r,
         score |-> IF r.options = {} THEN CoverYears(r.years, p)
                   ELSE IF scored = {} THEN 0 ELSE BestScore(scored),
         cites |-> Cited(scored)]

CoverAll(job, p) == {CoverRequirement(r, p) : r \in FindRequirements(job)}

Strong(c) == c.score >= 7500

\* Nothing asked is everything covered.
Average(coverages) ==
    IF coverages = {} THEN 10000
    ELSE Ratio(SumFunction([c \in coverages |-> c.score]), Cardinality(coverages))

RequiredCoverage(coverages) ==
    Average({c \in coverages : c.requirement.importance = "required"})

PreferredCoverage(coverages) ==
    Average({c \in coverages : c.requirement.importance = "preferred"})

\* The rows an explanation shows.
Gaps(coverages) ==
    {c \in coverages : c.requirement.importance = "required" /\ ~Strong(c)}
Strengths(coverages) == {c \in coverages : Strong(c) /\ c.cites # {}}

-----------------------------------------------------------------------------
(* ranking: the score and the verdict.                                     *)

\* In half levels.
CandidateLevel == [student |-> 0, junior |-> 2, mid |-> 4, senior |-> 6, staff |-> 8]
JobLevel == [intern |-> 0, new_grad |-> 1, junior |-> 2, mid |-> 4, senior |-> 6,
             staff |-> 8]

SeniorityFit(job, p) ==
    IF job.seniority = "unknown" THEN 6000
    ELSE LET reach == JobLevel[job.seniority] - CandidateLevel[p.seniority]
             cost  == IF reach > 0 THEN 1750 * reach ELSE -750 * reach
         IN  10000 - AtMost(cost, 10000)

\* Mutant: risks may leave less than nothing.
ScoreOfUnclamped(required, preferred, similarity, fit, penalty) ==
    Ratio(50 * required + 15 * preferred + 20 * similarity + 15 * fit - 100 * penalty, 100)

ScoreOf(required, preferred, similarity, fit, penalty) ==
    LET raw  == 50 * required + 15 * preferred + 20 * similarity + 15 * fit - 100 * penalty
    IN  IF raw < 0 THEN 0 ELSE AtMost(10000, Ratio(raw, 100))

APPLY_THRESHOLD    == 7000
STRETCH_THRESHOLD  == 4500
APPLY_MIN_REQUIRED == 6000

VerdictOf(score, gate, required) ==
    IF ~Passed(gate) THEN "blocked"
    ELSE IF score >= APPLY_THRESHOLD /\ required >= APPLY_MIN_REQUIRED THEN "apply"
    ELSE IF score >= STRETCH_THRESHOLD THEN "stretch" ELSE "skip"

\* decide_prepared, up to the explanation.
DecidePrepared(job, p) ==
    LET gate      == Evaluate(job, p)
        coverages == CoverAll(job, p)
        required  == RequiredCoverage(coverages)
        score     == ScoreOf(required, PreferredCoverage(coverages), job.similarity,
                             SeniorityFit(job, p), RiskPenalty(gate))
    IN  [job |-> job.key, company |-> job.company, gate |-> gate,
         coverages |-> coverages, score |-> score,
         verdict |-> VerdictOf(score, gate, required)]

=============================================================================
