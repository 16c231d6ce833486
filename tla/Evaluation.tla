----------------------------- MODULE Evaluation -----------------------------
(***************************************************************************)
(* What GET /evaluation reads off the loop: store.scored_outcomes pairs the *)
(* prediction each application is pinned to with the deepest stage its      *)
(* history reached (roleradar.outcomes).  Module Metrics says what is       *)
(* computed from those pairs.                                               *)
(***************************************************************************)
EXTENDS Loop, SequencesExt

FUNNEL == <<"applied", "oa", "phone_screen", "interview", "onsite", "offer">>

\* The position in the funnel; a stage outside it went nowhere.
Relevance(stage) ==
    IF \E i \in DOMAIN FUNNEL : FUNNEL[i] = stage
    THEN (CHOOSE i \in DOMAIN FUNNEL : FUNNEL[i] = stage) - 1
    ELSE 0

IsPositive(stage) == Relevance(stage) >= Relevance("oa")

\* Mutant: the latest stage is taken for the furthest.
FurthestStageLatest(stages) == Last(stages)

\* furthest_stage: the first of the deepest.
FurthestStage(stages) ==
    LET deepest == {i \in DOMAIN stages :
                       \A k \in DOMAIN stages : Relevance(stages[k]) <= Relevance(stages[i])}
    IN  stages[CHOOSE i \in deepest : \A k \in deepest : i <= k]

\* The stages of all applications of the user to the job, the first
\* application's first.  (Only the command line can have several; how their
\* events interleave decides between stages that are equally deep.)
StagesOf(u, j) ==
    FoldLeftDomain(LAMBDA stages, a :
                       IF a \in AppsOf(u, j)
                       THEN stages \o [i \in DOMAIN apps[a].log |-> apps[a].log[i].stage]
                       ELSE stages,
                   <<>>, apps)

\* The prediction of the application whose event came first.
Prediction(u, j) == apps[CHOOSE a \in AppsOf(u, j) : \A b \in AppsOf(u, j) : a <= b].rec

\* Whether the history says how the application went: an unanswered one, or
\* one withdrawn before any progress, does not.
Answered(stages) == \/ IsPositive(FurthestStage(stages))
                    \/ ToSet(stages) \cap {"rejected", "ghosted"} # {}

\* scored_outcomes: one row for each job that was predicted and answered.
ScoredOutcomes(u) ==
    LET Row(j)    == [job |-> j, rec |-> Prediction(u, j), stages |-> StagesOf(u, j)]
        predicted == {Row(j) : j \in {k \in Jobs : AppsOf(u, k) # {}}}
    IN  {[job |-> r.job, rec |-> r.rec, stage |-> FurthestStage(r.stages)] :
            r \in {p \in predicted : p.rec # Null /\ Answered(p.stages)}}

-----------------------------------------------------------------------------
\* A grade stands: once a prediction has been graded against an outcome, no
\* later event, re-score, second application or change of the decision takes
\* the row away, moves it to another prediction or takes back the progress it
\* was credited with ("an application rejected *after an onsite* is a success
\* signal for the ranker, not a failure", outcomes.py 70-72).
GradeStands ==
    [][apps' # apps =>
          \A u \in Owners : \A g \in ScoredOutcomes(u) :
              \E h \in ScoredOutcomes(u)' :
                  /\ h.job = g.job /\ h.rec = g.rec
                  /\ Relevance(h.stage) >= Relevance(g.stage)]_vars

=============================================================================
