------------------------------ MODULE MCDecide ------------------------------
(* Decide on small instances.                                              *)
EXTENDS Decide

-----------------------------------------------------------------------------
(* Candidates.  The skills section comes before the project that proves    *)
(* what it lists, and "go" is only implied.                                *)

Listed  == [id |-> 1, demonstrated |-> FALSE, direct |-> {"python", "sql"},
            implied |-> {}, numbers |-> {}]
Project == [id |-> 2, demonstrated |-> TRUE, direct |-> {"python"},
            implied |-> {"go"}, numbers |-> {3}]

Unset == [needs_sponsorship |-> "unset", us_citizen |-> "unset",
          security_clearance |-> FALSE, relocates |-> TRUE, graduation |-> 0,
          degree |-> 1, seniority |-> "student", location |-> "austin",
          units |-> {Listed, Project}]
Visa  == [Unset EXCEPT !.needs_sponsorship = "yes", !.us_citizen = "no",
                       !.graduation = 2027, !.relocates = FALSE]
Local == [Unset EXCEPT !.needs_sponsorship = "no", !.us_citizen = "yes",
                       !.graduation = 2026, !.seniority = "mid"]

MCCandidates == {Unset, Visa, Local}

-----------------------------------------------------------------------------
(* Postings: what the lines say in every order, and rows of the table.     *)

Text == [header |-> "none", tone |-> "plain", skills |-> {}, either |-> FALSE,
         years |-> {}, asks |-> {}]

SkillLines ==
    {[Text EXCEPT !.header = "neutral"],  [Text EXCEPT !.header = "preferred"],
     [Text EXCEPT !.skills = {"python"}], [Text EXCEPT !.skills = {"python"}, !.tone = "nice"],
     [Text EXCEPT !.skills = {"python", "rust"}, !.tone = "must"],
     [Text EXCEPT !.skills = {"go", "sql"}, !.either = TRUE]}

Asking(asks) == [Text EXCEPT !.asks = asks]
AskLines ==
    {Asking({HardConstraint("sponsorship", "available")}),
     Asking({HardConstraint("sponsorship", "unavailable"),
             HardConstraint("work_authorization", "required")}),
     Asking({HardConstraint("enrollment", "required"),
             [HardConstraint("graduation_window", "required") EXCEPT !.years = {2027}]})}

Job(key, lines) ==
    [key |-> key, company |-> 1, lines |-> lines, titleSkills |-> {"python"},
     tier |-> "unknown", places |-> {}, seniority |-> "intern", similarity |-> 10000]

Header    == [Text EXCEPT !.header = "required"]
SkillJobs == {Job(1, first \o rest) : first \in {<<>>, <<Header>>},
                                      rest \in [1 .. 2 -> SkillLines]}
AskJobs   == {[Job(2, lines) EXCEPT !.tier = tier, !.places = places] :
                 lines \in {<<>>} \cup [1 .. 1 -> AskLines] \cup [1 .. 2 -> AskLines],
                 tier \in {"unknown", "does_not_sponsor"},
                 places \in {{}, {"boston"}}}

\* Four flags that are not vetoes; the candidate matches all the rest.
Flags ==
    {HardConstraint("clearance", "required"),
     HardConstraint("citizenship", "required"),
     HardConstraint("sponsorship", "unavailable"),
     [HardConstraint("graduation_window", "required") EXCEPT !.years = {2025, 2026}]}
Flagged == Job(3, <<Asking(Flags)>>)
Plain   == Job(4, <<>>)
Staff   == [Job(5, <<[Text EXCEPT !.skills = {"rust"}, !.tone = "must"],
                     [Text EXCEPT !.years = {2}],
                     Asking({HardConstraint("clearance", "required")})>>)
            EXCEPT !.seniority = "staff", !.similarity = 0, !.company = 2,
                    !.titleSkills = {"rust"}]
Closed  == [Job(6, <<Asking({HardConstraint("sponsorship", "unavailable"),
                             HardConstraint("enrollment", "required")})>>)
            EXCEPT !.company = 3]

MCPostings  == SkillJobs \cup AskJobs \cup {Flagged, Plain, Staff, Closed}
MCExplained == {Flagged}
MCPools     == {s \in [1 .. 3 -> {Flagged, Plain, Staff, Closed}] :
                   \A i, j \in 1 .. 3 : s[i] = s[j] => i = j}

-----------------------------------------------------------------------------
(* Replies: a good one, one that invents, one of which something is left.  *)

Claim(ids, numbers) == [formed |-> TRUE, ids |-> ids, numbers |-> numbers]
Sound    == Claim({2}, {3})
Invented == Claim({1, 2}, {3, 5})
MCReplies == {{}, {Claim({2}, {}), Invented}, {Sound, Claim({7}, {}), Claim({}, {})}}

=============================================================================
