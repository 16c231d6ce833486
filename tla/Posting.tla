------------------------------- MODULE Posting -------------------------------
(***************************************************************************)
(* What roleradar.requirements extracts from a posting.                    *)
(*                                                                         *)
(* A line is known by what the scanner's patterns find in it, after its    *)
(* bullet is stripped:                                                     *)
(*   header   the section it opens (_header_kind), or "none"               *)
(*   tone     "nice" if _NICE_WORDS is in it, else "must" if _MUST_WORDS   *)
(*            is, else "plain"                                             *)
(*   skills   the skills extract_skills finds in it                        *)
(*   either   a disjunction is in it and no conjunction                    *)
(*   years    the years of experience it asks for: none or one number      *)
(*   asks     the hard constraints its patterns match, at most one of each *)
(*            kind and value                                               *)
(* and a posting by its lines and by what its row says: titleSkills, the   *)
(* sponsor tier of its employer, its locations.                            *)
(***************************************************************************)
EXTENDS Naturals, Sequences, FiniteSets, SequencesExt

Sections    == {"required", "preferred", "neutral"}
Importances == {"required", "preferred"}

\* A hard constraint, with what the handlers read off its text: the years of
\* a graduation window, the rank of a degree, whether a clearance must be
\* active, the places named.
HardConstraint(kind, value) ==
    [kind |-> kind, value |-> value, years |-> {}, degree |-> 1,
     active |-> FALSE, places |-> {}]

-----------------------------------------------------------------------------
(* find_constraints and the promotions of extract_requirements.            *)

SameKey(c, d) == c.kind = d.kind /\ c.value = d.value

\* The first line with a (kind, value) gives the constraint.
FirstAsks(lines) ==
    {c \in UNION {lines[i].asks : i \in DOMAIN lines} :
        \E i \in DOMAIN lines :
            /\ c \in lines[i].asks
            /\ \A j \in 1 .. i - 1 : \A d \in lines[j].asks : ~SameKey(c, d)}

Says(asks, kind, value) == \E c \in asks : c.kind = kind /\ c.value = value

\* Mutant: of a contradiction the permissive half is kept.
FindConstraintsPermissive(lines) ==
    LET asks == FirstAsks(lines)
    IN  {c \in asks : ~ /\ c.kind = "sponsorship" /\ c.value = "unavailable"
                        /\ Says(asks, "sponsorship", "available")}

\* Of "sponsorship available" and "will not sponsor" the negative one is kept.
FindConstraints(lines) ==
    LET asks == FirstAsks(lines)
    IN  {c \in asks : ~ /\ c.kind = "sponsorship" /\ c.value = "available"
                        /\ Says(asks, "sponsorship", "unavailable")}

\* Where the text is silent, the sponsor tier and the row's locations speak.  Only
\* a pasted posting has no places: a table row without any stores the text "[]",
\* which is one, of that name.
Constraints(job) ==
    LET found    == FindConstraints(job.lines)
        Silent(kind) == \A c \in found : c.kind # kind
        byTier   == IF /\ job.tier \in {"does_not_sponsor", "citizen_only"}
                       /\ Silent("sponsorship")
                    THEN {HardConstraint("sponsorship", "unavailable")} ELSE {}
        byPlaces == IF job.places # {} /\ Silent("location")
                    THEN {[HardConstraint("location",
                              IF "remote" \in job.places THEN "remote" ELSE "onsite")
                           EXCEPT !.places = job.places]}
                    ELSE {}
    IN  found \cup byTier \cup byPlaces

-----------------------------------------------------------------------------
(* find_requirements: the section carries from line to line.               *)

\* Words in the line override its section; unlabelled prose is preferred.
LineImportance(line, section) ==
    CASE line.tone = "nice" -> "preferred"
      [] line.tone = "must" -> "required"
      [] OTHER -> IF section \in Importances THEN section ELSE "preferred"

\* A requirement: any one of its options, or years of experience.  Those are
\* kept apart by their line; by_skill has one for each set of options.
Requirement(options, years, line, importance) ==
    [options |-> options, years |-> years, line |-> line, importance |-> importance]

\* "Python or Go" is one ask, "Docker and Kubernetes" two.
AsksOf(line) ==
    IF line.either /\ Cardinality(line.skills) > 1
    THEN {line.skills} ELSE {{s} : s \in line.skills}

\* Mutant: the last mention of a skill wins.
MergeAsksLast(rows, asks, importance) ==
    {r \in rows : r.options \notin asks}
        \cup {Requirement(options, 0, 0, importance) : options \in asks}

\* A row that is required already, or would not become so, stays.
MergeAsks(rows, asks, importance) ==
    LET new == {options \in asks :
                   \A r \in rows : r.options = options =>
                       r.importance = "preferred" /\ importance = "required"}
    IN  {r \in rows : r.options \notin new}
            \cup {Requirement(options, 0, 0, importance) : options \in new}

ScanLine(lines, scan, i) ==
    LET line       == lines[i]
        importance == LineImportance(line, scan.section)
        asked      == MergeAsks(scan.rows, AsksOf(line), importance)
        aged       == {Requirement({}, y, i, importance) :
                           y \in IF line.skills = {} THEN line.years ELSE {}}
    IN  IF line.header # "none"
        THEN [scan EXCEPT !.section = line.header]
        ELSE [scan EXCEPT !.rows = asked \cup aged]

\* The rows and the section after each line.
ScanAll(lines) ==
    LET scan[i \in 0 .. Len(lines)] ==
            IF i = 0 THEN [section |-> "neutral", rows |-> {}]
            ELSE ScanLine(lines, scan[i - 1], i)
    IN  scan

\* Skills of the title are required unless a line named them.
FindRequirements(job) ==
    LET rows == ScanAll(job.lines)[Len(job.lines)].rows
    IN  rows \cup
            {Requirement({s}, 0, 0, "required") : s \in
                {t \in job.titleSkills : \A r \in rows : r.options # {t}}}

=============================================================================
