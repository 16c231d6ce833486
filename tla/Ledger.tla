------------------------------- MODULE Ledger -------------------------------
(***************************************************************************)
(* What RoleRadar's application tracking promises its users, stated with   *)
(* no transactions, locks, requests or retries: a list of applications,    *)
(* each pinned at birth to a user, a job and a prediction, each with a     *)
(* history that only grows and a summary (current stage, applied date)     *)
(* that the history justifies.                                             *)
(*                                                                         *)
(* Lenient = FALSE is the promise of the decision/application API: the     *)
(* stage machine is enforced.  Lenient = TRUE is what remains once the     *)
(* outcome log (POST /outcomes, `roleradar outcome add`) also writes: any  *)
(* stage may follow any stage.  Module Loop is shown to implement this one *)
(* at the matching value of Lenient.                                       *)
(***************************************************************************)
EXTENDS Naturals, Sequences

CONSTANTS Users,      \* registered users
          Cli,        \* stands for user_id NULL: the single-user command line
          Jobs,
          Predictions, \* identifiers of saved recommendations
          Dates,       \* seconds at which events occur
          Lenient

\* What an instance of this module gives its constants: the hypothesis under
\* which LedgerProofs speaks of it, and which LoopProofs shows of Loop's.
LedgerAssumption ==
    /\ Cli \notin Users
    /\ Predictions \subseteq Nat \ {0}
    /\ Dates \subseteq Nat \ {0}
    /\ Lenient \in BOOLEAN

VARIABLE ledger

\* The stage vocabulary (store.py APPLICATION_STAGES and TERMINAL_STAGES).
APPLICATION_STAGES == {"planned", "applied", "oa", "phone_screen",
                       "interview", "onsite", "offer"}
TERMINAL_STAGES    == {"rejected", "ghosted", "withdrawn", "offer"}
ALL_STAGES         == APPLICATION_STAGES \cup TERMINAL_STAGES

\* NULL in an integer column: identifiers and times are positive.
Null == 0

Owners == Users \cup {Cli}

\* One row of rr_applications joined with its rr_application_events in
\* event_id order.  linked says job_decision_id IS NOT NULL.
Event       == [stage : ALL_STAGES, at : Dates]
Application == [user : Owners, job : Jobs, linked : BOOLEAN,
                rec : Predictions \cup {Null}, stage : ALL_STAGES,
                applied_at : Dates \cup {Null}, log : Seq(Event)]

LastEvent(a) == a.log[Len(a.log)]

\* The stage machine of the API: a terminal stage is a dead end, repeating
\* the current stage is not a move, and "planned" is never re-entered.
Advances(from, to) ==
    /\ from \notin TERMINAL_STAGES
    /\ to # from
    /\ to # "planned"

\* The application a request opens: its first event justifies its stage.
NewApplication(u, j, linked, rec, s, t) ==
    [user |-> u, job |-> j, linked |-> linked, rec |-> rec, stage |-> s,
     applied_at |-> IF s = "applied" THEN t ELSE Null,
     log |-> <<[stage |-> s, at |-> t]>>]

\* An application one event later; d is its applied date from then on.
Extended(a, s, d, t) ==
    [a EXCEPT !.stage = s, !.applied_at = d,
              !.log = Append(@, [stage |-> s, at |-> t])]

-----------------------------------------------------------------------------

Init == ledger = <<>>

(* A new application.  A registered user has at most one per job; the      *)
(* strict API only opens them from an APPLY decision, in "planned".        *)
Open(u, j, linked, rec, s, t) ==
    /\ u \in Users => \A i \in DOMAIN ledger :
                          <<ledger[i].user, ledger[i].job>> # <<u, j>>
    /\ Lenient \/ (linked /\ s = "planned")
    /\ ledger' = Append(ledger, NewApplication(u, j, linked, rec, s, t))

(* One more event on application i; nothing else about it changes, except  *)
(* that the first "applied" event dates the application.                   *)
Record(i, s, t) ==
    /\ Lenient \/ Advances(ledger[i].stage, s)
    /\ \E d \in {ledger[i].applied_at, t} :
          /\ s # "applied" => d = ledger[i].applied_at
          /\ ~Lenient =>
                d = IF s = "applied" /\ ledger[i].applied_at = Null
                    THEN t ELSE ledger[i].applied_at
          /\ ledger' = [ledger EXCEPT ![i] = Extended(@, s, d, t)]

Next ==
    \/ \E u \in Owners, j \in Jobs, linked \in BOOLEAN,
          rec \in Predictions \cup {Null}, s \in ALL_STAGES, t \in Dates :
          Open(u, j, linked, rec, s, t)
    \/ \E i \in DOMAIN ledger, s \in ALL_STAGES, t \in Dates : Record(i, s, t)

Spec == Init /\ [][Next]_ledger

-----------------------------------------------------------------------------

\* Every ledger is a list of well-formed applications with a history.
TypeOK ==
    /\ ledger \in Seq(Application)
    /\ \A i \in DOMAIN ledger : Len(ledger[i].log) > 0

\* The current stage of every application is the stage of its last event:
\* funnel (current_stage) and history never disagree.
StageIsLastEvent ==
    \A i \in DOMAIN ledger : ledger[i].stage = LastEvent(ledger[i]).stage

\* A registered user has one application per job.
OnePerJob ==
    \A i, k \in DOMAIN ledger :
        /\ ledger[i].user \in Users
        /\ ledger[i].user = ledger[k].user
        /\ ledger[i].job = ledger[k].job
        => i = k

\* Strict histories start in "planned", never move on from a terminal stage,
\* never repeat a stage in a row and never return to "planned".
LegalHistory ==
    \A i \in DOMAIN ledger :
        LET log == ledger[i].log IN
        /\ log[1].stage = "planned"
        /\ \A n \in 1 .. Len(log) - 1 : Advances(log[n].stage, log[n + 1].stage)

\* The applied date is the date of the FIRST "applied" event, and is NULL
\* exactly when there is none.
AppliedOnce ==
    \A i \in DOMAIN ledger :
        LET log == ledger[i].log IN
        IF ledger[i].applied_at = Null
        THEN \A n \in DOMAIN log : log[n].stage # "applied"
        ELSE \E n \in DOMAIN log :
                /\ log[n].stage = "applied"
                /\ log[n].at = ledger[i].applied_at
                /\ \A m \in 1 .. n - 1 : log[m].stage # "applied"

=============================================================================
