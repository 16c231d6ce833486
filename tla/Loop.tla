-------------------------------- MODULE Loop --------------------------------
(***************************************************************************)
(* RoleRadar's recommendation -> decision -> application -> outcome loop:  *)
(* src/roleradar/store.py under the routes of src/roleradar/api_v2.py.     *)
(*                                                                         *)
(* FastAPI runs these handlers on threads, so several requests are open at *)
(* once (Workers).  A request is a chain of database statements; between   *)
(* two of them any other request may run.  A statement that only reads is  *)
(* a step of its own.  The writes of a transaction and its commit are one  *)
(* step: PostgreSQL at READ COMMITTED shows them to others only at commit, *)
(* and the first of them takes the row lock the others need.               *)
(*                                                                         *)
(* Row locks that last longer than one step are read off the position of   *)
(* their holder: advance_application holds its application row and         *)
(* record_outcome its users row, from SELECT ... FOR UPDATE to commit.     *)
(* RowLocks is FALSE on SQLite, where FOR UPDATE compiles to nothing.      *)
(***************************************************************************)
EXTENDS Naturals, Sequences, FiniteSets

CONSTANTS Users,            \* registered users
          Cli,              \* user_id NULL: the `roleradar` command line
          Jobs,             \* job keys
          Workers,          \* request threads (and command-line processes)
          RowLocks,         \* TRUE on PostgreSQL, FALSE on SQLite
          Legacy,           \* whether record_outcome is in use
          DecisionInputs,   \* the decisions clients send
          ReasonInputs,     \* the reasons they give
          StageInputs,      \* the stages they send
          MaxRecs,          \* bound: recommendations saved
          MaxRequests,      \* bound: requests begun
          MaxClock          \* bound: seconds

VARIABLES recs,       \* rr_decisions, in decision_id order
          jds,        \* job_decisions, by (user, job): the unique index
          apps,       \* rr_applications and their rr_application_events
          req,        \* the request each worker is serving
          status,     \* how each worker's last request was answered, if it was
          emitted,    \* rr_analytics_events: rows of each kind
          moved,      \* history: commits that changed a row, by kind
          requests,   \* requests begun so far
          clock

vars == <<recs, jds, apps, req, status, emitted, moved, requests, clock>>

L == INSTANCE Ledger WITH ledger <- apps, Lenient <- Legacy,
                          Predictions <- 1 .. MaxRecs, Dates <- 1 .. MaxClock

Null             == L!Null
Owners           == L!Owners
TERMINAL_STAGES  == L!TERMINAL_STAGES
ALL_STAGES       == L!ALL_STAGES
VALID_DECISIONS  == {"apply", "save", "skip", "defer"}

Dates   == 1 .. MaxClock     \* seconds
RecIds  == 0 .. MaxRecs      \* decision_id, or Null
Unset   == "unset"           \* a PATCH field the client left out
NoRow   == [rec |-> Null, decision |-> Unset, reason |-> Unset]
Reasons == ReasonInputs \cup {Unset}

ASSUME LoopAssumption ==
    /\ Cli \notin Users
    /\ Jobs # {} /\ IsFiniteSet(Jobs)
    /\ IsFiniteSet(Workers)
    /\ RowLocks \in BOOLEAN
    /\ Legacy \in BOOLEAN
    /\ DecisionInputs \subseteq VALID_DECISIONS
    /\ StageInputs \subseteq ALL_STAGES
    /\ MaxRecs \in Nat /\ MaxRequests \in Nat /\ MaxClock \in Nat \ {0}

Recommendation == [user : Owners, job : Jobs, at : Dates]
JobDecision    == [rec : RecIds, decision : VALID_DECISIONS, reason : Reasons]

\* Where a request stands.  "x_y" is about to run statement y of operation x.
Steps == {"idle", "post_select", "post_write", "patch_select", "patch_write",
          "create_decision", "create_existing", "create_insert",
          "advance_lock", "advance_write",
          "outcome_lock", "outcome_select", "outcome_write", "emit"}

\* The kinds of rr_analytics_events row this loop writes.
Kinds == {"decision", "created", "stage"}

\* A request and the values it has read: app and applied_at from an
\* application row, row from a job_decisions row, rec from rr_decisions.
Request == [step : Steps, user : Owners, job : Jobs,
            value : VALID_DECISIONS \cup ALL_STAGES \cup {Unset},
            reason : Reasons, at : Dates \cup {Null}, rec : RecIds,
            app : Nat, applied_at : Dates \cup {Null}, row : JobDecision \cup {NoRow},
            kind : Kinds \cup {Unset}]

Blank == [step |-> "idle", user |-> Cli, job |-> CHOOSE j \in Jobs : TRUE,
          value |-> Unset, reason |-> Unset, at |-> Null, rec |-> Null,
          app |-> Null, applied_at |-> Null, row |-> NoRow, kind |-> Unset]

-----------------------------------------------------------------------------
(* Queries and locks.                                                      *)

\* i is the newest (highest id) of the recommendations S, Null if S is empty.
IsLatest(i, S) == \/ S = {} /\ i = Null
                  \/ i \in S /\ \A k \in S : k <= i

RecsOf(u, j) == {i \in DOMAIN recs : recs[i].user = u /\ recs[i].job = j}

AppsOf(u, j) == {i \in DOMAIN apps : apps[i].user = u /\ apps[i].job = j}

\* SELECT ... FOR UPDATE: record_outcome holds the users row of a registered
\* user, advance_application the application row, until they commit.
UserLocked(u) ==
    /\ RowLocks
    /\ u \in Users
    /\ \E w \in Workers : /\ req[w].step \in {"outcome_select", "outcome_write"}
                          /\ req[w].user = u

\* Mutant: the SELECT forgets FOR UPDATE.
AppLockedNever(a) == FALSE

AppLocked(a) ==
    /\ RowLocks
    /\ \E w \in Workers : req[w].step = "advance_write" /\ req[w].app = a

\* Mutant: the unique index on rr_applications is missing.
NoUniqueIndex(u, j) == FALSE

\* The unique index on (user_id, job_key) exempts NULL users.
UniqueViolation(u, j) == u \in Users /\ AppsOf(u, j) # {}

-----------------------------------------------------------------------------
(* The life of a request.                                                  *)

Begin(w, r) ==
    /\ req[w].step = "idle"
    /\ requests < MaxRequests
    /\ req' = [req EXCEPT ![w] = r]
    /\ requests' = requests + 1
    /\ status' = [status EXCEPT ![w] = "none"]
    /\ UNCHANGED <<recs, jds, apps, emitted, moved, clock>>

\* Answer worker w's request and free the worker; the tables stay as they are.
Answer(w, s) ==
    /\ req' = [req EXCEPT ![w] = Blank]
    /\ status' = [status EXCEPT ![w] = s]

\* Go on with the request as r.
Continue(w, r) ==
    /\ req' = [req EXCEPT ![w] = r]
    /\ UNCHANGED status

\* After a commit: emit the analytics row if the handler found a change,
\* answer otherwise.
Committed(w, changed, kind) ==
    IF changed
    THEN Continue(w, [Blank EXCEPT !.step = "emit", !.user = req[w].user,
                                   !.kind = kind])
    ELSE Answer(w, "ok")

CountMove(kind, really) ==
    moved' = IF really THEN [moved EXCEPT ![kind] = @ + 1] ELSE moved

\* A request is refused before any statement runs: an unknown stage or
\* decision (400), "planned" as a target (409), an id the caller does not own
\* (404).
Refuse(w) ==
    /\ req[w].step = "idle"
    /\ status' = [status EXCEPT ![w] = "refused"]
    /\ UNCHANGED <<recs, jds, apps, req, emitted, moved, requests, clock>>

\* The connection, the pool checkout or the process fails: the transaction
\* rolls back and its locks go with it; the client sees a 5xx or nothing.
Abort(w) ==
    /\ req[w].step # "idle"
    /\ Answer(w, "error")
    /\ UNCHANGED <<recs, jds, apps, emitted, moved, requests, clock>>

\* emit_analytics: its own transaction after the commit, every failure
\* swallowed.  Its user_id is no foreign key, so it waits for no row.
EmitAnalytics(w) ==
    /\ req[w].step = "emit"
    /\ \/ emitted' = [emitted EXCEPT ![req[w].kind] = @ + 1]
       \/ UNCHANGED emitted
    /\ Answer(w, "ok")
    /\ UNCHANGED <<recs, jds, apps, moved, requests, clock>>

Tick ==
    /\ clock < MaxClock
    /\ clock' = clock + 1
    /\ UNCHANGED <<recs, jds, apps, req, status, emitted, moved, requests>>

-----------------------------------------------------------------------------
(* save_decision, save_decisions: one transaction appends a scored batch.  *)
(* created_at is stamped when the job was scored, which may be well before *)
(* the save: /decide calls a language model in between.                    *)

SaveRecommendations(u, batch, at) ==
    /\ Len(recs) + Len(batch) <= MaxRecs
    /\ ~UserLocked(u)
    /\ recs' = recs \o [n \in DOMAIN batch |->
                           [user |-> u, job |-> batch[n], at |-> at]]
    /\ UNCHANGED <<jds, apps, req, status, emitted, moved, requests, clock>>

-----------------------------------------------------------------------------
(* save_job_decision (POST /jobs/{job_key}/decisions).                     *)

\* The latest recommendation is looked up on a connection of its own.
BeginPostDecision(w, u, j, d, r) ==
    \E rec \in {Null} \cup RecsOf(u, j) :
        /\ IsLatest(rec, RecsOf(u, j))
        /\ Begin(w, [Blank EXCEPT !.step = "post_select", !.user = u,
                        !.job = j, !.value = d, !.reason = r, !.rec = rec])

PostDecisionSelect(w) ==
    /\ req[w].step = "post_select"
    /\ Continue(w, [req[w] EXCEPT !.step = "post_write",
                                  !.row = jds[<<req[w].user, req[w].job>>]])
    /\ UNCHANGED <<recs, jds, apps, emitted, moved, requests, clock>>

\* UPDATE of the row the select found.  The recommendation it carries is the
\* one read then, or the one looked up if that was NULL.
PostDecisionUpdate(w) ==
    LET r   == req[w]
        key == <<r.user, r.job>>
        new == [rec      |-> IF r.row.rec # Null THEN r.row.rec ELSE r.rec,
                decision |-> r.value, reason |-> r.reason]
    IN  /\ r.step = "post_write" /\ r.row # NoRow
        /\ jds' = [jds EXCEPT ![key] = new]
        /\ CountMove("decision", <<jds[key].decision, jds[key].reason>>
                                    # <<r.value, r.reason>>)
        /\ Committed(w, <<r.row.decision, r.row.reason>> # <<r.value, r.reason>>,
                     "decision")
        /\ UNCHANGED <<recs, apps, emitted, requests, clock>>

\* INSERT when the select found none; the unique index rejects a second one
\* (an IntegrityError nobody catches: 500).
PostDecisionInsert(w) ==
    LET r   == req[w]
        key == <<r.user, r.job>>
    IN  /\ r.step = "post_write" /\ r.row = NoRow
        /\ ~UserLocked(r.user)
        /\ IF jds[key] = NoRow
           THEN /\ jds' = [jds EXCEPT ![key] = [rec |-> r.rec,
                              decision |-> r.value, reason |-> r.reason]]
                /\ CountMove("decision", TRUE)
                /\ Committed(w, TRUE, "decision")
           ELSE Answer(w, "error") /\ UNCHANGED <<jds, moved>>
        /\ UNCHANGED <<recs, apps, emitted, requests, clock>>

-----------------------------------------------------------------------------
(* update_job_decision (PATCH /decisions/{id}).  A foreign or unknown id   *)
(* finds no row: 404.                                                      *)

BeginPatchDecision(w, u, j, d, r) ==
    Begin(w, [Blank EXCEPT !.step = "patch_select", !.user = u, !.job = j,
                           !.value = d, !.reason = r])

PatchDecisionSelect(w) ==
    LET row == jds[<<req[w].user, req[w].job>>] IN
    /\ req[w].step = "patch_select"
    /\ IF row = NoRow
       THEN Answer(w, "refused")
       ELSE Continue(w, [req[w] EXCEPT !.step = "patch_write", !.row = row])
    /\ UNCHANGED <<recs, jds, apps, emitted, moved, requests, clock>>

\* Only the fields the client gave are written; the handler emits only when
\* a decision was given.
PatchDecisionWrite(w) ==
    LET r   == req[w]
        key == <<r.user, r.job>>
        Given(new, old) == IF new = Unset THEN old ELSE new
        Patched(row) == [row EXCEPT !.decision = Given(r.value, @),
                                    !.reason = Given(r.reason, @)]
    IN  /\ r.step = "patch_write"
        /\ jds' = [jds EXCEPT ![key] = Patched(@)]
        /\ CountMove("decision", r.value # Unset /\ Patched(jds[key]) # jds[key])
        /\ Committed(w, r.value # Unset /\ Patched(r.row) # r.row, "decision")
        /\ UNCHANGED <<recs, apps, emitted, requests, clock>>

-----------------------------------------------------------------------------
(* create_application (POST /applications).                                *)

BeginCreate(w, u, j) ==
    Begin(w, [Blank EXCEPT !.step = "create_decision", !.user = u, !.job = j,
                           !.at = clock])

\* The decision must be the caller's (404) and must be APPLY (400).
CreateReadDecision(w) ==
    LET row == jds[<<req[w].user, req[w].job>>] IN
    /\ req[w].step = "create_decision"
    /\ IF row.decision = "apply"
       THEN Continue(w, [req[w] EXCEPT !.step = "create_existing", !.row = row])
       ELSE Answer(w, "refused")
    /\ UNCHANGED <<recs, jds, apps, emitted, moved, requests, clock>>

\* A retry returns the application that is there.
CreateReadExisting(w) ==
    /\ req[w].step = "create_existing"
    /\ IF AppsOf(req[w].user, req[w].job) # {}
       THEN Answer(w, "ok")
       ELSE Continue(w, [req[w] EXCEPT !.step = "create_insert"])
    /\ UNCHANGED <<recs, jds, apps, emitted, moved, requests, clock>>

\* The row and its "planned" event, pinned to the decision's recommendation
\* as read in the first step.
CreateInsert(w) ==
    LET r == req[w] IN
    /\ r.step = "create_insert"
    /\ ~UserLocked(r.user)
    /\ IF UniqueViolation(r.user, r.job)
       THEN Answer(w, "error") /\ UNCHANGED <<apps, moved>>
       ELSE /\ apps' = Append(apps, L!NewApplication(r.user, r.job, TRUE,
                                        r.row.rec, "planned", r.at))
            /\ CountMove("created", TRUE)
            /\ Committed(w, TRUE, "created")
    /\ UNCHANGED <<recs, jds, emitted, requests, clock>>

-----------------------------------------------------------------------------
(* advance_application (PATCH /applications/{id}/stage and POST            *)
(* /applications/{id}/events).  "planned" as the target is refused on      *)
(* arrival; the time is read before the lock is waited for.                *)

BeginAdvance(w, u, a, s) ==
    /\ s # "planned"
    /\ Begin(w, [Blank EXCEPT !.step = "advance_lock", !.user = u, !.app = a,
                              !.value = s, !.at = clock])

\* Once the row is locked: not the caller's (404), already there (a no-op,
\* tested before the dead end), or in a dead end (409).
AdvanceLock(w) ==
    LET r == req[w]
        a == apps[r.app]
    IN  /\ r.step = "advance_lock"
        /\ ~AppLocked(r.app)
        /\ IF a.user = r.user /\ L!Advances(a.stage, r.value)
           THEN Continue(w, [r EXCEPT !.step = "advance_write",
                                      !.applied_at = a.applied_at])
           ELSE Answer(w, IF a.user = r.user /\ a.stage = r.value
                          THEN "ok" ELSE "refused")
        /\ UNCHANGED <<recs, jds, apps, emitted, moved, requests, clock>>

\* Mutant: a later "applied" event dates the application again.
WithEventRedated(app, s, t, seen) ==
    L!Extended(app, s, IF s = "applied" THEN t ELSE app.applied_at, t)

\* Mutant: the summary of an application in a dead end is left alone.
WithEventStale(app, s, t, seen) ==
    [L!Extended(app, s, IF s = "applied" /\ seen = Null THEN t
                        ELSE app.applied_at, t)
        EXCEPT !.stage = IF app.stage \in TERMINAL_STAGES THEN app.stage ELSE s]

\* Append event [stage |-> s, at |-> t] to an application and move its
\* summary; seen is its applied_at as the transaction read it.
WithEvent(app, s, t, seen) ==
    L!Extended(app, s, IF s = "applied" /\ seen = Null THEN t
                       ELSE app.applied_at, t)


AdvanceWrite(w) ==
    LET r == req[w] IN
    /\ r.step = "advance_write"
    /\ apps' = [apps EXCEPT ![r.app] =
                   WithEvent(@, r.value, r.at, r.applied_at)]
    /\ CountMove("stage", apps[r.app].stage # r.value)
    /\ Committed(w, TRUE, "stage")
    /\ UNCHANGED <<recs, jds, emitted, requests, clock>>

-----------------------------------------------------------------------------
(* record_outcome (POST /outcomes with a user, `roleradar outcome add`     *)
(* without one).  The route accepts any stage, the command line any but    *)
(* "planned".  No analytics row is written.                                *)

BeginOutcome(w, u, j, s) ==
    /\ Legacy
    /\ u = Cli => s # "planned"
    /\ Begin(w, [Blank EXCEPT !.step = IF u \in Users THEN "outcome_lock"
                                       ELSE "outcome_select",
                              !.user = u, !.job = j, !.value = s, !.at = clock])

OutcomeLock(w) ==
    /\ req[w].step = "outcome_lock"
    /\ ~UserLocked(req[w].user)
    /\ Continue(w, [req[w] EXCEPT !.step = "outcome_select"])
    /\ UNCHANGED <<recs, jds, apps, emitted, moved, requests, clock>>

\* The application is read without a lock; .first() takes any of a NULL
\* user's rows for the job.
OutcomeSelect(w) ==
    LET found == AppsOf(req[w].user, req[w].job) IN
    /\ req[w].step = "outcome_select"
    /\ \/ /\ found = {}
          /\ Continue(w, [req[w] EXCEPT !.step = "outcome_write"])
       \/ \E a \in found :
             Continue(w, [req[w] EXCEPT !.step = "outcome_write", !.app = a,
                                        !.applied_at = apps[a].applied_at])
    /\ UNCHANGED <<recs, jds, apps, emitted, moved, requests, clock>>

\* Mutant: the newest recommendation of all is pinned.
OutcomeInsertLatest(w) ==
    LET r == req[w] IN
    /\ r.step = "outcome_write" /\ r.app = Null
    /\ ~UniqueViolation(r.user, r.job)
    /\ \E rec \in {Null} \cup RecsOf(r.user, r.job) :
          /\ IsLatest(rec, RecsOf(r.user, r.job))
          /\ apps' = Append(apps, L!NewApplication(r.user, r.job, FALSE,
                                      rec, r.value, r.at))
          /\ Answer(w, "ok")
    /\ UNCHANGED <<recs, jds, emitted, moved, requests, clock>>

\* No application yet: open one at this stage, pinned to the newest
\* recommendation that existed when the outcome occurred.
OutcomeInsert(w) ==
    LET r     == req[w]
        prior == {i \in RecsOf(r.user, r.job) : recs[i].at <= r.at}
    IN  /\ r.step = "outcome_write" /\ r.app = Null
        /\ IF UniqueViolation(r.user, r.job)
           THEN Answer(w, "error") /\ UNCHANGED apps
           ELSE \E rec \in {Null} \cup prior :
                  /\ IsLatest(rec, prior)
                  /\ apps' = Append(apps, L!NewApplication(r.user, r.job, FALSE,
                                              rec, r.value, r.at))
                  /\ Answer(w, "ok")
        /\ UNCHANGED <<recs, jds, emitted, moved, requests, clock>>

\* Otherwise the UPDATE waits for advance_application's lock on the row.
OutcomeUpdate(w) ==
    LET r == req[w] IN
    /\ r.step = "outcome_write" /\ r.app # Null
    /\ ~AppLocked(r.app)
    /\ apps' = [apps EXCEPT ![r.app] =
                   WithEvent(@, r.value, r.at, r.applied_at)]
    /\ Answer(w, "ok")
    /\ UNCHANGED <<recs, jds, emitted, moved, requests, clock>>

-----------------------------------------------------------------------------

Init ==
    /\ recs = <<>>
    /\ jds = [key \in Users \X Jobs |-> NoRow]
    /\ apps = <<>>
    /\ req = [w \in Workers |-> Blank]
    /\ status = [w \in Workers |-> "none"]
    /\ emitted = [k \in Kinds |-> 0]
    /\ moved = [k \in Kinds |-> 0]
    /\ requests = 0
    /\ clock = 1

\* The batches one /rank or /decide saves: distinct jobs, in ranked order.
Batches == {b \in UNION {[1 .. n -> Jobs] : n \in 1 .. Cardinality(Jobs)} :
               \A m, n \in DOMAIN b : b[m] = b[n] => m = n}

\* A new request arrives at worker w.
Arrive(w) ==
    \/ \E u \in Users, j \in Jobs, d \in DecisionInputs, r \in ReasonInputs :
          BeginPostDecision(w, u, j, d, r)
    \/ \E u \in Users, j \in Jobs, d \in DecisionInputs \cup {Unset},
          r \in Reasons : BeginPatchDecision(w, u, j, d, r)
    \/ \E u \in Users, j \in Jobs : BeginCreate(w, u, j)
    \/ \E u \in Users, a \in DOMAIN apps, s \in StageInputs :
          BeginAdvance(w, u, a, s)
    \/ \E u \in Owners, j \in Jobs, s \in StageInputs : BeginOutcome(w, u, j, s)
    \/ Refuse(w)

\* Worker w executes the next statement of its request.
Work(w) ==
    \/ PostDecisionSelect(w) \/ PostDecisionUpdate(w) \/ PostDecisionInsert(w)
    \/ PatchDecisionSelect(w) \/ PatchDecisionWrite(w)
    \/ CreateReadDecision(w) \/ CreateReadExisting(w) \/ CreateInsert(w)
    \/ AdvanceLock(w) \/ AdvanceWrite(w)
    \/ OutcomeLock(w) \/ OutcomeSelect(w) \/ OutcomeInsert(w) \/ OutcomeUpdate(w)
    \/ EmitAnalytics(w)

Next ==
    \/ \E w \in Workers : Arrive(w) \/ Work(w) \/ Abort(w)
    \/ \E u \in Owners, b \in Batches, at \in 1 .. clock :
          SaveRecommendations(u, b, at)
    \/ Tick

Spec == Init /\ [][Next]_vars

\* A worker that can take its next statement takes it: request threads are
\* scheduled, and a lock a transaction waits for is granted when it is free.
FairSpec == Spec /\ \A w \in Workers : WF_vars(Work(w))

-----------------------------------------------------------------------------
(* Properties.                                                             *)

TypeOK ==
    /\ recs \in Seq(Recommendation) /\ Len(recs) <= MaxRecs
    /\ jds \in [Users \X Jobs -> JobDecision \cup {NoRow}]
    /\ apps \in Seq(L!Application)
    /\ req \in [Workers -> Request]
    /\ status \in [Workers -> {"none", "ok", "refused", "error"}]
    /\ emitted \in [Kinds -> Nat]
    /\ moved \in [Kinds -> Nat]
    /\ requests \in Nat
    /\ clock \in Dates

\* What a request knows at each statement: its inputs have the type its
\* operation needs, and the rows it has read still exist, since no statement
\* deletes one.
RequestOK(r) ==
    /\ r.step # "idle" /\ r.step # "emit" /\ r.user \notin Users
          => r.step \in {"outcome_select", "outcome_write"}
    /\ r.step \in {"post_select", "post_write"}
          => r.value \in VALID_DECISIONS
    /\ r.step \in {"patch_select", "patch_write"}
          => r.value \in VALID_DECISIONS \cup {Unset}
    /\ r.step = "post_write" /\ r.row # NoRow => jds[<<r.user, r.job>>] # NoRow
    /\ r.step = "patch_write" => r.row # NoRow /\ jds[<<r.user, r.job>>] # NoRow
    /\ r.step \in {"create_existing", "create_insert"} => r.row # NoRow
    /\ r.step \in {"create_decision", "create_existing", "create_insert"}
          => r.at \in Dates
    /\ r.step \in {"advance_lock", "advance_write"}
          => /\ r.value \in ALL_STAGES /\ r.at \in Dates
             /\ r.app \in DOMAIN apps
    /\ r.step \in {"outcome_lock", "outcome_select", "outcome_write"}
          => /\ Legacy
             /\ r.value \in ALL_STAGES /\ r.at \in Dates
             /\ r.app # Null => r.app \in DOMAIN apps
    /\ r.step = "emit" => r.kind \in Kinds

\* What the lock of advance_application is for: one writer per application,
\* and what it read is what its update will find.
LockOK ==
    /\ \A v, w \in Workers :
          /\ req[v].step = "advance_write" /\ req[w].step = "advance_write"
          /\ req[v].app = req[w].app
          => v = w
    /\ \A w \in Workers : req[w].step = "advance_write" =>
          LET a == apps[req[w].app] IN
          /\ L!Advances(a.stage, req[w].value)
          /\ req[w].applied_at = a.applied_at

\* The inductive invariant of the loop.
LoopInv ==
    /\ TypeOK
    /\ \A w \in Workers : RequestOK(req[w])
    /\ RowLocks => LockOK

\* The whole loop, requests and races included, keeps the promise of Ledger:
\* applications are only opened and extended, their user, job, origin and
\* pinned prediction never change (store.py record_outcome: "Pin the
\* prediction at first activity"), and with the decision/application API
\* alone every move obeys the stage machine.
ImplementsLedger == L!Spec

\* current_stage always equals the stage of the last event (store.py
\* create_application: never "a current_stage that has no corresponding event").
StageIsLastEvent == L!StageIsLastEvent

\* Rules 1 to 3 of advance_application on whole histories: nothing after a
\* terminal stage, no stage twice in a row, "planned" only first, whatever the
\* requests that race for the row or come again after an abort (store.py 630-656).
LegalHistory == L!LegalHistory

\* applied_at is the time of the first "applied" event and of no later one.
AppliedOnce == L!AppliedOnce

\* A prediction that a decision or an application carries exists and was made
\* for the same user and job, so that outcomes grade the right prediction.
Predicts(rec, u, j) ==
    rec # Null => rec \in DOMAIN recs /\ recs[rec].user = u /\ recs[rec].job = j

OwnPrediction ==
    /\ \A u \in Users, j \in Jobs : Predicts(jds[<<u, j>>].rec, u, j)
    /\ \A a \in DOMAIN apps : Predicts(apps[a].rec, apps[a].user, apps[a].job)

\* No hindsight: the prediction record_outcome pins was scored no later than
\* the first event it is graded against, whatever is re-scored meanwhile.
NoHindsight ==
    \A a \in DOMAIN apps :
        ~apps[a].linked /\ apps[a].rec # Null
            => recs[apps[a].rec].at <= apps[a].log[1].at

\* What an outcome is graded against is the prediction made for it, beforehand,
\* whatever is saved, decided and re-scored while the requests run.
HonestPrediction == OwnPrediction /\ NoHindsight

\* Retries and double submits never inflate the application funnel: there are
\* never more "application_created" or "application_stage_changed" rows,
\* those about to be written included, than rows that really changed.
FunnelNotInflated ==
    \A k \in {"created", "stage"} :
        emitted[k] + Cardinality({w \in Workers : req[w].kind = k}) <= moved[k]

\* Every request is eventually answered: no order in which advance_application
\* takes its application row, record_outcome the users row and then an
\* application row, and the inserts that reference users that row, leaves
\* requests waiting for each other.
EveryRequestIsAnswered == \A w \in Workers : req[w].step # "idle" ~> req[w].step = "idle"

-----------------------------------------------------------------------------
(* What the comments and documents say and the code does not do.           *)

\* store.py save_job_decision: "an already-linked one is never overwritten".
LinkFrozen ==
    [][\A key \in Users \X Jobs :
           jds[key].rec # Null => jds'[key].rec = jds[key].rec]_vars

=============================================================================
