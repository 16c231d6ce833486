------------------------------- MODULE Tracker -------------------------------
(***************************************************************************)
(* The application tracker: the applications and status_events tables,     *)
(* written by jobengine.tracker behind the Python API and the command      *)
(* line, and by core-api's ApplicationService, on PostgreSQL.              *)
(*                                                                         *)
(* The writes of a transaction and its commit are one step: the first of   *)
(* them takes the lock of the application's row and keeps it.  Python's    *)
(* update_status selects the row, without a lock, in a step of its own.    *)
(***************************************************************************)
EXTENDS Naturals, Sequences, SequencesExt

CONSTANTS Users,        \* accounts
          Cli,          \* user_id NULL: the command line
          Workers,      \* request threads of the Python API, and the CLI
          Statuses,     \* tracker.Status
          Unlisted,     \* any other text given as a status
          Details,      \* what edit may set: company, title, notes and so on
          MaxApps,      \* bound: applications ever added
          MaxEvents     \* bound: events of an application

VARIABLES apps,         \* applications, by app_id
          nextId,       \* the sequence app_id is taken from
          events,       \* status_events: by app_id, the statuses in event_id order
          req,          \* the status update each worker is serving
          answer        \* the last answer: to whom, and what happened

vars == <<apps, nextId, events, req, answer>>

ASSUME TrackerAssumption ==
    /\ Cli \notin Users
    /\ Unlisted \notin Statuses
    /\ MaxApps \in Nat /\ MaxEvents \in Nat

Owners == Users \cup {Cli}
Texts  == Statuses \cup {Unlisted}
Ids    == 1 .. MaxApps

Row     == [user : Owners, status : Texts, details : Details]
NoRow   == [user |-> "nobody"]
Request == [user : Owners, app_id : Ids, status : Statuses]
Idle    == [user |-> "nobody"]
Answer  == [to : Owners,
            kind : {"none", "created", "done", "missing", "rejected", "failed"}]

Answered(u, kind) == answer' = [to |-> u, kind |-> kind]

\* Mutant: a statement forgets the filter on the owner.
OwnedByAnyone(id, u) == apps[id] # NoRow

\* tracker._owned, and WHERE user_id = :userId in core-api.  The command line
\* (user_id None) reaches every row.
Owned(id, u) == apps[id] # NoRow /\ (u = Cli \/ apps[id].user = u)

\* Mutant: the constraint is not declared, or not enforced.
NoForeignKey(id) == TRUE

\* status_events.app_id references applications.
ForeignKey(id) == apps[id] # NoRow

\* Mutant: deleting an application leaves its events.
CascadeNone(id) == events

\* ON DELETE CASCADE.
Cascade(id) == [events EXCEPT ![id] = <<>>]

\* INSERT INTO status_events.
AddEvent(id, s) ==
    /\ Len(events[id]) < MaxEvents
    /\ events' = [events EXCEPT ![id] = Append(@, s)]

-----------------------------------------------------------------------------
(* Creation, edit, deletion: one transaction, one step.                    *)

\* The command line offers the listed statuses; the API's ApplicationCreate
\* takes any text, and tracker.add checks the source only.
AddStatuses(u) == IF u = Cli THEN Statuses ELSE Texts

\* tracker.add: the row and its first event.  ApplicationService.create is the
\* case of the status "applied".
Add(u, s, d) ==
    /\ nextId \in Ids
    /\ nextId' = nextId + 1
    /\ apps' = [apps EXCEPT ![nextId] = [user |-> u, status |-> s, details |-> d]]
    /\ AddEvent(nextId, s)
    /\ Answered(u, "created")
    /\ UNCHANGED req

\* tracker.edit: a row that is not the caller's is reported missing.
Edit(u, id, d) ==
    /\ IF Owned(id, u)
       THEN /\ apps' = [apps EXCEPT ![id].details = d]
            /\ Answered(u, "done")
       ELSE UNCHANGED apps /\ Answered(u, "missing")
    /\ UNCHANGED <<nextId, events, req>>

\* tracker.delete and ApplicationService.delete.
Delete(u, id) ==
    /\ IF Owned(id, u)
       THEN /\ apps' = [apps EXCEPT ![id] = NoRow]
            /\ events' = Cascade(id)
            /\ Answered(u, "done")
       ELSE UNCHANGED <<apps, events>> /\ Answered(u, "missing")
    /\ UNCHANGED <<nextId, req>>

-----------------------------------------------------------------------------
(* Status changes.                                                         *)

\* tracker.update_status selects the row.  Status(row.status) raises for a
\* status that is not listed, which the API answers with 400.
UpdateSelect(w, u, id, s) ==
    /\ req[w] = Idle
    /\ IF Owned(id, u) /\ apps[id].status \in Statuses
       THEN /\ req' = [req EXCEPT ![w] = [user |-> u, app_id |-> id, status |-> s]]
            /\ UNCHANGED answer
       ELSE /\ Answered(u, IF Owned(id, u) THEN "rejected" ELSE "missing")
            /\ UNCHANGED req
    /\ UNCHANGED <<apps, nextId, events>>

\* UPDATE, INSERT and commit.  How many rows the UPDATE found is not looked at:
\* only the foreign key of the event keeps a deleted row from gaining one.
UpdateWrite(w) ==
    LET r == req[w] IN
    /\ r # Idle
    /\ ForeignKey(r.app_id)
    /\ apps' = IF Owned(r.app_id, r.user)
               THEN [apps EXCEPT ![r.app_id].status = r.status]
               ELSE apps
    /\ AddEvent(r.app_id, r.status)
    /\ req' = [req EXCEPT ![w] = Idle]
    /\ Answered(r.user, "done")
    /\ UNCHANGED nextId

\* The event's INSERT violates the foreign key, the connection is lost or the
\* process dies: the transaction is rolled back.
UpdateFails(w) ==
    /\ req[w] # Idle
    /\ req' = [req EXCEPT ![w] = Idle]
    /\ Answered(req[w].user, "failed")
    /\ UNCHANGED <<apps, nextId, events>>

\* Mutant: the number of rows changed is not checked.
JavaUpdateUnchecked(u, id, s) ==
    /\ ForeignKey(id)
    /\ apps' = IF Owned(id, u) THEN [apps EXCEPT ![id].status = s] ELSE apps
    /\ AddEvent(id, s)
    /\ Answered(u, "done")
    /\ UNCHANGED <<nextId, req>>

\* ApplicationService.updateStatus: UPDATE, check of the row count, INSERT.
JavaUpdate(u, id, s) ==
    /\ IF Owned(id, u)
       THEN /\ apps' = [apps EXCEPT ![id].status = s]
            /\ AddEvent(id, s)
            /\ Answered(u, "done")
       ELSE UNCHANGED <<apps, events>> /\ Answered(u, "missing")
    /\ UNCHANGED <<nextId, req>>

Init ==
    /\ apps = [id \in Ids |-> NoRow]
    /\ nextId = 1
    /\ events = [id \in Ids |-> <<>>]
    /\ req = [w \in Workers |-> Idle]
    /\ answer = [to |-> Cli, kind |-> "none"]

Next ==
    \/ \E u \in Owners :
          \/ \E d \in Details : \E s \in AddStatuses(u) : Add(u, s, d)
          \/ \E id \in Ids :
                \/ \E d \in Details : Edit(u, id, d)
                \/ Delete(u, id)
                \/ \E w \in Workers, s \in Statuses : UpdateSelect(w, u, id, s)
    \/ \E u \in Users, id \in Ids, s \in Statuses : JavaUpdate(u, id, s)
    \/ \E w \in Workers : UpdateWrite(w) \/ UpdateFails(w)

Spec == Init /\ [][Next]_vars

-----------------------------------------------------------------------------
(* Properties.                                                             *)

\* Ids the sequence has not given are unused.
TypeOK ==
    /\ apps \in [Ids -> Row \cup {NoRow}]
    /\ nextId \in 1 .. MaxApps + 1
    /\ \A id \in Ids : id >= nextId => apps[id] = NoRow
    /\ events \in [Ids -> Seq(Texts)]
    /\ req \in [Workers -> Request \cup {Idle}]
    /\ answer \in Answer

\* What update_status found before its UPDATE: as ids are not given twice, the
\* row is still the caller's or there is none.
RequestOwned ==
    \A w \in Workers : req[w] # Idle =>
        /\ req[w].app_id < nextId
        /\ ForeignKey(req[w].app_id) => Owned(req[w].app_id, req[w].user)

\* database.md: "applications.status is the current state; status_events is how
\* it got there": whichever services change, edit and delete at once, every
\* application has a history, and it ends in the application's status.
StatusIsLastEvent ==
    \A id \in Ids : apps[id] # NoRow =>
        events[id] # <<>> /\ Last(events[id]) = apps[id].status

\* database.md: deleting an application "doesn't orphan its history", also when
\* the deletion runs between the SELECT and the UPDATE of a status change.
NoOrphanEvents == \A id \in Ids : events[id] # <<>> => apps[id] # NoRow

\* The inductive invariant.
TrackerInv == TypeOK /\ RequestOwned /\ StatusIsLastEvent /\ NoOrphanEvents

\* api-contract.md: the routes are scoped to the caller.  No step of a user
\* changes, deletes or extends the history of an application of somebody else,
\* whatever it read before; the command line may.
OwnRowsOnly ==
    [][ LET by == answer'.to IN
        \A id \in Ids :
            apps[id] # NoRow /\ by \notin {Cli, apps[id].user} =>
                apps'[id] = apps[id] /\ events'[id] = events[id] ]_vars

=============================================================================
