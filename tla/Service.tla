------------------------------ MODULE Service ------------------------------
(***************************************************************************)
(* The HTTP service of the Python API: requests on a thread pool that share *)
(* a bounded pool of database connections and one event loop, accounts,     *)
(* profiles and feedback written by check-then-write transactions, and the  *)
(* analytics row the middleware writes after each answer.                   *)
(*                                                                          *)
(* A request moves through units of work.  Each unit of the database takes  *)
(* a connection, runs its statements and gives the connection back; a unit  *)
(* that checks before it writes reads when it takes the connection and      *)
(* writes and commits when it ends, so that others come between.            *)
(***************************************************************************)
EXTENDS Naturals, FiniteSets

CONSTANTS Emails, Passwords,
          Users,       \* user ids the users table may give out
          Accounts,    \* the users tables the service may start with
          Recs,        \* saved recommendations
          Owner,       \* Owner[r] is the user recommendation r was made for
          Bodies,      \* the profile answers a request may carry
          Workers,     \* requests in flight
          Limit,       \* pool_size + max_overflow
          Analytics,   \* JOBENGINE_ANALYTICS
          NULL,        \* NULL in an integer column
          MaxRequests  \* bound: requests that begin

VARIABLES users,     \* rows of the users table
          profiles,  \* rr_profiles by its unique key, NoRow where there is none
          feedback,  \* the unique keys of recommendation_feedback in use
          ask,       \* ask[w]: the request worker w serves
          at,        \* at[w]: how far it has come
          begun,     \* number of requests that began
          acked,     \* history: e-mail and password of registrations answered 201
          saved      \* history: the profile of a user's last committed save

tables == <<users, profiles, feedback, acked, saved>>
vars == <<tables, ask, at, begun>>

ProfileFields == {"needs_sponsorship", "open_to_relocate"}
\* The answers for which "not told us" is an answer of its own.
ThreeValued == {"needs_sponsorship"}
Answers == {"yes", "no", "unknown"}

Profile == [ProfileFields -> Answers]
ProfileRow == [ProfileFields -> {0, 1, NULL}]
Body == [ProfileFields -> Answers \cup {"unset"}]
NoRow == <<>>
NoProfile == <<>>

User == [id : Users, email : Emails, password : Passwords]

AccountAsk == [op : {"register", "login"}, email : Emails, password : Passwords]
ProfileAsk == [op : {"profile", "decide"}, user : Users, body : Bodies]
FeedbackAsk == [op : {"feedback"}, user : Users, rec : Recs]
PlainAsk == [op : {"health", "refused"}]
Nothing == [op |-> "refused"]
Ask == AccountAsk \cup ProfileAsk \cup FeedbackAsk \cup PlainAsk

Handlers == {"schema", "register", "login", "save", "load", "rate", "probe"}
DbUnits == Handlers \cup {"emit", "record"}
Units == DbUnits \cup {"idle", "respond"}
Statuses == {0, 200, 201, 400, 401, 404, 503}

Progress == [unit : Units, held : BOOLEAN, seen : BOOLEAN, knew : BOOLEAN,
             status : Statuses, told : Profile \cup {NoProfile}]

ASSUME ServiceAssumption ==
    /\ IsFiniteSet(Workers)
    /\ Limit \in Nat \ {0}
    /\ Users \subseteq Nat \ {0}
    /\ \A us \in Accounts :
          /\ us \subseteq User /\ {u.id : u \in us} = 1 .. Cardinality(us)
          /\ \A u, v \in us : u.email = v.email \/ u.id = v.id => u = v
    /\ Owner \in [Recs -> Users]
    /\ Bodies \subseteq Body
    /\ Analytics \in BOOLEAN
    /\ NULL \notin {0, 1}
-----------------------------------------------------------------------------
(* Profiles: the payload, the row and back.                                *)

Default(f) == IF f \in ThreeValued THEN "unknown" ELSE "yes"

\* An explicit null counts as an answer only where unknown is one.
ProfileFromPayload(b) ==
    [f \in ProfileFields |->
        IF b[f] = "unset" \/ (b[f] = "unknown" /\ f \notin ThreeValued)
        THEN Default(f) ELSE b[f]]

ToRow(p) ==
    [f \in ProfileFields |-> CASE p[f] = "unknown" -> NULL
                               [] p[f] = "yes"     -> 1
                               [] p[f] = "no"      -> 0]

\* Mutant: a stored 0 is taken for a missing value ("not" for "is None").
FromRowFalsy(r) ==
    [f \in ProfileFields |->
        CASE r[f] = 1                            -> "yes"
          [] r[f] = 0 /\ f \in ThreeValued       -> "no"
          [] r[f] = NULL \/ (r[f] = 0 /\ f \notin ThreeValued) -> Default(f)]

FromRow(r) ==
    [f \in ProfileFields |-> CASE r[f] = NULL -> Default(f)
                               [] r[f] = 1    -> "yes"
                               [] r[f] = 0    -> "no"]

\* A stored profile under the answers a request carries itself.
LoadContext(p, b) ==
    [f \in ProfileFields |-> IF b[f] = "unset" THEN p[f] ELSE b[f]]
-----------------------------------------------------------------------------
(* Connections, answers and the event loop.                                *)

Holding == {w \in Workers : at[w].held}
Waiting(w, us) == at[w].unit \in us /\ ~at[w].held
Inside(w, u) == at[w].unit = u /\ at[w].held

\* The middleware writes its row on the event loop, which meanwhile neither
\* takes up a request nor passes on an answer.
LoopFree == \A w \in Workers : at[w].unit # "record"

Fresh == [unit |-> "idle", held |-> FALSE, seen |-> FALSE, knew |-> FALSE,
          status |-> 0, told |-> NoProfile]

\* A request, having given its connection back, goes on to unit u.
Moved(p, u, status) ==
    [p EXCEPT !.unit = u, !.held = FALSE, !.seen = FALSE, !.status = status]

Leaves(w, u, status) ==
    /\ at' = [at EXCEPT ![w] = Moved(at[w], u, status)]
    /\ UNCHANGED <<ask, begun>>

\* The handler is done and its answer goes to the middleware.
Answer(w, status) == Leaves(w, "respond", status)

\* The answer is sent.
Ends(w) ==
    /\ at' = [at EXCEPT ![w] = Fresh]
    /\ ask' = [ask EXCEPT ![w] = Nothing]
    /\ UNCHANGED begun

\* An exception nobody catches, a 500, passes the middleware by: no analytics row.
Crash(w) == Ends(w)

Rows(e) == {u \in users : u.email = e}

Init ==
    /\ users \in Accounts
    /\ acked = {<<u.email, u.password>> : u \in users}
    /\ profiles = [u \in Users |-> NoRow]
    /\ saved = [u \in Users |-> NoProfile]
    /\ feedback = {}
    /\ begun = 0
    /\ ask = [w \in Workers |-> Nothing]
    /\ at = [w \in Workers |-> Fresh]

\* The unit a valid request starts with.
FirstUnit(op) ==
    CASE op \in {"register", "login"}    -> "schema"
      [] op = "profile"                  -> "save"
      [] op = "decide"                   -> "load"
      [] op = "feedback"                 -> "rate"
      [] op = "health"                   -> "probe"
      [] op = "refused"                 -> "respond"

\* A request arrives.  One without a valid token (401) or body (400, 422) is
\* refused before it asks for a connection.
Begin(w, a) ==
    /\ at[w].unit = "idle"
    /\ LoopFree
    /\ begun < MaxRequests
    /\ begun' = begun + 1
    /\ a \in ProfileAsk \cup FeedbackAsk => a.user \in {u.id : u \in users}
    /\ a.op = "decide" => \A f \in ProfileFields \ ThreeValued : a.body[f] # "unknown"
    /\ ask' = [ask EXCEPT ![w] = a]
    /\ at' = [at EXCEPT ![w] =
            [Fresh EXCEPT !.unit = FirstUnit(a.op),
                          !.knew = a.op = "login" /\ <<a.email, a.password>> \in acked,
                          !.status = IF a.op = "refused" THEN 401 ELSE 0]]
    /\ UNCHANGED tables

\* What the first statement of a unit that checks before it writes finds.
Finds(w) ==
    CASE at[w].unit = "register" -> Rows(ask[w].email) # {}
      [] at[w].unit = "save"     -> profiles[ask[w].user] # NoRow
      [] at[w].unit = "rate"     -> <<ask[w].user, ask[w].rec>> \in feedback
      [] OTHER                   -> FALSE

Checkout(w) ==
    /\ Waiting(w, DbUnits)
    /\ Cardinality(Holding) < Limit
    /\ at' = [at EXCEPT ![w] = [at[w] EXCEPT !.held = TRUE, !.seen = Finds(w)]]
    /\ UNCHANGED <<tables, ask, begun>>

\* pool_timeout: no connection came back while the request waited.  A handler's
\* timeout becomes a 503, that of an analytics write is swallowed.
PoolTimeout(w) ==
    /\ Waiting(w, DbUnits)
    /\ Cardinality(Holding) = Limit
    /\ \/ at[w].unit \in Handlers /\ Answer(w, 503)
       \/ at[w].unit = "emit" /\ Answer(w, at[w].status)
       \/ at[w].unit = "record" /\ Ends(w)
    /\ UNCHANGED tables

\* Mutant: a failing write of a handler is swallowed like one of the analytics.
FailsSwallowed(w) ==
    /\ at[w].held
    /\ \/ at[w].unit \in Handlers \ {"rate"} /\ Crash(w)
       \/ Inside(w, "rate") /\ Leaves(w, "emit", 201)
       \/ Inside(w, "emit") /\ Answer(w, at[w].status)
       \/ Inside(w, "record") /\ Ends(w)
    /\ UNCHANGED tables

\* Mutant: an analytics write that fails is tried again, without a limit.
FailsRetried(w) ==
    /\ at[w].held
    /\ \/ at[w].unit \in Handlers /\ Crash(w)
       \/ Inside(w, "emit") /\ Answer(w, at[w].status)
       \/ Inside(w, "record") /\ Leaves(w, "record", at[w].status)
    /\ UNCHANGED tables

\* A statement fails: the transaction is rolled back.  Only the probe and the
\* analytics writes catch it.
Fails(w) ==
    /\ at[w].held
    /\ \/ at[w].unit \in Handlers \ {"probe"} /\ Crash(w)
       \/ Inside(w, "probe") /\ Answer(w, 503)
       \/ Inside(w, "emit") /\ Answer(w, at[w].status)
       \/ Inside(w, "record") /\ Ends(w)
    /\ UNCHANGED tables
-----------------------------------------------------------------------------
(* The units of the routes.                                                *)

\* init_db, before an account is registered or looked up.
InitDb(w) ==
    /\ Inside(w, "schema")
    /\ Leaves(w, ask[w].op, 0)
    /\ UNCHANGED tables

RegisterRefuses(w) ==
    /\ Inside(w, "register")
    /\ at[w].seen
    /\ Answer(w, 400)
    /\ UNCHANGED tables

\* Mutant: the table has no unique index.
RegisterInsertsTwice(w) ==
    /\ Inside(w, "register")
    /\ ~at[w].seen
    /\ LET e == ask[w].email
           p == ask[w].password
       IN  \E id \in Users :
             /\ id = 1 + Cardinality(users)
             /\ users' = users \cup {[id |-> id, email |-> e, password |-> p]}
             /\ acked' = acked \cup {<<e, p>>}
             /\ Answer(w, 201)
             /\ UNCHANGED <<profiles, feedback, saved>>

\* The unique index refuses the insert of an address that another request has
\* registered meanwhile.
RegisterInserts(w) ==
    /\ Inside(w, "register")
    /\ ~at[w].seen
    /\ LET e == ask[w].email
           p == ask[w].password
       IN  IF Rows(e) # {}
           THEN Crash(w) /\ UNCHANGED tables
           ELSE \E id \in Users :
                  /\ id = 1 + Cardinality(users)
                  /\ users' = users \cup {[id |-> id, email |-> e, password |-> p]}
                  /\ acked' = acked \cup {<<e, p>>}
                  /\ Answer(w, 201)
                  /\ UNCHANGED <<profiles, feedback, saved>>

\* The row the login reads is any of those with the e-mail.
Login(w) ==
    /\ Inside(w, "login")
    /\ \/ Rows(ask[w].email) = {} /\ Answer(w, 401)
       \/ \E u \in Rows(ask[w].email) :
            Answer(w, IF u.password = ask[w].password THEN 200 ELSE 401)
    /\ UNCHANGED tables

SaveProfile(w) ==
    /\ Inside(w, "save")
    /\ LET u == ask[w].user
           p == ProfileFromPayload(ask[w].body)
       IN  IF ~at[w].seen /\ profiles[u] # NoRow
           THEN Crash(w) /\ UNCHANGED tables
           ELSE /\ profiles' = [profiles EXCEPT ![u] = ToRow(p)]
                /\ saved' = [saved EXCEPT ![u] = p]
                /\ Answer(w, 200)
                /\ UNCHANGED <<users, feedback, acked>>

\* /decide without a resume loads the profile, as GET /profile and GET /evidence
\* do, which answer 404 where it answers 400.
LoadProfile(w) ==
    /\ Inside(w, "load")
    /\ LET r == profiles[ask[w].user]
       IN  IF r = NoRow
           THEN Answer(w, 400)
           ELSE /\ at' = [at EXCEPT ![w] =
                      [Moved(at[w], "respond", 200) EXCEPT
                          !.told = LoadContext(FromRow(r), ask[w].body)]]
                /\ UNCHANGED <<ask, begun>>
    /\ UNCHANGED tables

SaveFeedback(w) ==
    /\ Inside(w, "rate")
    /\ LET k == <<ask[w].user, ask[w].rec>>
       IN  CASE Owner[ask[w].rec] # ask[w].user ->
                    Answer(w, 404) /\ UNCHANGED tables
             [] Owner[ask[w].rec] = ask[w].user /\ ~at[w].seen /\ k \in feedback ->
                    Crash(w) /\ UNCHANGED tables
             [] OTHER ->
                    /\ feedback' = feedback \cup {k}
                    /\ Leaves(w, "emit", 201)
                    /\ UNCHANGED <<users, profiles, acked, saved>>

EmitAnalytics(w) ==
    /\ Inside(w, "emit")
    /\ Answer(w, at[w].status)
    /\ UNCHANGED tables

Health(w) ==
    /\ Inside(w, "probe")
    /\ Answer(w, 200)
    /\ UNCHANGED tables

\* observe: the answer comes back to the event loop, which writes the row
\* before it sends the answer.
Observe(w) ==
    /\ at[w].unit = "respond"
    /\ LoopFree
    /\ IF Analytics THEN Leaves(w, "record", at[w].status) ELSE Ends(w)
    /\ UNCHANGED tables

Record(w) ==
    /\ Inside(w, "record")
    /\ Ends(w)
    /\ UNCHANGED tables

Step(w) ==
    \/ Checkout(w) \/ PoolTimeout(w) \/ Fails(w)
    \/ InitDb(w) \/ RegisterRefuses(w) \/ RegisterInserts(w) \/ Login(w)
    \/ SaveProfile(w) \/ LoadProfile(w) \/ SaveFeedback(w) \/ EmitAnalytics(w)
    \/ Health(w) \/ Observe(w) \/ Record(w)

Next == \E w \in Workers : Step(w) \/ \E a \in Ask : Begin(w, a)

Spec == Init /\ [][Next]_vars

FairSpec == Spec /\ \A w \in Workers : WF_vars(Step(w))
-----------------------------------------------------------------------------
(* Properties.                                                             *)

TypeOK ==
    /\ users \subseteq User
    /\ profiles \in [Users -> ProfileRow \cup {NoRow}]
    /\ feedback \subseteq Users \X Recs
    /\ ask \in [Workers -> Ask]
    /\ at \in [Workers -> Progress]
    /\ begun \in Nat
    /\ acked \subseteq Emails \X Passwords
    /\ saved \in [Users -> Profile \cup {NoProfile}]

\* What was answered with 201 has been committed and stays: the account can be
\* found under its e-mail and password, the feedback in its table
\* (auth.register, store.save_feedback).
AckIsDurable ==
    /\ \A k \in acked : \E u \in users : u.email = k[1] /\ u.password = k[2]
    /\ \A w \in Workers :
        (at[w].unit \in {"emit", "respond", "record"} /\ at[w].status = 201) =>
            IF ask[w].op = "feedback"
            THEN <<ask[w].user, ask[w].rec>> \in feedback
            ELSE ask[w].op = "register" /\ <<ask[w].email, ask[w].password>> \in acked

\* Two registrations of one e-mail at once leave one account, and whoever was
\* told 201 gets in afterwards: a login with the password of an account
\* confirmed before it began is not refused (auth.register reads before it
\* inserts; auth.login takes the first row).
RegisteredCanLogin ==
    \A w \in Workers : at[w].knew => at[w].status # 401

\* The answers of a profile, "not told us" among them, survive the integer
\* columns: whoever loads it works with the profile of the last committed
\* save, under the answers the request itself carries
\* (store._to_row, _from_row, api_v2._load_context).
ProfileSurvives ==
    [][\A w \in Workers :
        (at[w].unit = "load" /\ at'[w].unit = "respond" /\ at'[w].status = 200) =>
            \A f \in ProfileFields :
                at'[w].told[f] = IF ask[w].body[f] = "unset" THEN saved[ask[w].user][f]
                                                           ELSE ask[w].body[f]]_vars

\* No order of connections, waits, timeouts and failures leaves a request
\* without an answer, though analytics share the pool and hold the event loop.
EveryRequestIsAnswered ==
    \A w \in Workers : at[w].unit # "idle" ~> at[w].unit = "idle"
=============================================================================
