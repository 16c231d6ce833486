---------------------------- MODULE ServiceProofs ----------------------------
(***************************************************************************)
(* The invariants of the HTTP service for any number of requests, users,   *)
(* recommendations and connections.  The invariant has a part for the      *)
(* tables and a part for each request; what a request was told depends on  *)
(* tables that only grow, so a step has to be looked at for the one        *)
(* request that takes it.                                                  *)
(***************************************************************************)
EXTENDS Service, TLAPS

-----------------------------------------------------------------------------
(* The inductive invariant.                                                *)

\* The tables: one account for an e-mail, every confirmed account present,
\* every stored profile read back as it was saved.
TablesInv ==
    /\ users \subseteq User
    /\ profiles \in [Users -> ProfileRow \cup {NoRow}]
    /\ feedback \subseteq Users \X Recs
    /\ acked \subseteq Emails \X Passwords
    /\ saved \in [Users -> Profile \cup {NoProfile}]
    /\ \A u, v \in users : u.email = v.email => u = v
    /\ \A k \in acked : \E u \in users : u.email = k[1] /\ u.password = k[2]
    /\ \A u \in Users : profiles[u] # NoRow => FromRow(profiles[u]) = saved[u]

\* A unit works for a request of its kind.
Serves(a, u) ==
    /\ u = "schema" => a \in AccountAsk
    /\ u = "register" => a \in AccountAsk /\ a.op = "register"
    /\ u = "login" => a \in AccountAsk /\ a.op = "login"
    /\ u \in {"save", "load"} => a \in ProfileAsk
    /\ u \in {"rate", "emit"} => a \in FeedbackAsk

\* What a request with ask a has been told, and whether it has come by it
\* rightly, when ak and fb are the accounts and the feedback confirmed.
Told == {"emit", "respond", "record"}

Confirmed(a, ak, fb) ==
    IF a.op = "feedback" THEN <<a.user, a.rec>> \in fb
    ELSE a.op = "register" /\ <<a.email, a.password>> \in ak

Truthful(a, p, ak, fb) ==
    /\ p.unit \in Told /\ p.status = 201 => Confirmed(a, ak, fb)
    /\ p.knew => /\ a \in AccountAsk /\ a.op = "login"
                 /\ <<a.email, a.password>> \in ak
                 /\ p.status # 401

WorkerGood(a, p, ak, fb) ==
    /\ a \in Ask /\ p \in Progress
    /\ Serves(a, p.unit)
    /\ Truthful(a, p, ak, fb)

WorkersInv ==
    /\ ask \in [Workers -> Ask] /\ at \in [Workers -> Progress]
    /\ \A w \in Workers : WorkerGood(ask[w], at[w], acked, feedback)
    /\ begun \in Nat

ServiceInv ==
    /\ TablesInv
    /\ WorkersInv

-----------------------------------------------------------------------------
(* Profiles.                                                               *)

\* A payload becomes a profile.
LEMMA PayloadIsProfile ==
  ASSUME NEW b \in Body
  PROVE  ProfileFromPayload(b) \in Profile
BY DEF ProfileFromPayload, Profile, Body, Default, Answers

\* A profile fits its columns.
LEMMA ProfileFits ==
  ASSUME NEW p \in Profile
  PROVE  ToRow(p) \in ProfileRow
<1>1. \A f \in ProfileFields : p[f] \in {"yes", "no", "unknown"}
  BY DEF Profile, Answers
<1> QED BY <1>1 DEF ToRow, ProfileRow

\* What a row holds is a profile.
LEMMA RowIsProfile ==
  ASSUME NEW r \in ProfileRow
  PROVE  FromRow(r) \in Profile
<1>1. \A f \in ProfileFields : r[f] \in {0, 1, NULL}
  BY DEF ProfileRow
<1>2. \A f \in ProfileFields : Default(f) \in Answers
  BY DEF Default, Answers
<1> QED BY <1>1, <1>2, ServiceAssumption DEF FromRow, Profile, Answers

\* Row and profile agree field by field.
LEMMA FieldReturns ==
  ASSUME NEW p \in Profile, NEW g \in ProfileFields,
         p[g] = "unknown" => g \in ThreeValued
  PROVE  FromRow(ToRow(p))[g] = p[g]
<1>1. ToRow(p)[g] = CASE p[g] = "unknown" -> NULL [] p[g] = "yes" -> 1 [] p[g] = "no" -> 0
  BY DEF ToRow
<1>2. \A r : FromRow(r)[g] = CASE r[g] = NULL -> Default(g) [] r[g] = 1 -> "yes"
                                [] r[g] = 0 -> "no"
  BY DEF FromRow
<1>3. FromRow(ToRow(p))[g] = CASE ToRow(p)[g] = NULL -> Default(g)
                               [] ToRow(p)[g] = 1 -> "yes" [] ToRow(p)[g] = 0 -> "no"
  BY <1>2
<1>4. p[g] \in {"yes", "no", "unknown"}
  BY DEF Profile, Answers
<1>5. NULL # 0 /\ NULL # 1
  BY ServiceAssumption
<1>6. CASE p[g] = "unknown"
  <2>1. ToRow(p)[g] = NULL
    BY <1>1, <1>6
  <2>2. FromRow(ToRow(p))[g] = Default(g)
    BY <1>3, <1>5, <2>1
  <2>3. Default(g) = "unknown"
    BY <1>6 DEF Default
  <2> QED BY <1>6, <2>2, <2>3
<1>7. CASE p[g] = "yes"
  BY <1>1, <1>3, <1>5, <1>7
<1>8. CASE p[g] = "no"
  BY <1>1, <1>3, <1>5, <1>8
<1> QED BY <1>4, <1>6, <1>7, <1>8

\* store._from_row(store._to_row(p)) is p for every profile a payload gives,
\* "not told us" included, since a field without that answer never holds it.
LEMMA RoundTrip ==
  ASSUME NEW b \in Body
  PROVE  FromRow(ToRow(ProfileFromPayload(b))) = ProfileFromPayload(b)
<1>1. \A f \in ProfileFields : b[f] \in {"yes", "no", "unknown", "unset"}
  BY DEF Body, Answers
<1>2. \A f \in ProfileFields : ProfileFromPayload(b)[f] = "unknown" => f \in ThreeValued
  BY <1>1 DEF ProfileFromPayload, Default
<1>3. ProfileFromPayload(b) \in Profile
  BY PayloadIsProfile
<1>4. \A f \in ProfileFields :
         FromRow(ToRow(ProfileFromPayload(b)))[f] = ProfileFromPayload(b)[f]
  BY <1>2, <1>3, FieldReturns
<1>5. FromRow(ToRow(ProfileFromPayload(b))) \in Profile
  BY <1>3, ProfileFits, RowIsProfile
<1> QED BY <1>3, <1>4, <1>5 DEF Profile

-----------------------------------------------------------------------------
(* Requests.                                                               *)

\* The first unit of a request is one for its kind.
LEMMA FirstUnitServes ==
  ASSUME NEW a \in Ask
  PROVE  /\ FirstUnit(a.op) \in Units
         /\ FirstUnit(a.op) \notin {"emit", "record"}
         /\ FirstUnit(a.op) = "respond" => a.op = "refused"
         /\ Serves(a, FirstUnit(a.op))
<1>1. CASE a \in AccountAsk
  BY <1>1 DEF AccountAsk, FirstUnit, Serves, Units, DbUnits, Handlers
<1>2. CASE a \in ProfileAsk
  BY <1>2 DEF ProfileAsk, FirstUnit, Serves, Units, DbUnits, Handlers
<1>3. CASE a \in FeedbackAsk
  BY <1>3 DEF FeedbackAsk, FirstUnit, Serves, Units, DbUnits, Handlers
<1>4. CASE a \in PlainAsk
  BY <1>4 DEF PlainAsk, FirstUnit, Serves, Units, DbUnits, Handlers
<1> QED BY <1>1, <1>2, <1>3, <1>4 DEF Ask

\* A request that has been answered is good for the next.
LEMMA FreshIsGood ==
  ASSUME NEW ak, NEW fb
  PROVE  WorkerGood(Nothing, Fresh, ak, fb)
<1>1. Nothing \in Ask
  BY DEF Nothing, Ask, PlainAsk
<1>2. Fresh \in Progress
  BY DEF Fresh, Progress, Units, Statuses
<1>3. Serves(Nothing, Fresh.unit) /\ Truthful(Nothing, Fresh, ak, fb)
  BY DEF Fresh, Serves, Truthful
<1> QED BY <1>1, <1>2, <1>3 DEF WorkerGood

\* More accounts and feedback take nothing back.
LEMMA GoodStaysGood ==
  ASSUME NEW a, NEW p, NEW ak, NEW fb, NEW ak2, NEW fb2,
         WorkerGood(a, p, ak, fb), ak \subseteq ak2, fb \subseteq fb2
  PROVE  WorkerGood(a, p, ak2, fb2)
BY DEF WorkerGood, Truthful, Confirmed

\* A request that goes on to unit u with a status it has come by rightly.
LEMMA MovedIsGood ==
  ASSUME NEW a, NEW p, NEW ak, NEW fb, WorkerGood(a, p, ak, fb),
         NEW u \in Units, NEW s \in Statuses,
         Serves(a, u),
         u \in Told /\ s = 201 => Confirmed(a, ak, fb),
         p.knew => s # 401
  PROVE  WorkerGood(a, Moved(p, u, s), ak, fb)
<1> DEFINE q == Moved(p, u, s)
<1>1. /\ q \in Progress /\ q.unit = u /\ q.status = s
      /\ q.knew = p.knew
  BY DEF WorkerGood, Moved, Progress
<1> HIDE DEF q
<1>2. Truthful(a, q, ak, fb)
  BY <1>1 DEF WorkerGood, Truthful
<1>3. WorkerGood(a, q, ak, fb)
  BY <1>1, <1>2 DEF WorkerGood
<1> QED BY <1>3 DEF q

\* One request moves and the tables grow.
LEMMA OneMoves ==
  ASSUME ServiceInv, NEW w \in Workers, NEW p,
         ask' \in [Workers -> Ask],
         \A v \in Workers \ {w} : ask'[v] = ask[v],
         at' = [at EXCEPT ![w] = p],
         WorkerGood(ask'[w], p, acked', feedback'),
         acked \subseteq acked', feedback \subseteq feedback',
         begun' \in Nat
  PROVE  WorkersInv'
<1>1. at \in [Workers -> Progress] /\ p \in Progress
  BY DEF ServiceInv, WorkersInv, WorkerGood
<1>2. /\ at' \in [Workers -> Progress] /\ at'[w] = p
      /\ \A v \in Workers \ {w} : at'[v] = at[v]
  BY <1>1
<1>3. ASSUME NEW v \in Workers
      PROVE  WorkerGood(ask'[v], at'[v], acked', feedback')
  <2>1. CASE v = w
    BY <1>2, <2>1
  <2>2. CASE v # w
    <3>1. WorkerGood(ask[v], at[v], acked, feedback)
      BY DEF ServiceInv, WorkersInv
    <3>2. WorkerGood(ask[v], at[v], acked', feedback')
      BY <3>1, GoodStaysGood
    <3> QED BY <1>2, <2>2, <3>2
  <2> QED BY <2>1, <2>2
<1> QED BY <1>2, <1>3 DEF WorkersInv

\* A request leaves a unit while the tables keep their invariant and grow.
LEMMA LeavesKeeps ==
  ASSUME ServiceInv, NEW w \in Workers, NEW u \in Units, NEW s \in Statuses,
         Leaves(w, u, s), TablesInv',
         acked \subseteq acked', feedback \subseteq feedback',
         Serves(ask[w], u),
         u \in Told /\ s = 201 => Confirmed(ask[w], acked', feedback'),
         at[w].knew => s # 401
  PROVE  ServiceInv'
<1> DEFINE p == Moved(at[w], u, s)
<1>1. /\ at' = [at EXCEPT ![w] = p] /\ ask' = ask /\ begun' = begun
      /\ ask \in [Workers -> Ask] /\ begun \in Nat
      /\ WorkerGood(ask[w], at[w], acked, feedback)
  BY DEF Leaves, ServiceInv, WorkersInv
<1>2. WorkerGood(ask[w], at[w], acked', feedback')
  BY <1>1, GoodStaysGood
<1>3. WorkerGood(ask[w], p, acked', feedback')
  BY <1>2, MovedIsGood
<1> HIDE DEF p
<1>4. WorkersInv'
  BY <1>1, <1>3, OneMoves
<1> QED BY <1>4 DEF ServiceInv

\* An answer is sent, or an exception ends the request.
LEMMA EndsKeeps ==
  ASSUME ServiceInv, NEW w \in Workers, Ends(w), UNCHANGED tables
  PROVE  ServiceInv'
<1>1. /\ at' = [at EXCEPT ![w] = Fresh] /\ ask' = [ask EXCEPT ![w] = Nothing]
      /\ begun' = begun /\ begun \in Nat /\ ask \in [Workers -> Ask]
      /\ acked' = acked /\ feedback' = feedback
  BY DEF Ends, ServiceInv, WorkersInv, tables
<1>2. WorkerGood(Nothing, Fresh, acked', feedback')
  BY FreshIsGood
<1>3. /\ ask'[w] = Nothing /\ ask' \in [Workers -> Ask]
      /\ \A v \in Workers \ {w} : ask'[v] = ask[v]
  BY <1>1, <1>2 DEF WorkerGood
<1>4. WorkersInv'
  BY <1>1, <1>2, <1>3, OneMoves
<1>5. TablesInv'
  BY DEF ServiceInv, TablesInv, tables
<1> QED BY <1>4, <1>5 DEF ServiceInv

\* A handler or middleware goes on while the tables stay as they are.
LEMMA GoesOn ==
  ASSUME ServiceInv, NEW w \in Workers, NEW u \in Units, NEW s \in Statuses,
         Leaves(w, u, s), UNCHANGED tables, Serves(ask[w], u),
         \/ s \notin {201, 401}
         \/ s = at[w].status /\ at[w].unit \in Told
         \/ s = 401 /\ ~at[w].knew
  PROVE  ServiceInv'
<1>1. TablesInv'
  BY DEF ServiceInv, TablesInv, tables
<1>2. WorkerGood(ask[w], at[w], acked, feedback)
  BY DEF ServiceInv, WorkersInv
<1>3. acked' = acked /\ feedback' = feedback
  BY DEF tables
<1>4. at[w].knew => s # 401
  BY <1>2 DEF WorkerGood, Truthful
<1>5. u \in Told /\ s = 201 => Confirmed(ask[w], acked', feedback')
  BY <1>2, <1>3 DEF WorkerGood, Truthful
<1> QED BY <1>1, <1>3, <1>4, <1>5, LeavesKeeps

-----------------------------------------------------------------------------
(* The actions.                                                            *)

\* What the invariant says of the request that moves.
LEMMA Mover ==
  ASSUME ServiceInv, NEW w \in Workers
  PROVE  /\ ask[w] \in Ask /\ at[w] \in Progress
         /\ WorkerGood(ask[w], at[w], acked, feedback)
BY DEF ServiceInv, WorkersInv

LEMMA ServiceInit == ASSUME Init PROVE ServiceInv
<1>1. users \in Accounts /\ acked = {<<u.email, u.password>> : u \in users}
  BY DEF Init
<1>2. users \subseteq User /\ \A u, v \in users : u.email = v.email => u = v
  BY <1>1, ServiceAssumption
<1>3. acked \subseteq Emails \X Passwords
  BY <1>1, <1>2 DEF User
<1>4. \A k \in acked : \E u \in users : u.email = k[1] /\ u.password = k[2]
  BY <1>1
<1>5. TablesInv
  BY <1>2, <1>3, <1>4 DEF Init, TablesInv
<1>6. WorkersInv
  <2>1. WorkerGood(Nothing, Fresh, acked, feedback)
    BY FreshIsGood
  <2> QED BY <2>1 DEF Init, WorkersInv, WorkerGood
<1> QED BY <1>5, <1>6 DEF ServiceInv

\* A request arrives.
LEMMA BeginKeeps ==
  ASSUME ServiceInv, NEW w \in Workers, NEW a \in Ask, Begin(w, a)
  PROVE  ServiceInv'
<1> DEFINE knew == a.op = "login" /\ <<a.email, a.password>> \in acked
           status == IF a.op = "refused" THEN 401 ELSE 0
           p == [Fresh EXCEPT !.unit = FirstUnit(a.op), !.knew = knew, !.status = status]
<1>1. /\ at' = [at EXCEPT ![w] = p] /\ ask' = [ask EXCEPT ![w] = a]
      /\ begun' = begun + 1 /\ UNCHANGED tables
  BY DEF Begin
<1>2. /\ ask \in [Workers -> Ask] /\ begun \in Nat
  BY DEF ServiceInv, WorkersInv
<1>3. /\ ask'[w] = a /\ ask' \in [Workers -> Ask] /\ begun' \in Nat
      /\ \A v \in Workers \ {w} : ask'[v] = ask[v]
  BY <1>1, <1>2
<1>4. knew \in BOOLEAN /\ status \in {0, 401}
  OBVIOUS
<1>5. knew => a \in AccountAsk /\ a.op = "login" /\ <<a.email, a.password>> \in acked
              /\ status = 0
  BY DEF Ask, AccountAsk, ProfileAsk, FeedbackAsk, PlainAsk
<1> HIDE DEF knew, status
<1>6. /\ p.unit = FirstUnit(a.op) /\ p.knew = knew /\ p.status = status
      /\ p \in Progress
  BY <1>4, FirstUnitServes DEF Fresh, Progress, Statuses
<1> HIDE DEF p
<1>7. WorkerGood(a, p, acked, feedback)
  BY <1>4, <1>5, <1>6, FirstUnitServes DEF WorkerGood, Truthful
<1>8. acked' = acked /\ feedback' = feedback
  BY <1>1 DEF tables
<1>9. WorkersInv'
  BY <1>1, <1>3, <1>6, <1>7, <1>8, OneMoves
<1>10. TablesInv'
  BY <1>1 DEF ServiceInv, TablesInv, tables
<1> QED BY <1>9, <1>10 DEF ServiceInv

\* A connection is taken from the pool.
LEMMA CheckoutKeeps ==
  ASSUME ServiceInv, NEW w \in Workers, Checkout(w)
  PROVE  ServiceInv'
<1> DEFINE finds == Finds(w)
           p == [at[w] EXCEPT !.held = TRUE, !.seen = finds]
<1>1. /\ at' = [at EXCEPT ![w] = p] /\ ask' = ask /\ begun' = begun
      /\ UNCHANGED tables
  BY DEF Checkout
<1>2. finds \in BOOLEAN
  <2>1. CASE at[w].unit = "register"
    BY <2>1 DEF Finds
  <2>2. CASE at[w].unit = "save"
    BY <2>2 DEF Finds
  <2>3. CASE at[w].unit = "rate"
    BY <2>3 DEF Finds
  <2>4. CASE at[w].unit \notin {"register", "save", "rate"}
    BY <2>4 DEF Finds
  <2> QED BY <2>1, <2>2, <2>3, <2>4
<1> HIDE DEF finds
<1>3. /\ p \in Progress /\ p.unit = at[w].unit /\ p.knew = at[w].knew
      /\ p.status = at[w].status
  BY <1>2, Mover DEF Progress
<1> HIDE DEF p
<1>4. WorkerGood(ask[w], p, acked, feedback)
  BY <1>1, <1>3, Mover DEF WorkerGood, Truthful
<1>5. acked' = acked /\ feedback' = feedback
  BY <1>1 DEF tables
<1>6. ask' \in [Workers -> Ask] /\ begun' \in Nat
  BY <1>1 DEF ServiceInv, WorkersInv
<1>7. WorkersInv'
  BY <1>1, <1>4, <1>5, <1>6, OneMoves
<1>8. TablesInv'
  BY <1>1 DEF ServiceInv, TablesInv, tables
<1> QED BY <1>7, <1>8 DEF ServiceInv

\* The ways in which a unit of work ends without having written.
LEMMA QuietStepsKeep ==
  ASSUME ServiceInv, NEW w \in Workers,
         \/ PoolTimeout(w) \/ Fails(w) \/ InitDb(w) \/ RegisterRefuses(w) \/ Login(w)
         \/ EmitAnalytics(w) \/ Health(w) \/ Observe(w) \/ Record(w)
  PROVE  ServiceInv'
<1> USE DEF Units, DbUnits, Handlers, Statuses, Told
<1>1. Serves(ask[w], "respond") /\ Serves(ask[w], "record")
  BY DEF Serves
<1>2. at[w].status \in Statuses
  BY Mover DEF Progress
<1>3. CASE PoolTimeout(w)
  <2>1. CASE Answer(w, 503)
    BY <1>1, <1>3, <2>1, GoesOn DEF PoolTimeout, Answer
  <2>2. CASE at[w].unit = "emit" /\ Answer(w, at[w].status)
    BY <1>1, <1>2, <1>3, <2>2, GoesOn DEF PoolTimeout, Answer
  <2>3. CASE Ends(w)
    BY <1>3, <2>3, EndsKeeps DEF PoolTimeout
  <2> QED BY <1>3, <2>1, <2>2, <2>3 DEF PoolTimeout
<1>4. CASE Fails(w)
  <2>1. CASE Answer(w, 503)
    BY <1>1, <1>4, <2>1, GoesOn DEF Fails, Answer
  <2>2. CASE at[w].unit = "emit" /\ Answer(w, at[w].status)
    BY <1>1, <1>2, <1>4, <2>2, GoesOn DEF Fails, Answer
  <2>3. CASE Ends(w)
    BY <1>4, <2>3, EndsKeeps DEF Fails
  <2> QED BY <1>4, <2>1, <2>2, <2>3 DEF Fails, Inside, Crash
<1>5. CASE InitDb(w)
  <2>1. ask[w] \in AccountAsk
    BY <1>5, Mover DEF InitDb, Inside, WorkerGood, Serves
  <2>2. ask[w].op \in {"register", "login"}
    BY <2>1 DEF AccountAsk
  <2>3. Serves(ask[w], ask[w].op)
    BY <2>1, <2>2 DEF Serves
  <2> QED BY <1>5, <2>2, <2>3, GoesOn DEF InitDb
<1>6. CASE RegisterRefuses(w)
  BY <1>1, <1>6, GoesOn DEF RegisterRefuses, Answer
<1>7. CASE Login(w)
  <2>1. ask[w] \in AccountAsk /\ ask[w].op = "login"
    BY <1>7, Mover DEF Login, Inside, WorkerGood, Serves
  <2>2. at[w].knew => \E u \in users : /\ u.email = ask[w].email
                                       /\ u.password = ask[w].password
    <3>1. at[w].knew => <<ask[w].email, ask[w].password>> \in acked
      BY Mover DEF WorkerGood, Truthful
    <3> QED BY <3>1 DEF ServiceInv, TablesInv
  <2>3. \A u, v \in users : u.email = v.email => u = v
    BY DEF ServiceInv, TablesInv
  <2>4. CASE Rows(ask[w].email) = {} /\ Answer(w, 401)
    <3>1. ~at[w].knew
      BY <2>2, <2>4 DEF Rows
    <3> QED BY <1>1, <1>7, <2>4, <3>1, GoesOn DEF Login, Answer
  <2>5. CASE \E u \in Rows(ask[w].email) :
                Answer(w, IF u.password = ask[w].password THEN 200 ELSE 401)
    <3>1. PICK row \in Rows(ask[w].email) :
                  Answer(w, IF row.password = ask[w].password THEN 200 ELSE 401)
      BY <2>5
    <3>2. CASE row.password = ask[w].password
      BY <1>1, <1>7, <3>1, <3>2, GoesOn DEF Login, Answer
    <3>3. CASE row.password # ask[w].password
      <4>1. ~at[w].knew
        BY <2>2, <2>3, <3>3 DEF Rows
      <4> QED BY <1>1, <1>7, <3>1, <3>3, <4>1, GoesOn DEF Login, Answer
    <3> QED BY <3>2, <3>3
  <2> QED BY <1>7, <2>4, <2>5 DEF Login
<1>8. CASE EmitAnalytics(w)
  BY <1>1, <1>2, <1>8, GoesOn DEF EmitAnalytics, Inside, Answer
<1>9. CASE Health(w)
  BY <1>1, <1>9, GoesOn DEF Health, Answer
<1>10. CASE Observe(w)
  <2>1. CASE Leaves(w, "record", at[w].status)
    BY <1>1, <1>2, <1>10, <2>1, GoesOn DEF Observe
  <2>2. CASE Ends(w)
    BY <1>10, <2>2, EndsKeeps DEF Observe
  <2> QED BY <1>10, <2>1, <2>2 DEF Observe
<1>11. CASE Record(w)
  BY <1>11, EndsKeeps DEF Record
<1> QED BY <1>3, <1>4, <1>5, <1>6, <1>7, <1>8, <1>9, <1>10, <1>11

\* An account is created, or the insert meets the unique index.
LEMMA RegisterKeeps ==
  ASSUME ServiceInv, NEW w \in Workers, RegisterInserts(w)
  PROVE  ServiceInv'
<1> DEFINE e == ask[w].email
           pw == ask[w].password
<1>1. ask[w] \in AccountAsk /\ ask[w].op = "register"
  BY Mover DEF RegisterInserts, Inside, WorkerGood, Serves
<1>2. e \in Emails /\ pw \in Passwords
  BY <1>1 DEF AccountAsk
<1>3. CASE Rows(e) # {}
  BY <1>3, EndsKeeps DEF RegisterInserts, Crash
<1>4. CASE Rows(e) = {}
  <2>1. PICK id \in Users :
          /\ users' = users \cup {[id |-> id, email |-> e, password |-> pw]}
          /\ acked' = acked \cup {<<e, pw>>}
          /\ Answer(w, 201)
          /\ UNCHANGED <<profiles, feedback, saved>>
    BY <1>4 DEF RegisterInserts
  <2> DEFINE new == [id |-> id, email |-> e, password |-> pw]
  <2>2. new \in User /\ new.email = e /\ new.password = pw
    BY <1>2 DEF User
  <2>3. \A u \in users : u.email # e
    BY <1>4 DEF Rows
  <2> HIDE DEF new
  <2>4. users' = users \cup {new} /\ acked' = acked \cup {<<e, pw>>}
    BY <2>1 DEF new
  <2>5. \A u, v \in users' : u.email = v.email => u = v
    BY <2>2, <2>3, <2>4 DEF ServiceInv, TablesInv
  <2>6. \A k \in acked' : \E u \in users' : u.email = k[1] /\ u.password = k[2]
    BY <2>2, <2>4 DEF ServiceInv, TablesInv
  <2>7. users' \subseteq User /\ acked' \subseteq Emails \X Passwords
    BY <1>2, <2>2, <2>4 DEF ServiceInv, TablesInv
  <2>8. TablesInv'
    BY <2>1, <2>5, <2>6, <2>7 DEF ServiceInv, TablesInv
  <2>9. Serves(ask[w], "respond")
    BY DEF Serves
  <2>10. Confirmed(ask[w], acked', feedback')
    BY <1>1, <2>4 DEF Confirmed
  <2>11. /\ Leaves(w, "respond", 201) /\ "respond" \in Units /\ 201 \in Statuses
         /\ acked \subseteq acked' /\ feedback \subseteq feedback'
    BY <2>1 DEF Answer, Units, Statuses
  <2> QED BY <1>1, <2>8, <2>9, <2>10, <2>11, LeavesKeeps
<1> QED BY <1>3, <1>4

\* A profile is stored, or its first insert meets the unique index.
LEMMA SaveProfileKeeps ==
  ASSUME ServiceInv, NEW w \in Workers, SaveProfile(w)
  PROVE  ServiceInv'
<1> DEFINE u == ask[w].user
           p == ProfileFromPayload(ask[w].body)
           row == ToRow(p)
<1>1. ask[w] \in ProfileAsk
  BY Mover DEF SaveProfile, Inside, WorkerGood, Serves
<1>2. ask[w].user \in Users /\ ask[w].body \in Body
  BY <1>1, ServiceAssumption DEF ProfileAsk
<1>3. p \in Profile /\ row \in ProfileRow /\ FromRow(row) = p
  BY <1>2, PayloadIsProfile, ProfileFits, RoundTrip
<1>4. CASE ~at[w].seen /\ profiles[u] # NoRow
  BY <1>4, EndsKeeps DEF SaveProfile, Crash
<1>5. CASE ~(~at[w].seen /\ profiles[u] # NoRow)
  <2>1. /\ profiles' = [profiles EXCEPT ![u] = row]
        /\ saved' = [saved EXCEPT ![u] = p]
        /\ Answer(w, 200)
        /\ UNCHANGED <<users, feedback, acked>>
    BY <1>5 DEF SaveProfile
  <2> HIDE DEF p, row
  <2>2. /\ profiles' \in [Users -> ProfileRow \cup {NoRow}]
        /\ saved' \in [Users -> Profile \cup {NoProfile}]
    BY <1>2, <1>3, <2>1 DEF ServiceInv, TablesInv
  <2>3. ASSUME NEW v \in Users, profiles'[v] # NoRow
        PROVE  FromRow(profiles'[v]) = saved'[v]
    <3>1. CASE v = u
      BY <1>2, <1>3, <2>1, <3>1 DEF ServiceInv, TablesInv
    <3>2. CASE v # u
      BY <1>2, <2>1, <2>3, <3>2 DEF ServiceInv, TablesInv
    <3> QED BY <3>1, <3>2
  <2>4. TablesInv'
    BY <2>1, <2>2, <2>3 DEF ServiceInv, TablesInv
  <2>5. Serves(ask[w], "respond")
    BY DEF Serves
  <2>6. /\ Leaves(w, "respond", 200) /\ "respond" \in Units /\ 200 \in Statuses
        /\ acked' = acked /\ feedback' = feedback
    BY <2>1 DEF Answer, Units, Statuses
  <2> QED BY <2>4, <2>5, <2>6, LeavesKeeps
<1> QED BY <1>4, <1>5

\* A profile is loaded for a decision.
LEMMA LoadProfileKeeps ==
  ASSUME ServiceInv, NEW w \in Workers, LoadProfile(w)
  PROVE  ServiceInv'
<1> DEFINE r == profiles[ask[w].user]
<1>1. Serves(ask[w], "respond") /\ UNCHANGED tables
  BY DEF Serves, LoadProfile
<1>2. CASE r = NoRow
  BY <1>1, <1>2, GoesOn DEF LoadProfile, Answer, Units, Statuses
<1>3. CASE r # NoRow
  <2> DEFINE told == LoadContext(FromRow(r), ask[w].body)
             m == Moved(at[w], "respond", 200)
             p == [m EXCEPT !.told = told]
  <2>1. at' = [at EXCEPT ![w] = p] /\ ask' = ask /\ begun' = begun
    BY <1>3 DEF LoadProfile
  <2>2. ask[w] \in ProfileAsk
    BY Mover DEF LoadProfile, Inside, WorkerGood, Serves
  <2>3. ask[w].user \in Users /\ ask[w].body \in Body
    BY <2>2, ServiceAssumption DEF ProfileAsk
  <2>4. FromRow(r) \in Profile
    BY <1>3, <2>3, RowIsProfile DEF ServiceInv, TablesInv
  <2>5. told \in Profile
    BY <2>3, <2>4 DEF LoadContext, Body, Profile
  <2> HIDE DEF told
  <2>6. WorkerGood(ask[w], m, acked, feedback)
    <3>1. "respond" \in Units /\ 200 \in Statuses
      BY DEF Units, Statuses
    <3> QED BY <1>1, <3>1, Mover, MovedIsGood
  <2>7. m.unit = "respond" /\ m.status = 200 /\ m \in Progress
    BY <2>6, Mover DEF Moved, Progress, WorkerGood
  <2> HIDE DEF m
  <2>8. /\ p \in Progress /\ p.unit = m.unit /\ p.status = m.status
        /\ p.knew = m.knew
    BY <2>5, <2>7 DEF Progress
  <2> HIDE DEF p
  <2>9. WorkerGood(ask[w], p, acked, feedback)
    BY <2>6, <2>8 DEF WorkerGood, Truthful
  <2>10. acked' = acked /\ feedback' = feedback
    BY <1>1 DEF tables
  <2>11. ask' \in [Workers -> Ask] /\ begun' \in Nat
    BY <2>1 DEF ServiceInv, WorkersInv
  <2>12. WorkersInv'
    BY <2>1, <2>7, <2>8, <2>9, <2>10, <2>11, OneMoves
  <2>13. TablesInv'
    BY <1>1 DEF ServiceInv, TablesInv, tables
  <2> QED BY <2>12, <2>13 DEF ServiceInv
<1> QED BY <1>2, <1>3

\* Feedback is stored, refused, or its insert meets the unique index.
LEMMA SaveFeedbackKeeps ==
  ASSUME ServiceInv, NEW w \in Workers, SaveFeedback(w)
  PROVE  ServiceInv'
<1> DEFINE k == <<ask[w].user, ask[w].rec>>
           own == Owner[ask[w].rec] = ask[w].user
<1>1. ask[w] \in FeedbackAsk
  BY Mover DEF SaveFeedback, Inside, WorkerGood, Serves
<1>2. ask[w].user \in Users /\ ask[w].rec \in Recs /\ ask[w].op = "feedback"
  BY <1>1 DEF FeedbackAsk
<1>3. CASE ~own
  <2>1. Answer(w, 404) /\ UNCHANGED tables
    BY <1>3 DEF SaveFeedback
  <2>2. Serves(ask[w], "respond")
    BY DEF Serves
  <2> QED BY <2>1, <2>2, GoesOn DEF Answer, Units, Statuses
<1>4. CASE own /\ ~at[w].seen /\ k \in feedback
  BY <1>4, EndsKeeps DEF SaveFeedback, Crash
<1>5. CASE own /\ ~(~at[w].seen /\ k \in feedback)
  <2>1. /\ feedback' = feedback \cup {k} /\ Leaves(w, "emit", 201)
        /\ UNCHANGED <<users, profiles, acked, saved>>
    BY <1>5 DEF SaveFeedback
  <2>2. TablesInv'
    BY <1>2, <2>1 DEF ServiceInv, TablesInv
  <2>3. Serves(ask[w], "emit")
    BY <1>1 DEF Serves
  <2>4. /\ "emit" \in Units /\ 201 \in Statuses /\ acked' = acked
        /\ feedback \subseteq feedback' /\ Confirmed(ask[w], acked', feedback')
    BY <1>2, <2>1 DEF Confirmed, Units, DbUnits, Statuses
  <2> QED BY <1>2, <2>1, <2>2, <2>3, <2>4, LeavesKeeps
<1> QED BY <1>3, <1>4, <1>5

\* Every step keeps the invariant.
LEMMA ServiceStep ==
  ASSUME ServiceInv, [Next]_vars
  PROVE  ServiceInv'
<1>1. CASE Next
  <2>1. PICK w \in Workers : Step(w) \/ \E a \in Ask : Begin(w, a)
    BY <1>1 DEF Next
  <2>2. CASE \E a \in Ask : Begin(w, a)
    BY <2>2, BeginKeeps
  <2>3. CASE Step(w)
    BY <2>3, CheckoutKeeps, QuietStepsKeep, RegisterKeeps, SaveProfileKeeps,
       LoadProfileKeeps, SaveFeedbackKeeps DEF Step
  <2> QED BY <2>1, <2>2, <2>3
<1>2. CASE UNCHANGED vars
  <2>1. UNCHANGED tables /\ at' = at /\ ask' = ask /\ begun' = begun
    BY <1>2 DEF vars
  <2>2. TablesInv'
    BY <2>1 DEF ServiceInv, TablesInv, tables
  <2>3. WorkersInv'
    BY <2>1 DEF ServiceInv, WorkersInv, tables
  <2> QED BY <2>2, <2>3 DEF ServiceInv
<1> QED BY <1>1, <1>2

-----------------------------------------------------------------------------
(* The theorems.                                                           *)

\* The invariant of tables and requests (db.py, auth.py, store.py).
THEOREM ServiceInvariant == Spec => []ServiceInv
<1>1. Init => ServiceInv
  BY ServiceInit
<1>2. ServiceInv /\ [Next]_vars => ServiceInv'
  BY ServiceStep
<1> QED BY <1>1, <1>2, PTL DEF Spec

\* The types of the tables and of the requests under way.
THEOREM ServiceType == Spec => []TypeOK
<1>1. ServiceInv => TypeOK
  BY DEF ServiceInv, TablesInv, WorkersInv, TypeOK
<1> QED BY <1>1, ServiceInvariant, PTL

\* What was answered with 201 is in its table for good (auth.register,
\* store.save_feedback).
THEOREM ServiceAckIsDurable == Spec => []AckIsDurable
<1>1. ServiceInv => AckIsDurable
  <2> SUFFICES ASSUME ServiceInv PROVE AckIsDurable
    OBVIOUS
  <2>1. \A k \in acked : \E u \in users : u.email = k[1] /\ u.password = k[2]
    BY DEF ServiceInv, TablesInv
  <2>2. ASSUME NEW w \in Workers, at[w].unit \in Told, at[w].status = 201
        PROVE  Confirmed(ask[w], acked, feedback)
    <3>1. Truthful(ask[w], at[w], acked, feedback)
      BY DEF ServiceInv, WorkersInv, WorkerGood
    <3> QED BY <2>2, <3>1 DEF Truthful
  <2> QED BY <2>1, <2>2 DEF AckIsDurable, Confirmed, Told
<1> QED BY <1>1, ServiceInvariant, PTL

\* Whoever was told 201 is not refused with that password afterwards
\* (auth.register, auth.login).
THEOREM ServiceRegisteredCanLogin == Spec => []RegisteredCanLogin
<1>1. ServiceInv => RegisteredCanLogin
  BY DEF ServiceInv, WorkersInv, WorkerGood, Truthful, RegisteredCanLogin
<1> QED BY <1>1, ServiceInvariant, PTL

\* A step of one request moves no other.
LEMMA OthersStay ==
  ASSUME ServiceInv, NEW v \in Workers, NEW w \in Workers, v # w,
         Step(v) \/ \E a \in Ask : Begin(v, a)
  PROVE  at'[w] = at[w]
<1>1. at \in [Workers -> Progress]
  BY DEF ServiceInv, WorkersInv
<1>2. ASSUME NEW p, at' = [at EXCEPT ![v] = p] PROVE at'[w] = at[w]
  BY <1>1, <1>2
<1>3. \A u, s : Leaves(v, u, s) => at'[w] = at[w]
  BY <1>2 DEF Leaves
<1>4. Ends(v) => at'[w] = at[w]
  BY <1>2 DEF Ends
<1> USE DEF Answer, Crash
<1>5. CASE \E a \in Ask : Begin(v, a)
  BY <1>2, <1>5 DEF Begin
<1>6. CASE Checkout(v) \/ LoadProfile(v)
  BY <1>2, <1>3, <1>6 DEF Checkout, LoadProfile
<1>7. CASE PoolTimeout(v) \/ Fails(v)
  BY <1>3, <1>4, <1>7 DEF PoolTimeout, Fails
<1>8. CASE InitDb(v) \/ RegisterRefuses(v) \/ EmitAnalytics(v) \/ Health(v)
           \/ Observe(v) \/ Record(v)
  BY <1>3, <1>4, <1>8 DEF InitDb, RegisterRefuses, EmitAnalytics, Health, Observe, Record
<1>9. CASE RegisterInserts(v)
  BY <1>3, <1>4, <1>9 DEF RegisterInserts
<1>10. CASE Login(v)
  BY <1>3, <1>10 DEF Login
<1>11. CASE SaveProfile(v)
  BY <1>3, <1>4, <1>11 DEF SaveProfile
<1>12. CASE SaveFeedback(v)
  BY <1>3, <1>4, <1>12 DEF SaveFeedback
<1> QED BY <1>5, <1>6, <1>7, <1>8, <1>9, <1>10, <1>11, <1>12 DEF Step

\* A request that waits to load a profile is answered 200 by LoadProfile only.
LEMMA OnlyLoadTells ==
  ASSUME ServiceInv, NEW v \in Workers, Step(v) \/ \E a \in Ask : Begin(v, a),
         at[v].unit = "load", at'[v].unit = "respond", at'[v].status = 200
  PROVE  LoadProfile(v)
<1>1. at \in [Workers -> Progress] /\ at[v] \in Progress
  BY DEF ServiceInv, WorkersInv
<1>2. ~ \E a \in Ask : Begin(v, a)
  BY DEF Begin
<1>3. ~ Checkout(v)
  <2> SUFFICES ASSUME Checkout(v) PROVE FALSE
    OBVIOUS
  <2>1. at'[v].unit = at[v].unit
    BY <1>1 DEF Checkout, Progress
  <2> QED BY <2>1
<1>4. ~ Ends(v)
  BY <1>1 DEF Ends, Fresh
<1>5. ~ Answer(v, 503)
  <2> SUFFICES ASSUME Answer(v, 503) PROVE FALSE
    OBVIOUS
  <2>1. at'[v].status = 503
    BY <1>1 DEF Answer, Leaves, Moved, Progress
  <2> QED BY <2>1
<1>6. ~ PoolTimeout(v) /\ ~ Fails(v)
  BY <1>4, <1>5 DEF PoolTimeout, Fails, Inside, Crash
<1>7. /\ ~ InitDb(v) /\ ~ RegisterRefuses(v) /\ ~ RegisterInserts(v) /\ ~ Login(v)
      /\ ~ SaveProfile(v) /\ ~ SaveFeedback(v) /\ ~ EmitAnalytics(v) /\ ~ Health(v)
      /\ ~ Observe(v) /\ ~ Record(v)
  BY DEF InitDb, RegisterRefuses, RegisterInserts, Login, SaveProfile, SaveFeedback,
     EmitAnalytics, Health, Observe, Record, Inside
<1> QED BY <1>2, <1>3, <1>6, <1>7 DEF Step

\* The one step that loads a profile finds it as it was last saved.
LEMMA LoadsWhatWasSaved ==
  ASSUME ServiceInv, NEW v \in Workers, NEW w \in Workers, NEW g \in ProfileFields,
         LoadProfile(v),
         at[w].unit = "load", at'[w].unit = "respond", at'[w].status = 200
  PROVE  at'[w].told[g] = IF ask[w].body[g] = "unset" THEN saved[ask[w].user][g]
                                                     ELSE ask[w].body[g]
<1> DEFINE r == profiles[ask[v].user]
           told == LoadContext(FromRow(r), ask[v].body)
           m == Moved(at[v], "respond", 200)
<1>1. at \in [Workers -> Progress]
  BY DEF ServiceInv, WorkersInv
<1>2. w = v
  <2> SUFFICES ASSUME w # v PROVE FALSE
    OBVIOUS
  <2>1. at'[w] = at[w]
    BY <1>1 DEF LoadProfile, Answer, Leaves
  <2> QED BY <2>1
<1>3. r # NoRow
  <2> SUFFICES ASSUME r = NoRow PROVE FALSE
    OBVIOUS
  <2>1. at' = [at EXCEPT ![v] = Moved(at[v], "respond", 400)]
    BY DEF LoadProfile, Answer, Leaves
  <2>2. Moved(at[v], "respond", 400).status = 400
    BY <1>1 DEF Moved, Progress
  <2> QED BY <1>1, <1>2, <2>1, <2>2
<1>4. at' = [at EXCEPT ![v] = [m EXCEPT !.told = told]]
  BY <1>3 DEF LoadProfile
<1>5. m \in [DOMAIN m -> {m[x] : x \in DOMAIN m}] /\ "told" \in DOMAIN m
  BY <1>1 DEF Moved, Progress
<1> HIDE DEF m, told
<1>6. at'[v].told = told
  BY <1>1, <1>4, <1>5
<1>7. ask[v] \in ProfileAsk
  BY Mover DEF LoadProfile, Inside, WorkerGood, Serves
<1>8. FromRow(r) = saved[ask[v].user]
  BY <1>3, <1>7 DEF ProfileAsk, ServiceInv, TablesInv
<1>9. told[g] = IF ask[v].body[g] = "unset" THEN saved[ask[v].user][g] ELSE ask[v].body[g]
  BY <1>8 DEF told, LoadContext
<1> QED BY <1>2, <1>6, <1>9

\* Every profile survives its columns, "not told us" included: a decision is
\* made for the profile last saved, under the request's own answers
\* (store._to_row, _from_row, api_v2._load_context).
THEOREM ServiceProfileSurvives == Spec => ProfileSurvives
<1> DEFINE A == \A w \in Workers :
        (at[w].unit = "load" /\ at'[w].unit = "respond" /\ at'[w].status = 200) =>
            \A f \in ProfileFields :
                at'[w].told[f] = IF ask[w].body[f] = "unset" THEN saved[ask[w].user][f]
                                                           ELSE ask[w].body[f]
<1>1. ServiceInv /\ [Next]_vars => [A]_vars
  <2> SUFFICES ASSUME ServiceInv, Next, NEW w \in Workers,
                      at[w].unit = "load", at'[w].unit = "respond", at'[w].status = 200
               PROVE  \E v \in Workers : LoadProfile(v)
    BY LoadsWhatWasSaved
  <2>1. PICK v \in Workers : Step(v) \/ \E a \in Ask : Begin(v, a)
    BY DEF Next
  <2>2. v = w
    BY <2>1, OthersStay
  <2>3. at[v].unit = "load" /\ at'[v].unit = "respond" /\ at'[v].status = 200
    BY <2>2
  <2>4. LoadProfile(v)
    BY <2>1, <2>3, OnlyLoadTells
  <2> QED BY <2>4
<1> QED BY <1>1, ServiceInvariant, PTL DEF Spec, ProfileSurvives
=============================================================================
