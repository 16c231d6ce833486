---------------------------- MODULE TrackerProofs ----------------------------
(***************************************************************************)
(* The tracker's invariants for any number of accounts, applications,      *)
(* events and workers.  What carries the proof is RequestOwned: Python's   *)
(* UPDATE does not look at the number of rows it changed, and its event    *)
(* lands where the row did only because an id is never given twice.        *)
(***************************************************************************)
EXTENDS Tracker, SequenceTheorems, TLAPS

\* The invariant holds of two empty tables.
LEMMA TrackerInit == ASSUME Init PROVE TrackerInv
<1> USE TrackerAssumption
<1>1. TypeOK
  <2>1. \A id \in Ids : <<>> \in Seq(Texts)
    OBVIOUS
  <2> QED BY <2>1 DEF Init, TypeOK, Ids, Answer, Owners
<1>2. RequestOwned
  BY DEF Init, RequestOwned
<1>3. StatusIsLastEvent
  BY DEF Init, StatusIsLastEvent
<1>4. NoOrphanEvents
  BY DEF Init, NoOrphanEvents
<1> QED BY <1>1, <1>2, <1>3, <1>4 DEF TrackerInv

\* A step of update_status's SELECT, or one that gives up, changes no table.
LEMMA TablesUnchanged ==
  ASSUME TrackerInv, UNCHANGED <<apps, events>>
  PROVE  StatusIsLastEvent' /\ NoOrphanEvents'
BY DEF TrackerInv, StatusIsLastEvent, NoOrphanEvents

\* Appending an event to the history of a row whose status becomes the event's.
LEMMA StatusRecorded ==
  ASSUME TrackerInv, NEW k \in Ids, NEW s \in Texts, NEW r \in Row,
         r.status = s,
         apps' = [apps EXCEPT ![k] = r],
         AddEvent(k, s)
  PROVE  /\ apps' \in [Ids -> Row \cup {NoRow}]
         /\ events' \in [Ids -> Seq(Texts)]
         /\ StatusIsLastEvent' /\ NoOrphanEvents'
<1>1. /\ apps \in [Ids -> Row \cup {NoRow}]
      /\ events \in [Ids -> Seq(Texts)]
  BY DEF TrackerInv, TypeOK
<1>2. apps' \in [Ids -> Row \cup {NoRow}] /\ apps'[k] = r
  BY <1>1
<1>3. r # NoRow
  BY DEF Row, NoRow, Owners
<1>4. /\ events[k] \in Seq(Texts)
      /\ events' = [events EXCEPT ![k] = Append(events[k], s)]
  BY <1>1 DEF AddEvent
<1>5. /\ Append(events[k], s) \in Seq(Texts)
      /\ Len(Append(events[k], s)) = Len(events[k]) + 1
      /\ Append(events[k], s)[Len(events[k]) + 1] = s
  BY <1>4
<1>6. events' \in [Ids -> Seq(Texts)] /\ events'[k] = Append(events[k], s)
  BY <1>1, <1>4, <1>5
<1>7. StatusIsLastEvent'
  <2> SUFFICES ASSUME NEW id \in Ids, apps'[id] # NoRow
               PROVE  events'[id] # <<>> /\ Last(events'[id]) = apps'[id].status
    BY DEF StatusIsLastEvent
  <2>1. CASE id = k
    <3>1. Len(events[k]) \in Nat
      BY <1>4
    <3>2. events'[k] # <<>>
      BY <1>4, <1>5, <1>6, <3>1
    <3>3. Last(events'[k]) = s
      BY <1>5, <1>6 DEF Last
    <3> QED BY <2>1, <3>2, <3>3, <1>2
  <2>2. CASE id # k
    BY <2>2, <1>1, <1>4 DEF TrackerInv, StatusIsLastEvent
  <2> QED BY <2>1, <2>2
<1>8. NoOrphanEvents'
  BY <1>1, <1>2, <1>3, <1>4 DEF TrackerInv, NoOrphanEvents
<1> QED BY <1>2, <1>6, <1>7, <1>8

\* A status change of an existing row, by either service.
LEMMA StatusChanged ==
  ASSUME TrackerInv, NEW id \in Ids, NEW u \in Owners, NEW s \in Texts,
         Owned(id, u),
         AddEvent(id, s), apps' = [apps EXCEPT ![id].status = s],
         UNCHANGED nextId,
         \/ UNCHANGED req
         \/ \E w \in Workers : req' = [req EXCEPT ![w] = Idle],
         answer' \in Answer
  PROVE  TrackerInv'
<1> DEFINE r == [apps[id] EXCEPT !.status = s]
<1>t. TypeOK /\ RequestOwned
  BY DEF TrackerInv
<1>1. apps[id] \in Row /\ apps' = [apps EXCEPT ![id] = r]
  BY <1>t DEF TypeOK, Owned
<1>2. r \in Row /\ r # NoRow /\ r.user = apps[id].user /\ r.status = s
  BY <1>1 DEF Row, NoRow, Owners
<1> HIDE DEF r
<1>3. /\ apps' \in [Ids -> Row \cup {NoRow}]
      /\ events' \in [Ids -> Seq(Texts)]
      /\ StatusIsLastEvent' /\ NoOrphanEvents'
  BY <1>1, <1>2, StatusRecorded
<1>4. \A k \in Ids : /\ apps'[k] = NoRow <=> apps[k] = NoRow
                     /\ apps[k] # NoRow => apps'[k].user = apps[k].user
  BY <1>1, <1>2, <1>t DEF TypeOK, Owned
<1>5. /\ req' \in [Workers -> Request \cup {Idle}]
      /\ \A w \in Workers : req'[w] # Idle => req'[w] = req[w]
  BY <1>t DEF TypeOK
<1>6. TypeOK'
  BY <1>t, <1>3, <1>4, <1>5 DEF TypeOK
<1>7. RequestOwned'
  BY <1>t, <1>4, <1>5 DEF TypeOK, RequestOwned, ForeignKey, Owned, Request
<1> QED BY <1>3, <1>6, <1>7 DEF TrackerInv

\* Every operation of either service, and of the command line, keeps it.
LEMMA TrackerNext ==
  ASSUME TrackerInv, [Next]_vars
  PROVE  TrackerInv'
<1> USE TrackerAssumption
<1>t. TypeOK /\ RequestOwned
  BY DEF TrackerInv
<1>1. ASSUME NEW u \in Owners, NEW d \in Details, NEW s \in AddStatuses(u), Add(u, s, d)
      PROVE  TrackerInv'
  <2> DEFINE r == [user |-> u, status |-> s, details |-> d]
  <2>1. s \in Texts /\ nextId \in Ids /\ nextId' = nextId + 1
    BY <1>1 DEF AddStatuses, Texts, Add
  <2>2. r \in Row /\ r.status = s
    BY <2>1 DEF Row
  <2>3. apps' = [apps EXCEPT ![nextId] = r] /\ AddEvent(nextId, s)
    BY <1>1 DEF Add
  <2> HIDE DEF r
  <2>4. /\ apps' \in [Ids -> Row \cup {NoRow}]
        /\ events' \in [Ids -> Seq(Texts)]
        /\ StatusIsLastEvent' /\ NoOrphanEvents'
    BY <2>1, <2>2, <2>3, StatusRecorded
  <2>5. TypeOK'
    <3>1. \A id \in Ids : id >= nextId' => apps'[id] = NoRow
      BY <1>t, <2>1, <2>3 DEF TypeOK, Ids
    <3>2. nextId' \in 1 .. MaxApps + 1
      BY <2>1 DEF Ids
    <3>3. req' \in [Workers -> Request \cup {Idle}] /\ answer' \in Answer
      BY <1>1, <1>t DEF Add, TypeOK, Answered, Answer
    <3> QED BY <2>4, <3>1, <3>2, <3>3 DEF TypeOK
  <2>6. RequestOwned'
    <3> SUFFICES ASSUME NEW w \in Workers, req'[w] # Idle
                 PROVE  LET k == req'[w].app_id
                            c == req'[w].user
                        IN  /\ k < nextId'
                            /\ apps'[k] # NoRow => c = Cli \/ apps'[k].user = c
      BY DEF RequestOwned, ForeignKey, Owned
    <3>1. req'[w] = req[w] /\ req[w] \in Request /\ req[w].app_id \in Ids
      BY <1>1, <1>t DEF Add, TypeOK, Request
    <3>2. req[w].app_id < nextId
      BY <3>1, <1>t DEF RequestOwned
    <3>3. apps'[req[w].app_id] = apps[req[w].app_id]
      BY <2>1, <2>3, <3>1, <3>2, <1>t DEF Ids, TypeOK
    <3> QED BY <3>1, <3>2, <3>3, <2>1, <1>t DEF RequestOwned, ForeignKey, Owned, Ids
  <2> QED BY <2>4, <2>5, <2>6 DEF TrackerInv
<1>2. ASSUME NEW u \in Owners, NEW id \in Ids, NEW d \in Details, Edit(u, id, d)
      PROVE  TrackerInv'
  <2>1. UNCHANGED <<nextId, events, req>> /\ answer' \in Answer
    BY <1>2 DEF Edit, Answered, Answer
  <2>2. CASE Owned(id, u)
    <3> DEFINE r == [apps[id] EXCEPT !.details = d]
    <3>1. apps[id] \in Row /\ apps' = [apps EXCEPT ![id] = r]
      BY <1>2, <2>2, <1>t DEF Edit, Owned, TypeOK
    <3>2. /\ r \in Row /\ r # NoRow /\ r.user = apps[id].user
          /\ r.status = apps[id].status
      BY <3>1 DEF Row, NoRow, Owners
    <3> HIDE DEF r
    <3>3. apps' \in [Ids -> Row \cup {NoRow}]
      BY <3>1, <3>2, <1>t DEF TypeOK
    <3>4. \A k \in Ids : /\ apps'[k] = NoRow <=> apps[k] = NoRow
                         /\ apps[k] # NoRow => /\ apps'[k].user = apps[k].user
                                               /\ apps'[k].status = apps[k].status
      BY <3>1, <3>2, <2>2, <1>t DEF TypeOK, Owned
    <3>5. TypeOK'
      BY <1>t, <2>1, <3>3, <3>4 DEF TypeOK
    <3>6. RequestOwned'
      BY <1>t, <2>1, <3>4 DEF TypeOK, RequestOwned, ForeignKey, Owned, Request
    <3>7. StatusIsLastEvent' /\ NoOrphanEvents'
      BY <2>1, <3>4 DEF TrackerInv, StatusIsLastEvent, NoOrphanEvents
    <3> QED BY <3>5, <3>6, <3>7 DEF TrackerInv
  <2>3. CASE ~Owned(id, u)
    <3>1. UNCHANGED apps
      BY <1>2, <2>3 DEF Edit
    <3>2. TypeOK' /\ RequestOwned'
      BY <1>t, <2>1, <3>1 DEF TypeOK, RequestOwned, ForeignKey, Owned
    <3> QED BY <2>1, <3>1, <3>2, TablesUnchanged DEF TrackerInv
  <2> QED BY <2>2, <2>3
<1>3. ASSUME NEW u \in Owners, NEW id \in Ids, Delete(u, id)
      PROVE  TrackerInv'
  <2>1. UNCHANGED <<nextId, req>> /\ answer' \in Answer
    BY <1>3 DEF Delete, Answered, Answer
  <2>2. CASE Owned(id, u)
    <3>1. /\ apps' = [apps EXCEPT ![id] = NoRow]
          /\ events' = [events EXCEPT ![id] = <<>>]
      BY <1>3, <2>2 DEF Delete, Cascade
    <3>2. <<>> \in Seq(Texts)
      OBVIOUS
    <3>3. TypeOK'
      BY <1>t, <2>1, <3>1, <3>2 DEF TypeOK
    <3>4. RequestOwned'
      BY <1>t, <2>1, <3>1 DEF TypeOK, RequestOwned, ForeignKey, Owned, Request
    <3>5. StatusIsLastEvent' /\ NoOrphanEvents'
      BY <1>t, <3>1 DEF TrackerInv, TypeOK, StatusIsLastEvent, NoOrphanEvents
    <3> QED BY <3>3, <3>4, <3>5 DEF TrackerInv
  <2>3. CASE ~Owned(id, u)
    <3>1. UNCHANGED <<apps, events>>
      BY <1>3, <2>3 DEF Delete
    <3>2. TypeOK' /\ RequestOwned'
      BY <1>t, <2>1, <3>1 DEF TypeOK, RequestOwned, ForeignKey, Owned
    <3> QED BY <3>1, <3>2, TablesUnchanged DEF TrackerInv
  <2> QED BY <2>2, <2>3
<1>4. ASSUME NEW w \in Workers, NEW u \in Owners, NEW id \in Ids, NEW s \in Statuses,
             UpdateSelect(w, u, id, s)
      PROVE  TrackerInv'
  <2>1. UNCHANGED <<apps, nextId, events>>
    BY <1>4 DEF UpdateSelect
  <2>2. CASE Owned(id, u) /\ apps[id].status \in Statuses
    <3> DEFINE r == [user |-> u, app_id |-> id, status |-> s]
    <3>1. req' = [req EXCEPT ![w] = r] /\ UNCHANGED answer
      BY <1>4, <2>2 DEF UpdateSelect
    <3>2. r \in Request /\ r.user = u /\ r.app_id = id
      BY DEF Request
    <3> HIDE DEF r
    <3>3. TypeOK'
      BY <1>t, <2>1, <3>1, <3>2 DEF TypeOK
    <3>4. id < nextId
      BY <1>t, <2>2 DEF TypeOK, Owned, Ids
    <3>5. RequestOwned'
      BY <1>t, <2>1, <2>2, <3>1, <3>2, <3>4 DEF TypeOK, RequestOwned, ForeignKey, Owned
    <3> QED BY <2>1, <3>3, <3>5, TablesUnchanged DEF TrackerInv
  <2>3. CASE ~(Owned(id, u) /\ apps[id].status \in Statuses)
    <3>1. UNCHANGED req /\ answer' \in Answer
      BY <1>4, <2>3 DEF UpdateSelect, Answered, Answer
    <3>2. TypeOK' /\ RequestOwned'
      BY <1>t, <2>1, <3>1 DEF TypeOK, RequestOwned, ForeignKey, Owned
    <3> QED BY <2>1, <3>2, TablesUnchanged DEF TrackerInv
  <2> QED BY <2>2, <2>3
<1>5. ASSUME NEW u \in Users, NEW id \in Ids, NEW s \in Statuses, JavaUpdate(u, id, s)
      PROVE  TrackerInv'
  <2>1. UNCHANGED <<nextId, req>> /\ answer' \in Answer
    BY <1>5 DEF JavaUpdate, Answered, Answer, Owners
  <2>2. CASE Owned(id, u)
    <3>1. AddEvent(id, s) /\ apps' = [apps EXCEPT ![id].status = s]
      BY <1>5, <2>2 DEF JavaUpdate
    <3>2. u \in Owners /\ s \in Texts
      BY DEF Owners, Texts
    <3> QED BY <2>1, <2>2, <3>1, <3>2, StatusChanged
  <2>3. CASE ~Owned(id, u)
    <3>1. UNCHANGED <<apps, events>>
      BY <1>5, <2>3 DEF JavaUpdate
    <3>2. TypeOK' /\ RequestOwned'
      BY <1>t, <2>1, <3>1 DEF TypeOK, RequestOwned, ForeignKey, Owned
    <3> QED BY <3>1, <3>2, TablesUnchanged DEF TrackerInv
  <2> QED BY <2>2, <2>3
<1>6. ASSUME NEW w \in Workers, UpdateWrite(w)
      PROVE  TrackerInv'
  <2> DEFINE id == req[w].app_id
             s  == req[w].status
  <2>1. /\ req[w] \in Request /\ req[w] # Idle /\ ForeignKey(id)
        /\ id \in Ids /\ s \in Texts /\ req[w].user \in Owners
    BY <1>6, <1>t DEF UpdateWrite, TypeOK, Request, Texts
  <2>2. Owned(id, req[w].user)
    BY <2>1, <1>t DEF RequestOwned
  <2>3. AddEvent(id, s) /\ apps' = [apps EXCEPT ![id].status = s]
    BY <1>6, <2>2 DEF UpdateWrite
  <2>4. /\ req' = [req EXCEPT ![w] = Idle] /\ answer' \in Answer
        /\ UNCHANGED nextId
    BY <1>6, <2>1 DEF UpdateWrite, Answered, Answer
  <2> QED BY <2>1, <2>2, <2>3, <2>4, StatusChanged
<1>7. ASSUME NEW w \in Workers, UpdateFails(w)
      PROVE  TrackerInv'
  <2>1. /\ UNCHANGED <<apps, nextId, events>> /\ req' = [req EXCEPT ![w] = Idle]
        /\ req[w] \in Request
    BY <1>7, <1>t DEF UpdateFails, TypeOK
  <2>2. answer' \in Answer
    BY <1>7, <2>1 DEF UpdateFails, Answered, Answer, Request
  <2>3. TypeOK' /\ RequestOwned'
    BY <1>t, <2>1, <2>2 DEF TypeOK, RequestOwned, ForeignKey, Owned
  <2> QED BY <2>1, <2>3, TablesUnchanged DEF TrackerInv
<1>8. CASE UNCHANGED vars
  BY <1>8 DEF vars, TrackerInv, TypeOK, RequestOwned, StatusIsLastEvent, NoOrphanEvents,
              ForeignKey, Owned
<1> QED BY <1>1, <1>2, <1>3, <1>4, <1>5, <1>6, <1>7, <1>8 DEF Next

\* The tables' types, and that an unused id has no row and no request.
THEOREM TrackerType == Spec => []TypeOK
<1>1. Init => TrackerInv
  BY TrackerInit
<1>2. TrackerInv /\ [Next]_vars => TrackerInv'
  BY TrackerNext
<1>3. TrackerInv => TypeOK
  BY DEF TrackerInv
<1> QED BY <1>1, <1>2, <1>3, PTL DEF Spec

\* The current status of every application is that of its last event, with two
\* services and the command line writing.
THEOREM TrackerStatus == Spec => []StatusIsLastEvent
<1>1. Init => TrackerInv
  BY TrackerInit
<1>2. TrackerInv /\ [Next]_vars => TrackerInv'
  BY TrackerNext
<1>3. TrackerInv => StatusIsLastEvent
  BY DEF TrackerInv
<1> QED BY <1>1, <1>2, <1>3, PTL DEF Spec

\* A deleted application leaves no event behind, and gains none afterwards.
THEOREM TrackerNoOrphans == Spec => []NoOrphanEvents
<1>1. Init => TrackerInv
  BY TrackerInit
<1>2. TrackerInv /\ [Next]_vars => TrackerInv'
  BY TrackerNext
<1>3. TrackerInv => NoOrphanEvents
  BY DEF TrackerInv
<1> QED BY <1>1, <1>2, <1>3, PTL DEF Spec

\* No step of a user touches an application, or a history, of somebody else.
THEOREM TrackerOwnRows == Spec => OwnRowsOnly
<1> DEFINE Own ==
      \A id \in Ids :
          apps[id] # NoRow /\ answer'.to \notin {Cli, apps[id].user} =>
              apps'[id] = apps[id] /\ events'[id] = events[id]
<1>1. Init => TrackerInv
  BY TrackerInit
<1>2. TrackerInv /\ [Next]_vars => TrackerInv'
  BY TrackerNext
<1>3. TrackerInv /\ [Next]_vars => [Own]_vars
  <2> SUFFICES ASSUME TrackerInv, Next PROVE Own
    OBVIOUS
  <2>t. TypeOK /\ RequestOwned
    BY DEF TrackerInv
  <2> USE <2>t, TrackerAssumption
  <2>1. ASSUME NEW u \in Owners, NEW d \in Details, NEW s \in AddStatuses(u), Add(u, s, d)
        PROVE  Own
    BY <2>1 DEF Add, AddEvent, TypeOK, Ids
  <2>2. ASSUME NEW u \in Owners, NEW id \in Ids, NEW d \in Details, Edit(u, id, d)
        PROVE  Own
    BY <2>2 DEF Edit, Answered, Owned, TypeOK
  <2>3. ASSUME NEW u \in Owners, NEW id \in Ids, Delete(u, id)
        PROVE  Own
    BY <2>3 DEF Delete, Cascade, Answered, Owned, TypeOK
  <2>4. ASSUME NEW w \in Workers, NEW u \in Owners, NEW id \in Ids, NEW s \in Statuses,
               UpdateSelect(w, u, id, s)
        PROVE  Own
    BY <2>4 DEF UpdateSelect
  <2>5. ASSUME NEW u \in Users, NEW id \in Ids, NEW s \in Statuses, JavaUpdate(u, id, s)
        PROVE  Own
    BY <2>5 DEF JavaUpdate, AddEvent, Answered, Owned, TypeOK
  <2>6. ASSUME NEW w \in Workers, UpdateWrite(w)
        PROVE  Own
    BY <2>6 DEF UpdateWrite, AddEvent, Answered, Owned, TypeOK, RequestOwned
  <2>7. ASSUME NEW w \in Workers, UpdateFails(w)
        PROVE  Own
    BY <2>7 DEF UpdateFails
  <2> QED BY <2>1, <2>2, <2>3, <2>4, <2>5, <2>6, <2>7 DEF Next
<1> QED BY <1>1, <1>2, <1>3, PTL DEF Spec, OwnRowsOnly

=============================================================================
