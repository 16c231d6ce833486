---------------------------- MODULE LedgerProofs ----------------------------
(***************************************************************************)
(* Proofs about Ledger: its type, and, under the strict API, the legality  *)
(* of every history and the meaning of applied_at, for any users, jobs,    *)
(* predictions and dates and for histories of any length.                  *)
(***************************************************************************)
EXTENDS Ledger, TLAPS

(* A new application is well formed. *)
LEMMA NewApplicationType ==
    ASSUME NEW u \in Owners, NEW j \in Jobs, NEW linked \in BOOLEAN,
           NEW rec \in Predictions \cup {Null}, NEW s \in ALL_STAGES,
           NEW t \in Dates
    PROVE  /\ NewApplication(u, j, linked, rec, s, t) \in Application
           /\ Len(NewApplication(u, j, linked, rec, s, t).log) = 1
<1> DEFINE e == [stage |-> s, at |-> t]
<1>1. e \in Event
  BY DEF Event
<1>2. <<e>> \in Seq(Event) /\ Len(<<e>>) = 1
  BY <1>1
<1>3. QED
  BY <1>2 DEF NewApplication, Application

(* One more event keeps an application well formed. *)
LEMMA ExtendedType ==
    ASSUME NEW a \in Application, NEW s \in ALL_STAGES, NEW t \in Dates,
           NEW d \in Dates \cup {Null}
    PROVE  LET b == Extended(a, s, d, t) IN
           /\ b \in Application
           /\ Len(b.log) = Len(a.log) + 1
           /\ b.stage = s
           /\ b.log[Len(b.log)] = [stage |-> s, at |-> t]
           /\ b.applied_at = d
           /\ \A n \in 1 .. Len(a.log) : b.log[n] = a.log[n]
           /\ b.user = a.user /\ b.job = a.job
<1> DEFINE e == [stage |-> s, at |-> t]
           b == Extended(a, s, d, t)
<1>1. e \in Event
  BY DEF Event
<1>2. a.log \in Seq(Event)
  BY DEF Application
<1>3. Append(a.log, e) \in Seq(Event) /\ Len(Append(a.log, e)) = Len(a.log) + 1
  BY <1>1, <1>2
<1>4. /\ b.log = Append(a.log, e) /\ b.stage = s /\ b.applied_at = d
      /\ b.user = a.user /\ b.job = a.job
  BY DEF Application, Extended
<1>5. b \in Application
  BY <1>3, <1>4 DEF Application, Extended
<1>6. QED
  BY <1>1, <1>2, <1>3, <1>4, <1>5

(* Every row of a well-formed ledger has a history of events. *)
LEMMA RowType ==
    ASSUME TypeOK, NEW i \in DOMAIN ledger
    PROVE  /\ ledger[i] \in Application
           /\ ledger[i].log \in Seq(Event)
           /\ ledger[i].applied_at \in Dates \cup {Null}
           /\ ledger[i].stage \in ALL_STAGES
           /\ Len(ledger[i].log) \in Nat \ {0}
<1>1. ledger[i] \in Application /\ Len(ledger[i].log) > 0
  BY DEF TypeOK
<1>2. ledger[i].log \in Seq(Event)
  BY <1>1 DEF Application
<1>3. Len(ledger[i].log) \in Nat \ {0}
  BY <1>1, <1>2
<1>4. QED
  BY <1>1, <1>2, <1>3 DEF Application

(* What a Record step does, in terms of one row. *)
LEMMA RecordStep ==
    ASSUME TypeOK, NEW i \in DOMAIN ledger, NEW s \in ALL_STAGES,
           NEW t \in Dates, Record(i, s, t)
    PROVE  /\ ledger' \in Seq(Application)
           /\ Len(ledger') = Len(ledger)
           /\ \A k \in DOMAIN ledger : k # i => ledger'[k] = ledger[k]
           /\ ledger'[i].stage = s
           /\ Len(ledger'[i].log) = Len(ledger[i].log) + 1
           /\ ledger'[i].log[Len(ledger'[i].log)] = [stage |-> s, at |-> t]
           /\ \A n \in 1 .. Len(ledger[i].log) :
                 ledger'[i].log[n] = ledger[i].log[n]
           /\ ledger'[i].user = ledger[i].user
           /\ ledger'[i].job = ledger[i].job
           /\ ~Lenient => ledger'[i].applied_at =
                             IF s = "applied" /\ ledger[i].applied_at = Null
                             THEN t ELSE ledger[i].applied_at
<1> DEFINE Row(d) == Extended(ledger[i], s, d, t)
<1>1. PICK d \in {ledger[i].applied_at, t} :
         /\ ~Lenient => d = IF s = "applied" /\ ledger[i].applied_at = Null
                            THEN t ELSE ledger[i].applied_at
         /\ ledger' = [ledger EXCEPT ![i] = Row(d)]
  BY DEF Record
<1>2. ledger[i] \in Application
  BY DEF TypeOK
<1>3. d \in Dates \cup {Null}
  BY <1>2 DEF Application
<1>4. /\ Row(d) \in Application
      /\ Len(Row(d).log) = Len(ledger[i].log) + 1
      /\ Row(d).stage = s
      /\ Row(d).log[Len(Row(d).log)] = [stage |-> s, at |-> t]
      /\ Row(d).applied_at = d
      /\ \A n \in 1 .. Len(ledger[i].log) : Row(d).log[n] = ledger[i].log[n]
      /\ Row(d).user = ledger[i].user /\ Row(d).job = ledger[i].job
  BY <1>2, <1>3, ExtendedType
<1> HIDE DEF Row
<1>6. ledger'[i] = Row(d) /\ Len(ledger') = Len(ledger)
  BY <1>1 DEF TypeOK
<1>7. ledger' \in Seq(Application)
  BY <1>1, <1>4 DEF TypeOK
<1>8. \A k \in DOMAIN ledger : k # i => ledger'[k] = ledger[k]
  BY <1>1 DEF TypeOK
<1>9. QED
  BY <1>1, <1>4, <1>6, <1>7, <1>8

(* What an Open step does: the rows that were there stay, one is added. *)
LEMMA OpenStep ==
    ASSUME TypeOK, NEW u \in Owners, NEW j \in Jobs, NEW linked \in BOOLEAN,
           NEW rec \in Predictions \cup {Null}, NEW s \in ALL_STAGES,
           NEW t \in Dates, Open(u, j, linked, rec, s, t)
    PROVE  LET new == NewApplication(u, j, linked, rec, s, t) IN
           /\ ledger' \in Seq(Application)
           /\ Len(ledger') = Len(ledger) + 1
           /\ \A k \in DOMAIN ledger : ledger'[k] = ledger[k]
           /\ ledger'[Len(ledger) + 1] = new
<1> DEFINE new == NewApplication(u, j, linked, rec, s, t)
<1>1. new \in Application
  BY NewApplicationType
<1>2. ledger' = Append(ledger, new) /\ ledger \in Seq(Application)
  BY DEF Open, TypeOK
<1> HIDE DEF new
<1>3. QED
  BY <1>1, <1>2 DEF new

-----------------------------------------------------------------------------

(* Every reachable ledger is well formed and every application in it has a *)
(* first event.                                                            *)
THEOREM LedgerType == Spec => []TypeOK
<1>1. Init => TypeOK
  BY DEF Init, TypeOK
<1>2. TypeOK /\ [Next]_ledger => TypeOK'
  <2> SUFFICES ASSUME TypeOK, [Next]_ledger PROVE TypeOK'
    OBVIOUS
  <2>1. ASSUME NEW u \in Owners, NEW j \in Jobs, NEW linked \in BOOLEAN,
               NEW rec \in Predictions \cup {Null}, NEW s \in ALL_STAGES,
               NEW t \in Dates, Open(u, j, linked, rec, s, t)
        PROVE  TypeOK'
    <3> DEFINE new == NewApplication(u, j, linked, rec, s, t)
    <3>1. Len(new.log) = 1
      BY NewApplicationType
    <3> HIDE DEF new
    <3>2. /\ ledger' \in Seq(Application) /\ Len(ledger') = Len(ledger) + 1
          /\ \A k \in DOMAIN ledger : ledger'[k] = ledger[k]
          /\ ledger'[Len(ledger) + 1] = new
      BY <2>1, OpenStep DEF new
    <3>3. ledger \in Seq(Application) /\ \A i \in DOMAIN ledger : Len(ledger[i].log) > 0
      BY DEF TypeOK
    <3>4. ASSUME NEW i \in DOMAIN ledger' PROVE Len(ledger'[i].log) > 0
      <4>1. CASE i = Len(ledger) + 1
        <5>1. ledger'[i] = new
          BY <4>1, <3>2
        <5>2. QED
          BY <5>1, <3>1
      <4>2. CASE i # Len(ledger) + 1
        BY <4>2, <3>2, <3>3
      <4>3. QED
        BY <4>1, <4>2
    <3>5. QED
      BY <3>2, <3>4 DEF TypeOK
  <2>2. ASSUME NEW i \in DOMAIN ledger, NEW s \in ALL_STAGES, NEW t \in Dates,
               Record(i, s, t)
        PROVE  TypeOK'
    <3>1. /\ ledger' \in Seq(Application) /\ Len(ledger') = Len(ledger)
          /\ \A k \in DOMAIN ledger : k # i => ledger'[k] = ledger[k]
          /\ Len(ledger'[i].log) = Len(ledger[i].log) + 1
      BY <2>2, RecordStep
    <3>2. ledger[i].log \in Seq(Event)
      BY RowType
    <3>3. Len(ledger'[i].log) > 0
      BY <3>1, <3>2
    <3>4. QED
      BY <3>1, <3>3 DEF TypeOK
  <2>3. CASE UNCHANGED ledger
    BY <2>3 DEF TypeOK
  <2>4. QED
    BY <2>1, <2>2, <2>3 DEF Next
<1>3. QED
  BY <1>1, <1>2, PTL DEF Spec

-----------------------------------------------------------------------------

(* The inductive invariant behind the strict API: rows agree with their     *)
(* last event, so that the stage Record tests is the stage of the history.  *)
LEMMA StageStep ==
    TypeOK /\ StageIsLastEvent /\ [Next]_ledger => StageIsLastEvent'
<1> SUFFICES ASSUME TypeOK, StageIsLastEvent, [Next]_ledger
             PROVE  StageIsLastEvent'
  OBVIOUS
<1>1. ASSUME NEW u \in Owners, NEW j \in Jobs, NEW linked \in BOOLEAN,
             NEW rec \in Predictions \cup {Null}, NEW s \in ALL_STAGES,
             NEW t \in Dates, Open(u, j, linked, rec, s, t)
      PROVE  StageIsLastEvent'
  <2> DEFINE new == NewApplication(u, j, linked, rec, s, t)
  <2>1. new.stage = new.log[Len(new.log)].stage
    BY DEF NewApplication
  <2> HIDE DEF new
  <2>2. /\ ledger' \in Seq(Application) /\ Len(ledger') = Len(ledger) + 1
        /\ \A k \in DOMAIN ledger : ledger'[k] = ledger[k]
        /\ ledger'[Len(ledger) + 1] = new
    BY <1>1, OpenStep DEF new
  <2>3. ledger \in Seq(Application)
    BY DEF TypeOK
  <2>4. QED
    BY <2>1, <2>2, <2>3 DEF StageIsLastEvent, LastEvent
<1>2. ASSUME NEW i \in DOMAIN ledger, NEW s \in ALL_STAGES, NEW t \in Dates,
             Record(i, s, t)
      PROVE  StageIsLastEvent'
  <2>1. /\ ledger' \in Seq(Application) /\ Len(ledger') = Len(ledger)
        /\ \A k \in DOMAIN ledger : k # i => ledger'[k] = ledger[k]
        /\ ledger'[i].stage = s
        /\ ledger'[i].log[Len(ledger'[i].log)] = [stage |-> s, at |-> t]
    BY <1>2, RecordStep
  <2>2. ledger \in Seq(Application)
    BY DEF TypeOK
  <2>3. QED
    BY <2>1, <2>2 DEF StageIsLastEvent, LastEvent
<1>3. CASE UNCHANGED ledger
  BY <1>3 DEF StageIsLastEvent, LastEvent
<1>4. QED
  BY <1>1, <1>2, <1>3 DEF Next

(* The current stage of every application is the stage of its last event,  *)
(* whichever routes write (store.py: a current_stage always has an event).  *)
THEOREM LedgerStage == Spec => []StageIsLastEvent
<1>1. Init => StageIsLastEvent
  BY DEF Init, StageIsLastEvent
<1>2. QED
  BY <1>1, StageStep, LedgerType, PTL DEF Spec

(* With the decision/application API alone every history of any length is  *)
(* legal: "planned" first, a terminal stage last, no stage twice in a row.  *)
THEOREM LedgerLegal == ASSUME ~Lenient PROVE Spec => []LegalHistory
<1>1. Init => LegalHistory
  BY DEF Init, LegalHistory
<1>2. TypeOK /\ StageIsLastEvent /\ LegalHistory /\ [Next]_ledger
        => LegalHistory'
  <2> SUFFICES ASSUME TypeOK, StageIsLastEvent, LegalHistory, [Next]_ledger
               PROVE  LegalHistory'
    OBVIOUS
  <2> USE DEF LegalHistory
  <2>1. ASSUME NEW u \in Owners, NEW j \in Jobs, NEW linked \in BOOLEAN,
               NEW rec \in Predictions \cup {Null}, NEW s \in ALL_STAGES,
               NEW t \in Dates, Open(u, j, linked, rec, s, t)
        PROVE  LegalHistory'
    <3> DEFINE new == NewApplication(u, j, linked, rec, s, t)
    <3>1. new.log[1].stage = "planned" /\ Len(new.log) = 1
      BY <2>1 DEF NewApplication, Open
    <3> HIDE DEF new
    <3>2. /\ ledger' \in Seq(Application) /\ Len(ledger') = Len(ledger) + 1
          /\ \A k \in DOMAIN ledger : ledger'[k] = ledger[k]
          /\ ledger'[Len(ledger) + 1] = new
      BY <2>1, OpenStep DEF new
    <3>3. ledger \in Seq(Application)
      BY DEF TypeOK
    <3>4. QED
      BY <3>1, <3>2, <3>3
  <2>2. ASSUME NEW i \in DOMAIN ledger, NEW s \in ALL_STAGES, NEW t \in Dates,
               Record(i, s, t)
        PROVE  LegalHistory'
    <3> DEFINE old == ledger[i].log
               new == ledger'[i].log
    <3>1. /\ ledger' \in Seq(Application) /\ Len(ledger') = Len(ledger)
          /\ \A k \in DOMAIN ledger : k # i => ledger'[k] = ledger[k]
          /\ Len(new) = Len(old) + 1
          /\ new[Len(new)] = [stage |-> s, at |-> t]
          /\ \A n \in 1 .. Len(old) : new[n] = old[n]
      BY <2>2, RecordStep
    <3>2. ledger \in Seq(Application)
      BY DEF TypeOK
    <3>3. Len(old) \in Nat \ {0}
      BY RowType
    <3>4. Advances(old[Len(old)].stage, s)
      BY <2>2 DEF Record, StageIsLastEvent, LastEvent
    <3>5. /\ old[1].stage = "planned"
          /\ \A n \in 1 .. Len(old) - 1 : Advances(old[n].stage, old[n + 1].stage)
      OBVIOUS
    <3> HIDE DEF old, new
    <3>6. new[1].stage = "planned"
      BY <3>1, <3>3, <3>5
    <3>7. ASSUME NEW n \in 1 .. Len(new) - 1
          PROVE  Advances(new[n].stage, new[n + 1].stage)
      <4>1. CASE n = Len(old)
        BY <4>1, <3>1, <3>3, <3>4
      <4>2. CASE n # Len(old)
        BY <4>2, <3>1, <3>3, <3>5
      <4>3. QED
        BY <4>1, <4>2
    <3>8. ASSUME NEW k \in DOMAIN ledger'
          PROVE  /\ ledger'[k].log[1].stage = "planned"
                 /\ \A n \in 1 .. Len(ledger'[k].log) - 1 :
                       Advances(ledger'[k].log[n].stage, ledger'[k].log[n + 1].stage)
      <4>1. CASE k = i
        BY <4>1, <3>6, <3>7 DEF new
      <4>2. CASE k # i
        BY <4>2, <3>1, <3>2
      <4>3. QED
        BY <4>1, <4>2
    <3>9. QED
      BY <3>8
  <2>3. CASE UNCHANGED ledger
    BY <2>3
  <2>4. QED
    BY <2>1, <2>2, <2>3 DEF Next
<1>3. QED
  BY <1>1, <1>2, LedgerType, LedgerStage, PTL DEF Spec

(* With the decision/application API alone, applied_at is the date of the   *)
(* first "applied" event of a history and is never moved by a later one.    *)
THEOREM LedgerAppliedOnce ==
    ASSUME LedgerAssumption, ~Lenient PROVE Spec => []AppliedOnce
<1> DEFINE Dated(d, log) ==
      IF d = Null
      THEN \A n \in DOMAIN log : log[n].stage # "applied"
      ELSE \E n \in DOMAIN log : /\ log[n].stage = "applied"
                                 /\ log[n].at = d
                                 /\ \A m \in 1 .. n - 1 : log[m].stage # "applied"
<1>0. AppliedOnce <=> \A i \in DOMAIN ledger :
                         Dated(ledger[i].applied_at, ledger[i].log)
  BY DEF AppliedOnce
<1>1. Init => AppliedOnce
  BY DEF Init, AppliedOnce
<1>2. TypeOK /\ AppliedOnce /\ [Next]_ledger => AppliedOnce'
  <2> SUFFICES ASSUME TypeOK, AppliedOnce, [Next]_ledger PROVE AppliedOnce'
    OBVIOUS
  <2>0. ledger \in Seq(Application)
    BY DEF TypeOK
  <2>1. ASSUME NEW u \in Owners, NEW j \in Jobs, NEW linked \in BOOLEAN,
               NEW rec \in Predictions \cup {Null}, NEW s \in ALL_STAGES,
               NEW t \in Dates, Open(u, j, linked, rec, s, t)
        PROVE  AppliedOnce'
    <3> DEFINE new == NewApplication(u, j, linked, rec, s, t)
    <3>1. Dated(new.applied_at, new.log)
      BY <2>1 DEF NewApplication, Open
    <3> HIDE DEF new
    <3>2. /\ ledger' \in Seq(Application) /\ Len(ledger') = Len(ledger) + 1
          /\ \A k \in DOMAIN ledger : ledger'[k] = ledger[k]
          /\ ledger'[Len(ledger) + 1] = new
      BY <2>1, OpenStep DEF new
    <3> HIDE DEF Dated
    <3>3. ASSUME NEW k \in DOMAIN ledger'
          PROVE  Dated(ledger'[k].applied_at, ledger'[k].log)
      <4>1. CASE k = Len(ledger) + 1
        BY <4>1, <3>1, <3>2
      <4>2. CASE k # Len(ledger) + 1
        BY <4>2, <3>2, <2>0, <1>0
      <4>3. QED
        BY <4>1, <4>2
    <3>4. QED
      BY <3>3 DEF AppliedOnce, Dated
  <2>2. ASSUME NEW i \in DOMAIN ledger, NEW s \in ALL_STAGES, NEW t \in Dates,
               Record(i, s, t)
        PROVE  AppliedOnce'
    <3> DEFINE old == ledger[i].log
               new == ledger'[i].log
               d   == ledger[i].applied_at
    <3>1. /\ ledger' \in Seq(Application) /\ Len(ledger') = Len(ledger)
          /\ \A k \in DOMAIN ledger : k # i => ledger'[k] = ledger[k]
          /\ Len(new) = Len(old) + 1
          /\ new[Len(new)] = [stage |-> s, at |-> t]
          /\ \A n \in 1 .. Len(old) : new[n] = old[n]
          /\ ledger'[i].applied_at = IF s = "applied" /\ d = Null THEN t ELSE d
      BY <2>2, RecordStep
    <3>2. old \in Seq(Event) /\ Len(old) \in Nat \ {0}
      BY RowType
    <3>3. t # Null
      BY DEF LedgerAssumption, Null
    <3>4. ledger'[i] \in Application
      BY <3>1
    <3>5. new \in Seq(Event)
      BY <3>4 DEF Application
    <3>6. Dated(d, old)
      BY <1>0
    <3>7. DOMAIN new = 1 .. Len(old) + 1 /\ DOMAIN old = 1 .. Len(old)
      BY <3>1, <3>2, <3>5
    <3> HIDE DEF old, new, d
    <3>8. ASSUME d # Null PROVE Dated(ledger'[i].applied_at, new)
      <4>1. PICK n \in DOMAIN old :
               /\ old[n].stage = "applied" /\ old[n].at = d
               /\ \A m \in 1 .. n - 1 : old[m].stage # "applied"
        BY <3>8, <3>6
      <4>2. /\ n \in DOMAIN new /\ new[n] = old[n]
            /\ \A m \in 1 .. n - 1 : new[m] = old[m]
        BY <3>1, <3>2, <3>7
      <4>3. QED
        BY <4>1, <4>2, <3>1, <3>8
    <3>9. ASSUME d = Null /\ s = "applied"
           PROVE  Dated(ledger'[i].applied_at, new)
      <4>1. \A n \in 1 .. Len(old) : new[n].stage # "applied"
        BY <3>9, <3>6, <3>1, <3>7
      <4>2. /\ Len(new) \in DOMAIN new
            /\ new[Len(new)].stage = "applied" /\ new[Len(new)].at = t
            /\ \A m \in 1 .. Len(new) - 1 : new[m].stage # "applied"
        BY <4>1, <3>9, <3>1, <3>2, <3>7
      <4>3. QED
        BY <4>2, <3>1, <3>3, <3>9
    <3>10. ASSUME d = Null /\ s # "applied"
            PROVE  Dated(ledger'[i].applied_at, new)
      <4>1. \A n \in DOMAIN new : new[n].stage # "applied"
        BY <3>10, <3>6, <3>1, <3>2, <3>7
      <4>2. QED
        BY <4>1, <3>1, <3>10
    <3>11. Dated(ledger'[i].applied_at, new)
      BY <3>8, <3>9, <3>10
    <3> HIDE DEF Dated
    <3>12. ASSUME NEW k \in DOMAIN ledger'
           PROVE  Dated(ledger'[k].applied_at, ledger'[k].log)
      <4>1. CASE k = i
        BY <4>1, <3>11 DEF new
      <4>2. CASE k # i
        BY <4>2, <3>1, <2>0, <1>0
      <4>3. QED
        BY <4>1, <4>2
    <3>13. QED
      BY <3>12 DEF AppliedOnce, Dated
  <2>3. CASE UNCHANGED ledger
    BY <2>3 DEF AppliedOnce
  <2>4. QED
    BY <2>1, <2>2, <2>3 DEF Next
<1>3. QED
  BY <1>1, <1>2, LedgerType, PTL DEF Spec

=============================================================================
