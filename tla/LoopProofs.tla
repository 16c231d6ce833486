----------------------------- MODULE LoopProofs -----------------------------
(***************************************************************************)
(* Proofs about Loop, for any users, jobs, workers, inputs and bounds:     *)
(* the inductive invariant LoopInv (types, what requests know, what        *)
(* advance_application's lock protects) and, from it, that the loop        *)
(* implements Ledger, that it pins honest predictions and counts no event  *)
(* twice, and that what Evaluation reads off it, a grade, stands.          *)
(***************************************************************************)
EXTENDS Evaluation, FiniteSetTheorems, SequenceTheorems, WellFoundedInduction, TLAPS

\* The theorems about Ledger, read at the mapping under which Loop implements it.
LP == INSTANCE LedgerProofs WITH ledger <- apps, Lenient <- Legacy,
                                 Predictions <- 1 .. MaxRecs,
                                 Dates <- 1 .. MaxClock

\* What every step leaves alone about the workers other than w: their
\* requests, the rows they have read, and the applications they hold.
Frame(w) ==
    /\ \A v \in Workers : v # w => req'[v] = req[v]
    /\ \A k \in Users \X Jobs : jds[k] # NoRow => jds'[k] # NoRow
    /\ DOMAIN apps \subseteq DOMAIN apps'
    /\ RowLocks => \A v \in Workers :
          v # w /\ req[v].step = "advance_write"
             => apps'[req[v].app] = apps[req[v].app]

(* A step of worker w that keeps the types, respects the frame and leaves   *)
(* w's own request in order keeps the invariant.                            *)
LEMMA Preserved ==
    ASSUME LoopInv, NEW w \in Workers, TypeOK', Frame(w), RequestOK(req[w])',
           RowLocks /\ req'[w].step = "advance_write" =>
              /\ \A v \in Workers : v # w /\ req[v].step = "advance_write"
                    => req[v].app # req'[w].app
              /\ L!Advances(apps'[req'[w].app].stage, req'[w].value)
              /\ req'[w].applied_at = apps'[req'[w].app].applied_at
    PROVE  LoopInv'
<1>1. ASSUME NEW v \in Workers PROVE RequestOK(req[v])'
  <2>1. CASE v = w
    BY <2>1
  <2>2. CASE v # w
    <3>1. req'[v] = req[v] /\ RequestOK(req[v])
      BY <2>2 DEF Frame, LoopInv
    <3>2. req[v].user \in Owners /\ req[v].job \in Jobs
      BY DEF LoopInv, TypeOK, Request
    <3>3. req[v].step \in {"post_write", "patch_write"} =>
             <<req[v].user, req[v].job>> \in Users \X Jobs
      BY <3>1, <3>2 DEF RequestOK
    <3>4. QED
      BY <3>1, <3>2, <3>3 DEF RequestOK, Frame
  <2>3. QED
    BY <2>1, <2>2
<1>2. ASSUME RowLocks PROVE LockOK'
  BY <1>2 DEF LoopInv, LockOK, Frame
<1>3. QED
  BY <1>1, <1>2 DEF LoopInv

-----------------------------------------------------------------------------
(* Requests.                                                               *)

(* The request of an idle worker is well formed. *)
LEMMA BlankType == Blank \in Request /\ Blank.step = "idle"
<1>1. (CHOOSE j \in Jobs : TRUE) \in Jobs
  BY LoopAssumption
<1>2. QED
  BY <1>1, LoopAssumption DEF Blank, Request, Steps, Owners, L!Owners, Reasons,
     RecIds, Null, L!Null, NoRow, Unset

(* So is every worker's, and what a worker takes up next. *)
LEMMA RequestType ==
    ASSUME LoopInv, NEW w \in Workers
    PROVE  /\ req[w] \in Request
           /\ req[w].user \in Owners /\ req[w].job \in Jobs
           /\ req[w].rec \in RecIds
           /\ req[w].row \in JobDecision \cup {NoRow}
           /\ req[w].at \in Dates \cup {Null}
           /\ req[w].applied_at \in Dates \cup {Null}
           /\ req[w].app \in Nat
           /\ req[w].kind \in Kinds \cup {Unset}
           /\ req[w].reason \in Reasons
           /\ req[w].step \in Steps
<1>1. req[w] \in Request
  BY DEF LoopInv, TypeOK
<1>2. ASSUME NEW r \in Request
      PROVE  /\ r.user \in Owners /\ r.job \in Jobs
             /\ r.rec \in RecIds
             /\ r.row \in JobDecision \cup {NoRow}
             /\ r.at \in Dates \cup {Null}
             /\ r.applied_at \in Dates \cup {Null}
             /\ r.app \in Nat
             /\ r.kind \in Kinds \cup {Unset}
             /\ r.reason \in Reasons
             /\ r.step \in Steps
  BY DEF Request
<1>3. QED
  BY <1>1, <1>2

(* A worker that changes its request for one of the right type. *)
LEMMA OneRequest ==
    ASSUME TypeOK, NEW w \in Workers, NEW r \in Request,
           req' = [req EXCEPT ![w] = r]
    PROVE  /\ req' \in [Workers -> Request]
           /\ req'[w] = r
           /\ \A v \in Workers : v # w => req'[v] = req[v]
  BY DEF TypeOK

(* Answering a request frees its worker. *)
LEMMA AnswerType ==
    ASSUME LoopInv, NEW w \in Workers, NEW s \in {"ok", "refused", "error"},
           Answer(w, s)
    PROVE  /\ req' \in [Workers -> Request]
           /\ status' \in [Workers -> {"none", "ok", "refused", "error"}]
           /\ req'[w] = Blank
           /\ \A v \in Workers : v # w => req'[v] = req[v]
<1>1. req' = [req EXCEPT ![w] = Blank]
  BY DEF Answer
<1>2. TypeOK
  BY DEF LoopInv
<1>3. QED
  BY <1>1, <1>2, BlankType, OneRequest DEF Answer, TypeOK

(* Going on keeps the worker's answers. *)
LEMMA ContinueType ==
    ASSUME LoopInv, NEW w \in Workers, NEW r \in Request, Continue(w, r)
    PROVE  /\ req' \in [Workers -> Request]
           /\ status' \in [Workers -> {"none", "ok", "refused", "error"}]
           /\ req'[w] = r
           /\ \A v \in Workers : v # w => req'[v] = req[v]
  BY OneRequest DEF Continue, TypeOK, LoopInv

(* After a commit the worker emits or is free. *)
LEMMA CommittedType ==
    ASSUME LoopInv, NEW w \in Workers, NEW changed, NEW kind \in Kinds,
           Committed(w, changed, kind)
    PROVE  /\ req' \in [Workers -> Request]
           /\ status' \in [Workers -> {"none", "ok", "refused", "error"}]
           /\ req'[w] = Blank \/ (req'[w].step = "emit" /\ req'[w].kind = kind)
           /\ \A v \in Workers : v # w => req'[v] = req[v]
<1> DEFINE r == [Blank EXCEPT !.step = "emit", !.user = req[w].user, !.kind = kind]
<1>1. r \in Request /\ r.step = "emit" /\ r.kind = kind
  BY BlankType, RequestType DEF Request, Steps
<1>2. CASE changed
  BY <1>1, <1>2, ContinueType DEF Committed
<1>3. CASE ~changed
  BY <1>3, AnswerType DEF Committed
<1>4. QED
  BY <1>2, <1>3

(* moved only counts up. *)
LEMMA MovedType ==
    ASSUME LoopInv, NEW kind \in Kinds, NEW really, CountMove(kind, really)
    PROVE  moved' \in [Kinds -> Nat]
  BY DEF LoopInv, TypeOK, CountMove

(* A free worker's request, and one that only emits, are in order. *)
LEMMA EasyRequestOK ==
    ASSUME NEW w \in Workers,
           req'[w] = Blank \/ (req'[w].step = "emit" /\ req'[w].kind \in Kinds)
    PROVE  RequestOK(req[w])' /\ req'[w].step # "advance_write"
  BY BlankType DEF RequestOK

(* Taking up a request in a step other than the locked one. *)
LEMMA BeginInv ==
    ASSUME LoopInv, NEW w \in Workers, NEW r \in Request, Begin(w, r),
           RequestOK(r), r.step # "advance_write"
    PROVE  LoopInv'
<1>1. /\ req' \in [Workers -> Request] /\ req'[w] = r
      /\ \A v \in Workers : v # w => req'[v] = req[v]
  BY OneRequest DEF Begin, LoopInv
<1>2. /\ UNCHANGED <<recs, jds, apps, emitted, moved, clock>>
      /\ status' = [status EXCEPT ![w] = "none"]
  BY DEF Begin
<1>3. TypeOK'
  BY <1>1, <1>2 DEF Begin, TypeOK, LoopInv
<1>4. Frame(w)
  BY <1>1, <1>2 DEF Frame
<1>5. RequestOK(req[w])'
  BY <1>1, <1>2 DEF RequestOK
<1>6. QED
  BY <1>1, <1>3, <1>4, <1>5, Preserved

(* A statement that only reads, after which the worker goes on as r. *)
LEMMA ReadInv ==
    ASSUME LoopInv, NEW w \in Workers, NEW r \in Request, Continue(w, r),
           RequestOK(r), r.step # "advance_write",
           UNCHANGED <<recs, jds, apps, emitted, moved, requests, clock>>
    PROVE  LoopInv'
<1>1. /\ req' \in [Workers -> Request] /\ req'[w] = r
      /\ status' \in [Workers -> {"none", "ok", "refused", "error"}]
      /\ \A v \in Workers : v # w => req'[v] = req[v]
  BY ContinueType
<1>2. TypeOK'
  BY <1>1 DEF TypeOK, LoopInv
<1>3. Frame(w)
  BY <1>1 DEF Frame
<1>4. RequestOK(req[w])'
  BY <1>1 DEF RequestOK
<1>5. QED
  BY <1>1, <1>2, <1>3, <1>4, Preserved

(* A request answered without a write. *)
LEMMA AnswerInv ==
    ASSUME LoopInv, NEW w \in Workers, NEW s \in {"ok", "refused", "error"},
           Answer(w, s),
           UNCHANGED <<recs, jds, apps, moved, requests, clock>>,
           emitted' \in [Kinds -> Nat]
    PROVE  LoopInv'
<1>1. /\ req' \in [Workers -> Request] /\ req'[w] = Blank
      /\ status' \in [Workers -> {"none", "ok", "refused", "error"}]
      /\ \A v \in Workers : v # w => req'[v] = req[v]
  BY AnswerType
<1>2. TypeOK'
  BY <1>1 DEF TypeOK, LoopInv
<1>3. Frame(w)
  BY <1>1 DEF Frame
<1>4. RequestOK(req[w])' /\ req'[w].step # "advance_write"
  BY <1>1, EasyRequestOK
<1>5. QED
  BY <1>2, <1>3, <1>4, Preserved

-----------------------------------------------------------------------------
(* Decisions: POST and PATCH.                                              *)

LEMMA PostDecisionInv ==
    ASSUME LoopInv, NEW w \in Workers,
           \/ \E u \in Users, j \in Jobs, d \in DecisionInputs, r \in ReasonInputs :
                 BeginPostDecision(w, u, j, d, r)
           \/ PostDecisionSelect(w)
    PROVE  LoopInv'
<1>1. ASSUME NEW u \in Users, NEW j \in Jobs, NEW d \in DecisionInputs,
             NEW s \in ReasonInputs, BeginPostDecision(w, u, j, d, s)
      PROVE  LoopInv'
  <2>1. PICK rec \in {Null} \cup RecsOf(u, j) :
           Begin(w, [Blank EXCEPT !.step = "post_select", !.user = u,
                        !.job = j, !.value = d, !.reason = s, !.rec = rec])
    BY <1>1 DEF BeginPostDecision
  <2> DEFINE r == [Blank EXCEPT !.step = "post_select", !.user = u,
                        !.job = j, !.value = d, !.reason = s, !.rec = rec]
  <2>2. rec \in RecIds
    BY LoopAssumption DEF RecsOf, RecIds, Null, L!Null, LoopInv, TypeOK
  <2>3. r \in Request /\ r.step = "post_select" /\ r.user \in Users
        /\ r.value \in VALID_DECISIONS
    BY <2>2, BlankType, LoopAssumption
       DEF Request, Steps, Owners, L!Owners, Reasons, VALID_DECISIONS
  <2>4. RequestOK(r)
    BY <2>3 DEF RequestOK
  <2>5. QED
    BY <2>1, <2>3, <2>4, BeginInv
<1>2. ASSUME PostDecisionSelect(w)
      PROVE  LoopInv'
  <2> DEFINE row == jds[<<req[w].user, req[w].job>>]
             r   == [req[w] EXCEPT !.step = "post_write", !.row = row]
  <2>1. req[w] \in Request /\ RequestOK(req[w]) /\ req[w].step = "post_select"
    BY <1>2, RequestType DEF PostDecisionSelect, LoopInv
  <2>2. req[w].user \in Users /\ req[w].job \in Jobs
        /\ req[w].value \in VALID_DECISIONS
    BY <2>1, RequestType DEF RequestOK, Owners, L!Owners
  <2>3. row \in JobDecision \cup {NoRow}
    BY <2>2 DEF LoopInv, TypeOK
  <2>4. /\ r \in Request /\ r.step = "post_write" /\ r.row = row
        /\ r.user = req[w].user /\ r.job = req[w].job /\ r.value = req[w].value
    BY <2>1, <2>3 DEF Request, Steps
  <2>5. RequestOK(r)
    BY <2>2, <2>4 DEF RequestOK
  <2>6. QED
    BY <1>2, <2>4, <2>5, ReadInv DEF PostDecisionSelect
<1>3. QED
  BY <1>1, <1>2

(* A write to the decision row of worker w's request, then the commit. *)
LEMMA DecisionWriteInv ==
    ASSUME LoopInv, NEW w \in Workers, req[w].user \in Users,
           NEW new \in JobDecision, NEW changed, NEW really,
           jds' = [jds EXCEPT ![<<req[w].user, req[w].job>>] = new],
           CountMove("decision", really), Committed(w, changed, "decision"),
           UNCHANGED <<recs, apps, emitted, requests, clock>>
    PROVE  LoopInv'
<1>1. /\ req' \in [Workers -> Request]
      /\ status' \in [Workers -> {"none", "ok", "refused", "error"}]
      /\ req'[w] = Blank \/ (req'[w].step = "emit" /\ req'[w].kind = "decision")
      /\ \A v \in Workers : v # w => req'[v] = req[v]
  BY CommittedType DEF Kinds
<1>2. <<req[w].user, req[w].job>> \in Users \X Jobs
  BY RequestType
<1>3. new # NoRow
  BY DEF JobDecision, NoRow, VALID_DECISIONS, Unset
<1>4. /\ jds' \in [Users \X Jobs -> JobDecision \cup {NoRow}]
      /\ \A k \in Users \X Jobs : jds[k] # NoRow => jds'[k] # NoRow
  BY <1>2, <1>3 DEF LoopInv, TypeOK
<1>5. moved' \in [Kinds -> Nat]
  BY MovedType DEF Kinds
<1>6. TypeOK'
  BY <1>1, <1>4, <1>5 DEF TypeOK, LoopInv
<1>7. Frame(w)
  BY <1>1, <1>4 DEF Frame
<1>8. RequestOK(req[w])' /\ req'[w].step # "advance_write"
  BY <1>1, EasyRequestOK DEF Kinds
<1>9. QED
  BY <1>6, <1>7, <1>8, Preserved

LEMMA PostDecisionWriteInv ==
    ASSUME LoopInv, NEW w \in Workers,
           PostDecisionUpdate(w) \/ PostDecisionInsert(w)
    PROVE  LoopInv'
<1>0. req[w].step = "post_write"
  BY DEF PostDecisionUpdate, PostDecisionInsert
<1>1. /\ req[w].user \in Users /\ req[w].value \in VALID_DECISIONS
      /\ req[w].rec \in RecIds /\ req[w].reason \in Reasons
      /\ req[w].row \in JobDecision \cup {NoRow}
  BY <1>0, RequestType DEF LoopInv, RequestOK
<1>2. CASE PostDecisionUpdate(w)
  <2> DEFINE new == [rec |-> IF req[w].row.rec # Null THEN req[w].row.rec
                             ELSE req[w].rec,
                     decision |-> req[w].value, reason |-> req[w].reason]
  <2>1. req[w].row.rec \in RecIds
    BY <1>1, <1>2 DEF PostDecisionUpdate, JobDecision
  <2>2. new \in JobDecision
    BY <1>1, <2>1 DEF JobDecision
  <2>3. QED
    BY <1>1, <1>2, <2>2, DecisionWriteInv DEF PostDecisionUpdate
<1>3. CASE PostDecisionInsert(w)
  <2> DEFINE new == [rec |-> req[w].rec, decision |-> req[w].value,
                     reason |-> req[w].reason]
  <2>1. new \in JobDecision
    BY <1>1 DEF JobDecision
  <2>2. CASE jds[<<req[w].user, req[w].job>>] = NoRow
    BY <1>1, <1>3, <2>1, <2>2, DecisionWriteInv DEF PostDecisionInsert
  <2>3. CASE jds[<<req[w].user, req[w].job>>] # NoRow
    BY <1>3, <2>3, AnswerInv DEF PostDecisionInsert, LoopInv, TypeOK
  <2>4. QED
    BY <2>2, <2>3
<1>4. QED
  BY <1>2, <1>3

LEMMA PatchDecisionInv ==
    ASSUME LoopInv, NEW w \in Workers,
           \/ \E u \in Users, j \in Jobs, d \in DecisionInputs \cup {Unset},
                 r \in Reasons : BeginPatchDecision(w, u, j, d, r)
           \/ PatchDecisionSelect(w) \/ PatchDecisionWrite(w)
    PROVE  LoopInv'
<1>1. ASSUME NEW u \in Users, NEW j \in Jobs, NEW d \in DecisionInputs \cup {Unset},
             NEW s \in Reasons, BeginPatchDecision(w, u, j, d, s)
      PROVE  LoopInv'
  <2> DEFINE r == [Blank EXCEPT !.step = "patch_select", !.user = u, !.job = j,
                                !.value = d, !.reason = s]
  <2>1. r \in Request /\ r.step = "patch_select" /\ r.user \in Users
        /\ r.value \in VALID_DECISIONS \cup {Unset}
    BY BlankType, LoopAssumption
       DEF Request, Steps, Owners, L!Owners, VALID_DECISIONS
  <2>2. RequestOK(r)
    BY <2>1 DEF RequestOK
  <2>3. QED
    BY <1>1, <2>1, <2>2, BeginInv DEF BeginPatchDecision
<1>2. ASSUME PatchDecisionSelect(w) PROVE LoopInv'
  <2> DEFINE row == jds[<<req[w].user, req[w].job>>]
             r   == [req[w] EXCEPT !.step = "patch_write", !.row = row]
  <2>1. req[w] \in Request /\ RequestOK(req[w]) /\ req[w].step = "patch_select"
    BY <1>2, RequestType DEF PatchDecisionSelect, LoopInv
  <2>2. req[w].user \in Users /\ req[w].job \in Jobs
        /\ req[w].value \in VALID_DECISIONS \cup {Unset}
    BY <2>1, RequestType DEF RequestOK
  <2>3. row \in JobDecision \cup {NoRow}
    BY <2>2 DEF LoopInv, TypeOK
  <2>4. /\ r \in Request /\ r.step = "patch_write" /\ r.row = row
        /\ r.user = req[w].user /\ r.job = req[w].job /\ r.value = req[w].value
    BY <2>1, <2>3 DEF Request, Steps
  <2>5. CASE row = NoRow
    BY <1>2, <2>5, AnswerInv DEF PatchDecisionSelect, LoopInv, TypeOK
  <2>6. CASE row # NoRow
    <3>1. RequestOK(r)
      BY <2>2, <2>4, <2>6 DEF RequestOK
    <3>2. QED
      BY <1>2, <2>4, <2>6, <3>1, ReadInv DEF PatchDecisionSelect
  <2>7. QED
    BY <2>5, <2>6
<1>3. ASSUME PatchDecisionWrite(w) PROVE LoopInv'
  <2> DEFINE key == <<req[w].user, req[w].job>>
             new == [jds[key] EXCEPT
                       !.decision = IF req[w].value = Unset THEN @ ELSE req[w].value,
                       !.reason = IF req[w].reason = Unset THEN @ ELSE req[w].reason]
  <2>1. RequestOK(req[w]) /\ req[w].step = "patch_write"
    BY <1>3 DEF PatchDecisionWrite, LoopInv
  <2>2. /\ req[w].user \in Users /\ req[w].job \in Jobs /\ req[w].reason \in Reasons
        /\ req[w].value \in VALID_DECISIONS \cup {Unset} /\ jds[key] # NoRow
    BY <2>1, RequestType DEF RequestOK
  <2>3. jds[key] \in JobDecision
    BY <2>2 DEF LoopInv, TypeOK
  <2>4. new \in JobDecision
    BY <2>2, <2>3 DEF JobDecision
  <2>5. jds' = [jds EXCEPT ![key] = new]
    BY <1>3 DEF PatchDecisionWrite
  <2>6. PICK changed, really \in BOOLEAN :
           CountMove("decision", really) /\ Committed(w, changed, "decision")
    BY <1>3 DEF PatchDecisionWrite
  <2>7. QED
    BY <1>3, <2>2, <2>4, <2>5, <2>6, DecisionWriteInv DEF PatchDecisionWrite
<1>4. QED
  BY <1>1, <1>2, <1>3

-----------------------------------------------------------------------------
(* Applications: create, advance, record an outcome.                       *)

(* A step of worker w that appends an application and ends its transaction. *)
LEMMA OpenInv ==
    ASSUME LoopInv, NEW w \in Workers, NEW new \in L!Application,
           apps' = Append(apps, new),
           req' \in [Workers -> Request],
           status' \in [Workers -> {"none", "ok", "refused", "error"}],
           moved' \in [Kinds -> Nat],
           req'[w] = Blank \/ (req'[w].step = "emit" /\ req'[w].kind \in Kinds),
           \A v \in Workers : v # w => req'[v] = req[v],
           UNCHANGED <<recs, jds, emitted, requests, clock>>
    PROVE  LoopInv'
<1>1. /\ apps \in Seq(L!Application) /\ apps' \in Seq(L!Application)
      /\ DOMAIN apps \subseteq DOMAIN apps'
      /\ \A a \in DOMAIN apps : apps'[a] = apps[a]
  BY DEF LoopInv, TypeOK
<1>2. TypeOK'
  BY <1>1 DEF TypeOK, LoopInv
<1>3. ASSUME NEW v \in Workers, req[v].step = "advance_write"
      PROVE  req[v].app \in DOMAIN apps
  BY <1>3 DEF LoopInv, RequestOK
<1>4. Frame(w)
  BY <1>1, <1>3 DEF Frame
<1>5. RequestOK(req[w])' /\ req'[w].step # "advance_write"
  BY EasyRequestOK
<1>6. QED
  BY <1>2, <1>4, <1>5, Preserved

(* The application a request opens is well formed. *)
LEMMA NewApplicationType ==
    ASSUME NEW u \in Owners, NEW j \in Jobs, NEW linked \in BOOLEAN,
           NEW rec \in RecIds, NEW s \in ALL_STAGES, NEW t \in Dates
    PROVE  L!NewApplication(u, j, linked, rec, s, t) \in L!Application
<1>1. [stage |-> s, at |-> t] \in L!Event
  BY DEF L!Event, ALL_STAGES, Dates
<1>2. <<[stage |-> s, at |-> t]>> \in Seq(L!Event)
  BY <1>1
<1>3. rec \in (1 .. MaxRecs) \cup {L!Null}
  BY LoopAssumption DEF RecIds, L!Null
<1>4. QED
  BY <1>2, <1>3
     DEF L!NewApplication, L!Application, Owners, ALL_STAGES, Dates

LEMMA CreateInv ==
    ASSUME LoopInv, NEW w \in Workers,
           \/ \E u \in Users, j \in Jobs : BeginCreate(w, u, j)
           \/ CreateReadDecision(w) \/ CreateReadExisting(w) \/ CreateInsert(w)
    PROVE  LoopInv'
<1>1. ASSUME NEW u \in Users, NEW j \in Jobs, BeginCreate(w, u, j)
      PROVE  LoopInv'
  <2> DEFINE r == [Blank EXCEPT !.step = "create_decision", !.user = u,
                                !.job = j, !.at = clock]
  <2>1. clock \in Dates
    BY DEF LoopInv, TypeOK
  <2>2. /\ r \in Request /\ r.step = "create_decision" /\ r.user \in Users
        /\ r.at \in Dates
    BY <2>1, BlankType DEF Request, Steps, Owners, L!Owners
  <2>3. RequestOK(r)
    BY <2>2 DEF RequestOK
  <2>4. QED
    BY <1>1, <2>2, <2>3, BeginInv DEF BeginCreate
<1>2. ASSUME CreateReadDecision(w) PROVE LoopInv'
  <2> DEFINE row == jds[<<req[w].user, req[w].job>>]
             r   == [req[w] EXCEPT !.step = "create_existing", !.row = row]
  <2>1. req[w] \in Request /\ RequestOK(req[w]) /\ req[w].step = "create_decision"
    BY <1>2, RequestType DEF CreateReadDecision, LoopInv
  <2>2. req[w].user \in Users /\ req[w].job \in Jobs /\ req[w].at \in Dates
    BY <2>1, RequestType DEF RequestOK
  <2>3. row \in JobDecision \cup {NoRow}
    BY <2>2 DEF LoopInv, TypeOK
  <2>4. /\ r \in Request /\ r.step = "create_existing" /\ r.row = row
        /\ r.user = req[w].user /\ r.job = req[w].job /\ r.at = req[w].at
    BY <2>1, <2>3 DEF Request, Steps
  <2>5. CASE row.decision = "apply"
    <3>1. row # NoRow
      BY <2>5 DEF NoRow, Unset
    <3>2. RequestOK(r)
      BY <2>2, <2>4, <3>1 DEF RequestOK
    <3>3. QED
      BY <1>2, <2>4, <2>5, <3>2, ReadInv DEF CreateReadDecision
  <2>6. CASE row.decision # "apply"
    BY <1>2, <2>6, AnswerInv DEF CreateReadDecision, LoopInv, TypeOK
  <2>7. QED
    BY <2>5, <2>6
<1>3. ASSUME CreateReadExisting(w) PROVE LoopInv'
  <2> DEFINE r == [req[w] EXCEPT !.step = "create_insert"]
  <2>1. req[w] \in Request /\ RequestOK(req[w]) /\ req[w].step = "create_existing"
    BY <1>3, RequestType DEF CreateReadExisting, LoopInv
  <2>2. /\ r \in Request /\ r.step = "create_insert" /\ r.row = req[w].row
        /\ r.user = req[w].user /\ r.job = req[w].job /\ r.at = req[w].at
    BY <2>1 DEF Request, Steps
  <2>3. RequestOK(r)
    BY <2>1, <2>2 DEF RequestOK
  <2>4. CASE AppsOf(req[w].user, req[w].job) # {}
    BY <1>3, <2>4, AnswerInv DEF CreateReadExisting, LoopInv, TypeOK
  <2>5. CASE AppsOf(req[w].user, req[w].job) = {}
    BY <1>3, <2>2, <2>3, <2>5, ReadInv DEF CreateReadExisting
  <2>6. QED
    BY <2>4, <2>5
<1>4. ASSUME CreateInsert(w) PROVE LoopInv'
  <2> DEFINE new == L!NewApplication(req[w].user, req[w].job, TRUE,
                                     req[w].row.rec, "planned", req[w].at)
  <2>1. req[w] \in Request /\ RequestOK(req[w]) /\ req[w].step = "create_insert"
    BY <1>4, RequestType DEF CreateInsert, LoopInv
  <2>2. /\ req[w].user \in Owners /\ req[w].job \in Jobs /\ req[w].at \in Dates
        /\ req[w].row \in JobDecision
    BY <2>1, RequestType DEF RequestOK
  <2>3. req[w].row.rec \in RecIds /\ "planned" \in ALL_STAGES
    BY <2>2 DEF JobDecision, ALL_STAGES, L!ALL_STAGES, L!APPLICATION_STAGES
  <2>4. new \in L!Application
    BY <2>2, <2>3, NewApplicationType
  <2> HIDE DEF new
  <2>5. CASE UniqueViolation(req[w].user, req[w].job)
    BY <1>4, <2>5, AnswerInv DEF CreateInsert, LoopInv, TypeOK
  <2>6. CASE ~UniqueViolation(req[w].user, req[w].job)
    <3>1. /\ apps' = Append(apps, new)
          /\ CountMove("created", TRUE) /\ Committed(w, TRUE, "created")
          /\ UNCHANGED <<recs, jds, emitted, requests, clock>>
      BY <1>4, <2>6 DEF CreateInsert, new
    <3>2. moved' \in [Kinds -> Nat]
      BY <3>1, MovedType DEF Kinds
    <3>3. /\ req' \in [Workers -> Request]
          /\ status' \in [Workers -> {"none", "ok", "refused", "error"}]
          /\ req'[w] = Blank \/ (req'[w].step = "emit" /\ req'[w].kind = "created")
          /\ \A v \in Workers : v # w => req'[v] = req[v]
      BY <3>1, CommittedType DEF Kinds
    <3>4. QED
      BY <3>1, <3>2, <3>3, <2>4, OpenInv DEF Kinds
  <2>7. QED
    BY <2>5, <2>6
<1>5. QED
  BY <1>1, <1>2, <1>3, <1>4

(* The applied_at of an application row is a date or missing. *)
LEMMA AppliedAtType ==
    ASSUME apps \in Seq(L!Application), NEW i \in DOMAIN apps
    PROVE  apps[i].applied_at \in Dates \cup {Null}
<1>1. apps[i] \in L!Application
  OBVIOUS
<1>2. QED
  BY <1>1 DEF L!Application, Dates, Null

(* An application with one more event is still an application. *)
LEMMA WithEventType ==
    ASSUME NEW a \in L!Application, NEW s \in ALL_STAGES, NEW t \in Dates,
           NEW seen
    PROVE  /\ WithEvent(a, s, t, seen) \in L!Application
           /\ WithEvent(a, s, t, seen).stage = s
<1> DEFINE e == [stage |-> s, at |-> t]
<1>1. e \in L!Event /\ a.log \in Seq(L!Event)
  BY DEF L!Event, L!Application, ALL_STAGES, Dates
<1>2. Append(a.log, e) \in Seq(L!Event)
  BY <1>1
<1>3. QED
  BY <1>2 DEF WithEvent, L!Extended, L!Application, ALL_STAGES, Dates

(* A step of worker w that adds an event to an application no other worker  *)
(* holds, and ends its transaction.                                         *)
LEMMA RecordInv ==
    ASSUME LoopInv, NEW w \in Workers, NEW i \in DOMAIN apps,
           NEW s \in ALL_STAGES, NEW t \in Dates, NEW seen,
           apps' = [apps EXCEPT ![i] = WithEvent(@, s, t, seen)],
           RowLocks => \A v \in Workers :
               v # w /\ req[v].step = "advance_write" => req[v].app # i,
           req' \in [Workers -> Request],
           status' \in [Workers -> {"none", "ok", "refused", "error"}],
           moved' \in [Kinds -> Nat],
           req'[w] = Blank \/ (req'[w].step = "emit" /\ req'[w].kind \in Kinds),
           \A v \in Workers : v # w => req'[v] = req[v],
           UNCHANGED <<recs, jds, emitted, requests, clock>>
    PROVE  LoopInv'
<1>1. apps \in Seq(L!Application)
  BY DEF LoopInv, TypeOK
<1>2. WithEvent(apps[i], s, t, seen) \in L!Application
  BY <1>1, WithEventType
<1>3. /\ apps' \in Seq(L!Application) /\ DOMAIN apps' = DOMAIN apps
      /\ \A a \in DOMAIN apps : a # i => apps'[a] = apps[a]
  BY <1>1, <1>2
<1>4. TypeOK'
  BY <1>3 DEF TypeOK, LoopInv
<1>5. ASSUME NEW v \in Workers, req[v].step = "advance_write"
      PROVE  req[v].app \in DOMAIN apps
  BY <1>5 DEF LoopInv, RequestOK
<1>6. Frame(w)
  BY <1>3, <1>5 DEF Frame
<1>7. RequestOK(req[w])' /\ req'[w].step # "advance_write"
  BY EasyRequestOK
<1>8. QED
  BY <1>4, <1>6, <1>7, Preserved

LEMMA AdvanceInv ==
    ASSUME LoopInv, NEW w \in Workers,
           \/ \E u \in Users, a \in DOMAIN apps, s \in StageInputs :
                 BeginAdvance(w, u, a, s)
           \/ AdvanceLock(w) \/ AdvanceWrite(w)
    PROVE  LoopInv'
<1>0. apps \in Seq(L!Application)
  BY DEF LoopInv, TypeOK
<1>1. ASSUME NEW u \in Users, NEW a \in DOMAIN apps, NEW s \in StageInputs,
             BeginAdvance(w, u, a, s)
      PROVE  LoopInv'
  <2> DEFINE r == [Blank EXCEPT !.step = "advance_lock", !.user = u, !.app = a,
                              !.value = s, !.at = clock]
  <2>1. clock \in Dates /\ a \in Nat /\ s \in ALL_STAGES
    BY <1>0, LoopAssumption DEF LoopInv, TypeOK
  <2>2. /\ r \in Request /\ r.step = "advance_lock" /\ r.user \in Users
        /\ r.at \in Dates /\ r.value \in ALL_STAGES /\ r.app = a
    BY <2>1, BlankType DEF Request, Steps, Owners, L!Owners
  <2>3. RequestOK(r)
    BY <2>2 DEF RequestOK
  <2>4. QED
    BY <1>1, <2>2, <2>3, BeginInv DEF BeginAdvance
<1>2. ASSUME AdvanceLock(w) PROVE LoopInv'
  <2> DEFINE a == apps[req[w].app]
             r == [req[w] EXCEPT !.step = "advance_write",
                                 !.applied_at = a.applied_at]
  <2>1. req[w] \in Request /\ RequestOK(req[w]) /\ req[w].step = "advance_lock"
    BY <1>2, RequestType DEF AdvanceLock, LoopInv
  <2>2. req[w].app \in DOMAIN apps /\ req[w].value \in ALL_STAGES
        /\ req[w].user \in Users /\ req[w].at \in Dates
    BY <2>1 DEF RequestOK
  <2>3. a.applied_at \in Dates \cup {Null}
    BY <2>2, <1>0, AppliedAtType
  <2>4. /\ r \in Request /\ r.step = "advance_write" /\ r.app = req[w].app
        /\ r.user = req[w].user /\ r.at = req[w].at /\ r.value = req[w].value
        /\ r.applied_at = a.applied_at
    BY <2>1, <2>3 DEF Request, Steps
  <2> HIDE DEF r
  <2>5. CASE a.user = req[w].user /\ L!Advances(a.stage, req[w].value)
    <3>1. Continue(w, r) /\ UNCHANGED <<recs, jds, apps, emitted, moved, requests, clock>>
      BY <1>2, <2>5 DEF AdvanceLock, r
    <3>2. /\ req' \in [Workers -> Request] /\ req'[w] = r
          /\ status' \in [Workers -> {"none", "ok", "refused", "error"}]
          /\ \A v \in Workers : v # w => req'[v] = req[v]
      BY <3>1, <2>4, ContinueType
    <3>3. TypeOK'
      BY <3>1, <3>2 DEF TypeOK, LoopInv
    <3>4. Frame(w)
      BY <3>1, <3>2 DEF Frame
    <3>5. RequestOK(r)
      BY <2>2, <2>4 DEF RequestOK
    <3>6. RequestOK(req[w])'
      BY <3>1, <3>2, <3>5 DEF RequestOK
    <3>7. ASSUME RowLocks
          PROVE  /\ \A v \in Workers : v # w /\ req[v].step = "advance_write"
                       => req[v].app # req'[w].app
                 /\ L!Advances(apps'[req'[w].app].stage, req'[w].value)
                 /\ req'[w].applied_at = apps'[req'[w].app].applied_at
      BY <1>2, <2>4, <2>5, <3>1, <3>2, <3>7 DEF AdvanceLock, AppLocked
    <3>8. QED
      BY <3>3, <3>4, <3>6, <3>7, Preserved
  <2>6. CASE ~(a.user = req[w].user /\ L!Advances(a.stage, req[w].value))
    <3>1. PICK s \in {"ok", "refused", "error"} :
             Answer(w, s) /\ UNCHANGED <<recs, jds, apps, emitted, moved, requests, clock>>
      BY <1>2, <2>6 DEF AdvanceLock
    <3>2. QED
      BY <3>1, AnswerInv DEF LoopInv, TypeOK
  <2>7. QED
    BY <2>5, <2>6
<1>3. ASSUME AdvanceWrite(w) PROVE LoopInv'
  <2>1. RequestOK(req[w]) /\ req[w].step = "advance_write"
    BY <1>3 DEF AdvanceWrite, LoopInv
  <2>2. req[w].app \in DOMAIN apps /\ req[w].value \in ALL_STAGES
        /\ req[w].at \in Dates
    BY <2>1 DEF RequestOK
  <2>3. /\ apps' = [apps EXCEPT ![req[w].app] = WithEvent(@, req[w].value,
                                   req[w].at, req[w].applied_at)]
        /\ CountMove("stage", apps[req[w].app].stage # req[w].value)
        /\ Committed(w, TRUE, "stage")
        /\ UNCHANGED <<recs, jds, emitted, requests, clock>>
    BY <1>3 DEF AdvanceWrite
  <2>4. moved' \in [Kinds -> Nat]
    BY <2>3, MovedType DEF Kinds
  <2>5. /\ req' \in [Workers -> Request]
        /\ status' \in [Workers -> {"none", "ok", "refused", "error"}]
        /\ req'[w] = Blank \/ (req'[w].step = "emit" /\ req'[w].kind = "stage")
        /\ \A v \in Workers : v # w => req'[v] = req[v]
    BY <2>3, CommittedType DEF Kinds
  <2>6. RowLocks => \A v \in Workers :
            v # w /\ req[v].step = "advance_write" => req[v].app # req[w].app
    BY <2>1 DEF LoopInv, LockOK
  <2>7. QED
    BY <2>2, <2>3, <2>4, <2>5, <2>6, RecordInv DEF Kinds
<1>4. QED
  BY <1>1, <1>2, <1>3

LEMMA OutcomeInv ==
    ASSUME LoopInv, NEW w \in Workers,
           \/ \E u \in Owners, j \in Jobs, s \in StageInputs : BeginOutcome(w, u, j, s)
           \/ OutcomeLock(w) \/ OutcomeSelect(w)
           \/ OutcomeInsert(w) \/ OutcomeUpdate(w)
    PROVE  LoopInv'
<1>0. apps \in Seq(L!Application)
  BY DEF LoopInv, TypeOK
<1>1. ASSUME NEW u \in Owners, NEW j \in Jobs, NEW s \in StageInputs,
             BeginOutcome(w, u, j, s)
      PROVE  LoopInv'
  <2> DEFINE step == IF u \in Users THEN "outcome_lock" ELSE "outcome_select"
             r == [Blank EXCEPT !.step = step, !.user = u, !.job = j,
                                !.value = s, !.at = clock]
  <2>1. clock \in Dates /\ s \in ALL_STAGES /\ Legacy
    BY <1>1, LoopAssumption DEF LoopInv, TypeOK, BeginOutcome
  <2>2. /\ r \in Request /\ r.step = step /\ r.user = u
        /\ r.at \in Dates /\ r.value \in ALL_STAGES /\ r.app = Null
    BY <2>1, BlankType DEF Request, Steps, Blank
  <2>3. RequestOK(r)
    BY <2>1, <2>2 DEF RequestOK
  <2>4. Begin(w, r)
    BY <1>1 DEF BeginOutcome
  <2> HIDE DEF r, step
  <2>5. step \notin {"idle", "advance_write"}
    BY DEF step
  <2>6. QED
    BY <2>2, <2>3, <2>4, <2>5, BeginInv
<1>2. ASSUME OutcomeLock(w) PROVE LoopInv'
  <2> DEFINE r == [req[w] EXCEPT !.step = "outcome_select"]
  <2>1. req[w] \in Request /\ RequestOK(req[w]) /\ req[w].step = "outcome_lock"
    BY <1>2, RequestType DEF OutcomeLock, LoopInv
  <2>2. /\ r \in Request /\ r.step = "outcome_select" /\ r.value = req[w].value
        /\ r.at = req[w].at /\ r.app = req[w].app
    BY <2>1 DEF Request, Steps
  <2>3. RequestOK(r)
    BY <2>1, <2>2 DEF RequestOK
  <2>4. QED
    BY <1>2, <2>2, <2>3, ReadInv DEF OutcomeLock
<1>3. ASSUME OutcomeSelect(w) PROVE LoopInv'
  <2>1. req[w] \in Request /\ RequestOK(req[w]) /\ req[w].step = "outcome_select"
    BY <1>3, RequestType DEF OutcomeSelect, LoopInv
  <2>2. CASE Continue(w, [req[w] EXCEPT !.step = "outcome_write"])
    <3> DEFINE r == [req[w] EXCEPT !.step = "outcome_write"]
    <3>1. /\ r \in Request /\ r.step = "outcome_write" /\ r.value = req[w].value
          /\ r.at = req[w].at /\ r.app = req[w].app
      BY <2>1 DEF Request, Steps
    <3>2. RequestOK(r)
      BY <2>1, <3>1 DEF RequestOK
    <3>3. QED
      BY <1>3, <2>2, <3>1, <3>2, ReadInv DEF OutcomeSelect
  <2>3. ASSUME NEW a \in AppsOf(req[w].user, req[w].job),
               Continue(w, [req[w] EXCEPT !.step = "outcome_write", !.app = a,
                                          !.applied_at = apps[a].applied_at])
        PROVE  LoopInv'
    <3> DEFINE r == [req[w] EXCEPT !.step = "outcome_write", !.app = a,
                                   !.applied_at = apps[a].applied_at]
    <3>1. a \in DOMAIN apps /\ a \in Nat
      BY <1>0 DEF AppsOf
    <3>2. apps[a].applied_at \in Dates \cup {Null}
      BY <3>1, <1>0, AppliedAtType
    <3>3. /\ r \in Request /\ r.step = "outcome_write" /\ r.value = req[w].value
          /\ r.at = req[w].at /\ r.app = a
      BY <2>1, <3>1, <3>2 DEF Request, Steps
    <3>4. RequestOK(r)
      BY <2>1, <3>1, <3>3 DEF RequestOK
    <3>5. QED
      BY <1>3, <2>3, <3>3, <3>4, ReadInv DEF OutcomeSelect
  <2>4. QED
    BY <1>3, <2>2, <2>3 DEF OutcomeSelect
<1>4. ASSUME OutcomeInsert(w) PROVE LoopInv'
  <2>1. RequestOK(req[w]) /\ req[w].step = "outcome_write"
    BY <1>4 DEF OutcomeInsert, LoopInv
  <2>2. /\ req[w].user \in Owners /\ req[w].job \in Jobs
        /\ req[w].value \in ALL_STAGES /\ req[w].at \in Dates
    BY <2>1, RequestType DEF RequestOK
  <2>3. CASE UniqueViolation(req[w].user, req[w].job)
    BY <1>4, <2>3, AnswerInv DEF OutcomeInsert, LoopInv, TypeOK
  <2>4. CASE ~UniqueViolation(req[w].user, req[w].job)
    <3>1. PICK rec \in {Null} \cup RecsOf(req[w].user, req[w].job) :
             /\ apps' = Append(apps, L!NewApplication(req[w].user, req[w].job,
                                        FALSE, rec, req[w].value, req[w].at))
             /\ Answer(w, "ok")
             /\ UNCHANGED <<recs, jds, emitted, moved, requests, clock>>
      BY <1>4, <2>4 DEF OutcomeInsert
    <3>2. rec \in RecIds
      BY LoopAssumption DEF RecsOf, RecIds, Null, L!Null, LoopInv, TypeOK
    <3> DEFINE new == L!NewApplication(req[w].user, req[w].job, FALSE, rec,
                                       req[w].value, req[w].at)
    <3>3. new \in L!Application
      BY <2>2, <3>2, NewApplicationType
    <3> HIDE DEF new
    <3>4. apps' = Append(apps, new)
      BY <3>1 DEF new
    <3>5. /\ req' \in [Workers -> Request] /\ req'[w] = Blank
          /\ status' \in [Workers -> {"none", "ok", "refused", "error"}]
          /\ \A v \in Workers : v # w => req'[v] = req[v]
      BY <3>1, AnswerType
    <3>6. moved' \in [Kinds -> Nat]
      BY <3>1 DEF LoopInv, TypeOK
    <3>7. QED
      BY <3>1, <3>3, <3>4, <3>5, <3>6, OpenInv
  <2>5. QED
    BY <2>3, <2>4
<1>5. ASSUME OutcomeUpdate(w) PROVE LoopInv'
  <2>1. RequestOK(req[w]) /\ req[w].step = "outcome_write" /\ req[w].app # Null
    BY <1>5 DEF OutcomeUpdate, LoopInv
  <2>2. req[w].app \in DOMAIN apps /\ req[w].value \in ALL_STAGES
        /\ req[w].at \in Dates
    BY <2>1 DEF RequestOK
  <2>3. /\ apps' = [apps EXCEPT ![req[w].app] = WithEvent(@, req[w].value,
                                   req[w].at, req[w].applied_at)]
        /\ Answer(w, "ok")
        /\ ~AppLocked(req[w].app)
        /\ UNCHANGED <<recs, jds, emitted, moved, requests, clock>>
    BY <1>5 DEF OutcomeUpdate
  <2>4. /\ req' \in [Workers -> Request] /\ req'[w] = Blank
        /\ status' \in [Workers -> {"none", "ok", "refused", "error"}]
        /\ \A v \in Workers : v # w => req'[v] = req[v]
    BY <2>3, AnswerType
  <2>5. moved' \in [Kinds -> Nat]
    BY <2>3 DEF LoopInv, TypeOK
  <2>6. RowLocks => \A v \in Workers :
            v # w /\ req[v].step = "advance_write" => req[v].app # req[w].app
    BY <2>3 DEF AppLocked
  <2>7. QED
    BY <2>2, <2>3, <2>4, <2>5, <2>6, RecordInv
<1>6. QED
  BY <1>1, <1>2, <1>3, <1>4, <1>5

-----------------------------------------------------------------------------
(* The remaining steps, and the theorem.                                   *)

(* A step that changes neither the requests nor the rows they depend on. *)
LEMMA QuietInv ==
    ASSUME LoopInv, TypeOK', UNCHANGED <<req, jds, apps>>
    PROVE  LoopInv'
<1>1. \A w \in Workers : RequestOK(req[w])'
  BY DEF LoopInv, RequestOK
<1>2. RowLocks => LockOK'
  BY DEF LoopInv, LockOK
<1>3. QED
  BY <1>1, <1>2 DEF LoopInv

LEMMA OtherInv ==
    ASSUME LoopInv,
           \/ \E w \in Workers : Refuse(w) \/ Abort(w) \/ EmitAnalytics(w)
           \/ \E u \in Owners, b \in Batches, at \in 1 .. clock :
                 SaveRecommendations(u, b, at)
           \/ Tick
    PROVE  LoopInv'
<1>1. ASSUME NEW w \in Workers, Refuse(w) PROVE LoopInv'
  <2>1. TypeOK'
    BY <1>1 DEF Refuse, LoopInv, TypeOK
  <2>2. QED
    BY <1>1, <2>1, QuietInv DEF Refuse
<1>2. ASSUME NEW w \in Workers, Abort(w) PROVE LoopInv'
  BY <1>2, AnswerInv DEF Abort, LoopInv, TypeOK
<1>3. ASSUME NEW w \in Workers, EmitAnalytics(w) PROVE LoopInv'
  <2>1. req[w].kind \in Kinds
    BY <1>3 DEF EmitAnalytics, LoopInv, RequestOK
  <2>2. emitted' \in [Kinds -> Nat]
    <3>1. emitted \in [Kinds -> Nat]
      BY DEF LoopInv, TypeOK
    <3>2. \/ emitted' = [emitted EXCEPT ![req[w].kind] = emitted[req[w].kind] + 1]
          \/ emitted' = emitted
      BY <1>3 DEF EmitAnalytics
    <3>3. emitted[req[w].kind] + 1 \in Nat
      BY <2>1, <3>1
    <3>4. QED
      BY <3>1, <3>2, <3>3
  <2>3. Answer(w, "ok") /\ UNCHANGED <<recs, jds, apps, moved, requests, clock>>
    BY <1>3 DEF EmitAnalytics
  <2>4. QED
    BY <2>2, <2>3, AnswerInv
<1>4. ASSUME NEW u \in Owners, NEW b \in Batches, NEW at \in 1 .. clock,
             SaveRecommendations(u, b, at)
      PROVE  LoopInv'
  <2> DEFINE rows == [k \in DOMAIN b |-> [user |-> u, job |-> b[k], at |-> at]]
  <2>1. PICK n \in 1 .. Cardinality(Jobs) : b \in [1 .. n -> Jobs]
    BY <1>4 DEF Batches
  <2>2. n \in Nat
    BY <2>1, LoopAssumption, FS_CardinalityType
  <2>3. at \in Dates
    BY <1>4, LoopAssumption DEF LoopInv, TypeOK, Dates
  <2>4. /\ rows \in Seq(Recommendation) /\ Len(rows) = Len(b)
        /\ recs \in Seq(Recommendation)
    <3>1. \A k \in 1 .. n : [user |-> u, job |-> b[k], at |-> at] \in Recommendation
      BY <2>1, <2>3 DEF Recommendation
    <3>2. DOMAIN b = 1 .. n
      BY <2>1
    <3>3. rows \in [1 .. n -> Recommendation]
      BY <3>1, <3>2
    <3>4. QED
      BY <2>2, <3>2, <3>3 DEF LoopInv, TypeOK
  <2> HIDE DEF rows
  <2>5. /\ recs' = recs \o rows /\ Len(recs) + Len(b) <= MaxRecs
        /\ UNCHANGED <<jds, apps, req, status, emitted, moved, requests, clock>>
    BY <1>4 DEF SaveRecommendations, rows
  <2>6. recs' \in Seq(Recommendation) /\ Len(recs') <= MaxRecs
    <3>1. recs \o rows \in Seq(Recommendation)
      BY <2>4
    <3>2. Len(recs \o rows) = Len(recs) + Len(b)
      BY <2>4
    <3>3. QED
      BY <2>5, <3>1, <3>2
  <2>7. TypeOK'
    BY <2>5, <2>6 DEF LoopInv, TypeOK
  <2>8. QED
    BY <2>5, <2>7, QuietInv
<1>5. ASSUME Tick PROVE LoopInv'
  <2>1. TypeOK'
    BY <1>5, LoopAssumption DEF Tick, LoopInv, TypeOK, Dates
  <2>2. QED
    BY <1>5, <2>1, QuietInv DEF Tick
<1>6. QED
  BY <1>1, <1>2, <1>3, <1>4, <1>5

(* Whatever the interleaving of requests, crashes and clients: the tables    *)
(* keep their types, what a request remembers stays usable until it ends,    *)
(* and advance_application's row lock gives its application to one request.  *)
THEOREM LoopInvariant == Spec => []LoopInv
<1>1. Init => LoopInv
  <2> SUFFICES ASSUME Init PROVE LoopInv
    OBVIOUS
  <2>1. TypeOK
    BY BlankType, LoopAssumption DEF Init, TypeOK, Dates
  <2>2. \A w \in Workers : RequestOK(req[w]) /\ req[w].step = "idle"
    BY BlankType DEF Init, RequestOK
  <2>3. LockOK
    BY <2>2 DEF LockOK
  <2>4. QED
    BY <2>1, <2>2, <2>3 DEF LoopInv
<1>2. LoopInv /\ [Next]_vars => LoopInv'
  <2> SUFFICES ASSUME LoopInv, [Next]_vars PROVE LoopInv'
    OBVIOUS
  <2>1. ASSUME NEW w \in Workers, Arrive(w) PROVE LoopInv'
    BY <2>1, PostDecisionInv, PatchDecisionInv, CreateInv, AdvanceInv,
       OutcomeInv, OtherInv DEF Arrive
  <2>2. ASSUME NEW w \in Workers, Work(w) PROVE LoopInv'
    BY <2>2, PostDecisionInv, PostDecisionWriteInv, PatchDecisionInv, CreateInv,
       AdvanceInv, OutcomeInv, OtherInv DEF Work
  <2>3. ASSUME NEW w \in Workers, Abort(w) PROVE LoopInv'
    BY <2>3, OtherInv
  <2>4. CASE \E u \in Owners, b \in Batches, at \in 1 .. clock :
                SaveRecommendations(u, b, at)
    BY <2>4, OtherInv
  <2>5. CASE Tick
    BY <2>5, OtherInv
  <2>6. CASE UNCHANGED vars
    <3>1. TypeOK'
      BY <2>6 DEF vars, LoopInv, TypeOK
    <3>2. QED
      BY <2>6, <3>1, QuietInv DEF vars
  <2>7. QED
    BY <2>1, <2>2, <2>3, <2>4, <2>5, <2>6 DEF Next
<1>3. QED
  BY <1>1, <1>2, PTL DEF Spec

-----------------------------------------------------------------------------
(* The loop implements Ledger.                                             *)

(* The steps that write applications are steps of Ledger ... *)
LEMMA CreateImplements ==
    ASSUME LoopInv, NEW w \in Workers, CreateInsert(w)
    PROVE  [L!Next]_apps
<1> DEFINE r == req[w]
<1>1. RequestOK(r) /\ r.step = "create_insert"
  BY DEF LoopInv, CreateInsert
<1>2. /\ r.user \in L!Owners /\ r.job \in Jobs /\ r.at \in 1 .. MaxClock
      /\ r.row \in JobDecision
  BY <1>1, RequestType DEF RequestOK, Owners, Dates
<1>3. r.row.rec \in (1 .. MaxRecs) \cup {L!Null}
  BY <1>2, LoopAssumption DEF JobDecision, RecIds, L!Null
<1>4. TRUE \in BOOLEAN /\ "planned" \in L!ALL_STAGES
  BY DEF L!ALL_STAGES, L!APPLICATION_STAGES
<1>5. CASE UniqueViolation(r.user, r.job)
  BY <1>5 DEF CreateInsert
<1>6. CASE ~UniqueViolation(r.user, r.job)
  <2>1. apps' = Append(apps, L!NewApplication(r.user, r.job, TRUE, r.row.rec,
                                              "planned", r.at))
    BY <1>6 DEF CreateInsert
  <2>2. r.user \in Users => \A i \in DOMAIN apps :
                                <<apps[i].user, apps[i].job>> # <<r.user, r.job>>
    BY <1>6 DEF UniqueViolation, AppsOf
  <2>3. L!Open(r.user, r.job, TRUE, r.row.rec, "planned", r.at)
    BY <2>1, <2>2 DEF L!Open
  <2>4. QED
    BY <1>2, <1>3, <1>4, <2>3 DEF L!Next
<1>7. QED
  BY <1>5, <1>6

LEMMA OutcomeInsertImplements ==
    ASSUME LoopInv, NEW w \in Workers, OutcomeInsert(w)
    PROVE  [L!Next]_apps
<1> DEFINE r == req[w]
<1>1. RequestOK(r) /\ r.step = "outcome_write"
  BY DEF LoopInv, OutcomeInsert
<1>2. /\ r.user \in L!Owners /\ r.job \in Jobs /\ r.at \in 1 .. MaxClock
      /\ r.value \in L!ALL_STAGES /\ Legacy
  BY <1>1, RequestType DEF RequestOK, Owners, Dates, ALL_STAGES
<1>3. CASE UniqueViolation(r.user, r.job)
  BY <1>3 DEF OutcomeInsert
<1>4. CASE ~UniqueViolation(r.user, r.job)
  <2>1. PICK rec \in {Null} \cup RecsOf(r.user, r.job) :
           apps' = Append(apps, L!NewApplication(r.user, r.job, FALSE, rec,
                                                 r.value, r.at))
    BY <1>4 DEF OutcomeInsert
  <2>2. rec \in (1 .. MaxRecs) \cup {L!Null}
    BY LoopAssumption DEF RecsOf, Null, LoopInv, TypeOK
  <2>3. r.user \in Users => \A i \in DOMAIN apps :
                                <<apps[i].user, apps[i].job>> # <<r.user, r.job>>
    BY <1>4 DEF UniqueViolation, AppsOf
  <2>4. L!Open(r.user, r.job, FALSE, rec, r.value, r.at)
    BY <1>2, <2>1, <2>3 DEF L!Open
  <2>5. QED
    BY <1>2, <2>2, <2>4 DEF L!Next
<1>5. QED
  BY <1>3, <1>4

(* ... an event appended under the lock, or with the outcome log in use, is *)
(* one too ...                                                              *)
LEMMA RecordImplements ==
    ASSUME LoopInv, NEW i \in DOMAIN apps, NEW s \in ALL_STAGES, NEW t \in Dates,
           NEW seen,
           apps' = [apps EXCEPT ![i] = WithEvent(@, s, t, seen)],
           Legacy \/ (L!Advances(apps[i].stage, s) /\ seen = apps[i].applied_at)
    PROVE  L!Next
<1> DEFINE d == IF s = "applied" /\ seen = Null THEN t ELSE apps[i].applied_at
<1>1. apps' = [apps EXCEPT ![i] = L!Extended(@, s, d, t)]
  BY DEF WithEvent
<1>2. d \in {apps[i].applied_at, t} /\ (s # "applied" => d = apps[i].applied_at)
  OBVIOUS
<1>3. ~Legacy => d = IF s = "applied" /\ apps[i].applied_at = L!Null
                     THEN t ELSE apps[i].applied_at
  BY DEF Null
<1> HIDE DEF d
<1>4. Legacy \/ L!Advances(apps[i].stage, s)
  OBVIOUS
<1>5. L!Record(i, s, t)
  BY <1>1, <1>2, <1>3, <1>4 DEF L!Record
<1>6. QED
  BY <1>5 DEF L!Next, ALL_STAGES, Dates

(* ... and no other step writes an application. *)
LEMMA StepImplements ==
    ASSUME RowLocks \/ Legacy, LoopInv, [Next]_vars
    PROVE  [L!Next]_apps
<1>1. ASSUME NEW w \in Workers, Arrive(w) PROVE UNCHANGED apps
  BY <1>1 DEF Arrive, Begin, BeginPostDecision, BeginPatchDecision, BeginCreate,
     BeginAdvance, BeginOutcome, Refuse
<1>2. ASSUME NEW w \in Workers, Work(w) PROVE [L!Next]_apps
  <2>1. CASE CreateInsert(w)
    BY <2>1, CreateImplements
  <2>2. CASE OutcomeInsert(w)
    BY <2>2, OutcomeInsertImplements
  <2>3. CASE AdvanceWrite(w)
    <3>1. RequestOK(req[w]) /\ req[w].step = "advance_write"
      BY <2>3 DEF AdvanceWrite, LoopInv
    <3>2. /\ req[w].app \in DOMAIN apps /\ req[w].value \in ALL_STAGES
          /\ req[w].at \in Dates
      BY <3>1 DEF RequestOK
    <3>3. RowLocks => /\ L!Advances(apps[req[w].app].stage, req[w].value)
                      /\ req[w].applied_at = apps[req[w].app].applied_at
      BY <3>1 DEF LoopInv, LockOK
    <3>4. apps' = [apps EXCEPT ![req[w].app] = WithEvent(@, req[w].value,
                                  req[w].at, req[w].applied_at)]
      BY <2>3 DEF AdvanceWrite
    <3>5. QED
      BY <3>2, <3>3, <3>4, RecordImplements
  <2>4. CASE OutcomeUpdate(w)
    <3>1. /\ RequestOK(req[w]) /\ req[w].step = "outcome_write"
          /\ req[w].app # Null
      BY <2>4 DEF OutcomeUpdate, LoopInv
    <3>2. /\ req[w].app \in DOMAIN apps /\ req[w].value \in ALL_STAGES
          /\ req[w].at \in Dates /\ Legacy
      BY <3>1 DEF RequestOK
    <3>3. apps' = [apps EXCEPT ![req[w].app] = WithEvent(@, req[w].value,
                                  req[w].at, req[w].applied_at)]
      BY <2>4 DEF OutcomeUpdate
    <3>4. QED
      BY <3>2, <3>3, RecordImplements
  <2>5. CASE \/ PostDecisionSelect(w) \/ PostDecisionUpdate(w)
             \/ PostDecisionInsert(w)
             \/ PatchDecisionSelect(w) \/ PatchDecisionWrite(w)
             \/ CreateReadDecision(w) \/ CreateReadExisting(w)
             \/ AdvanceLock(w) \/ OutcomeLock(w) \/ OutcomeSelect(w)
             \/ EmitAnalytics(w)
    <3>1. UNCHANGED apps
      BY <2>5 DEF PostDecisionSelect, PostDecisionUpdate, PostDecisionInsert,
         PatchDecisionSelect, PatchDecisionWrite, CreateReadDecision,
         CreateReadExisting, AdvanceLock, OutcomeLock, OutcomeSelect, EmitAnalytics
    <3>2. QED
      BY <3>1
  <2>6. QED
    BY <1>2, <2>1, <2>2, <2>3, <2>4, <2>5 DEF Work
<1>3. ASSUME NEW w \in Workers, Abort(w) PROVE UNCHANGED apps
  BY <1>3 DEF Abort
<1>4. ASSUME NEW u, NEW b, NEW at, SaveRecommendations(u, b, at)
      PROVE  UNCHANGED apps
  BY <1>4 DEF SaveRecommendations
<1>5. CASE Tick
  BY <1>5 DEF Tick
<1>6. CASE UNCHANGED vars
  BY <1>6 DEF vars
<1>7. QED
  BY <1>1, <1>2, <1>3, <1>4, <1>5, <1>6 DEF Next

(* The loop keeps the promise of Ledger: applications are only opened and    *)
(* extended, a registered user's at most one per job, and with the           *)
(* decision/application API alone every move obeys the stage machine.  It    *)
(* needs the row lock, unless the outcome log, which enforces nothing, is in *)
(* use anyway.                                                               *)
THEOREM LoopImplementsLedger ==
    ASSUME RowLocks \/ Legacy PROVE Spec => ImplementsLedger
<1>1. Init => L!Init
  BY DEF Init, L!Init
<1>2. LoopInv /\ [Next]_vars => [L!Next]_apps
  BY StepImplements
<1>3. QED
  BY <1>1, <1>2, LoopInvariant, PTL DEF Spec, ImplementsLedger, L!Spec

(* LP's Ledger is Loop's. *)
LEMMA SameLedger ==
    /\ L!Init => LP!Init
    /\ [L!Next]_apps => [LP!Next]_apps
    /\ LP!StageIsLastEvent => StageIsLastEvent
    /\ LP!LegalHistory => LegalHistory
    /\ LP!AppliedOnce => AppliedOnce
    /\ LP!LedgerAssumption
<1>1. L!Init => LP!Init
  BY DEF L!Init, LP!Init
<1>2. LP!ALL_STAGES = L!ALL_STAGES /\ LP!TERMINAL_STAGES = L!TERMINAL_STAGES
      /\ LP!Owners = L!Owners /\ LP!Null = L!Null
  BY DEF L!ALL_STAGES, LP!ALL_STAGES, L!APPLICATION_STAGES, LP!APPLICATION_STAGES,
     L!TERMINAL_STAGES, LP!TERMINAL_STAGES, L!Owners, LP!Owners, L!Null, LP!Null
<1>3. ASSUME NEW from, NEW to PROVE LP!Advances(from, to) = L!Advances(from, to)
  BY <1>2 DEF L!Advances, LP!Advances
<1>4. [L!Next]_apps => [LP!Next]_apps
  <2>1. ASSUME NEW u, NEW j, NEW linked, NEW rec, NEW s, NEW t
        PROVE  /\ LP!NewApplication(u, j, linked, rec, s, t)
                     = L!NewApplication(u, j, linked, rec, s, t)
               /\ L!Open(u, j, linked, rec, s, t) => LP!Open(u, j, linked, rec, s, t)
    BY <1>2 DEF L!Open, LP!Open, L!NewApplication, LP!NewApplication
  <2>2. ASSUME NEW a, NEW s, NEW d, NEW t
        PROVE  LP!Extended(a, s, d, t) = L!Extended(a, s, d, t)
    BY DEF L!Extended, LP!Extended
  <2>3. ASSUME NEW i, NEW s, NEW t PROVE L!Record(i, s, t) => LP!Record(i, s, t)
    BY <1>2, <1>3, <2>2 DEF L!Record, LP!Record
  <2>4. L!Next => LP!Next
    BY <1>2, <2>1, <2>3 DEF L!Next, LP!Next
  <2>5. QED
    BY <2>4
<1>5. LP!StageIsLastEvent => StageIsLastEvent
  BY DEF StageIsLastEvent, L!StageIsLastEvent, LP!StageIsLastEvent,
     L!LastEvent, LP!LastEvent
<1>6. LP!LegalHistory => LegalHistory
  BY <1>3 DEF LegalHistory, L!LegalHistory, LP!LegalHistory
<1>7. LP!AppliedOnce => AppliedOnce
  BY <1>2 DEF AppliedOnce, L!AppliedOnce, LP!AppliedOnce
<1>8. LP!LedgerAssumption
  BY LoopAssumption DEF LP!LedgerAssumption
<1>9. QED
  BY <1>1, <1>4, <1>5, <1>6, <1>7, <1>8

(* current_stage is always the stage of the last event of the history. *)
THEOREM LoopStage == ASSUME RowLocks \/ Legacy PROVE Spec => []StageIsLastEvent
<1>1. Spec => LP!Spec
  BY LoopImplementsLedger, SameLedger, PTL DEF ImplementsLedger, L!Spec, LP!Spec
<1>2. LP!Spec => []LP!StageIsLastEvent
  BY SameLedger, LP!LedgerStage
<1>3. QED
  BY <1>1, <1>2, SameLedger, PTL

(* With row locks and without the outcome log, histories of any length obey  *)
(* the stage machine, whatever the concurrent and retried requests.          *)
THEOREM LoopLegal == ASSUME RowLocks, ~Legacy PROVE Spec => []LegalHistory
<1>1. Spec => LP!Spec
  BY LoopImplementsLedger, SameLedger, PTL DEF ImplementsLedger, L!Spec, LP!Spec
<1>2. LP!Spec => []LP!LegalHistory
  BY SameLedger, LP!LedgerLegal
<1>3. QED
  BY <1>1, <1>2, SameLedger, PTL

(* Under the same assumptions applied_at is set once, by the first "applied" *)
(* event.                                                                    *)
THEOREM LoopAppliedOnce == ASSUME RowLocks, ~Legacy PROVE Spec => []AppliedOnce
<1>1. Spec => LP!Spec
  BY LoopImplementsLedger, SameLedger, PTL DEF ImplementsLedger, L!Spec, LP!Spec
<1>2. LP!Spec => []LP!AppliedOnce
  BY SameLedger, LP!LedgerAppliedOnce
<1>3. QED
  BY <1>1, <1>2, SameLedger, PTL

-----------------------------------------------------------------------------
(* Predictions.                                                            *)

\* The predictions a request has read are those of its user and job.
Remembers(r) == Predicts(r.rec, r.user, r.job) /\ Predicts(r.row.rec, r.user, r.job)

\* An application's pin, and that one pinned by the outcome log was made before
\* the first event.
PinOK(a) ==
    /\ Predicts(a.rec, a.user, a.job)
    /\ ~a.linked /\ a.rec # Null => recs[a.rec].at <= a.log[1].at
    /\ Len(a.log) > 0

PredictionInv ==
    /\ \A u \in Users, j \in Jobs : Predicts(jds[<<u, j>>].rec, u, j)
    /\ \A w \in Workers : Remembers(req[w])
    /\ \A a \in DOMAIN apps : PinOK(apps[a])

LEMMA BlankRemembers ==
    /\ Remembers(Blank) /\ NoRow.rec = Null /\ Blank.row = NoRow /\ Blank.rec = Null
    /\ \A u, j : Predicts(Null, u, j)
BY DEF Remembers, Predicts, Blank, NoRow

(* Requests, decisions and applications may change where the predictions    *)
(* they carry are right.                                                    *)
LEMMA PredictionStep ==
    ASSUME PredictionInv, UNCHANGED recs,
           \A w \in Workers : req'[w] = req[w] \/ Remembers(req'[w]),
           \A u \in Users, j \in Jobs : \/ jds'[<<u, j>>] = jds[<<u, j>>]
                                        \/ Predicts(jds'[<<u, j>>].rec, u, j),
           \A a \in DOMAIN apps' : PinOK(apps'[a])
    PROVE  PredictionInv'
<1>1. \A u \in Users, j \in Jobs : Predicts(jds[<<u, j>>].rec, u, j)'
  BY DEF PredictionInv, Predicts
<1>2. \A w \in Workers : Remembers(req[w])'
  BY DEF PredictionInv, Remembers, Predicts
<1>3. \A a \in DOMAIN apps' : PinOK(apps[a])'
  BY DEF PinOK, Predicts
<1> QED BY <1>1, <1>2, <1>3 DEF PredictionInv

(* A worker that goes on as r, answers, or has committed. *)
LEMMA GoesOn ==
    ASSUME LoopInv, NEW w \in Workers, NEW r, Remembers(r), req' = [req EXCEPT ![w] = r]
    PROVE  \A v \in Workers : req'[v] = req[v] \/ Remembers(req'[v])
BY DEF LoopInv, TypeOK

LEMMA Ended ==
    ASSUME LoopInv, NEW w \in Workers, NEW s, NEW changed, NEW kind,
           Answer(w, s) \/ Committed(w, changed, kind)
    PROVE  \A v \in Workers : req'[v] = req[v] \/ Remembers(req'[v])
<1> DEFINE r == [Blank EXCEPT !.step = "emit", !.user = req[w].user, !.kind = kind]
<1>1. Remembers(r)
  BY DEF Remembers, Predicts, Blank, NoRow
<1>2. req' = [req EXCEPT ![w] = Blank] \/ req' = [req EXCEPT ![w] = r]
  BY DEF Answer, Committed, Continue
<1> HIDE DEF r
<1> QED BY <1>1, <1>2, GoesOn, BlankRemembers

LEMMA ArrivePredicts ==
    ASSUME LoopInv, PredictionInv, NEW w \in Workers, Arrive(w)
    PROVE  PredictionInv'
<1>1. UNCHANGED <<recs, jds, apps>>
  BY DEF Arrive, Begin, BeginPostDecision, BeginPatchDecision, BeginCreate,
     BeginAdvance, BeginOutcome, Refuse
<1>2. ASSUME NEW u \in Users, NEW j \in Jobs, NEW d, NEW s, BeginPostDecision(w, u, j, d, s)
      PROVE  \A v \in Workers : req'[v] = req[v] \/ Remembers(req'[v])
  <2>1. PICK rec \in {Null} \cup RecsOf(u, j) :
           req' = [req EXCEPT ![w] = [Blank EXCEPT !.step = "post_select", !.user = u,
                                 !.job = j, !.value = d, !.reason = s, !.rec = rec]]
    BY <1>2 DEF BeginPostDecision, Begin
  <2> DEFINE r == [Blank EXCEPT !.step = "post_select", !.user = u,
                                !.job = j, !.value = d, !.reason = s, !.rec = rec]
  <2>2. r.rec = rec /\ r.user = u /\ r.job = j /\ r.row = NoRow
    BY DEF Blank
  <2>3. Predicts(rec, u, j)
    BY DEF Predicts, RecsOf
  <2> HIDE DEF r
  <2>4. Remembers(r)
    BY <2>2, <2>3, BlankRemembers DEF Remembers
  <2> QED BY <2>1, <2>4, GoesOn DEF r
<1>3. ASSUME NEW r, Begin(w, r), r.rec = Null, r.row = NoRow
      PROVE  \A v \in Workers : req'[v] = req[v] \/ Remembers(req'[v])
  BY <1>3, GoesOn, BlankRemembers DEF Begin, Remembers
<1>4. ASSUME NEW u, NEW j, NEW d, NEW s, NEW a,
             \/ BeginPatchDecision(w, u, j, d, s) \/ BeginCreate(w, u, j)
             \/ BeginAdvance(w, u, a, s) \/ BeginOutcome(w, u, j, s)
      PROVE  \A v \in Workers : req'[v] = req[v] \/ Remembers(req'[v])
  <2>1. CASE BeginPatchDecision(w, u, j, d, s)
    <3> DEFINE r == [Blank EXCEPT !.step = "patch_select", !.user = u, !.job = j,
                                  !.value = d, !.reason = s]
    <3>1. r.rec = Null /\ r.row = NoRow
      BY DEF Blank
    <3> QED BY <1>3, <2>1, <3>1 DEF BeginPatchDecision
  <2>2. CASE BeginCreate(w, u, j)
    <3> DEFINE r == [Blank EXCEPT !.step = "create_decision", !.user = u, !.job = j,
                                  !.at = clock]
    <3>1. r.rec = Null /\ r.row = NoRow
      BY DEF Blank
    <3> QED BY <1>3, <2>2, <3>1 DEF BeginCreate
  <2>3. CASE BeginAdvance(w, u, a, s)
    <3> DEFINE r == [Blank EXCEPT !.step = "advance_lock", !.user = u, !.app = a,
                                  !.value = s, !.at = clock]
    <3>1. r.rec = Null /\ r.row = NoRow
      BY DEF Blank
    <3> QED BY <1>3, <2>3, <3>1 DEF BeginAdvance
  <2>4. CASE BeginOutcome(w, u, j, s)
    <3> DEFINE r == [Blank EXCEPT !.step = IF u \in Users THEN "outcome_lock"
                                           ELSE "outcome_select",
                                  !.user = u, !.job = j, !.value = s, !.at = clock]
    <3>1. r.rec = Null /\ r.row = NoRow
      BY DEF Blank
    <3> QED BY <1>3, <2>4, <3>1 DEF BeginOutcome
  <2> QED BY <1>4, <2>1, <2>2, <2>3, <2>4
<1>5. \A v \in Workers : req'[v] = req[v] \/ Remembers(req'[v])
  BY <1>2, <1>3, <1>4 DEF Arrive, Refuse
<1> QED BY <1>1, <1>5, PredictionStep DEF PredictionInv

(* Statements that read. *)
LEMMA ReadPredicts ==
    ASSUME LoopInv, PredictionInv, NEW w \in Workers,
           \/ PostDecisionSelect(w) \/ PatchDecisionSelect(w)
           \/ CreateReadDecision(w) \/ CreateReadExisting(w)
           \/ AdvanceLock(w) \/ OutcomeLock(w) \/ OutcomeSelect(w)
           \/ EmitAnalytics(w) \/ Abort(w)
    PROVE  PredictionInv'
<1> DEFINE row == jds[<<req[w].user, req[w].job>>]
<1>1. UNCHANGED <<recs, jds, apps>>
  BY DEF PostDecisionSelect, PatchDecisionSelect, CreateReadDecision, CreateReadExisting,
     AdvanceLock, OutcomeLock, OutcomeSelect, EmitAnalytics, Abort
<1>2. RequestOK(req[w]) /\ Remembers(req[w]) /\ req[w] \in Request
  BY RequestType DEF LoopInv, PredictionInv
<1>3. ASSUME NEW r, Continue(w, r), Remembers(r) PROVE PredictionInv'
  <2>1. \A v \in Workers : req'[v] = req[v] \/ Remembers(req'[v])
    BY <1>3, GoesOn DEF Continue
  <2> QED BY <1>1, <2>1, PredictionStep DEF PredictionInv
<1>4. ASSUME NEW s, Answer(w, s) PROVE PredictionInv'
  <2>1. \A v \in Workers : req'[v] = req[v] \/ Remembers(req'[v])
    BY <1>4, Ended
  <2> QED BY <1>1, <2>1, PredictionStep DEF PredictionInv
<1>5. ASSUME NEW r, r.rec = req[w].rec, r.row = row, r.user = req[w].user,
             r.job = req[w].job,
             req[w].step \in {"post_select", "patch_select", "create_decision"}
      PROVE  Remembers(r)
  <2>1. req[w].user \in Users /\ req[w].job \in Jobs
    BY <1>2, <1>5, RequestType DEF RequestOK
  <2>2. Predicts(row.rec, req[w].user, req[w].job)
    BY <2>1 DEF PredictionInv
  <2> QED BY <1>2, <1>5, <2>2 DEF Remembers
<1>6. ASSUME NEW s, NEW a, NEW t
      PROVE  /\ Remembers([req[w] EXCEPT !.step = s])
             /\ Remembers([req[w] EXCEPT !.step = s, !.applied_at = t])
             /\ Remembers([req[w] EXCEPT !.step = s, !.app = a, !.applied_at = t])
  BY <1>2 DEF Request, Remembers
<1>7. CASE PostDecisionSelect(w)
  <2> DEFINE r == [req[w] EXCEPT !.step = "post_write", !.row = row]
  <2>1. req[w].step = "post_select"
    BY <1>7 DEF PostDecisionSelect
  <2>2. r.rec = req[w].rec /\ r.row = row /\ r.user = req[w].user /\ r.job = req[w].job
    BY <1>2 DEF Request
  <2>3. Continue(w, r) \/ Answer(w, "refused")
    BY <1>7 DEF PostDecisionSelect
  <2> HIDE DEF r
  <2>4. Remembers(r)
    BY <1>5, <2>1, <2>2
  <2> QED BY <1>3, <1>4, <2>3, <2>4
<1>8. CASE PatchDecisionSelect(w)
  <2> DEFINE r == [req[w] EXCEPT !.step = "patch_write", !.row = row]
  <2>1. req[w].step = "patch_select"
    BY <1>8 DEF PatchDecisionSelect
  <2>2. r.rec = req[w].rec /\ r.row = row /\ r.user = req[w].user /\ r.job = req[w].job
    BY <1>2 DEF Request
  <2>3. Continue(w, r) \/ Answer(w, "refused")
    BY <1>8 DEF PatchDecisionSelect
  <2> HIDE DEF r
  <2>4. Remembers(r)
    BY <1>5, <2>1, <2>2
  <2> QED BY <1>3, <1>4, <2>3, <2>4
<1>9. CASE CreateReadDecision(w)
  <2> DEFINE r == [req[w] EXCEPT !.step = "create_existing", !.row = row]
  <2>1. req[w].step = "create_decision"
    BY <1>9 DEF CreateReadDecision
  <2>2. r.rec = req[w].rec /\ r.row = row /\ r.user = req[w].user /\ r.job = req[w].job
    BY <1>2 DEF Request
  <2>3. Continue(w, r) \/ Answer(w, "refused")
    BY <1>9 DEF CreateReadDecision
  <2> HIDE DEF r
  <2>4. Remembers(r)
    BY <1>5, <2>1, <2>2
  <2> QED BY <1>3, <1>4, <2>3, <2>4
<1>10. CASE CreateReadExisting(w) \/ OutcomeLock(w)
  <2>1. \/ \E s : Answer(w, s)
        \/ Continue(w, [req[w] EXCEPT !.step = "create_insert"])
        \/ Continue(w, [req[w] EXCEPT !.step = "outcome_select"])
    BY <1>10 DEF CreateReadExisting, OutcomeLock
  <2> QED BY <1>3, <1>4, <1>6, <2>1
<1>11. CASE OutcomeSelect(w)
  <2>1. CASE Continue(w, [req[w] EXCEPT !.step = "outcome_write"])
    BY <1>3, <1>6, <2>1
  <2>2. ASSUME NEW a, Continue(w, [req[w] EXCEPT !.step = "outcome_write", !.app = a,
                                               !.applied_at = apps[a].applied_at])
        PROVE  PredictionInv'
    <3>1. Remembers([req[w] EXCEPT !.step = "outcome_write", !.app = a,
                                   !.applied_at = apps[a].applied_at])
      BY <1>6
    <3> QED BY <1>3, <2>2, <3>1
  <2> QED BY <1>11, <2>1, <2>2 DEF OutcomeSelect
<1>12. CASE AdvanceLock(w)
  <2> DEFINE r == [req[w] EXCEPT !.step = "advance_write",
                                 !.applied_at = apps[req[w].app].applied_at]
  <2>1. Remembers(r)
    BY <1>6
  <2>2. CASE Continue(w, r)
    BY <1>3, <2>1, <2>2
  <2>3. ASSUME NEW s, Answer(w, s) PROVE PredictionInv'
    BY <1>4, <2>3
  <2> QED BY <1>12, <2>2, <2>3 DEF AdvanceLock
<1>13. CASE EmitAnalytics(w) \/ Abort(w)
  BY <1>4, <1>13 DEF EmitAnalytics, Abort
<1> QED BY <1>7, <1>8, <1>9, <1>10, <1>11, <1>12, <1>13

(* Statements that write a decision. *)
LEMMA DecisionPredicts ==
    ASSUME LoopInv, PredictionInv, NEW w \in Workers,
           PostDecisionUpdate(w) \/ PostDecisionInsert(w) \/ PatchDecisionWrite(w)
    PROVE  PredictionInv'
<1> DEFINE key == <<req[w].user, req[w].job>>
<1>1. /\ UNCHANGED <<recs, apps>>
      /\ req[w].step \in {"post_write", "patch_write"}
      /\ \A v \in Workers : req'[v] = req[v] \/ Remembers(req'[v])
  BY Ended DEF PostDecisionUpdate, PostDecisionInsert, PatchDecisionWrite
<1>2. RequestOK(req[w]) /\ Remembers(req[w]) /\ req[w].user \in Users /\ req[w].job \in Jobs
  BY <1>1, RequestType DEF LoopInv, PredictionInv, RequestOK
<1>3. jds \in [Users \X Jobs -> JobDecision \cup {NoRow}] /\ key \in Users \X Jobs
      /\ Predicts(jds[key].rec, req[w].user, req[w].job)
  BY <1>2 DEF LoopInv, TypeOK, PredictionInv
<1>4. \/ UNCHANGED jds
      \/ \E new : /\ jds' = [jds EXCEPT ![key] = new]
                  /\ Predicts(new.rec, req[w].user, req[w].job)
  <2>1. CASE PostDecisionUpdate(w)
    <3> DEFINE new == [rec |-> IF req[w].row.rec # Null THEN req[w].row.rec ELSE req[w].rec,
                       decision |-> req[w].value, reason |-> req[w].reason]
    <3>1. jds' = [jds EXCEPT ![key] = new]
      BY <2>1 DEF PostDecisionUpdate
    <3>2. new.rec \in {req[w].row.rec, req[w].rec}
      OBVIOUS
    <3> HIDE DEF new
    <3> QED BY <1>2, <3>1, <3>2 DEF Remembers
  <2>2. CASE PostDecisionInsert(w)
    <3> DEFINE new == [rec |-> req[w].rec, decision |-> req[w].value, reason |-> req[w].reason]
    <3>1. UNCHANGED jds \/ jds' = [jds EXCEPT ![key] = new]
      BY <2>2 DEF PostDecisionInsert
    <3>2. new.rec = req[w].rec
      OBVIOUS
    <3> HIDE DEF new
    <3> QED BY <1>2, <3>1, <3>2 DEF Remembers
  <2>3. CASE PatchDecisionWrite(w)
    <3> DEFINE new == [jds[key] EXCEPT
                         !.decision = IF req[w].value = Unset THEN @ ELSE req[w].value,
                         !.reason = IF req[w].reason = Unset THEN @ ELSE req[w].reason]
    <3>1. jds' = [jds EXCEPT ![key] = new]
      BY <2>3 DEF PatchDecisionWrite
    <3>2. new.rec = jds[key].rec
      BY <1>3 DEF JobDecision, NoRow
    <3> HIDE DEF new
    <3> QED BY <1>3, <3>1, <3>2
  <2> QED BY <2>1, <2>2, <2>3
<1>5. \A u \in Users, j \in Jobs :
         jds'[<<u, j>>] = jds[<<u, j>>] \/ Predicts(jds'[<<u, j>>].rec, u, j)
  BY <1>2, <1>3, <1>4
<1> QED BY <1>1, <1>5, PredictionStep DEF PredictionInv

(* Statements that write an application. *)
LEMMA ApplicationPredicts ==
    ASSUME LoopInv, PredictionInv, NEW w \in Workers,
           \/ CreateInsert(w) \/ OutcomeInsert(w)
           \/ AdvanceWrite(w) \/ OutcomeUpdate(w)
    PROVE  PredictionInv'
<1>1. /\ UNCHANGED <<recs, jds>>
      /\ \A v \in Workers : req'[v] = req[v] \/ Remembers(req'[v])
  BY Ended DEF CreateInsert, OutcomeInsert, AdvanceWrite, OutcomeUpdate
<1>2. RequestOK(req[w]) /\ Remembers(req[w]) /\ apps \in Seq(L!Application)
      /\ \A a \in DOMAIN apps : PinOK(apps[a])
  BY DEF LoopInv, TypeOK, PredictionInv
<1>3. ASSUME NEW new, apps' = Append(apps, new), PinOK(new)
      PROVE  \A a \in DOMAIN apps' : PinOK(apps'[a])
  BY <1>2, <1>3
<1>4. ASSUME NEW i \in DOMAIN apps, NEW s, NEW t, NEW seen,
             apps' = [apps EXCEPT ![i] = WithEvent(@, s, t, seen)]
      PROVE  \A a \in DOMAIN apps' : PinOK(apps'[a])
  <2> DEFINE new == WithEvent(apps[i], s, t, seen)
  <2>1. apps[i] \in L!Application /\ apps[i].log \in Seq(L!Event) /\ PinOK(apps[i])
        /\ Len(apps[i].log) > 0
    <3>1. apps[i] \in L!Application /\ PinOK(apps[i])
      BY <1>2
    <3> QED BY <3>1 DEF L!Application, PinOK
  <2>2. /\ new.rec = apps[i].rec /\ new.user = apps[i].user /\ new.job = apps[i].job
        /\ new.linked = apps[i].linked
        /\ new.log = Append(apps[i].log, [stage |-> s, at |-> t])
    BY <2>1 DEF WithEvent, L!Extended, L!Application
  <2>3. new.log[1] = apps[i].log[1] /\ Len(new.log) > 0
    BY <2>1, <2>2
  <2> HIDE DEF new
  <2>4. PinOK(new)
    BY <2>1, <2>2, <2>3 DEF PinOK
  <2>5. apps' = [apps EXCEPT ![i] = new]
    BY <1>4 DEF new
  <2> QED BY <1>2, <2>4, <2>5
<1>5. ASSUME NEW u, NEW j, NEW linked, NEW rec, NEW s, NEW t,
             Predicts(rec, u, j), ~linked /\ rec # Null => recs[rec].at <= t
      PROVE  PinOK(L!NewApplication(u, j, linked, rec, s, t))
  BY <1>5 DEF PinOK, L!NewApplication
<1>6. \A a \in DOMAIN apps' : PinOK(apps'[a])
  <2>1. CASE CreateInsert(w)
    <3>1. Predicts(req[w].row.rec, req[w].user, req[w].job)
      BY <1>2 DEF Remembers
    <3>2. PinOK(L!NewApplication(req[w].user, req[w].job, TRUE, req[w].row.rec,
                                 "planned", req[w].at))
      BY <1>5, <3>1
    <3> QED BY <1>2, <1>3, <2>1, <3>2 DEF CreateInsert
  <2>2. CASE OutcomeInsert(w)
    <3>1. CASE UNCHANGED apps
      BY <1>2, <3>1
    <3>2. CASE ~UNCHANGED apps
      <4> DEFINE prior == {i \in RecsOf(req[w].user, req[w].job) : recs[i].at <= req[w].at}
      <4>1. PICK rec \in {Null} \cup prior :
               apps' = Append(apps, L!NewApplication(req[w].user, req[w].job, FALSE,
                                                     rec, req[w].value, req[w].at))
        BY <2>2, <3>2 DEF OutcomeInsert
      <4>2. Predicts(rec, req[w].user, req[w].job)
            /\ (rec # Null => recs[rec].at <= req[w].at)
        BY DEF RecsOf, Predicts
      <4> QED BY <1>3, <1>5, <4>1, <4>2
    <3> QED BY <3>1, <3>2
  <2>3. CASE AdvanceWrite(w) \/ OutcomeUpdate(w)
    <3>1. req[w].app \in DOMAIN apps
      BY <1>2, <2>3 DEF AdvanceWrite, OutcomeUpdate, RequestOK
    <3> QED BY <1>4, <2>3, <3>1 DEF AdvanceWrite, OutcomeUpdate
  <2> QED BY <2>1, <2>2, <2>3
<1> QED BY <1>1, <1>6, PredictionStep DEF PredictionInv

(* What predicted still does when there are more recommendations. *)
LEMMA SavePredicts ==
    ASSUME LoopInv, PredictionInv, NEW u, NEW b \in Batches, NEW at,
           SaveRecommendations(u, b, at)
    PROVE  PredictionInv'
<1> DEFINE rows == [k \in DOMAIN b |-> [user |-> u, job |-> b[k], at |-> at]]
<1>1. PICK n \in 1 .. Cardinality(Jobs) : b \in [1 .. n -> Jobs]
  BY DEF Batches
<1>2. n \in Nat
  BY <1>1, LoopAssumption, FS_CardinalityType
<1>3. recs' = recs \o rows /\ UNCHANGED <<jds, apps, req>>
  BY DEF SaveRecommendations
<1>4. rows \in Seq({[user |-> u, job |-> j, at |-> at] : j \in Jobs})
  <2>1. rows \in [1 .. n -> {[user |-> u, job |-> j, at |-> at] : j \in Jobs}]
    BY <1>1
  <2> QED BY <1>2, <2>1
<1> HIDE DEF rows
<1>5. recs \in Seq(Recommendation)
  BY DEF LoopInv, TypeOK
<1>6. \A i \in DOMAIN recs : i \in DOMAIN recs' /\ recs'[i] = recs[i]
  BY <1>3, <1>4, <1>5
<1>7. ASSUME NEW rec, NEW v, NEW j, Predicts(rec, v, j)
      PROVE  /\ rec # Null => rec \in DOMAIN recs' /\ recs'[rec].user = v /\ recs'[rec].job = j
             /\ rec # Null => recs'[rec] = recs[rec]
  BY <1>6, <1>7 DEF Predicts
<1>8. \A v \in Users, j \in Jobs : Predicts(jds[<<v, j>>].rec, v, j)'
  BY <1>3, <1>7 DEF PredictionInv, Predicts
<1>9. \A w \in Workers : Remembers(req[w])'
  BY <1>3, <1>7 DEF PredictionInv, Remembers, Predicts
<1>10. ASSUME NEW a \in DOMAIN apps PROVE PinOK(apps[a])'
  <2>1. PinOK(apps[a]) /\ Predicts(apps[a].rec, apps[a].user, apps[a].job)
    BY DEF PredictionInv, PinOK
  <2> QED BY <1>3, <1>7, <2>1 DEF PinOK, Predicts
<1> QED BY <1>3, <1>8, <1>9, <1>10 DEF PredictionInv

(* Whatever is saved, decided, re-scored and recorded while requests run, an *)
(* application is graded against a prediction made for its user and job, and *)
(* one that the outcome log opened against one made before its first event.  *)
THEOREM LoopHonestPrediction == Spec => []HonestPrediction
<1>1. Init => PredictionInv
  BY BlankRemembers DEF Init, PredictionInv
<1>2. LoopInv /\ PredictionInv /\ [Next]_vars => PredictionInv'
  <2> SUFFICES ASSUME LoopInv, PredictionInv, [Next]_vars PROVE PredictionInv'
    OBVIOUS
  <2>1. ASSUME NEW w \in Workers, Work(w) PROVE PredictionInv'
    BY <2>1, ReadPredicts, DecisionPredicts, ApplicationPredicts DEF Work
  <2>2. CASE Tick \/ UNCHANGED vars
    <3>1. UNCHANGED <<recs, jds, apps, req>>
      BY <2>2 DEF Tick, vars
    <3> QED BY <3>1, PredictionStep DEF PredictionInv
  <2> QED BY <2>1, <2>2, ArrivePredicts, ReadPredicts, SavePredicts DEF Next
<1>3. PredictionInv => HonestPrediction
  BY DEF PredictionInv, PinOK, HonestPrediction, OwnPrediction, NoHindsight
<1> QED BY <1>1, <1>2, <1>3, LoopInvariant, PTL DEF Spec

-----------------------------------------------------------------------------
(* The funnel.                                                             *)

FunnelKinds == {"created", "stage"}

Emitting(k) == {v \in Workers : req[v].kind = k}

FunnelOK(k) == emitted[k] + Cardinality(Emitting(k)) <= moved[k]

(* A request that takes up a row of analytics has moved a row of its own,   *)
(* and one that writes it puts it down.                                     *)
LEMMA FunnelStep ==
    ASSUME NEW k \in FunnelKinds, TypeOK, TypeOK', FunnelOK(k), NEW w \in Workers,
           \A v \in Workers : v # w => req'[v] = req[v],
           \/ /\ emitted'[k] = emitted[k] /\ moved'[k] >= moved[k]
              /\ req'[w].kind = k => req[w].kind = k \/ moved'[k] = moved[k] + 1
           \/ /\ emitted'[k] <= emitted[k] + 1 /\ moved'[k] = moved[k]
              /\ req[w].kind = k /\ req'[w].kind # k
    PROVE  FunnelOK(k)'
<1>1. IsFiniteSet(Workers) /\ k \in Kinds
  BY LoopAssumption DEF FunnelKinds, Kinds
<1>2. emitted[k] \in Nat /\ emitted'[k] \in Nat /\ moved[k] \in Nat /\ moved'[k] \in Nat
  BY <1>1 DEF TypeOK
<1>3. /\ IsFiniteSet(Emitting(k)) /\ IsFiniteSet(Emitting(k)')
      /\ Cardinality(Emitting(k)) \in Nat /\ Cardinality(Emitting(k)') \in Nat
  BY <1>1, FS_Subset, FS_CardinalityType DEF Emitting
<1>4. CASE req'[w].kind # k /\ req[w].kind # k
  <2>1. Emitting(k)' = Emitting(k)
    BY <1>4 DEF Emitting
  <2> QED BY <1>2, <1>3, <1>4, <2>1 DEF FunnelOK
<1>5. CASE req'[w].kind = k /\ req[w].kind = k
  <2>1. Emitting(k)' = Emitting(k)
    BY <1>5 DEF Emitting
  <2> QED BY <1>2, <1>3, <1>5, <2>1 DEF FunnelOK
<1>6. CASE req'[w].kind = k /\ req[w].kind # k
  <2>1. Emitting(k)' = Emitting(k) \cup {w} /\ w \notin Emitting(k)
    BY <1>6 DEF Emitting
  <2>2. Cardinality(Emitting(k)') = Cardinality(Emitting(k)) + 1
    BY <1>3, <2>1, FS_AddElement
  <2> QED BY <1>2, <1>3, <1>6, <2>2 DEF FunnelOK
<1>7. CASE req'[w].kind # k /\ req[w].kind = k
  <2>1. Emitting(k)' = Emitting(k) \ {w} /\ w \in Emitting(k)
    BY <1>7 DEF Emitting
  <2>2. Cardinality(Emitting(k)') = Cardinality(Emitting(k)) - 1
    BY <1>3, <2>1, FS_RemoveElement
  <2> QED BY <1>2, <1>3, <1>7, <2>2 DEF FunnelOK
<1> QED BY <1>4, <1>5, <1>6, <1>7

(* Requests that end or go on without a row of analytics. *)
LEMMA FunnelQuiet ==
    ASSUME NEW k \in FunnelKinds, TypeOK, TypeOK', FunnelOK(k), NEW w \in Workers,
           emitted' = emitted, moved'[k] >= moved[k],
           NEW r, req' = [req EXCEPT ![w] = r], r.kind \in {Unset, "decision", req[w].kind}
    PROVE  FunnelOK(k)'
<1>1. /\ \A v \in Workers : v # w => req'[v] = req[v]
      /\ req'[w].kind \in {Unset, "decision", req[w].kind}
  BY DEF TypeOK
<1>2. k \notin {Unset, "decision"}
  BY DEF FunnelKinds, Unset
<1> QED BY <1>1, <1>2, FunnelStep

LEMMA FunnelAnswer ==
    ASSUME NEW k \in FunnelKinds, TypeOK, TypeOK', FunnelOK(k), NEW w \in Workers,
           emitted' = emitted, moved'[k] >= moved[k], NEW s, Answer(w, s)
    PROVE  FunnelOK(k)'
BY FunnelQuiet DEF Answer, Blank

(* A decision counts its moves under a kind of their own. *)
LEMMA FunnelDecision ==
    ASSUME NEW k \in FunnelKinds, TypeOK, TypeOK', FunnelOK(k), NEW w \in Workers,
           PostDecisionUpdate(w) \/ PostDecisionInsert(w) \/ PatchDecisionWrite(w)
    PROVE  FunnelOK(k)'
<1>1. emitted' = emitted
  BY DEF PostDecisionUpdate, PostDecisionInsert, PatchDecisionWrite
<1>2. moved'[k] = moved[k] /\ moved[k] \in Nat
  <2>1. \/ UNCHANGED moved
        \/ moved' = [moved EXCEPT !["decision"] = @ + 1]
    BY DEF PostDecisionUpdate, PostDecisionInsert, PatchDecisionWrite, CountMove
  <2> QED BY <2>1 DEF TypeOK, FunnelKinds, Kinds
<1> DEFINE r == [Blank EXCEPT !.step = "emit", !.user = req[w].user, !.kind = "decision"]
<1>3. r.kind = "decision"
  BY DEF Blank
<1>4. (\E s : Answer(w, s)) \/ req' = [req EXCEPT ![w] = r]
  BY DEF PostDecisionUpdate, PostDecisionInsert, PatchDecisionWrite, Committed, Continue
<1> HIDE DEF r
<1> QED BY <1>1, <1>2, <1>3, <1>4, FunnelQuiet, FunnelAnswer

(* An application is opened or moved: one row more, one row to write. *)
LEMMA FunnelMove ==
    ASSUME NEW k \in FunnelKinds, LoopInv, TypeOK', FunnelOK(k), NEW w \in Workers,
           NEW kind \in FunnelKinds, emitted' = emitted,
           CountMove(kind, TRUE), Committed(w, TRUE, kind)
    PROVE  FunnelOK(k)'
<1>1. TypeOK
  BY DEF LoopInv
<1>2. moved' = [moved EXCEPT ![kind] = @ + 1] /\ moved[k] \in Nat /\ moved \in [Kinds -> Nat]
  BY <1>1 DEF CountMove, TypeOK, FunnelKinds, Kinds
<1>3. /\ \A v \in Workers : v # w => req'[v] = req[v]
      /\ req'[w].kind = kind
  <2> DEFINE r == [Blank EXCEPT !.step = "emit", !.user = req[w].user, !.kind = kind]
  <2>1. r.kind = kind
    BY DEF Blank
  <2>2. req' = [req EXCEPT ![w] = r]
    BY DEF Committed, Continue
  <2> HIDE DEF r
  <2> QED BY <1>1, <2>1, <2>2 DEF TypeOK
<1>4. k \in Kinds /\ kind \in Kinds
  BY DEF FunnelKinds, Kinds
<1>5. moved'[k] = IF k = kind THEN moved[k] + 1 ELSE moved[k]
  BY <1>2, <1>4
<1> QED BY <1>1, <1>2, <1>3, <1>5, FunnelStep

(* The analytics row is written, or lost. *)
LEMMA FunnelEmit ==
    ASSUME NEW k \in FunnelKinds, TypeOK, TypeOK', FunnelOK(k), NEW w \in Workers,
           EmitAnalytics(w)
    PROVE  FunnelOK(k)'
<1>1. /\ \A v \in Workers : v # w => req'[v] = req[v]
      /\ req'[w].kind = Unset /\ moved' = moved
      /\ k # Unset /\ k \in Kinds
  BY DEF EmitAnalytics, Answer, TypeOK, Blank, FunnelKinds, Kinds, Unset
<1>2. emitted[k] \in Nat /\ moved[k] \in Nat
  BY <1>1 DEF TypeOK
<1>3. \/ emitted'[k] = emitted[k]
      \/ emitted'[k] = emitted[k] + 1 /\ req[w].kind = k
  BY <1>1 DEF EmitAnalytics, TypeOK
<1>4. CASE emitted'[k] = emitted[k]
  BY <1>1, <1>2, <1>4, FunnelStep
<1>5. CASE emitted'[k] = emitted[k] + 1 /\ req[w].kind = k
  BY <1>1, <1>2, <1>5, FunnelStep
<1> QED BY <1>3, <1>4, <1>5

(* Retries and double submits never inflate the application funnel, for any *)
(* number of requests, if rows are locked: a retry that finds the           *)
(* application or its stage already there counts nothing (api_v2.py,        *)
(* advance_application).                                                    *)
THEOREM LoopFunnelNotInflated ==
    ASSUME RowLocks PROVE Spec => []FunnelNotInflated
<1> DEFINE Funnel == \A k \in FunnelKinds : FunnelOK(k)
<1>1. Init => Funnel
  <2> SUFFICES ASSUME Init, NEW k \in FunnelKinds PROVE FunnelOK(k)
    OBVIOUS
  <2>1. Emitting(k) = {}
    BY DEF Init, Emitting, Blank, FunnelKinds, Unset
  <2> QED BY <2>1, FS_EmptySet DEF Init, FunnelOK, FunnelKinds, Kinds
<1>2. LoopInv /\ LoopInv' /\ Funnel /\ [Next]_vars => Funnel'
  <2> SUFFICES ASSUME LoopInv, LoopInv', Funnel, [Next]_vars, NEW k \in FunnelKinds
               PROVE  FunnelOK(k)'
    OBVIOUS
  <2>1. TypeOK /\ TypeOK' /\ FunnelOK(k) /\ moved[k] \in Nat
    BY DEF LoopInv, TypeOK, FunnelKinds, Kinds
  <2>2. ASSUME UNCHANGED <<emitted, moved, req>> PROVE FunnelOK(k)'
    <3>1. Emitting(k)' = Emitting(k)
      BY <2>2 DEF Emitting
    <3> QED BY <2>1, <2>2, <3>1 DEF FunnelOK
  <2>3. ASSUME NEW w \in Workers, NEW r, Begin(w, r), r.kind = Unset PROVE FunnelOK(k)'
    <3>1. req' = [req EXCEPT ![w] = r] /\ r.kind \in {Unset, "decision", req[w].kind}
      BY <2>3 DEF Begin
    <3>2. emitted' = emitted /\ moved'[k] >= moved[k]
      BY <2>1, <2>3 DEF Begin
    <3> QED BY <2>1, <3>1, <3>2, FunnelQuiet
  <2>4. ASSUME NEW w \in Workers, Arrive(w) PROVE FunnelOK(k)'
    <3>1. ASSUME NEW u, NEW j, NEW d, NEW s,
                 BeginPostDecision(w, u, j, d, s) \/ BeginPatchDecision(w, u, j, d, s)
          PROVE  FunnelOK(k)'
      BY <2>3, <3>1 DEF BeginPostDecision, BeginPatchDecision, Blank
    <3>2. ASSUME NEW u, NEW j, NEW s,
                 BeginCreate(w, u, j) \/ BeginAdvance(w, u, j, s) \/ BeginOutcome(w, u, j, s)
          PROVE  FunnelOK(k)'
      BY <2>3, <3>2 DEF BeginCreate, BeginAdvance, BeginOutcome, Blank
    <3>3. CASE Refuse(w)
      BY <2>2, <3>3 DEF Refuse
    <3> QED BY <2>4, <3>1, <3>2, <3>3 DEF Arrive
  <2>5. ASSUME NEW w \in Workers,
               \/ PostDecisionSelect(w) \/ PatchDecisionSelect(w)
               \/ CreateReadDecision(w) \/ CreateReadExisting(w)
               \/ AdvanceLock(w) \/ OutcomeLock(w) \/ OutcomeSelect(w)
               \/ OutcomeInsert(w) \/ OutcomeUpdate(w) \/ Abort(w)
        PROVE  FunnelOK(k)'
    <3>1. emitted' = emitted /\ moved'[k] = moved[k]
      BY <2>5 DEF PostDecisionSelect, PatchDecisionSelect, CreateReadDecision,
         CreateReadExisting, AdvanceLock, OutcomeLock, OutcomeSelect, OutcomeInsert,
         OutcomeUpdate, Abort
    <3>2. req[w] \in Request
      BY <2>1 DEF TypeOK
    <3>3. ASSUME NEW r, Continue(w, r), r.kind = req[w].kind PROVE FunnelOK(k)'
      <4>1. req' = [req EXCEPT ![w] = r] /\ r.kind \in {Unset, "decision", req[w].kind}
        BY <3>3 DEF Continue
      <4>2. emitted' = emitted /\ moved'[k] >= moved[k]
        BY <2>1, <3>1
      <4> QED BY <2>1, <4>1, <4>2, FunnelQuiet
    <3>4. ASSUME NEW s, Answer(w, s) PROVE FunnelOK(k)'
      BY <2>1, <3>1, <3>4, FunnelAnswer
    <3>5. CASE PostDecisionSelect(w)
      BY <3>2, <3>3, <3>5 DEF PostDecisionSelect, Request
    <3>6. CASE PatchDecisionSelect(w) \/ CreateReadDecision(w)
      BY <3>2, <3>3, <3>4, <3>6 DEF PatchDecisionSelect, CreateReadDecision, Request
    <3>7. CASE CreateReadExisting(w) \/ OutcomeLock(w)
      BY <3>2, <3>3, <3>4, <3>7 DEF CreateReadExisting, OutcomeLock, Request
    <3>8. CASE AdvanceLock(w)
      BY <3>2, <3>3, <3>4, <3>8 DEF AdvanceLock, Request
    <3>9. CASE OutcomeSelect(w)
      <4>1. CASE Continue(w, [req[w] EXCEPT !.step = "outcome_write"])
        BY <3>2, <3>3, <4>1 DEF Request
      <4>2. ASSUME NEW a, Continue(w, [req[w] EXCEPT !.step = "outcome_write", !.app = a,
                                                   !.applied_at = apps[a].applied_at])
            PROVE  FunnelOK(k)'
        BY <3>2, <3>3, <4>2 DEF Request
      <4> QED BY <3>9, <4>1, <4>2 DEF OutcomeSelect
    <3>10. CASE OutcomeInsert(w) \/ OutcomeUpdate(w) \/ Abort(w)
      BY <3>4, <3>10 DEF OutcomeInsert, OutcomeUpdate, Abort
    <3> QED BY <2>5, <3>5, <3>6, <3>7, <3>8, <3>9, <3>10
  <2>6. ASSUME NEW w \in Workers, CreateInsert(w) PROVE FunnelOK(k)'
    <3>1. CASE UniqueViolation(req[w].user, req[w].job)
      BY <2>1, <2>6, <3>1, FunnelAnswer DEF CreateInsert
    <3>2. CASE ~UniqueViolation(req[w].user, req[w].job)
      BY <2>1, <2>6, <3>2, FunnelMove DEF CreateInsert, FunnelKinds
    <3> QED BY <3>1, <3>2
  <2>7. ASSUME NEW w \in Workers, AdvanceWrite(w) PROVE FunnelOK(k)'
    <3>1. L!Advances(apps[req[w].app].stage, req[w].value)
      BY <2>7 DEF AdvanceWrite, LoopInv, LockOK
    <3>2. apps[req[w].app].stage # req[w].value
      BY <3>1 DEF L!Advances
    <3> QED BY <2>1, <2>7, <3>2, FunnelMove DEF AdvanceWrite, FunnelKinds
  <2>8. ASSUME NEW w \in Workers, Work(w) PROVE FunnelOK(k)'
    BY <2>1, <2>5, <2>6, <2>7, <2>8, FunnelDecision, FunnelEmit DEF Work
  <2>9. CASE Tick \/ UNCHANGED vars
    BY <2>2, <2>9 DEF Tick, vars
  <2>10. ASSUME NEW u, NEW b, NEW at, SaveRecommendations(u, b, at) PROVE FunnelOK(k)'
    BY <2>2, <2>10 DEF SaveRecommendations
  <2> QED BY <2>4, <2>5, <2>8, <2>9, <2>10 DEF Next
<1>3. Funnel => FunnelNotInflated
  BY DEF FunnelOK, Emitting, FunnelKinds, FunnelNotInflated
<1> HIDE DEF Funnel
<1> QED BY <1>1, <1>2, <1>3, LoopInvariant, PTL DEF Spec

-----------------------------------------------------------------------------
(* Induction over the subsets of a finite set and over the naturals, for   *)
(* the set of those for which a claim holds.                               *)

LEMMA SubsetInduction ==
    ASSUME NEW S, IsFiniteSet(S), NEW T,
           \A s \in SUBSET S : (\A x \in s : s \ {x} \in T) => s \in T
    PROVE  \A s \in SUBSET S : s \in T
<1> DEFINE Bad == {s \in SUBSET S : s \notin T}
<1>1. SUFFICES ASSUME Bad # {} PROVE FALSE
  OBVIOUS
<1>2. IsWellFoundedOn(StrictSubsetOrdering(S), SUBSET S)
  BY FS_StrictSubsetOrderingWellFounded, FS_FiniteSubsetsOfFinite
<1>3. PICK s \in Bad : \A t \in Bad : ~(<<t, s>> \in StrictSubsetOrdering(S))
  BY <1>1, <1>2, WFMin
<1>4. ASSUME NEW x \in s PROVE s \ {x} \in T
  <2>1. s \ {x} \in SUBSET S /\ <<s \ {x}, s>> \in StrictSubsetOrdering(S)
    BY DEF StrictSubsetOrdering
  <2> QED BY <1>3, <2>1
<1> QED BY <1>4

LEMMA LeastNatural ==
    ASSUME NEW T \in SUBSET Nat, T # {}
    PROVE  \E n \in T : \A m \in T : n <= m
<1>1. PICK n \in T : \A m \in T : ~(<<m, n>> \in OpToRel(<, Nat))
  BY NatLessThanWellFounded, WFMin
<1>2. \A m \in T : ~(m < n)
  BY <1>1 DEF OpToRel
<1> QED BY <1>2

LEMMA NaturalInduction ==
    ASSUME NEW T, 0 \in T, \A n \in Nat : n \in T => n + 1 \in T
    PROVE  Nat \subseteq T
<1>1. SUFFICES ASSUME Nat \ T # {} PROVE FALSE
  OBVIOUS
<1>2. PICK n \in Nat \ T : \A m \in Nat \ T : n <= m
  BY <1>1, LeastNatural
<1>3. n - 1 \in Nat /\ n - 1 \notin Nat \ T
  BY <1>2
<1> QED BY <1>2, <1>3

(* The last of some places in a list. *)
LEMMA MaxIn ==
    ASSUME NEW n \in Nat, NEW s \in SUBSET (1 .. n), s # {}
    PROVE  Max(s) \in s
<1> DEFINE T == {n - x : x \in s}
<1>0. \A x \in s : x \in Nat /\ n - x \in Nat
  OBVIOUS
<1>1. T \in SUBSET Nat /\ T # {}
  BY <1>0
<1>2. PICK m \in T : \A k \in T : m <= k
  <2> HIDE DEF T
  <2> QED BY <1>1, LeastNatural
<1>3. PICK x \in s : m = n - x
  OBVIOUS
<1>4. ASSUME NEW y \in s PROVE x >= y
  <2>1. m <= n - y
    BY <1>2
  <2> QED BY <1>0, <1>3, <2>1
<1> QED BY <1>4 DEF Max

-----------------------------------------------------------------------------
(* The stages of an evaluated job, read off any list A of applications, so *)
(* that the lists before and after a step can be compared.                 *)

AppsIn(A, u, j) == {a \in DOMAIN A : A[a].user = u /\ A[a].job = j}
LogStages(app)  == [i \in DOMAIN app.log |-> app.log[i].stage]
Places(A)       == [i \in DOMAIN A |-> i]

\* The fold of StagesOf over the places s, the last place last.
Told(A, u, j, s, g) ==
    IF s = {} THEN <<>>
    ELSE IF Places(A)[Max(s)] \in AppsIn(A, u, j)
         THEN g[s \ {Max(s)}] \o LogStages(A[Places(A)[Max(s)]])
         ELSE g[s \ {Max(s)}]
IsTold(A, u, j, D, g) == g = [s \in D |-> Told(A, u, j, s, g)]
TellingOf(A, u, j)    == CHOOSE g : IsTold(A, u, j, SUBSET (DOMAIN Places(A)), g)
StagesIn(A, u, j)     == TellingOf(A, u, j)[DOMAIN Places(A)]

LEMMA StagesAre ==
    ASSUME NEW u, NEW j
    PROVE  /\ StagesOf(u, j) = StagesIn(apps, u, j)
           /\ StagesOf(u, j)' = StagesIn(apps', u, j)
BY DEF StagesOf, FoldLeftDomain, FoldLeft, MapThenFoldSet, StagesIn, TellingOf,
   IsTold, Told, LogStages, AppsOf, AppsIn, Places

\* The fold is defined on every set of places: by their number.
LEMMA TellingExists ==
    ASSUME NEW A, NEW n \in Nat, DOMAIN A = 1 .. n, NEW u, NEW j
    PROVE  IsTold(A, u, j, SUBSET (1 .. n), TellingOf(A, u, j))
<1> DEFINE S == 1 .. n
           D(k) == {s \in SUBSET S : Cardinality(s) <= k}
           T == {k \in Nat : \E g : IsTold(A, u, j, D(k), g)}
<1>0. /\ IsFiniteSet(S)
      /\ \A s \in SUBSET S : IsFiniteSet(s) /\ Cardinality(s) \in Nat
                             /\ (Cardinality(s) = 0 <=> s = {})
  <2>1. IsFiniteSet(S)
    BY FS_Interval
  <2> HIDE DEF S
  <2> QED BY <2>1, FS_Subset, FS_CardinalityType, FS_EmptySet
<1>1. 0 \in T
  <2> DEFINE g == [s \in D(0) |-> <<>>]
  <2>1. \A s \in D(0) : s = {}
    BY <1>0
  <2>2. IsTold(A, u, j, D(0), g)
    BY <2>1 DEF IsTold, Told
  <2> QED BY <2>2
<1>2. ASSUME NEW k \in Nat, k \in T PROVE k + 1 \in T
  <2>1. PICK h : IsTold(A, u, j, D(k), h)
    BY <1>2
  <2>2. \A s \in D(k) : s \in SUBSET S
    OBVIOUS
  <2>3. PICK g : g = [s \in D(k + 1) |-> Told(A, u, j, s, h)]
    OBVIOUS
  <2>4. ASSUME NEW s \in D(k + 1), s # {}
        PROVE  g[s \ {Max(s)}] = h[s \ {Max(s)}]
    <3> DEFINE t == s \ {Max(s)}
    <3>1. t \in D(k)
      <4>1. Max(s) \in s
        BY <2>4, MaxIn
      <4>2. Cardinality(t) = Cardinality(s) - 1
        BY <1>0, <4>1, FS_RemoveElement
      <4>3. s \in SUBSET S /\ t \in SUBSET S /\ Cardinality(s) <= k + 1
        BY <2>4
      <4>4. Cardinality(t) \in Nat /\ Cardinality(s) \in Nat
        BY <1>0, <4>3
      <4> HIDE DEF t
      <4>5. Cardinality(t) <= k
        BY <4>2, <4>3, <4>4
      <4> QED BY <4>3, <4>5
    <3>2. t \in D(k + 1)
      BY <1>0, <3>1
    <3> HIDE DEF t
    <3>3. h[t] = Told(A, u, j, t, h)
      BY <2>1, <3>1 DEF IsTold
    <3> QED BY <2>3, <3>2, <3>3 DEF t
  <2>5. \A s \in D(k + 1) : Told(A, u, j, s, g) = Told(A, u, j, s, h)
    BY <2>4 DEF Told
  <2>6. IsTold(A, u, j, D(k + 1), g)
    BY <2>3, <2>5 DEF IsTold
  <2>7. k + 1 \in Nat
    OBVIOUS
  <2> HIDE DEF D
  <2> QED BY <2>6, <2>7
<1>3. Cardinality(S) \in T
  <2> HIDE DEF T
  <2> QED BY <1>1, <1>2, <1>0, NaturalInduction
<1>4. D(Cardinality(S)) = SUBSET S
  BY <1>0, FS_Subset
<1>5. \E g : IsTold(A, u, j, SUBSET S, g)
  BY <1>3, <1>4
<1>6. DOMAIN Places(A) = S
  BY DEF Places
<1> QED BY <1>5, <1>6 DEF TellingOf

Occurs(x, s) == \E k \in DOMAIN s : s[k] = x

\* Application a said x.
Said(A, a, x) == \E i \in DOMAIN A[a].log : A[a].log[i].stage = x

LEMMA LogSaid ==
    ASSUME NEW A, NEW a, A[a].log \in Seq(L!Event)
    PROVE  /\ LogStages(A[a]) \in Seq(ALL_STAGES)
           /\ \A x : Occurs(x, LogStages(A[a])) <=> Said(A, a, x)
<1>1. PICK log : log = A[a].log
  OBVIOUS
<1>2. DOMAIN log = 1 .. Len(log) /\ Len(log) \in Nat
  BY <1>1
<1>3. \A i \in DOMAIN log : log[i].stage \in ALL_STAGES
  <2>1. \A e \in L!Event : e.stage \in ALL_STAGES
    BY DEF L!Event, ALL_STAGES
  <2>2. \A i \in DOMAIN log : log[i] \in L!Event
    BY <1>1
  <2> QED BY <2>1, <2>2
<1>4. PICK b : b = [i \in DOMAIN log |-> log[i].stage]
  OBVIOUS
<1>5. b \in Seq(ALL_STAGES)
  BY <1>2, <1>3, <1>4
<1>6. \A x : (\E k \in DOMAIN b : b[k] = x) <=> \E i \in DOMAIN log : log[i].stage = x
  BY <1>4
<1> QED BY <1>1, <1>4, <1>5, <1>6 DEF LogStages, Said, Occurs

(* What occurs in two sequences put together. *)
LEMMA Concatenated ==
    ASSUME NEW S, NEW a \in Seq(S), NEW b \in Seq(S)
    PROVE  \A x : Occurs(x, a \o b) <=> Occurs(x, a) \/ Occurs(x, b)
<1> DEFINE c == a \o b
<1>1. /\ Len(a) \in Nat /\ Len(b) \in Nat
      /\ DOMAIN a = 1 .. Len(a) /\ DOMAIN b = 1 .. Len(b)
      /\ DOMAIN c = 1 .. Len(a) + Len(b)
  OBVIOUS
<1>2. \A k \in DOMAIN a : k \in DOMAIN c /\ c[k] = a[k]
  OBVIOUS
<1>3. \A k \in DOMAIN b : Len(a) + k \in DOMAIN c /\ c[Len(a) + k] = b[k]
  OBVIOUS
<1>4. \A i \in DOMAIN c : IF i <= Len(a) THEN i \in DOMAIN a /\ c[i] = a[i]
                          ELSE i - Len(a) \in DOMAIN b /\ c[i] = b[i - Len(a)]
  OBVIOUS
<1> HIDE DEF c
<1>5. SUFFICES ASSUME NEW x
               PROVE  (\E k \in DOMAIN c : c[k] = x)
                      <=> (\E k \in DOMAIN a : a[k] = x) \/ (\E k \in DOMAIN b : b[k] = x)
  BY DEF c, Occurs
<1>6. ASSUME NEW i \in DOMAIN c, c[i] = x
      PROVE  (\E k \in DOMAIN a : a[k] = x) \/ (\E k \in DOMAIN b : b[k] = x)
  BY <1>4, <1>6
<1> QED BY <1>2, <1>3, <1>6

\* The stages told of a job are what its applications said, no more, no less.
LEMMA StagesSaid ==
    ASSUME NEW A \in Seq(L!Application), NEW u, NEW j
    PROVE  /\ StagesIn(A, u, j) \in Seq(ALL_STAGES)
           /\ \A x : Occurs(x, StagesIn(A, u, j)) <=> \E a \in AppsIn(A, u, j) : Said(A, a, x)
<1> DEFINE n == Len(A)
           G == AppsIn(A, u, j)
<1>1. n \in Nat /\ DOMAIN A = 1 .. n
  OBVIOUS
<1>2. PICK g : g = TellingOf(A, u, j)
  OBVIOUS
<1>0. IsTold(A, u, j, SUBSET (1 .. n), g)
  BY <1>1, <1>2, TellingExists
<1>3. \A s \in SUBSET (1 .. n) : g[s] = Told(A, u, j, s, g)
  BY <1>0 DEF IsTold
<1>4. Places(A) = [i \in 1 .. n |-> i]
  BY <1>1 DEF Places
<1> DEFINE T == {s \in SUBSET (1 .. n) :
                   /\ g[s] \in Seq(ALL_STAGES)
                   /\ \A x : Occurs(x, g[s]) <=> \E a \in s \cap G : Said(A, a, x)}
<1>5. ASSUME NEW s \in SUBSET (1 .. n), \A x \in s : s \ {x} \in T PROVE s \in T
  <2>1. CASE s = {}
    <3>1. g[s] = <<>>
      BY <1>3, <2>1 DEF Told
    <3>2. g[s] \in Seq(ALL_STAGES) /\ DOMAIN g[s] = {} /\ s \cap G = {}
      BY <2>1, <3>1
    <3> HIDE DEF G
    <3> QED BY <1>5, <3>2 DEF Occurs
  <2>2. CASE s # {}
    <3>1. PICK m : m = Max(s)
      OBVIOUS
    <3>2. m \in s /\ m \in 1 .. n
      BY <1>1, <2>2, <3>1, MaxIn
    <3>3. PICK t : t = s \ {m}
      OBVIOUS
    <3>4. t \in T
      BY <1>5, <3>2, <3>3
    <3>5. /\ g[t] \in Seq(ALL_STAGES)
          /\ \A x : Occurs(x, g[t]) <=> \E a \in t \cap G : Said(A, a, x)
      BY <3>4
    <3>6. g[s] = IF m \in G THEN g[t] \o LogStages(A[m]) ELSE g[t]
      BY <1>3, <1>4, <2>2, <3>1, <3>2, <3>3 DEF Told
    <3>7. CASE m \notin G
      <4>1. g[s] = g[t] /\ s \cap G = t \cap G
        BY <3>2, <3>3, <3>6, <3>7
      <4> QED BY <3>5, <4>1
    <3>8. CASE m \in G
      <4> DEFINE b == LogStages(A[m])
      <4>1. A[m] \in L!Application
        BY <1>1, <3>2
      <4>2. A[m].log \in Seq(L!Event)
        BY <4>1 DEF L!Application
      <4>3. /\ b \in Seq(ALL_STAGES)
            /\ \A x : Occurs(x, b) <=> Said(A, m, x)
        BY <4>2, LogSaid
      <4>4. PICK a : a = g[t]
        OBVIOUS
      <4>5. a \in Seq(ALL_STAGES)
        BY <3>5, <4>4
      <4> HIDE DEF b
      <4>6. a \o b \in Seq(ALL_STAGES)
        BY <4>3, <4>5
      <4>7. \A x : Occurs(x, a \o b) <=> Occurs(x, a) \/ Occurs(x, b)
        BY <4>3, <4>5, Concatenated
      <4>8. s \cap G = (t \cap G) \cup {m}
        BY <3>2, <3>3, <3>8
      <4>9. g[s] = a \o b
        BY <3>6, <3>8, <4>4 DEF b
      <4> HIDE DEF G
      <4>10. \A x : Occurs(x, g[s]) <=> \E c \in s \cap G : Said(A, c, x)
        BY <3>5, <4>3, <4>4, <4>7, <4>8, <4>9
      <4> QED BY <4>6, <4>9, <4>10
    <3> QED BY <3>7, <3>8
  <2> QED BY <2>1, <2>2
<1> HIDE DEF T
<1>6. IsFiniteSet(1 .. n)
  BY <1>1, FS_Interval
<1>7. \A s \in SUBSET (1 .. n) : s \in T
  BY <1>5, <1>6, SubsetInduction
<1>8. 1 .. n \in T /\ G \subseteq 1 .. n
  BY <1>1, <1>7 DEF AppsIn
<1>9. (1 .. n) \cap G = G
  BY <1>8
<1>10. StagesIn(A, u, j) = g[1 .. n]
  BY <1>2, <1>4 DEF StagesIn
<1> QED BY <1>8, <1>9, <1>10 DEF T

-----------------------------------------------------------------------------
(* Grades.                                                                 *)

LEMMA RelevanceType == \A x : Relevance(x) \in 0 .. 5
<1>1. DOMAIN FUNNEL = 1 .. 6
  BY DEF FUNNEL
<1> QED BY <1>1 DEF Relevance

LEMMA NotEmpty ==
    ASSUME NEW T, NEW S \in Seq(T), S # <<>>
    PROVE  1 \in DOMAIN S
<1>1. DOMAIN S = 1 .. Len(S) /\ Len(S) \in Nat /\ Len(S) # 0
  OBVIOUS
<1> QED BY <1>1

(* The furthest of some stages is one of them, and none went further. *)
LEMMA FurthestIs ==
    ASSUME NEW S \in Seq(ALL_STAGES), S # <<>>
    PROVE  /\ Occurs(FurthestStage(S), S)
           /\ \A x : Occurs(x, S) => Relevance(x) <= Relevance(FurthestStage(S))
<1> DEFINE D == DOMAIN S
           T == {5 - Relevance(S[i]) : i \in D}
           deepest == {i \in D : \A k \in D : Relevance(S[k]) <= Relevance(S[i])}
<1>1. D \in SUBSET Nat /\ 1 \in D
  <2>1. D = 1 .. Len(S) /\ 1 \in D
    BY NotEmpty
  <2> QED BY <2>1
<1>2. \A i \in D : Relevance(S[i]) \in 0 .. 5
  BY RelevanceType
<1>3. T \in SUBSET Nat /\ T # {}
  <2>1. \A i \in D : 5 - Relevance(S[i]) \in Nat
    BY <1>2
  <2> QED BY <1>1, <2>1
<1>4. PICK r \in T : \A q \in T : r <= q
  <2> HIDE DEF T
  <2> QED BY <1>3, LeastNatural
<1>5. PICK i \in D : r = 5 - Relevance(S[i])
  BY <1>4
<1>6. i \in deepest
  <2>1. ASSUME NEW k \in D PROVE Relevance(S[k]) <= Relevance(S[i])
    <3>1. r <= 5 - Relevance(S[k])
      BY <1>4
    <3>2. Relevance(S[k]) \in 0 .. 5 /\ Relevance(S[i]) \in 0 .. 5
      BY <1>2
    <3> QED BY <1>5, <3>1, <3>2
  <2> QED BY <2>1
<1>7. PICK f \in deepest : \A k \in deepest : f <= k
  <2>1. deepest \in SUBSET Nat /\ deepest # {}
    BY <1>1, <1>6
  <2> HIDE DEF deepest
  <2> QED BY <2>1, LeastNatural
<1>8. PICK first : first = CHOOSE c \in deepest : \A k \in deepest : c <= k
  OBVIOUS
<1>9. first \in deepest
  <2> HIDE DEF deepest
  <2> QED BY <1>7, <1>8
<1>10. FurthestStage(S) = S[first]
  BY <1>8 DEF FurthestStage
<1> QED BY <1>9, <1>10 DEF Occurs

(* More stages never undo a grade. *)
LEMMA GradesGrow ==
    ASSUME NEW S \in Seq(ALL_STAGES), NEW R \in Seq(ALL_STAGES), S # <<>>,
           \A x : Occurs(x, S) => Occurs(x, R)
    PROVE  /\ Relevance(FurthestStage(S)) <= Relevance(FurthestStage(R))
           /\ Answered(S) => Answered(R)
<1>1. R # <<>>
  <2>1. 1 \in DOMAIN S
    BY NotEmpty
  <2> QED BY <2>1 DEF Occurs
<1>2. Relevance(FurthestStage(S)) <= Relevance(FurthestStage(R))
  <2>1. Occurs(FurthestStage(S), R)
    BY FurthestIs
  <2> QED BY <1>1, <2>1, FurthestIs
<1>3. ASSUME Answered(S) PROVE Answered(R)
  <2>1. CASE IsPositive(FurthestStage(S))
    <3>1. IsPositive(FurthestStage(R))
      <4>1. /\ Relevance(FurthestStage(S)) \in Nat /\ Relevance(FurthestStage(R)) \in Nat
            /\ Relevance("oa") \in Nat
        BY RelevanceType
      <4> QED BY <1>2, <2>1, <4>1 DEF IsPositive
    <3> QED BY <3>1 DEF Answered
  <2>2. CASE ToSet(S) \cap {"rejected", "ghosted"} # {}
    <3>1. PICK x : x \in {"rejected", "ghosted"} /\ Occurs(x, S)
      BY <2>2 DEF ToSet, Occurs
    <3>2. Occurs(x, R)
      BY <3>1
    <3>3. x \in ToSet(R)
      BY <3>2 DEF ToSet, Occurs
    <3> QED BY <3>1, <3>3 DEF Answered
  <2> QED BY <1>3, <2>1, <2>2 DEF Answered
<1> QED BY <1>2, <1>3

-----------------------------------------------------------------------------
(* Applications only accumulate.                                           *)

\* List B has all of list A: the same rows for the same users and jobs, with
\* the same predictions and at least the same events, at the same places.
SameRow(a, b) ==
    /\ b.user = a.user /\ b.job = a.job /\ b.rec = a.rec
    /\ \A i \in DOMAIN a.log : i \in DOMAIN b.log /\ b.log[i] = a.log[i]
Grown(A, B) ==
    /\ DOMAIN A \subseteq DOMAIN B
    /\ \A a \in DOMAIN A : SameRow(A[a], B[a])
    /\ \A b \in DOMAIN B \ DOMAIN A, a \in DOMAIN A : a < b

\* An application is never without an event.
HasLog(A) == \A a \in DOMAIN A : A[a].log # <<>>

\* scored_outcomes, read off any list A of applications.
FirstIn(A, u, j) == CHOOSE a \in AppsIn(A, u, j) : \A b \in AppsIn(A, u, j) : a <= b
RowIn(A, u, j)   == [job |-> j, rec |-> A[FirstIn(A, u, j)].rec,
                     stages |-> StagesIn(A, u, j)]
GradesIn(A, u) ==
    {[job |-> r.job, rec |-> r.rec, stage |-> FurthestStage(r.stages)] :
        r \in {p \in {RowIn(A, u, j) : j \in {k \in Jobs : AppsIn(A, u, k) # {}}} :
                  p.rec # Null /\ Answered(p.stages)}}

LEMMA GradesAre ==
    ASSUME NEW u
    PROVE  /\ ScoredOutcomes(u) = GradesIn(apps, u)
           /\ ScoredOutcomes(u)' = GradesIn(apps', u)
<1>1. \A j : AppsOf(u, j) = AppsIn(apps, u, j) /\ AppsOf(u, j)' = AppsIn(apps', u, j)
  BY DEF AppsOf, AppsIn
<1>2. \A j : /\ StagesOf(u, j) = StagesIn(apps, u, j)
             /\ StagesOf(u, j)' = StagesIn(apps', u, j)
  BY StagesAre
<1>3. \A j : /\ Prediction(u, j) = apps[FirstIn(apps, u, j)].rec
             /\ Prediction(u, j)' = apps'[FirstIn(apps', u, j)].rec
  BY <1>1 DEF Prediction, FirstIn
<1>4. ScoredOutcomes(u) = GradesIn(apps, u)
  BY <1>1, <1>2, <1>3 DEF ScoredOutcomes, GradesIn, RowIn
<1>5. ScoredOutcomes(u)' = GradesIn(apps', u)
  BY <1>1, <1>2, <1>3 DEF ScoredOutcomes, GradesIn, RowIn
<1> QED BY <1>4, <1>5

(* The first application stays the first. *)
LEMMA FirstStays ==
    ASSUME NEW A \in Seq(L!Application), NEW B \in Seq(L!Application), Grown(A, B),
           NEW u, NEW j, AppsIn(A, u, j) # {}
    PROVE  /\ FirstIn(A, u, j) \in AppsIn(A, u, j)
           /\ FirstIn(B, u, j) = FirstIn(A, u, j)
<1> DEFINE G == AppsIn(A, u, j)
           H == AppsIn(B, u, j)
<1>1. G \in SUBSET Nat /\ H \in SUBSET Nat
  BY DEF AppsIn
<1>2. PICK a \in G : \A b \in G : a <= b
  BY <1>1, LeastNatural
<1>3. G \subseteq H
  BY DEF AppsIn, Grown, SameRow
<1>4. ASSUME NEW b \in H PROVE a <= b
  <2>1. CASE b \in DOMAIN A
    BY <1>2, <2>1 DEF AppsIn, Grown, SameRow
  <2>2. CASE b \notin DOMAIN A
    <3>1. b \in DOMAIN B \ DOMAIN A /\ a \in DOMAIN A
      BY <1>2, <1>4, <2>2 DEF AppsIn
    <3>2. a < b
      BY <3>1 DEF Grown
    <3> QED BY <1>1, <1>3, <3>2
  <2> QED BY <2>1, <2>2
<1>5. /\ \A b \in G : (\A c \in G : b <= c) => b = a
      /\ \A b \in H : (\A c \in H : b <= c) => b = a
  <2> HIDE DEF G, H
  <2>1. \A b, c \in H : b <= c /\ c <= b => b = c
    BY <1>1
  <2> QED BY <1>2, <1>3, <1>4, <2>1
<1>6. FirstIn(A, u, j) = a /\ FirstIn(B, u, j) = a
  <2>1. FirstIn(A, u, j) = CHOOSE b \in G : \A c \in G : b <= c
    BY DEF FirstIn
  <2>2. FirstIn(B, u, j) = CHOOSE b \in H : \A c \in H : b <= c
    BY DEF FirstIn
  <2> HIDE DEF G, H
  <2> QED BY <1>2, <1>3, <1>4, <1>5, <2>1, <2>2
<1> QED BY <1>2, <1>6

(* A grade stands in every list that has grown out of the one it is read from. *)
LEMMA GradeKept ==
    ASSUME NEW A \in Seq(L!Application), NEW B \in Seq(L!Application), Grown(A, B),
           HasLog(A), NEW u, NEW g \in GradesIn(A, u)
    PROVE  \E h \in GradesIn(B, u) :
              /\ h.job = g.job /\ h.rec = g.rec
              /\ Relevance(h.stage) >= Relevance(g.stage)
<1>1. PICK j \in Jobs : /\ AppsIn(A, u, j) # {}
                        /\ RowIn(A, u, j).rec # Null
                        /\ Answered(RowIn(A, u, j).stages)
                        /\ g = [job |-> RowIn(A, u, j).job, rec |-> RowIn(A, u, j).rec,
                                stage |-> FurthestStage(RowIn(A, u, j).stages)]
  BY DEF GradesIn
<1>2. PICK S, R : S = StagesIn(A, u, j) /\ R = StagesIn(B, u, j)
  OBVIOUS
<1>3. PICK a : a = FirstIn(A, u, j)
  OBVIOUS
<1>4. a \in AppsIn(A, u, j) /\ FirstIn(B, u, j) = a
  BY <1>1, <1>3, FirstStays
<1>5. B[a].rec = A[a].rec /\ a \in AppsIn(B, u, j)
  BY <1>4 DEF Grown, SameRow, AppsIn
<1>6. g = [job |-> j, rec |-> A[a].rec, stage |-> FurthestStage(S)]
      /\ A[a].rec # Null /\ Answered(S)
  BY <1>1, <1>2, <1>3 DEF RowIn
<1>7. RowIn(B, u, j) = [job |-> j, rec |-> A[a].rec, stages |-> R]
  BY <1>2, <1>4, <1>5 DEF RowIn
<1>8. /\ S \in Seq(ALL_STAGES) /\ R \in Seq(ALL_STAGES)
      /\ \A x : Occurs(x, S) <=> \E b \in AppsIn(A, u, j) : Said(A, b, x)
      /\ \A x : Occurs(x, R) <=> \E b \in AppsIn(B, u, j) : Said(B, b, x)
  BY <1>2, StagesSaid
<1>9. \A x : Occurs(x, S) => Occurs(x, R)
  <2>1. ASSUME NEW x, NEW b \in AppsIn(A, u, j), Said(A, b, x)
        PROVE  b \in AppsIn(B, u, j) /\ Said(B, b, x)
    BY <2>1 DEF AppsIn, Grown, SameRow, Said
  <2> QED BY <1>8, <2>1
<1>10. S # <<>>
  <2>1. A[a] \in L!Application /\ A[a].log # <<>>
    BY <1>4 DEF AppsIn, HasLog
  <2>2. PICK log : log = A[a].log /\ log \in Seq(L!Event) /\ log # <<>>
    BY <2>1 DEF L!Application
  <2>3. 1 \in DOMAIN log
    BY <2>2
  <2>4. Said(A, a, log[1].stage)
    BY <2>2, <2>3 DEF Said
  <2>5. Occurs(log[1].stage, S)
    BY <1>4, <1>8, <2>4
  <2> QED BY <2>5 DEF Occurs
<1>11. Relevance(FurthestStage(S)) <= Relevance(FurthestStage(R)) /\ Answered(R)
  BY <1>6, <1>8, <1>9, <1>10, GradesGrow
<1>12. PICK h : h = [job |-> j, rec |-> A[a].rec, stage |-> FurthestStage(R)]
  OBVIOUS
<1>13. h \in GradesIn(B, u)
  <2>1. PICK p : p = RowIn(B, u, j)
    OBVIOUS
  <2>2. p \in {RowIn(B, u, k) : k \in {k \in Jobs : AppsIn(B, u, k) # {}}}
    BY <1>5, <2>1
  <2>3. p.job = j /\ p.rec = A[a].rec /\ p.stages = R
    BY <1>7, <2>1
  <2> QED BY <1>6, <1>11, <1>12, <2>2, <2>3 DEF GradesIn
<1>14. Relevance(h.stage) >= Relevance(g.stage)
  <2>1. Relevance(FurthestStage(S)) \in Nat /\ Relevance(FurthestStage(R)) \in Nat
    BY RelevanceType
  <2> QED BY <1>6, <1>11, <1>12, <2>1
<1> QED BY <1>6, <1>12, <1>13, <1>14

(* Every step lets the list of applications grow. *)
LEMMA OpenGrows ==
    ASSUME apps \in Seq(L!Application), HasLog(apps), NEW u, NEW j, NEW linked,
           NEW rec, NEW s, NEW t,
           apps' = Append(apps, L!NewApplication(u, j, linked, rec, s, t))
    PROVE  Grown(apps, apps') /\ HasLog(apps')
<1>1. PICK n \in Nat : n = Len(apps) /\ DOMAIN apps = 1 .. n
  OBVIOUS
<1>2. PICK new : new = L!NewApplication(u, j, linked, rec, s, t)
  OBVIOUS
<1>3. /\ DOMAIN apps' = 1 .. n + 1
      /\ \A a \in 1 .. n : apps'[a] = apps[a]
      /\ apps'[n + 1] = new
  BY <1>1, <1>2
<1>4. new.log # <<>>
  BY <1>2 DEF L!NewApplication
<1>5. Grown(apps, apps')
  <2>1. \A b \in DOMAIN apps' \ DOMAIN apps, a \in DOMAIN apps : a < b
    BY <1>1, <1>3
  <2> QED BY <1>1, <1>3, <2>1 DEF Grown, SameRow
<1>6. HasLog(apps')
  <2>1. \A a \in 1 .. n + 1 : a \in 1 .. n \/ a = n + 1
    OBVIOUS
  <2> QED BY <1>1, <1>3, <1>4, <2>1 DEF HasLog
<1> QED BY <1>5, <1>6

LEMMA RecordGrows ==
    ASSUME apps \in Seq(L!Application), HasLog(apps), NEW i \in DOMAIN apps,
           NEW s \in ALL_STAGES, NEW t \in Dates, NEW seen,
           apps' = [apps EXCEPT ![i] = WithEvent(@, s, t, seen)]
    PROVE  Grown(apps, apps') /\ HasLog(apps')
<1>1. PICK new : new = WithEvent(apps[i], s, t, seen)
  OBVIOUS
<1>2. apps[i] \in L!Application
  OBVIOUS
<1>3. PICK log : log = apps[i].log /\ log \in Seq(L!Event)
  BY <1>2 DEF L!Application
<1>4. PICK e : e = [stage |-> s, at |-> t]
  OBVIOUS
<1>5. /\ new.user = apps[i].user /\ new.job = apps[i].job /\ new.rec = apps[i].rec
      /\ new.log = Append(log, e)
  BY <1>1, <1>2, <1>3, <1>4 DEF WithEvent, L!Extended, L!Application
<1>6. /\ Append(log, e) # <<>>
      /\ \A k \in DOMAIN log : k \in DOMAIN Append(log, e) /\ Append(log, e)[k] = log[k]
  <2>1. Len(log) \in Nat /\ DOMAIN log = 1 .. Len(log)
    BY <1>3
  <2>2. /\ Append(log, e) = [k \in 1 .. Len(log) + 1 |->
                               IF k = Len(log) + 1 THEN e ELSE log[k]]
        /\ Len(log) + 1 \in DOMAIN Append(log, e)
    BY <1>3, <2>1
  <2> QED BY <2>1, <2>2
<1>7. SameRow(apps[i], new)
  BY <1>3, <1>5, <1>6 DEF SameRow
<1>8. /\ DOMAIN apps' = DOMAIN apps
      /\ \A a \in DOMAIN apps : apps'[a] = IF a = i THEN new ELSE apps[a]
  BY <1>1
<1>9. Grown(apps, apps')
  BY <1>7, <1>8 DEF Grown, SameRow
<1>10. HasLog(apps')
  BY <1>5, <1>6, <1>8 DEF HasLog
<1> QED BY <1>9, <1>10

LEMMA StepGrows ==
    ASSUME LoopInv, HasLog(apps), [Next]_vars
    PROVE  Grown(apps, apps') /\ HasLog(apps')
<1>1. CASE UNCHANGED apps
  BY <1>1 DEF Grown, SameRow
<1>2. ASSUME NEW w \in Workers, Arrive(w) PROVE UNCHANGED apps
  BY <1>2 DEF Arrive, Begin, BeginPostDecision, BeginPatchDecision, BeginCreate,
     BeginAdvance, BeginOutcome, Refuse
<1>3. ASSUME NEW w \in Workers, Work(w) PROVE Grown(apps, apps') /\ HasLog(apps')
  <2>1. apps \in Seq(L!Application)
    BY DEF LoopInv, TypeOK
  <2>2. CASE CreateInsert(w)
    <3>1. \/ UNCHANGED apps
          \/ apps' = Append(apps, L!NewApplication(req[w].user, req[w].job, TRUE,
                                      req[w].row.rec, "planned", req[w].at))
      BY <2>2 DEF CreateInsert
    <3> QED BY <1>1, <2>1, <3>1, OpenGrows
  <2>3. CASE OutcomeInsert(w)
    <3>1. \/ UNCHANGED apps
          \/ \E rec : apps' = Append(apps, L!NewApplication(req[w].user, req[w].job,
                                        FALSE, rec, req[w].value, req[w].at))
      BY <2>3 DEF OutcomeInsert
    <3> QED BY <1>1, <2>1, <3>1, OpenGrows
  <2>4. CASE AdvanceWrite(w)
    <3>1. RequestOK(req[w]) /\ req[w].step = "advance_write"
      BY <2>4 DEF AdvanceWrite, LoopInv
    <3>2. /\ req[w].app \in DOMAIN apps /\ req[w].value \in ALL_STAGES
          /\ req[w].at \in Dates
      BY <3>1 DEF RequestOK
    <3>3. apps' = [apps EXCEPT ![req[w].app] = WithEvent(@, req[w].value,
                                  req[w].at, req[w].applied_at)]
      BY <2>4 DEF AdvanceWrite
    <3> QED BY <2>1, <3>2, <3>3, RecordGrows
  <2>5. CASE OutcomeUpdate(w)
    <3>1. /\ RequestOK(req[w]) /\ req[w].step = "outcome_write"
          /\ req[w].app # Null
      BY <2>5 DEF OutcomeUpdate, LoopInv
    <3>2. /\ req[w].app \in DOMAIN apps /\ req[w].value \in ALL_STAGES
          /\ req[w].at \in Dates
      BY <3>1 DEF RequestOK
    <3>3. apps' = [apps EXCEPT ![req[w].app] = WithEvent(@, req[w].value,
                                  req[w].at, req[w].applied_at)]
      BY <2>5 DEF OutcomeUpdate
    <3> QED BY <2>1, <3>2, <3>3, RecordGrows
  <2>6. CASE \/ PostDecisionSelect(w) \/ PostDecisionUpdate(w)
             \/ PostDecisionInsert(w)
             \/ PatchDecisionSelect(w) \/ PatchDecisionWrite(w)
             \/ CreateReadDecision(w) \/ CreateReadExisting(w)
             \/ AdvanceLock(w) \/ OutcomeLock(w) \/ OutcomeSelect(w)
             \/ EmitAnalytics(w)
    <3>1. UNCHANGED apps
      BY <2>6 DEF PostDecisionSelect, PostDecisionUpdate, PostDecisionInsert,
         PatchDecisionSelect, PatchDecisionWrite, CreateReadDecision,
         CreateReadExisting, AdvanceLock, OutcomeLock, OutcomeSelect, EmitAnalytics
    <3> QED BY <1>1, <3>1
  <2> QED BY <1>3, <2>2, <2>3, <2>4, <2>5, <2>6 DEF Work
<1>4. ASSUME NEW w \in Workers, Abort(w) PROVE UNCHANGED apps
  BY <1>4 DEF Abort
<1>5. ASSUME NEW u, NEW b, NEW at, SaveRecommendations(u, b, at)
      PROVE  UNCHANGED apps
  BY <1>5 DEF SaveRecommendations
<1>6. CASE Tick
  BY <1>1, <1>6 DEF Tick
<1>7. CASE UNCHANGED vars
  BY <1>1, <1>7 DEF vars
<1> QED BY <1>1, <1>2, <1>3, <1>4, <1>5, <1>6, <1>7 DEF Next

(* A grade stands: once a prediction has been graded against an outcome, no  *)
(* later event, re-score, second application or change of the decision takes *)
(* the row away, moves it to another prediction or takes progress back.  It  *)
(* needs no row lock and holds with the outcome log in use: the list of      *)
(* applications only grows, whatever the requests do to each other.          *)
THEOREM LoopGradeStands == Spec => GradeStands
<1> DEFINE Stands == \A u \in Owners : \A g \in ScoredOutcomes(u) :
                         \E h \in ScoredOutcomes(u)' :
                            /\ h.job = g.job /\ h.rec = g.rec
                            /\ Relevance(h.stage) >= Relevance(g.stage)
<1>1. Init => HasLog(apps)
  BY DEF Init, HasLog
<1>2. LoopInv /\ HasLog(apps) /\ [Next]_vars => HasLog(apps)'
  BY StepGrows
<1>3. LoopInv /\ LoopInv' /\ HasLog(apps) /\ [Next]_vars => Stands
  <2> SUFFICES ASSUME LoopInv, LoopInv', HasLog(apps), [Next]_vars,
                      NEW u \in Owners, NEW g \in ScoredOutcomes(u)
               PROVE  \E h \in ScoredOutcomes(u)' :
                         /\ h.job = g.job /\ h.rec = g.rec
                         /\ Relevance(h.stage) >= Relevance(g.stage)
    OBVIOUS
  <2>1. apps \in Seq(L!Application) /\ apps' \in Seq(L!Application)
    BY DEF LoopInv, TypeOK
  <2>2. Grown(apps, apps')
    BY StepGrows
  <2>3. g \in GradesIn(apps, u)
    BY GradesAre
  <2>4. \E h \in GradesIn(apps', u) : /\ h.job = g.job /\ h.rec = g.rec
                                      /\ Relevance(h.stage) >= Relevance(g.stage)
    BY <2>1, <2>2, <2>3, GradeKept
  <2> QED BY <2>4, GradesAre
<1>4. LoopInv /\ LoopInv' /\ HasLog(apps) /\ [Next]_vars =>
         [apps' # apps => Stands]_vars
  BY <1>3
<1> HIDE DEF Stands
<1>5. Spec => [][apps' # apps => Stands]_vars
  BY <1>1, <1>2, <1>4, LoopInvariant, PTL DEF Spec
<1> QED BY <1>5 DEF GradeStands, Stands

=============================================================================
