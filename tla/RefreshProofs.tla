---------------------------- MODULE RefreshProofs ----------------------------
(***************************************************************************)
(* What Refresh promises, for any number of listings, refreshes, builds by *)
(* hand and workers, and any limits of the queue.                          *)
(***************************************************************************)
EXTENDS Refresh, TLAPS

Before == {"new", "fetched", "deleted"}
Sent   == {"sending", "done", "failed"}
Held   == queue \cup dead \cup expired

\* k is an active row that run b wrote.
WrittenBy(b, k) == jobs[k].listing \in Texts /\ jobs[k].by = b

Covered(b, k) == emb[k] # Absent \/ Outstanding(b, k)

RunOK(r) ==
    /\ run[r].step = "deleted" => run[r].file # Nothing
    /\ run[r].step \in Before => \A k \in Keys : jobs[k] # NoJob => jobs[k].by # r
    /\ run[r].step = "committed" =>
          \A k \in Keys : WrittenBy(r, k) => jobs[k].listing = run[r].file[k]
    /\ \A m \in run[r].pending : m.by = r /\ run[r].step = "sending"
    /\ run[r].step = "done" => \A k \in Keys : WrittenBy(r, k) => Covered(r, k)
    /\ run[r].step = "sending" =>
          \A k \in Keys : WrittenBy(r, k) =>
              Covered(r, k) \/ \E m \in run[r].pending : m.key = k

\* A message that has been sent; and one that was embedded, unless its row has
\* been replaced since.
WasSent(m)  == run[m.by].step \in Sent
Embedded(m) == WrittenBy(m.by, m.key) => emb[m.key] # Absent

RefreshInv ==
    /\ TypeOK
    /\ \A r \in AllRuns : RunOK(r)
    /\ \A m \in queue : WasSent(m)
    /\ \A w \in Workers : \A m \in InFlight(w) : WasSent(m)
    /\ \A w \in Workers : \A m \in worker[w].ok : Embedded(m)
    /\ EmbeddingHasJob
    /\ LastBuildServed

LEMMA Distinct ==
    /\ Absent \notin Texts /\ Closed \notin Texts /\ Absent # Closed
    /\ \A k \in Keys : Nothing[k] = Absent /\ NoRows[k] = NoJob
    /\ \A j \in JobRow : j.listing \in Texts \cup {Closed} /\ j.by \in AllRuns /\ j # NoJob
    /\ NoJob.listing = Absent
    /\ \A m \in Message : m.by \in AllRuns /\ m.by \in Runs /\ m.key \in Keys /\ m.text \in Texts
BY RefreshAssumption DEF Absent, Closed, Nothing, NoRows, NoJob, JobRow, Message, AllRuns

LEMMA NewRunType ==
    ASSUME NEW s \in RunSteps
    PROVE  /\ [NewRun EXCEPT !.step = s] \in Run /\ [NewRun EXCEPT !.step = s].step = s
           /\ [NewRun EXCEPT !.step = s].pending = {}
BY DEF NewRun, Run, Nothing, NoRows, Listings

-----------------------------------------------------------------------------
(* A run takes a step that leaves the table alone; it may send messages.    *)

LEMMA RunStep ==
    ASSUME RefreshInv, NEW r \in AllRuns, NEW q \in Run,
           run' = [run EXCEPT ![r] = q],
           UNCHANGED <<jobs, emb, served, receives, dead, expired, worker>>,
           queue \subseteq queue', queue' \subseteq Message,
           \A m \in queue' \ queue : m.by = r /\ q.step \in Sent,
           q.step # "committed",
           q.step = "deleted" => q.file # Nothing,
           q.step \in Before => run[r].step \in Before,
           run[r].step \in Sent => q.step \in Sent,
           \A m \in q.pending : m.by = r /\ q.step = "sending",
           q.step = "done" => \A k \in Keys : WrittenBy(r, k) => Covered(r, k)',
           q.step = "sending" => \A k \in Keys : WrittenBy(r, k) =>
                                    Covered(r, k)' \/ \E m \in q.pending : m.key = k
    PROVE  RefreshInv'
<1>1. /\ run \in [AllRuns -> Run] /\ run' \in [AllRuns -> Run] /\ run'[r] = q
      /\ \A a \in AllRuns : a # r => run'[a] = run[a]
  BY DEF RefreshInv, TypeOK
<1>2. TypeOK'
  BY <1>1 DEF RefreshInv, TypeOK
<1>3. \A b \in AllRuns, k \in Keys :
         (WrittenBy(b, k)' <=> WrittenBy(b, k)) /\ (Covered(b, k) => Covered(b, k)')
  BY DEF WrittenBy, Covered, Outstanding
<1>4. RunOK(r)'
  BY <1>1, <1>3 DEF RefreshInv, RunOK
<1>5. ASSUME NEW a \in AllRuns, a # r PROVE RunOK(a)'
  <2>1. run'[a] = run[a] /\ RunOK(a)
    BY <1>1, <1>5 DEF RefreshInv
  <2> QED BY <1>3, <2>1 DEF RunOK
<1>6. \A m \in Message : WasSent(m) => WasSent(m)'
  BY <1>1, Distinct DEF WasSent
<1>7. queue \subseteq Message /\ \A w \in Workers : InFlight(w) \subseteq Message
  BY DEF RefreshInv, TypeOK, InFlight
<1>8. \A m \in queue' : WasSent(m)'
  <2>1. \A m \in queue' \ queue : WasSent(m)'
    BY <1>1 DEF WasSent
  <2> QED BY <1>6, <1>7, <2>1 DEF RefreshInv
<1>9. \A w \in Workers : InFlight(w)' = InFlight(w)
  BY DEF InFlight
<1>10. \A w \in Workers : \A m \in InFlight(w)' : WasSent(m)'
  BY <1>6, <1>7, <1>9 DEF RefreshInv
<1>11. \A w \in Workers : \A m \in worker'[w].ok : Embedded(m)'
  BY DEF RefreshInv, Embedded, WrittenBy
<1> QED BY <1>2, <1>4, <1>5, <1>8, <1>10, <1>11
        DEF RefreshInv, EmbeddingHasJob, LastBuildServed

LEMMA FetchInv ==
    ASSUME RefreshInv, NEW r \in AllRuns, Fetch(r) \/ BuildDelete(r) \/ Fail(r)
    PROVE  RefreshInv'
<1>1. run[r] \in Run /\ jobs \in [Keys -> JobRow \cup {NoJob}] /\ RunOK(r)
      /\ queue \subseteq Message
  BY DEF RefreshInv, TypeOK
<1>2. UNCHANGED <<jobs, emb, served, queue, receives, dead, expired, worker>>
  BY DEF Fetch, BuildDelete, Fail, store, sqs
<1>3. CASE Fetch(r)
  <2>1. PICK file \in [Keys -> Listings] :
           run' = [run EXCEPT ![r].step = "fetched", ![r].file = file]
    BY <1>3 DEF Fetch
  <2> DEFINE q == [run[r] EXCEPT !.step = "fetched", !.file = file]
  <2>2. run' = [run EXCEPT ![r] = q]
    BY <2>1 DEF RefreshInv, TypeOK, Run
  <2>3. q \in Run /\ q.step = "fetched" /\ q.pending = run[r].pending
    BY <1>1 DEF Run, RunSteps
  <2>4. run[r].step = "new" /\ q.pending = {}
    BY <1>1, <1>3, <2>3 DEF Fetch, RunOK
  <2> HIDE DEF q
  <2> QED BY <1>2, <1>1, <2>2, <2>3, <2>4, RunStep DEF Before, Sent
<1>4. CASE BuildDelete(r)
  <2> DEFINE q == [run[r] EXCEPT !.step = "deleted", !.doomed = jobs]
  <2>1. run' = [run EXCEPT ![r] = q]
    BY <1>4 DEF BuildDelete, RefreshInv, TypeOK, Run
  <2>2. q \in Run /\ q.step = "deleted" /\ q.pending = run[r].pending /\ q.file = run[r].file
    BY <1>1 DEF Run, RunSteps
  <2>3. run[r].step = "fetched" /\ q.pending = {} /\ q.file # Nothing
    BY <1>1, <1>4, <2>2 DEF BuildDelete, RunOK
  <2> HIDE DEF q
  <2> QED BY <1>2, <1>1, <2>1, <2>2, <2>3, RunStep DEF Before, Sent
<1>5. CASE Fail(r)
  <2> DEFINE q == [NewRun EXCEPT !.step = "failed"]
  <2>1. run' = [run EXCEPT ![r] = q] /\ q \in Run /\ q.step = "failed" /\ q.pending = {}
    BY <1>5, NewRunType DEF Fail, RunSteps
  <2> HIDE DEF q
  <2> QED BY <1>2, <1>1, <2>1, RunStep DEF Before, Sent
<1> QED BY <1>3, <1>4, <1>5

LEMMA SendInv ==
    ASSUME RefreshInv, NEW r \in AllRuns, ReadRows(r) \/ SendChunk(r) \/ Finish(r)
    PROVE  RefreshInv'
<1>1. run[r] \in Run /\ jobs \in [Keys -> JobRow \cup {NoJob}] /\ RunOK(r)
      /\ queue \subseteq Message
  BY DEF RefreshInv, TypeOK
<1>2. CASE ReadRows(r)
  <2> DEFINE ms == {[by |-> r, key |-> k, text |-> jobs[k].listing] :
                      k \in {k \in Keys : jobs[k].listing \in Texts}}
             q  == [run[r] EXCEPT !.step = "sending", !.pending = ms]
  <2>1. run' = [run EXCEPT ![r] = q]
    BY <1>2 DEF ReadRows, RefreshInv, TypeOK, Run
  <2>2. ms \subseteq Message /\ (\A m \in ms : m.by = r)
        /\ \A k \in Keys : jobs[k].listing \in Texts => \E m \in ms : m.key = k
    <3> HIDE DEF q
    <3>1. r \in Runs
      BY <1>2 DEF ReadRows
    <3>2. ms \subseteq Message
      BY <3>1 DEF Message
    <3>3. \A m \in ms : m.by = r
      OBVIOUS
    <3>4. ASSUME NEW k \in Keys, jobs[k].listing \in Texts PROVE \E m \in ms : m.key = k
      <4>1. [by |-> r, key |-> k, text |-> jobs[k].listing] \in ms
        BY <3>4
      <4> QED BY <4>1
    <3> QED BY <3>2, <3>3, <3>4
  <2> HIDE DEF ms
  <2>3. q \in Run /\ q.step = "sending" /\ q.pending = ms
    BY <1>1, <2>2 DEF Run, RunSteps
  <2>4. UNCHANGED <<jobs, emb, served, queue, receives, dead, expired, worker>>
    BY <1>2 DEF ReadRows, store, sqs
  <2>5. \A k \in Keys : WrittenBy(r, k) => \E m \in q.pending : m.key = k
    BY <2>2, <2>3 DEF WrittenBy
  <2> HIDE DEF q
  <2> QED BY <1>1, <2>1, <2>2, <2>3, <2>4, <2>5, RunStep DEF Before, Sent
<1>3. CASE SendChunk(r)
  <2>1. PICK chunk \in SUBSET run[r].pending : \E accepted \in SUBSET chunk :
          /\ queue' = queue \cup accepted
          /\ run' = IF accepted = chunk
                    THEN [run EXCEPT ![r].pending = run[r].pending \ chunk]
                    ELSE [run EXCEPT ![r] = [NewRun EXCEPT !.step = "failed"]]
    BY <1>3 DEF SendChunk
  <2> PICK accepted \in SUBSET chunk :
          /\ queue' = queue \cup accepted
          /\ run' = IF accepted = chunk
                    THEN [run EXCEPT ![r].pending = run[r].pending \ chunk]
                    ELSE [run EXCEPT ![r] = [NewRun EXCEPT !.step = "failed"]]
    BY <2>1
  <2>2. UNCHANGED <<jobs, emb, served, receives, dead, expired, worker>>
        /\ run[r].step = "sending"
    BY <1>3 DEF SendChunk, store
  <2>3. run[r].pending \subseteq Message /\ \A m \in run[r].pending : m.by = r
    BY <1>1 DEF Run, RunOK
  <2>4. /\ queue \subseteq queue' /\ queue' \subseteq Message
        /\ \A m \in queue' \ queue : m.by = r
    BY <1>1, <2>3
  <2>5. CASE accepted = chunk
    <3> DEFINE q == [run[r] EXCEPT !.pending = run[r].pending \ chunk]
    <3>1. run' = [run EXCEPT ![r] = q]
      BY <2>5 DEF RefreshInv, TypeOK, Run
    <3>2. q \in Run /\ q.step = "sending" /\ q.pending = run[r].pending \ chunk
      BY <1>1, <2>2 DEF Run
    <3>3. ASSUME NEW k \in Keys, WrittenBy(r, k)
          PROVE  Covered(r, k)' \/ \E m \in q.pending : m.key = k
      <4>1. Covered(r, k) \/ \E m \in run[r].pending : m.key = k
        BY <1>1, <2>2, <3>3 DEF RunOK
      <4>2. CASE Covered(r, k)
        BY <2>2, <4>2 DEF Covered, Outstanding
      <4>3. ASSUME NEW m \in chunk, m.key = k PROVE Covered(r, k)'
        <5>1. m \in queue' /\ m.by = r
          BY <2>3, <2>5
        <5> QED BY <4>3, <5>1 DEF Covered, Outstanding
      <4> QED BY <3>2, <4>1, <4>2, <4>3
    <3> HIDE DEF q
    <3> QED BY <2>2, <2>3, <2>4, <3>1, <3>2, <3>3, RunStep DEF Before, Sent
  <2>6. CASE accepted # chunk
    <3> DEFINE q == [NewRun EXCEPT !.step = "failed"]
    <3>1. run' = [run EXCEPT ![r] = q] /\ q \in Run /\ q.step = "failed" /\ q.pending = {}
      BY <2>6, NewRunType DEF RunSteps
    <3> HIDE DEF q
    <3> QED BY <2>2, <2>4, <3>1, RunStep DEF Before, Sent
  <2> QED BY <2>5, <2>6
<1>4. CASE Finish(r)
  <2> DEFINE q == [NewRun EXCEPT !.step = "done"]
  <2>1. run' = [run EXCEPT ![r] = q] /\ q \in Run /\ q.step = "done" /\ q.pending = {}
    BY <1>4, NewRunType DEF Finish, RunSteps
  <2>2. UNCHANGED <<jobs, emb, served, queue, receives, dead, expired, worker>>
    BY <1>4 DEF Finish, store, sqs
  <2>3. \A k \in Keys : WrittenBy(r, k) => Covered(r, k)
    BY <1>1, <1>4 DEF Finish, RunOK
  <2>4. \A k \in Keys : WrittenBy(r, k) => Covered(r, k)'
    BY <2>2, <2>3 DEF Covered, Outstanding
  <2> HIDE DEF q
  <2> QED BY <1>1, <2>1, <2>2, <2>4, RunStep DEF Before, Sent
<1> QED BY <1>2, <1>3, <1>4

-----------------------------------------------------------------------------
(* A build commits; a build by hand embeds.                                *)

LEMMA CommitInv ==
    ASSUME RefreshInv, NEW r \in AllRuns, BuildCommit(r)
    PROVE  RefreshInv'
<1> DEFINE q == [run[r] EXCEPT !.step = "committed", !.doomed = NoRows]
<1>1. /\ run \in [AllRuns -> Run] /\ run[r] \in Run /\ run[r].step = "deleted"
      /\ run[r].file \in [Keys -> Listings] /\ run[r].file # Nothing
      /\ jobs \in [Keys -> JobRow \cup {NoJob}] /\ emb \in [Keys -> Texts \cup {Absent}]
      /\ \A k \in Keys : jobs[k] # NoJob => jobs[k].by # r
      /\ run[r].pending = {}
  BY DEF RefreshInv, RunOK, TypeOK, Run, BuildCommit, Before
<1>2. run' = [run EXCEPT ![r] = q]
  BY <1>1 DEF BuildCommit, Run
<1>3. q \in Run /\ q.step = "committed" /\ q.file = run[r].file /\ q.pending = {}
  BY <1>1, Distinct DEF Run, RunSteps, NoRows
<1> HIDE DEF q
<1>4. /\ run' \in [AllRuns -> Run] /\ run'[r] = q
      /\ \A a \in AllRuns : a # r => run'[a] = run[a]
  BY <1>1, <1>2, <1>3
<1>5. /\ served' = [by |-> r, file |-> run[r].file]
      /\ UNCHANGED <<queue, receives, dead, expired, worker>>
  BY DEF BuildCommit, sqs
<1>6. ASSUME NEW k \in Keys
      PROVE  \/ /\ Left(r, k) = NoJob /\ run[r].file[k] # Absent
                /\ jobs'[k] = [listing |-> run[r].file[k], by |-> r] /\ emb'[k] = Absent
             \/ /\ Left(r, k) = NoJob /\ run[r].file[k] = Absent
                /\ jobs'[k] = NoJob /\ emb'[k] = Absent
             \/ /\ Left(r, k) # NoJob /\ run[r].file[k] = Absent
                /\ jobs'[k] = jobs[k] /\ jobs[k] # NoJob /\ emb'[k] = emb[k]
  BY DEF BuildCommit, Collides, Left, Cascade
<1>7. ASSUME NEW k \in Keys, run[r].file[k] # Absent
      PROVE  [listing |-> run[r].file[k], by |-> r] \in JobRow
  BY <1>1, <1>7 DEF Listings, JobRow
<1>8. jobs' \in [Keys -> JobRow \cup {NoJob}]
  BY <1>1, <1>6, <1>7 DEF BuildCommit
<1>9. emb' \in [Keys -> Texts \cup {Absent}]
  BY <1>1, <1>6 DEF BuildCommit
<1>10. TypeOK'
  BY <1>1, <1>4, <1>5, <1>8, <1>9 DEF RefreshInv, TypeOK
<1>11. ASSUME NEW b \in AllRuns, NEW k \in Keys, b # r, WrittenBy(b, k)'
       PROVE  WrittenBy(b, k) /\ emb'[k] = emb[k] /\ jobs'[k] = jobs[k]
  <2>1. jobs'[k].listing \in Texts /\ jobs'[k].by = b
    BY <1>11 DEF WrittenBy
  <2>2. ASSUME jobs'[k] = [listing |-> run[r].file[k], by |-> r] PROVE FALSE
    BY <1>11, <2>1, <2>2
  <2>3. ASSUME jobs'[k] = NoJob PROVE FALSE
    BY <2>1, <2>3, Distinct
  <2>4. jobs'[k] = jobs[k] /\ emb'[k] = emb[k]
    BY <1>6, <2>2, <2>3
  <2> QED BY <2>1, <2>4 DEF WrittenBy
<1>12. RunOK(r)'
  <2>1. ASSUME NEW k \in Keys, WrittenBy(r, k)' PROVE jobs'[k].listing = q.file[k]
    <3>1. jobs'[k].listing \in Texts /\ jobs'[k].by = r
      BY <2>1 DEF WrittenBy
    <3>2. CASE jobs'[k] = [listing |-> run[r].file[k], by |-> r]
      <4>1. jobs'[k].listing = run[r].file[k]
        BY <3>2
      <4> QED BY <1>3, <4>1
    <3>3. ASSUME jobs'[k] = NoJob PROVE FALSE
      BY <3>1, <3>3, Distinct
    <3>4. ASSUME jobs'[k] = jobs[k], jobs[k] # NoJob PROVE FALSE
      BY <1>1, <3>1, <3>4
    <3> QED BY <1>6, <3>2, <3>3, <3>4
  <2> QED BY <1>3, <1>4, <2>1 DEF RunOK, Before
<1>13. ASSUME NEW a \in AllRuns, a # r PROVE RunOK(a)'
  <2>1. run'[a] = run[a] /\ RunOK(a)
    BY <1>4, <1>13 DEF RefreshInv
  <2>2. ASSUME NEW k \in Keys, jobs'[k] # NoJob
        PROVE  jobs'[k].by = r \/ (jobs[k] # NoJob /\ jobs'[k].by = jobs[k].by)
    <3>1. CASE jobs'[k] = [listing |-> run[r].file[k], by |-> r]
      BY <3>1
    <3>2. CASE jobs'[k] = jobs[k]
      BY <2>2, <3>2
    <3> QED BY <1>6, <2>2, <3>1, <3>2
  <2>3. run[a].step \in Before => \A k \in Keys : jobs'[k] # NoJob => jobs'[k].by # a
    BY <1>13, <2>1, <2>2 DEF RunOK
  <2>4. \A k \in Keys : WrittenBy(a, k)' =>
            /\ WrittenBy(a, k) /\ jobs'[k] = jobs[k]
            /\ Covered(a, k) => Covered(a, k)'
    BY <1>5, <1>11, <1>13 DEF Covered, Outstanding
  <2> QED BY <2>1, <2>3, <2>4 DEF RunOK
<1>14. \A m \in Message : WasSent(m) => m.by # r /\ WasSent(m)'
  BY <1>1, <1>4, Distinct DEF WasSent, Sent
<1>15. queue \subseteq Message /\ \A w \in Workers : InFlight(w) \subseteq Message
       /\ InFlight(w)' = InFlight(w) /\ worker[w].ok \subseteq InFlight(w)
  BY <1>5 DEF RefreshInv, TypeOK, InFlight
<1>16. (\A m \in queue' : WasSent(m)') /\ \A w \in Workers : \A m \in InFlight(w)' : WasSent(m)'
  BY <1>5, <1>14, <1>15 DEF RefreshInv
<1>17. ASSUME NEW w \in Workers, NEW m \in worker'[w].ok PROVE Embedded(m)'
  <2>1. m \in Message /\ m.by # r /\ Embedded(m)
    BY <1>5, <1>14, <1>15, <1>17 DEF RefreshInv
  <2> QED BY <1>11, <2>1, Distinct DEF Embedded
<1>18. EmbeddingHasJob'
  BY <1>6 DEF EmbeddingHasJob, RefreshInv
<1>19. LastBuildServed'
  <2>1. PICK k \in Keys : run[r].file[k] # Absent
    BY <1>1 DEF Nothing
  <2>2. jobs'[k] = [listing |-> run[r].file[k], by |-> r]
    BY <1>6, <2>1
  <2>3. jobs' # NoRows
    BY <2>1, <2>2, Distinct
  <2>4. \A n \in Keys : run[r].file[n] # Absent =>
            jobs'[n] = [listing |-> run[r].file[n], by |-> r]
    BY <1>6
  <2> QED BY <1>5, <2>3, <2>4 DEF LastBuildServed
<1> QED BY <1>10, <1>12, <1>13, <1>16, <1>17, <1>18, <1>19 DEF RefreshInv

LEMMA EmbedAllInv ==
    ASSUME RefreshInv, NEW r \in AllRuns, EmbedAll(r)
    PROVE  RefreshInv'
<1> DEFINE q == [NewRun EXCEPT !.step = "done"]
<1>1. /\ run \in [AllRuns -> Run] /\ run[r].step = "committed" /\ RunOK(r)
      /\ run[r].file \in [Keys -> Listings]
      /\ emb \in [Keys -> Texts \cup {Absent}]
  BY DEF RefreshInv, TypeOK, Run, EmbedAll
<1>2. q \in Run /\ q.step = "done" /\ q.pending = {} /\ run' = [run EXCEPT ![r] = q]
  BY NewRunType DEF EmbedAll, RunSteps
<1> HIDE DEF q
<1>3. /\ run' \in [AllRuns -> Run] /\ run'[r] = q
      /\ \A a \in AllRuns : a # r => run'[a] = run[a]
  BY <1>1, <1>2
<1>4. UNCHANGED <<jobs, served, queue, receives, dead, expired, worker>>
  BY DEF EmbedAll, sqs
<1>5. ASSUME NEW k \in Keys
      PROVE  IF run[r].file[k] \in Texts THEN jobs[k] # NoJob /\ emb'[k] = run[r].file[k]
                                         ELSE emb'[k] = emb[k]
  BY DEF EmbedAll
<1>6. emb' \in [Keys -> Texts \cup {Absent}]
  BY <1>1 DEF EmbedAll
<1>7. \A k \in Keys : emb[k] # Absent => emb'[k] # Absent
  BY <1>5, Distinct
<1>8. TypeOK'
  BY <1>3, <1>4, <1>6 DEF RefreshInv, TypeOK
<1>9. \A b \in AllRuns, k \in Keys :
         (WrittenBy(b, k)' <=> WrittenBy(b, k)) /\ (Covered(b, k) => Covered(b, k)')
  BY <1>4, <1>7 DEF WrittenBy, Covered, Outstanding
<1>10. RunOK(r)'
  <2>1. ASSUME NEW k \in Keys, WrittenBy(r, k) PROVE Covered(r, k)'
    <3>1. run[r].file[k] \in Texts
      BY <1>1, <2>1 DEF RunOK, WrittenBy
    <3> QED BY <1>5, <3>1, Distinct DEF Covered
  <2> QED BY <1>2, <1>3, <1>9, <2>1 DEF RunOK, Before
<1>11. ASSUME NEW a \in AllRuns, a # r PROVE RunOK(a)'
  <2>1. run'[a] = run[a] /\ RunOK(a)
    BY <1>3, <1>11 DEF RefreshInv
  <2> QED BY <1>4, <1>9, <2>1 DEF RunOK
<1>12. \A m \in Message : WasSent(m) => WasSent(m)'
  BY <1>1, <1>3, Distinct DEF WasSent, Sent
<1>13. queue \subseteq Message /\ \A w \in Workers : InFlight(w) \subseteq Message
       /\ InFlight(w)' = InFlight(w) /\ worker[w].ok \subseteq InFlight(w)
  BY <1>4 DEF RefreshInv, TypeOK, InFlight
<1>14. (\A m \in queue' : WasSent(m)') /\ \A w \in Workers : \A m \in InFlight(w)' : WasSent(m)'
  BY <1>4, <1>12, <1>13 DEF RefreshInv
<1>15. ASSUME NEW w \in Workers, NEW m \in worker'[w].ok PROVE Embedded(m)'
  <2>1. m \in Message /\ Embedded(m)
    BY <1>4, <1>13, <1>15 DEF RefreshInv
  <2> QED BY <1>7, <1>9, <2>1, Distinct DEF Embedded
<1>16. EmbeddingHasJob'
  BY <1>4, <1>5 DEF EmbeddingHasJob, RefreshInv
<1> QED BY <1>4, <1>8, <1>10, <1>11, <1>14, <1>15, <1>16 DEF RefreshInv, LastBuildServed

-----------------------------------------------------------------------------
(* The queue and its workers leave runs and table alone.                   *)

LEMMA QueueStep ==
    ASSUME RefreshInv, TypeOK', UNCHANGED <<run, jobs, served>>,
           \A k \in Keys : emb'[k] # emb[k] => emb'[k] # Absent /\ jobs[k] # NoJob,
           queue' \subseteq queue,
           \A m \in Held : m \in Held' \/ \E w \in Workers : m \in worker[w].ok,
           \A w \in Workers : InFlight(w)' \subseteq queue \cup UNION {InFlight(v) : v \in Workers},
           \A w \in Workers : \A m \in worker'[w].ok :
                                 m \in worker[w].ok \/ emb'[m.key] # Absent
    PROVE  RefreshInv'
<1>1. \A k \in Keys : emb[k] # Absent => emb'[k] # Absent
  OBVIOUS
<1>2. ASSUME NEW b \in AllRuns, NEW k \in Keys, WrittenBy(b, k), Covered(b, k)
      PROVE  Covered(b, k)'
  <2>1. CASE emb[k] # Absent
    BY <1>1, <2>1 DEF Covered
  <2>2. ASSUME NEW m \in Held, m.by = b, m.key = k PROVE Covered(b, k)'
    <3>1. CASE m \in Held'
      BY <2>2, <3>1 DEF Covered, Outstanding, Held
    <3>2. ASSUME NEW w \in Workers, m \in worker[w].ok PROVE Covered(b, k)'
      BY <1>1, <1>2, <2>2, <3>2 DEF RefreshInv, Embedded, Covered
    <3> QED BY <3>1, <3>2
  <2> QED BY <1>2, <2>1, <2>2 DEF Covered, Outstanding, Held
<1>3. ASSUME NEW r \in AllRuns PROVE RunOK(r)'
  <2>1. \A k \in Keys : WrittenBy(r, k)' <=> WrittenBy(r, k)
    BY DEF WrittenBy
  <2> QED BY <1>2, <2>1 DEF RefreshInv, RunOK
<1>4. \A m : WasSent(m)' <=> WasSent(m)
  BY DEF WasSent
<1>5. (\A m \in queue' : WasSent(m)') /\ \A w \in Workers : \A m \in InFlight(w)' : WasSent(m)'
  BY <1>4 DEF RefreshInv
<1>6. ASSUME NEW w \in Workers, NEW m \in worker'[w].ok PROVE Embedded(m)'
  <2>1. m \in Message
    BY <1>6 DEF TypeOK
  <2>2. CASE m \in worker[w].ok
    BY <1>1, <2>1, <2>2, Distinct DEF RefreshInv, Embedded, WrittenBy
  <2>3. CASE emb'[m.key] # Absent
    BY <2>3 DEF Embedded
  <2> QED BY <1>6, <2>2, <2>3
<1>7. EmbeddingHasJob'
  BY DEF RefreshInv, EmbeddingHasJob
<1> QED BY <1>3, <1>5, <1>6, <1>7 DEF RefreshInv, LastBuildServed

\* A worker gets a batch, or loses it.
LEMMA ReceiveInv ==
    ASSUME RefreshInv, NEW w \in Workers,
           \/ Receive(w) \/ LoseBatch(w)
           \/ \E v \in Workers, m \in Message : Redeliver(v, w, m)
    PROVE  RefreshInv'
<1>1. worker \in [Workers -> [todo : SUBSET Message, ok : SUBSET Message,
                              failed : SUBSET Message]]
      /\ receives \in [Message -> 0 .. MaxReceive] /\ queue \subseteq Message
      /\ Idle \in [todo : SUBSET Message, ok : SUBSET Message, failed : SUBSET Message]
  BY DEF RefreshInv, TypeOK, Idle
<1>2. PICK batch \in SUBSET queue :
        /\ worker' = [worker EXCEPT ![w] = [Idle EXCEPT !.todo = batch]]
        /\ receives' \in [Message -> 0 .. MaxReceive]
  <2>1. CASE Receive(w)
    <3>1. PICK batch \in SUBSET Visible :
            /\ \A m \in batch : receives[m] < MaxReceive
            /\ worker' = [worker EXCEPT ![w] = [Idle EXCEPT !.todo = batch]]
            /\ receives' = [m \in DOMAIN receives |->
                              receives[m] + IF m \in batch THEN 1 ELSE 0]
      BY <2>1 DEF Receive
    <3>2. receives' \in [Message -> 0 .. MaxReceive]
      BY <1>1, <3>1, RefreshAssumption
    <3> QED BY <3>1, <3>2 DEF Visible
  <2>2. CASE LoseBatch(w)
    <3>1. [Idle EXCEPT !.todo = {}] = Idle
      BY DEF Idle
    <3>2. worker' = [worker EXCEPT ![w] = [Idle EXCEPT !.todo = {}]]
          /\ receives' \in [Message -> 0 .. MaxReceive]
      BY <1>1, <2>2, <3>1 DEF LoseBatch, sqs
    <3>3. {} \in SUBSET queue
      OBVIOUS
    <3> QED BY <3>2, <3>3
  <2>3. ASSUME NEW v \in Workers, NEW m \in Message, Redeliver(v, w, m)
        PROVE  \E batch \in SUBSET queue :
                  /\ worker' = [worker EXCEPT ![w] = [Idle EXCEPT !.todo = batch]]
                  /\ receives' \in [Message -> 0 .. MaxReceive]
    <3>1. /\ m \in queue /\ worker[w] = Idle /\ receives[m] < MaxReceive
          /\ worker' = [worker EXCEPT ![w].todo = {m}]
          /\ receives' = [receives EXCEPT ![m] = receives[m] + 1]
      BY <2>3 DEF Redeliver
    <3>2. receives' \in [Message -> 0 .. MaxReceive]
      <4>1. receives[m] + 1 \in 0 .. MaxReceive
        BY <1>1, <3>1, RefreshAssumption
      <4> QED BY <1>1, <3>1, <4>1
    <3>3. worker' = [worker EXCEPT ![w] = [Idle EXCEPT !.todo = {m}]]
      BY <1>1, <3>1
    <3>4. {m} \in SUBSET queue
      BY <3>1
    <3> QED BY <3>2, <3>3, <3>4
  <2> QED BY <2>1, <2>2, <2>3
<1>3. UNCHANGED <<run, jobs, emb, served, queue, dead, expired>>
  BY DEF Receive, LoseBatch, Redeliver, store, sqs
<1>4. /\ worker'[w].todo = batch /\ worker'[w].ok = {} /\ worker'[w].failed = {}
      /\ \A v \in Workers : v # w => worker'[v] = worker[v]
  BY <1>1, <1>2 DEF Idle
<1>5. TypeOK'
  <2>1. [Idle EXCEPT !.todo = batch] \in [todo : SUBSET Message, ok : SUBSET Message,
                                          failed : SUBSET Message]
    BY <1>1 DEF Idle
  <2> QED BY <1>1, <1>2, <1>3, <2>1 DEF RefreshInv, TypeOK
<1>6. \A v \in Workers : InFlight(v)' \subseteq queue \cup UNION {InFlight(u) : u \in Workers}
  BY <1>4 DEF InFlight
<1> QED BY <1>3, <1>4, <1>5, <1>6, QueueStep DEF Held

\* A worker embeds a message, or fails to.
LEMMA EmbedInv ==
    ASSUME RefreshInv, NEW w \in Workers, NEW m \in Message,
           Embed(w, m) \/ EmbedFails(w, m)
    PROVE  RefreshInv'
<1> DEFINE W == [todo : SUBSET Message, ok : SUBSET Message, failed : SUBSET Message]
<1>1. worker \in [Workers -> W] /\ worker[w] \in W /\ emb \in [Keys -> Texts \cup {Absent}]
      /\ m \in worker[w].todo
  BY DEF RefreshInv, TypeOK, Embed, EmbedFails
<1>2. UNCHANGED <<run, jobs, served, queue, receives, dead, expired>>
  BY DEF Embed, EmbedFails, store, sqs
<1>3. PICK b \in W :
        /\ worker' = [worker EXCEPT ![w] = b]
        /\ b.todo \subseteq worker[w].todo /\ b.failed \subseteq worker[w].failed \cup {m}
        /\ b.ok \subseteq worker[w].ok \cup {m}
        /\ \/ b.ok = worker[w].ok /\ emb' = emb
           \/ emb' = [emb EXCEPT ![m.key] = m.text] /\ jobs[m.key] # NoJob
  <2>1. CASE Embed(w, m)
    <3> DEFINE b == [worker[w] EXCEPT !.todo = worker[w].todo \ {m},
                                      !.ok = worker[w].ok \cup {m}]
    <3>1. worker' = [worker EXCEPT ![w] = b]
      BY <1>1, <2>1 DEF Embed
    <3>2. /\ b \in W /\ b.todo = worker[w].todo \ {m} /\ b.ok = worker[w].ok \cup {m}
          /\ b.failed = worker[w].failed
      BY <1>1
    <3>3. emb' = [emb EXCEPT ![m.key] = m.text] /\ jobs[m.key] # NoJob
      BY <2>1 DEF Embed
    <3> HIDE DEF b
    <3> QED BY <3>1, <3>2, <3>3
  <2>2. CASE EmbedFails(w, m)
    <3> DEFINE b == [worker[w] EXCEPT !.todo = worker[w].todo \ {m},
                                      !.failed = worker[w].failed \cup {m}]
    <3>1. worker' = [worker EXCEPT ![w] = b]
      BY <1>1, <2>2 DEF EmbedFails
    <3>2. /\ b \in W /\ b.todo = worker[w].todo \ {m} /\ b.ok = worker[w].ok
          /\ b.failed = worker[w].failed \cup {m}
      BY <1>1
    <3>3. emb' = emb
      BY <2>2 DEF EmbedFails, store
    <3> HIDE DEF b
    <3> QED BY <3>1, <3>2, <3>3
  <2> QED BY <2>1, <2>2
<1>4. worker' \in [Workers -> W] /\ worker'[w] = b
      /\ \A v \in Workers : v # w => worker'[v] = worker[v]
  BY <1>1, <1>3
<1>5. /\ emb' \in [Keys -> Texts \cup {Absent}]
      /\ \A k \in Keys : emb'[k] # emb[k] => emb'[k] # Absent /\ jobs[k] # NoJob
      /\ emb' # emb \/ b.ok # worker[w].ok => emb'[m.key] # Absent
  BY <1>1, <1>3, Distinct
<1>6. TypeOK'
  BY <1>2, <1>4, <1>5 DEF RefreshInv, TypeOK
<1>7. \A v \in Workers : InFlight(v)' \subseteq queue \cup UNION {InFlight(u) : u \in Workers}
  BY <1>1, <1>3, <1>4 DEF InFlight
<1>8. \A v \in Workers : \A n \in worker'[v].ok : n \in worker[v].ok \/ emb'[n.key] # Absent
  BY <1>3, <1>4, <1>5
<1> QED BY <1>2, <1>5, <1>6, <1>7, <1>8, QueueStep DEF Held

\* A message leaves the queue: embedded, parked or expired.
LEMMA LeaveInv ==
    ASSUME RefreshInv,
           \/ \E w \in Workers : Return(w)
           \/ \E m \in Message : Park(m) \/ Expire(m)
    PROVE  RefreshInv'
<1>1. /\ queue \subseteq Message /\ dead \subseteq Message /\ expired \subseteq Message
      /\ worker \in [Workers -> [todo : SUBSET Message, ok : SUBSET Message,
                                 failed : SUBSET Message]]
      /\ Idle \in [todo : SUBSET Message, ok : SUBSET Message, failed : SUBSET Message]
  BY DEF RefreshInv, TypeOK, Idle
<1>2. ASSUME NEW w \in Workers, Return(w) PROVE RefreshInv'
  <2>1. /\ queue' = queue \ worker[w].ok /\ worker' = [worker EXCEPT ![w] = Idle]
        /\ UNCHANGED <<run, jobs, emb, served, receives, dead, expired>>
    BY <1>2 DEF Return, store
  <2>2. worker'[w] = Idle /\ \A v \in Workers : v # w => worker'[v] = worker[v]
    BY <1>1, <2>1
  <2>3. TypeOK'
    BY <1>1, <2>1 DEF RefreshInv, TypeOK
  <2>4. \A v \in Workers : InFlight(v)' \subseteq queue \cup UNION {InFlight(u) : u \in Workers}
    BY <2>2 DEF InFlight, Idle
  <2>5. \A v \in Workers : \A m \in worker'[v].ok : m \in worker[v].ok
    BY <2>2 DEF Idle
  <2> QED BY <2>1, <2>3, <2>4, <2>5, QueueStep DEF Held
<1>3. ASSUME NEW m \in Message, Park(m) \/ Expire(m) PROVE RefreshInv'
  <2>1. /\ queue' = queue \ {m} /\ UNCHANGED <<run, jobs, emb, served, receives, worker>>
        /\ dead' \cup expired' = dead \cup expired \cup {m}
        /\ dead' \subseteq Message /\ expired' \subseteq Message
    BY <1>1, <1>3 DEF Park, Expire, store
  <2>2. TypeOK'
    BY <1>1, <2>1 DEF RefreshInv, TypeOK
  <2>3. \A n \in Held : n \in Held'
    BY <2>1 DEF Held
  <2>4. \A v \in Workers : InFlight(v)' \subseteq queue \cup UNION {InFlight(u) : u \in Workers}
    BY <2>1 DEF InFlight
  <2> QED BY <2>1, <2>2, <2>3, <2>4, QueueStep
<1> QED BY <1>2, <1>3

-----------------------------------------------------------------------------

\* Tables, queue and workers under any number of overlapping builds, lost
\* batches, repeated deliveries and failures.
THEOREM RefreshInvariant == Spec => []RefreshInv
<1>1. Init => RefreshInv
  <2> SUFFICES ASSUME Init PROVE RefreshInv
    OBVIOUS
  <2>1. NewRun \in Run /\ NewRun.step = "new" /\ NewRun.pending = {}
    BY DEF NewRun, Run, RunSteps, Nothing, NoRows, Listings
  <2>2. TypeOK
    BY <2>1, RefreshAssumption DEF Init, TypeOK, NoRows, Nothing, Idle, Listings
  <2>3. \A r \in AllRuns : RunOK(r)
    BY <2>1, Distinct DEF Init, RunOK
  <2>4. \A w \in Workers : InFlight(w) = {} /\ worker[w].ok = {}
    BY DEF Init, InFlight, Idle
  <2>5. EmbeddingHasJob /\ LastBuildServed
    BY Distinct DEF Init, EmbeddingHasJob, LastBuildServed
  <2> QED BY <2>2, <2>3, <2>4, <2>5 DEF Init, RefreshInv
<1>2. RefreshInv /\ [Next]_vars => RefreshInv'
  <2> SUFFICES ASSUME RefreshInv, [Next]_vars PROVE RefreshInv'
    OBVIOUS
  <2>1. ASSUME NEW r \in AllRuns, Refreshing(r) \/ Fail(r) PROVE RefreshInv'
    BY <2>1, FetchInv, SendInv, CommitInv, EmbedAllInv DEF Refreshing
  <2>2. ASSUME NEW w \in Workers, Consume(w) \/ LoseBatch(w) PROVE RefreshInv'
    BY <2>2, ReceiveInv, EmbedInv, LeaveInv DEF Consume
  <2>3. ASSUME NEW v \in Workers, NEW w \in Workers, NEW m \in Message, Redeliver(v, w, m)
        PROVE  RefreshInv'
    BY <2>3, ReceiveInv
  <2>4. ASSUME NEW m \in Message, Park(m) \/ Expire(m) PROVE RefreshInv'
    BY <2>4, LeaveInv
  <2>5. CASE UNCHANGED vars
    <3>1. TypeOK' /\ Held' = Held /\ UNCHANGED <<run, jobs, emb, served, queue, worker>>
      BY <2>5 DEF vars, RefreshInv, TypeOK, Held
    <3>2. \A v \in Workers : InFlight(v)' \subseteq queue \cup UNION {InFlight(u) : u \in Workers}
      BY <3>1 DEF InFlight
    <3> QED BY <3>1, <3>2, QueueStep
  <2> QED BY <2>1, <2>2, <2>3, <2>4, <2>5 DEF Next
<1> QED BY <1>1, <1>2, PTL DEF Spec

\* No active job of a run that succeeded is silently without an embedding
\* (refresh_handler, embedding_handler, infra/pipeline.tf).
THEOREM RefreshNoSilentGap == Spec => []NoSilentGap
<1>1. RefreshInv => NoSilentGap
  <2> SUFFICES ASSUME RefreshInv, NEW k \in Keys, jobs[k].listing \in Texts,
                      run[jobs[k].by].step = "done"
               PROVE  emb[k] # Absent \/ Outstanding(jobs[k].by, k)
    BY DEF NoSilentGap
  <2>1. jobs[k] \in JobRow /\ jobs[k].by \in AllRuns
    BY Distinct DEF RefreshInv, TypeOK
  <2>2. WrittenBy(jobs[k].by, k)
    BY DEF WrittenBy
  <2> QED BY <2>1, <2>2 DEF RefreshInv, RunOK, Covered
<1> QED BY <1>1, RefreshInvariant, PTL

\* No late or repeated message leaves an embedding of a job that is gone
\* (db.job_embeddings' foreign key and cascade).
THEOREM RefreshEmbeddingHasJob == Spec => []EmbeddingHasJob
<1>1. RefreshInv => EmbeddingHasJob
  BY DEF RefreshInv
<1> QED BY <1>1, RefreshInvariant, PTL

\* The table is that of the last build that committed, and not empty,
\* whichever builds overlap (build.build).
THEOREM RefreshLastBuildServed == Spec => []LastBuildServed
<1>1. RefreshInv => LastBuildServed
  BY DEF RefreshInv
<1> QED BY <1>1, RefreshInvariant, PTL
=============================================================================
