------------------------------- MODULE Refresh -------------------------------
(***************************************************************************)
(* The listing refresh: jobengine's fetch, build and embeddings, run by    *)
(* the two AWS Lambda handlers (aws_handlers.py) or by the command line,   *)
(* and the SQS queue between them (infra/pipeline.tf).                     *)
(*                                                                         *)
(* A run fetches the upstream listings, replaces the jobs table in one     *)
(* transaction, which cascades to the embeddings of the rows it deletes,   *)
(* and has every active job embedded: refresh_handler through the queue,   *)
(* `jobengine build --embed` itself.  Runs may overlap: the schedule's     *)
(* retries and a build started by hand.                                    *)
(*                                                                         *)
(* PostgreSQL at READ COMMITTED: DELETE FROM jobs removes the row versions *)
(* its snapshot saw, so rows a concurrent build commits meanwhile stay and *)
(* either collide with this build's inserts or remain beside them.         *)
(***************************************************************************)
EXTENDS Naturals, FiniteSets

CONSTANTS Keys,         \* dedup keys
          Texts,        \* texts to embed (title, category, company)
          Runs,         \* invocations of refresh_handler
          Builds,       \* invocations of `jobengine build --embed`
          Workers,      \* concurrent embedding_handler invocations
          ChunkSize,    \* messages per SendMessageBatch: 10
          BatchSize,    \* messages per embedding_handler invocation: 10
          MaxReceive    \* maxReceiveCount: 3

VARIABLES run,        \* where each run stands and what it has read
          jobs,       \* the jobs table
          emb,        \* job_embeddings: the text embedded for each key
          queue,      \* the embedding queue
          receives,   \* how often each message was received
          worker,     \* the batch of each embedding_handler invocation
          dead,       \* the dead-letter queue
          expired,    \* messages that outlived the queue's retention
          served      \* history: the last committed build and its files

store == <<jobs, emb, served>>
sqs   == <<queue, receives, dead, expired>>
vars  == <<run, jobs, emb, queue, receives, worker, dead, expired, served>>

Absent  == "absent"     \* no such listing, row or embedding
Closed  == "closed"     \* listed, but inactive or hidden
AllRuns == Runs \cup Builds

ASSUME RefreshAssumption ==
    /\ Texts \cap {Absent, Closed} = {}
    /\ Runs \cap Builds = {}
    /\ ChunkSize \in Nat \ {0} /\ BatchSize \in Nat \ {0}
    /\ MaxReceive \in Nat

Listings == Texts \cup {Closed, Absent}
JobRow   == [listing : Texts \cup {Closed}, by : AllRuns]
NoJob    == [listing |-> Absent]
Message  == [by : Runs, key : Keys, text : Texts]

\* "fetched": the raw files are on disk; "deleted": inside the transaction of
\* build(); "committed": after it; "sending": the rows to embed are read.
RunSteps == {"new", "fetched", "deleted", "committed", "sending", "done", "failed"}
Run == [step : RunSteps, file : [Keys -> Listings],
        doomed : [Keys -> JobRow \cup {NoJob}], pending : SUBSET Message]

Nothing == [k \in Keys |-> Absent]
NoRows  == [k \in Keys |-> NoJob]
NewRun  == [step |-> "new", file |-> Nothing, doomed |-> NoRows, pending |-> {}]
Idle    == [todo |-> {}, ok |-> {}, failed |-> {}]

InFlight(w) == worker[w].todo \cup worker[w].ok \cup worker[w].failed

\* The message stays in the queue until it is deleted, and is hidden while a
\* worker has it.
Visible == {m \in queue : \A w \in Workers : m \notin InFlight(w)}

-----------------------------------------------------------------------------
(* fetch.fetch_all and build.build.                                        *)

\* Both feeds answered within three attempts with what they publish now.  A
\* failed fetch raises in refresh_handler (Fail); `jobengine build` goes on
\* with the files of an earlier fetch, which upstream may have overtaken.
Fetch(r) ==
    /\ run[r].step = "new"
    /\ \E file \in [Keys -> Listings] :
          run' = [run EXCEPT ![r].step = "fetched", ![r].file = file]
    /\ UNCHANGED <<store, sqs, worker>>

\* DELETE FROM jobs: its snapshot.  Zero records raise MissingDataError
\* (Fail) before the transaction opens.
BuildDelete(r) ==
    /\ run[r].step = "fetched"
    /\ run[r].file # Nothing
    /\ run' = [run EXCEPT ![r].step = "deleted", ![r].doomed = jobs]
    /\ UNCHANGED <<store, sqs, worker>>

\* The rows r's DELETE leaves: those committed after its snapshot.
Left(r, k) == IF jobs[k] = run[r].doomed[k] THEN NoJob ELSE jobs[k]

\* Mutant: embeddings do not follow their job (no ON DELETE CASCADE).
CascadeNone(k, left) == emb[k]

\* ON DELETE CASCADE
Cascade(k, left) == IF left = NoJob THEN Absent ELSE emb[k]

\* Mutant: INSERT ... ON CONFLICT DO NOTHING.
CollidesNever(r) == FALSE

\* The insert meets the primary key of a row the delete did not see.
Collides(r) == \E k \in Keys : run[r].file[k] # Absent /\ Left(r, k) # NoJob

\* INSERT and COMMIT.
BuildCommit(r) ==
    /\ run[r].step = "deleted"
    /\ ~Collides(r)
    /\ jobs' = [k \in Keys |->
                  IF Left(r, k) = NoJob /\ run[r].file[k] # Absent
                  THEN [listing |-> run[r].file[k], by |-> r]
                  ELSE Left(r, k)]
    /\ emb' = [k \in Keys |-> Cascade(k, Left(r, k))]
    /\ served' = [by |-> r, file |-> run[r].file]
    /\ run' = [run EXCEPT ![r].step = "committed", ![r].doomed = NoRows]
    /\ UNCHANGED <<sqs, worker>>

\* An exception or a Lambda timeout at any point: an open transaction rolls
\* back, what was committed or sent stays.  The schedule's retry is another
\* run.
Fail(r) ==
    /\ run[r].step \notin {"new", "done", "failed"}
    /\ run' = [run EXCEPT ![r] = [NewRun EXCEPT !.step = "failed"]]
    /\ UNCHANGED <<store, sqs, worker>>

-----------------------------------------------------------------------------
(* refresh_handler after the build, and build(embed=True).                 *)

\* The active, visible rows are read back on a new connection.
ReadRows(r) ==
    /\ r \in Runs /\ run[r].step = "committed"
    /\ run' = [run EXCEPT ![r].step = "sending",
                 ![r].pending = {[by |-> r, key |-> k, text |-> jobs[k].listing] :
                                    k \in {k \in Keys : jobs[k].listing \in Texts}}]
    /\ UNCHANGED <<store, sqs, worker>>

\* One SendMessageBatch.  Any message of it may be refused; the handler then
\* raises, and the ones accepted stay in the queue.
SendChunk(r) ==
    /\ run[r].step = "sending"
    /\ \E chunk \in SUBSET run[r].pending : \E accepted \in SUBSET chunk :
          /\ 0 < Cardinality(chunk) /\ Cardinality(chunk) <= ChunkSize
          /\ queue' = queue \cup accepted
          /\ run' = IF accepted = chunk
                    THEN [run EXCEPT ![r].pending = run[r].pending \ chunk]
                    ELSE [run EXCEPT ![r] = [NewRun EXCEPT !.step = "failed"]]
    /\ UNCHANGED <<store, receives, dead, expired, worker>>

\* The metrics are written and the handler returns.
Finish(r) ==
    /\ run[r].step = "sending" /\ run[r].pending = {}
    /\ run' = [run EXCEPT ![r] = [NewRun EXCEPT !.step = "done"]]
    /\ UNCHANGED <<store, sqs, worker>>

\* build(embed=True): the active listings it fetched, in one transaction; a
\* key that another build has removed fails the foreign key (Fail).
EmbedAll(r) ==
    LET wanted == {k \in Keys : run[r].file[k] \in Texts} IN
    /\ r \in Builds /\ run[r].step = "committed"
    /\ \A k \in wanted : jobs[k] # NoJob
    /\ emb' = [k \in Keys |-> IF k \in wanted THEN run[r].file[k] ELSE emb[k]]
    /\ run' = [run EXCEPT ![r] = [NewRun EXCEPT !.step = "done"]]
    /\ UNCHANGED <<jobs, served, sqs, worker>>

-----------------------------------------------------------------------------
(* The queue and embedding_handler.                                        *)

\* Mutant: no redrive policy counts the receives.
ReceiveUncounted(w) ==
    /\ worker[w] = Idle
    /\ \E batch \in SUBSET Visible :
          /\ 0 < Cardinality(batch) /\ Cardinality(batch) <= BatchSize
          /\ worker' = [worker EXCEPT ![w] = [Idle EXCEPT !.todo = batch]]
    /\ UNCHANGED <<run, store, sqs>>

\* SQS invokes the handler with a batch of visible messages.
Receive(w) ==
    /\ worker[w] = Idle
    /\ \E batch \in SUBSET Visible :
          /\ 0 < Cardinality(batch) /\ Cardinality(batch) <= BatchSize
          /\ \A m \in batch : receives[m] < MaxReceive
          /\ worker' = [worker EXCEPT ![w] = [Idle EXCEPT !.todo = batch]]
          /\ receives' = [m \in DOMAIN receives |->
                             receives[m] + IF m \in batch THEN 1 ELSE 0]
    /\ UNCHANGED <<run, store, queue, dead, expired>>

\* build_job_embeddings of one message: an upsert in its own transaction.
Embed(w, m) ==
    /\ m \in worker[w].todo
    /\ jobs[m.key] # NoJob
    /\ emb' = [emb EXCEPT ![m.key] = m.text]
    /\ worker' = [worker EXCEPT ![w].todo = worker[w].todo \ {m},
                                 ![w].ok = worker[w].ok \cup {m}]
    /\ UNCHANGED <<run, jobs, served, sqs>>

\* Any exception is caught: the foreign key of a job that is gone, a lost
\* connection.
EmbedFails(w, m) ==
    /\ m \in worker[w].todo
    /\ worker' = [worker EXCEPT ![w].todo = worker[w].todo \ {m},
                                 ![w].failed = worker[w].failed \cup {m}]
    /\ UNCHANGED <<run, store, sqs>>

\* Mutant: the handler does not report its failures.
ReturnAll(w) ==
    /\ worker[w] # Idle /\ worker[w].todo = {}
    /\ queue' = queue \ InFlight(w)
    /\ worker' = [worker EXCEPT ![w] = Idle]
    /\ UNCHANGED <<run, store, receives, dead, expired>>

\* The handler returns batchItemFailures: the others are deleted.
Return(w) ==
    /\ worker[w] # Idle /\ worker[w].todo = {}
    /\ queue' = queue \ worker[w].ok
    /\ worker' = [worker EXCEPT ![w] = Idle]
    /\ UNCHANGED <<run, store, receives, dead, expired>>

\* A timeout, a crash, or a metric that raises: the whole batch comes back.
LoseBatch(w) ==
    /\ worker[w] # Idle
    /\ worker' = [worker EXCEPT ![w] = Idle]
    /\ UNCHANGED <<run, store, sqs>>

\* At-least-once delivery: SQS shows a message again that a worker still has.
Redeliver(v, w, m) ==
    /\ m \in queue \cap InFlight(v)
    /\ worker[w] = Idle
    /\ receives[m] < MaxReceive
    /\ worker' = [worker EXCEPT ![w].todo = {m}]
    /\ receives' = [receives EXCEPT ![m] = @ + 1]
    /\ UNCHANGED <<run, store, queue, dead, expired>>

\* The redrive policy: a message that would be received once too often.
Park(m) ==
    /\ m \in Visible /\ receives[m] >= MaxReceive
    /\ queue' = queue \ {m}
    /\ dead' = dead \cup {m}
    /\ UNCHANGED <<run, store, receives, worker, expired>>

\* message_retention_seconds: a day in which no worker took it.
Expire(m) ==
    /\ m \in Visible
    /\ queue' = queue \ {m}
    /\ expired' = expired \cup {m}
    /\ UNCHANGED <<run, store, receives, worker, dead>>

-----------------------------------------------------------------------------

Init ==
    /\ run = [r \in AllRuns |-> NewRun]
    /\ jobs = NoRows
    /\ emb = Nothing
    /\ served = [by |-> Absent, file |-> Nothing]
    /\ queue = {} /\ dead = {} /\ expired = {}
    /\ receives = [m \in Message |-> 0]
    /\ worker = [w \in Workers |-> Idle]

Refreshing(r) ==
    \/ Fetch(r) \/ BuildDelete(r) \/ BuildCommit(r)
    \/ ReadRows(r) \/ SendChunk(r) \/ Finish(r) \/ EmbedAll(r)

Consume(w) ==
    \/ Receive(w) \/ Return(w)
    \/ \E m \in Message : Embed(w, m) \/ EmbedFails(w, m)

Next ==
    \/ \E r \in AllRuns : Refreshing(r) \/ Fail(r)
    \/ \E w \in Workers : Consume(w) \/ LoseBatch(w)
    \/ \E v, w \in Workers, m \in Message : Redeliver(v, w, m)
    \/ \E m \in Message : Park(m) \/ Expire(m)

Spec == Init /\ [][Next]_vars

\* Lambda polls the queue and finishes its invocations, and SQS moves what is
\* due to the dead-letter queue.  Nothing is assumed of the runs.
FairSpec ==
    /\ Spec
    /\ \A w \in Workers : WF_vars(Consume(w))
    /\ WF_vars(\E m \in Message : Park(m))

-----------------------------------------------------------------------------
(* Properties.                                                             *)

TypeOK ==
    /\ run \in [AllRuns -> Run]
    /\ jobs \in [Keys -> JobRow \cup {NoJob}]
    /\ emb \in [Keys -> Texts \cup {Absent}]
    /\ queue \subseteq Message /\ dead \subseteq Message /\ expired \subseteq Message
    /\ receives \in [Message -> 0 .. MaxReceive]
    /\ worker \in [Workers -> [todo : SUBSET Message, ok : SUBSET Message,
                               failed : SUBSET Message]]
    /\ served \in [by : AllRuns \cup {Absent}, file : [Keys -> Listings]]

\* A message for key k that run b sent and that is still queued, or given up
\* on where an operator can see it.
Outstanding(b, k) == \E m \in queue \cup dead \cup expired : m.by = b /\ m.key = k

\* infra/README.md: no record is "silently never embedded".  Once the run that
\* wrote an active job has succeeded, the job has an embedding, or its message
\* is still queued, dead-lettered or expired, whatever builds, redeliveries,
\* lost batches and failed transactions happen meanwhile.
NoSilentGap ==
    \A k \in Keys :
        jobs[k].listing \in Texts /\ run[jobs[k].by].step = "done"
            => emb[k] # Absent \/ Outstanding(jobs[k].by, k)

\* job_embeddings references jobs: a late message never leaves an embedding
\* of a job that a later build removed.
EmbeddingHasJob == \A k \in Keys : emb[k] # Absent => jobs[k] # NoJob

\* The jobs table holds every listing of the last build that committed, as
\* that build wrote it, whichever builds overlap; and there is one, so that an
\* upstream that parses to nothing leaves yesterday's table standing.
LastBuildServed ==
    served.by # Absent =>
        /\ jobs # NoRows
        /\ \A k \in Keys : served.file[k] # Absent
                             => jobs[k] = [listing |-> served.file[k], by |-> served.by]

\* Every message leaves the queue: poison messages are parked after MaxReceive
\* deliveries instead of being retried forever.
QueueDrains == \A m \in Message : m \in queue ~> m \notin queue

=============================================================================
