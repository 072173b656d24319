-------------------------- MODULE ConsumerPipeline --------------------------
(***************************************************************************)
(* One pod's consumer of one signal topic: the fetch loop, the workers and *)
(* the committer of internal/infra/kafka/consumer.go, the insert handler   *)
(* they run (internal/ingestion/core/insert_handler.go), its dead-letter   *)
(* queue (dlq.go), and the two services behind them: the Kafka consumer    *)
(* group and ClickHouse with its insert deduplication.                     *)
(*                                                                         *)
(* The topic is a fixed log of LogLen offsets per partition; a poll        *)
(* returns any non-empty run of unread offsets, which covers records that  *)
(* arrive while the consumer runs.  Both Go channels are FIFO and only the *)
(* fetch loop sends on them, so a channel is the interval of batch numbers *)
(* between its send counter and its receive counter.                       *)
(***************************************************************************)
EXTENDS Integers, Sequences, FiniteSets

CONSTANTS
    Partitions,     \* partitions assigned to the pod
    LogLen,         \* offsets in each partition
    Malformed,      \* records whose protobuf does not decode
    Workers,        \* worker goroutines
    MaxPoll,        \* Consumer.maxPollRecords
    MaxRestarts     \* bound on the incarnations of the pod after the first

Records == Partitions \X (0 .. LogLen - 1)
Offsets == [Partitions -> 0 .. LogLen]

ASSUME LogLenAssumption == LogLen \in Nat
ASSUME MalformedAssumption == Malformed \subseteq Records
ASSUME MaxPollAssumption == MaxPoll \in Nat \ {0}
ASSUME WorkersAssumption == IsFiniteSet(Workers) /\ Workers # {}
ASSUME MaxRestartsAssumption == MaxRestarts \in Nat

VARIABLES
    \* The Kafka group and the client's position in it.
    committed,      \* the group's committed offset of each partition
    position,       \* the next offset the client fetches
    \* The fetch loop and its two channels.
    fetch,          \* where the fetch loop stands
    jobs,           \* the batches polled by this incarnation, in order
    workerSent,     \* batches sent on workerChan
    workerRecv,     \* batches received from workerChan
    commitSent,     \* batches sent on committerChan
    commitRecv,     \* batches received from committerChan
    inflight,       \* the gauge ConsumerInflightBatches
    \* The workers and the committer.
    wpc,            \* where each worker stands
    wjob,           \* the batch each worker holds
    done,           \* what each batch's done channel carries
    committer,      \* where the committer stands
    \* The pod's lifecycle.
    cancelled,      \* the consumer's context is cancelled
    restarts,       \* incarnations after the first
    \* ClickHouse.
    copies,         \* how many times each record is stored
    tokens,         \* insert_deduplication_tokens already seen
    blocks,         \* history: the batches whose rows were stored
    \* Where else a record can have gone.
    dlq,            \* records in the dead-letter topic
    malformed,      \* records counted by MalformedRecords
    lost,           \* records counted by RecordsLost
    dropped         \* records of batches counted by ConsumerBatchesDropped

kafkaVars   == <<committed, position>>
fetchVars   == <<fetch, jobs, workerSent, commitSent>>
workerVars  == <<wpc, wjob, done, workerRecv>>
commitVars  == <<committer, commitRecv>>
podVars     == <<cancelled, restarts>>
storeVars   == <<copies, tokens, blocks>>
countVars   == <<dlq, malformed, lost, dropped>>
vars == <<kafkaVars, fetchVars, workerVars, commitVars, inflight, podVars,
          storeVars, countVars>>

-----------------------------------------------------------------------------
(* Batches                                                                 *)

\* What a poll returned: per partition, offsets from .. to-1.
Batches == [from : Offsets, to : Offsets]

RecordsOf(b) == {r \in Records : b.from[r[1]] <= r[2] /\ r[2] < b.to[r[1]]}

\* Mutant of Token: the spans without their partition.
BugTokenNoPartition(b) ==
    {<<b.from[p], b.to[p] - 1>> : p \in {q \in Partitions : b.from[q] < b.to[q]}}

\* Mutant of Token: a hash seeded anew by each process.
BugTokenSeeded(b) ==
    {<<restarts, p, b.from[p], b.to[p] - 1>> :
        p \in {q \in Partitions : b.from[q] < b.to[q]}}

\* The token hashes the sorted (partition, min, max) spans of the batch.
Token(b) ==
    {<<p, b.from[p], b.to[p] - 1>> : p \in {q \in Partitions : b.from[q] < b.to[q]}}

\* Both channels are made with capacity workers*2.
ChanCap == 2 * Cardinality(Workers)

Stored == {r \in Records : copies[r] > 0}
Accounted == Stored \cup dlq \cup malformed \cup lost \cup dropped
Below(offs) == {r \in Records : r[2] < offs[r[1]]}

-----------------------------------------------------------------------------
Init ==
    /\ committed = [p \in Partitions |-> 0]
    /\ position = [p \in Partitions |-> 0]
    /\ fetch = "poll"
    /\ jobs = <<>>
    /\ done = <<>>
    /\ workerSent = 0 /\ workerRecv = 0
    /\ commitSent = 0 /\ commitRecv = 0
    /\ inflight = 0
    /\ wpc = [w \in Workers |-> "idle"]
    /\ wjob = [w \in Workers |-> 0]
    /\ committer = "receive"
    /\ cancelled = FALSE
    /\ restarts = 0
    /\ copies = [r \in Records |-> 0]
    /\ tokens = {}
    /\ blocks = {}
    /\ dlq = {} /\ malformed = {} /\ lost = {} /\ dropped = {}

-----------------------------------------------------------------------------
(* The fetch loop                                                          *)

\* Mutant of Poll: every poll starts at the committed offsets.
BugPollFromCommitted ==
    /\ fetch = "poll"
    /\ ~cancelled
    /\ \E to \in Offsets :
        LET b == [from |-> committed, to |-> to] IN
        /\ \A p \in Partitions : committed[p] <= to[p]
        /\ RecordsOf(b) # {}
        /\ Cardinality(RecordsOf(b)) <= MaxPoll
        /\ Len(jobs) < Cardinality(Records)
        /\ jobs' = Append(jobs, b)
        /\ position' = to
    /\ done' = Append(done, "none")
    /\ fetch' = "sendWorker"
    /\ UNCHANGED <<committed, workerSent, commitSent, wpc, wjob, workerRecv,
                   commitVars, inflight, podVars, storeVars, countVars>>

\* PollRecords returns a batch: at most MaxPoll records, a run of each
\* partition.  (Empty polls and fetch errors loop without a state change.)
Poll ==
    /\ fetch = "poll"
    /\ ~cancelled
    /\ \E to \in Offsets :
        LET b == [from |-> position, to |-> to] IN
        /\ \A p \in Partitions : position[p] <= to[p]
        /\ RecordsOf(b) # {}
        /\ Cardinality(RecordsOf(b)) <= MaxPoll
        /\ jobs' = Append(jobs, b)
        /\ position' = to
    /\ done' = Append(done, "none")
    /\ fetch' = "sendWorker"
    /\ UNCHANGED <<committed, workerSent, commitSent, wpc, wjob, workerRecv,
                   commitVars, inflight, podVars, storeVars, countVars>>

\* PollRecords returns because the context is done.
PollCancelled ==
    /\ fetch = "poll"
    /\ cancelled
    /\ fetch' = "returned"
    /\ UNCHANGED <<kafkaVars, jobs, workerSent, commitSent, workerVars,
                   commitVars, inflight, podVars, storeVars, countVars>>

SendWorker ==
    /\ fetch = "sendWorker"
    /\ workerSent - workerRecv < ChanCap
    /\ workerSent' = workerSent + 1
    /\ inflight' = inflight + 1
    /\ fetch' = "sendCommitter"
    /\ UNCHANGED <<kafkaVars, jobs, commitSent, workerVars, commitVars, podVars,
                   storeVars, countVars>>

\* The select picks ctx.Done: the batch is abandoned, unread by any worker.
SendWorkerCancelled ==
    /\ fetch = "sendWorker"
    /\ cancelled
    /\ fetch' = "returned"
    /\ UNCHANGED <<kafkaVars, jobs, workerSent, commitSent, workerVars,
                   commitVars, inflight, podVars, storeVars, countVars>>

SendCommitter ==
    /\ fetch = "sendCommitter"
    /\ commitSent - commitRecv < ChanCap
    /\ commitSent' = commitSent + 1
    /\ fetch' = "poll"
    /\ UNCHANGED <<kafkaVars, jobs, workerSent, workerVars, commitVars, inflight,
                   podVars, storeVars, countVars>>

\* Mutant of SendCommitterCancelled: the gauge keeps the abandoned batch.
BugNoDecOnCancel ==
    /\ fetch = "sendCommitter"
    /\ cancelled
    /\ fetch' = "returned"
    /\ UNCHANGED <<kafkaVars, jobs, workerSent, commitSent, workerVars,
                   commitVars, inflight, podVars, storeVars, countVars>>

\* The select picks ctx.Done: a worker has the batch, nobody will commit it.
SendCommitterCancelled ==
    /\ fetch = "sendCommitter"
    /\ cancelled
    /\ inflight' = inflight - 1
    /\ fetch' = "returned"
    /\ UNCHANGED <<kafkaVars, jobs, workerSent, commitSent, workerVars,
                   commitVars, podVars, storeVars, countVars>>

-----------------------------------------------------------------------------
(* The workers and the insert handler                                      *)

WorkerReceive(w) ==
    /\ wpc[w] = "idle"
    /\ workerRecv < workerSent
    /\ workerRecv' = workerRecv + 1
    /\ wjob' = [wjob EXCEPT ![w] = workerRecv + 1]
    /\ wpc' = [wpc EXCEPT ![w] = "decode"]
    /\ UNCHANGED <<kafkaVars, fetchVars, done, commitVars, inflight, podVars,
                   storeVars, countVars>>

HandlerReturns(w, result) ==
    /\ done' = [done EXCEPT ![wjob[w]] = result]
    /\ wpc' = [wpc EXCEPT ![w] = "idle"]
    /\ wjob' = [wjob EXCEPT ![w] = 0]

\* Malformed records are counted and skipped; a batch of nothing else is done.
Decode(w) ==
    /\ wpc[w] = "decode"
    /\ LET recs == RecordsOf(jobs[wjob[w]]) IN
        /\ malformed' = malformed \cup (recs \cap Malformed)
        /\ IF recs \subseteq Malformed
           THEN HandlerReturns(w, "ok")
           ELSE /\ wpc' = [wpc EXCEPT ![w] = "insert"]
                /\ UNCHANGED <<wjob, done>>
    /\ UNCHANGED <<kafkaVars, fetchVars, workerRecv, commitVars, inflight,
                   podVars, storeVars, dlq, lost, dropped>>

\* ClickHouse stores the block, unless it has seen the block's token.
InsertApply(w) ==
    /\ wpc[w] = "insert"
    /\ LET b == jobs[wjob[w]]
           rows == RecordsOf(b) \ Malformed
       IN  IF Token(b) \in tokens
           THEN UNCHANGED storeVars
           ELSE /\ tokens' = tokens \cup {Token(b)}
                /\ blocks' = blocks \cup {b}
                /\ copies' = [r \in Records |->
                                IF r \in rows THEN copies[r] + 1 ELSE copies[r]]
    /\ wpc' = [wpc EXCEPT ![w] = "applied"]
    /\ UNCHANGED <<kafkaVars, fetchVars, wjob, done, workerRecv, commitVars,
                   inflight, podVars, countVars>>

InsertOK(w) ==
    /\ wpc[w] = "applied"
    /\ HandlerReturns(w, "ok")
    /\ UNCHANGED <<kafkaVars, fetchVars, workerRecv, commitVars, inflight,
                   podVars, storeVars, countVars>>

\* Insert returns an error: ClickHouse refused the block, or the timeout or the
\* cancelled context cut the call off, before or after the block was stored.
InsertFail(w) ==
    /\ wpc[w] \in {"insert", "applied"}
    /\ wpc' = [wpc EXCEPT ![w] = "publish"]
    /\ UNCHANGED <<kafkaVars, fetchVars, wjob, done, workerRecv, commitVars,
                   inflight, podVars, storeVars, countVars>>

\* A panic while decoding, mapping rows or building the DLQ records unwinds to
\* the handler's deferred recover, which publishes the batch to the DLQ.
HandlerPanic(w) ==
    /\ wpc[w] \in {"decode", "insert", "publish"}
    /\ wpc' = [wpc EXCEPT ![w] = "publishPanic"]
    /\ UNCHANGED <<kafkaVars, fetchVars, wjob, done, workerRecv, commitVars,
                   inflight, podVars, storeVars, countVars>>

Publishing(w) == wpc[w] \in {"publish", "publishPanic"}

PublishOK(w) ==
    /\ Publishing(w)
    /\ dlq' = dlq \cup RecordsOf(jobs[wjob[w]])
    /\ HandlerReturns(w, "ok")
    /\ UNCHANGED <<kafkaVars, fetchVars, workerRecv, commitVars, inflight,
                   podVars, storeVars, malformed, lost, dropped>>

\* Any record's failure makes the publish fail: the whole batch counts as lost,
\* whichever of its records did reach the DLQ.
PublishFail(w) ==
    /\ Publishing(w)
    /\ LET recs == RecordsOf(jobs[wjob[w]]) IN
        /\ \E delivered \in SUBSET recs : dlq' = dlq \cup delivered
        /\ lost' = lost \cup recs
    /\ HandlerReturns(w, "ok")
    /\ UNCHANGED <<kafkaVars, fetchVars, workerRecv, commitVars, inflight,
                   podVars, storeVars, malformed, dropped>>

\* Mutant of PublishPanics: the panic also skips the send on done.
BugPanicForgetsDone(w) ==
    /\ wpc[w] = "publishPanic"
    /\ wpc' = [wpc EXCEPT ![w] = "idle"]
    /\ wjob' = [wjob EXCEPT ![w] = 0]
    /\ UNCHANGED <<kafkaVars, fetchVars, done, workerRecv, commitVars, inflight,
                   podVars, storeVars, countVars>>

\* A panic inside the deferred publish escapes the handler; workerLoop's own
\* recover turns it into the batch's error.
PublishPanics(w) ==
    /\ wpc[w] = "publishPanic"
    /\ HandlerReturns(w, "err")
    /\ UNCHANGED <<kafkaVars, fetchVars, workerRecv, commitVars, inflight,
                   podVars, storeVars, countVars>>

\* Mutant of WorkerExit: workers leave on ctx.Done with batches still queued.
BugWorkerExitOnCancel(w) ==
    /\ wpc[w] = "idle"
    /\ cancelled
    /\ wpc' = [wpc EXCEPT ![w] = "exited"]
    /\ UNCHANGED <<kafkaVars, fetchVars, wjob, done, workerRecv, commitVars,
                   inflight, podVars, storeVars, countVars>>

\* workerChan is closed and drained.
WorkerExit(w) ==
    /\ wpc[w] = "idle"
    /\ fetch = "returned"
    /\ workerRecv = workerSent
    /\ wpc' = [wpc EXCEPT ![w] = "exited"]
    /\ UNCHANGED <<kafkaVars, fetchVars, wjob, done, workerRecv, commitVars,
                   inflight, podVars, storeVars, countVars>>

-----------------------------------------------------------------------------
(* The committer                                                           *)

CommitterReceive ==
    /\ committer = "receive"
    /\ commitRecv < commitSent
    /\ commitRecv' = commitRecv + 1
    /\ committer' = "wait"
    /\ UNCHANGED <<kafkaVars, fetchVars, workerVars, inflight, podVars,
                   storeVars, countVars>>

\* Mutant of CommitterWait: commits without waiting for the handler.
BugCommitBeforeDone ==
    /\ committer = "wait"
    /\ dropped' = IF done[commitRecv] = "err"
                  THEN dropped \cup RecordsOf(jobs[commitRecv])
                  ELSE dropped
    /\ committer' = "commit"
    /\ UNCHANGED <<kafkaVars, fetchVars, workerVars, commitRecv, inflight,
                   podVars, storeVars, dlq, malformed, lost>>

\* <-job.done; an error is counted in ConsumerBatchesDropped.
CommitterWait ==
    /\ committer = "wait"
    /\ done[commitRecv] # "none"
    /\ dropped' = IF done[commitRecv] = "err"
                  THEN dropped \cup RecordsOf(jobs[commitRecv])
                  ELSE dropped
    /\ committer' = "commit"
    /\ UNCHANGED <<kafkaVars, fetchVars, workerVars, commitRecv, inflight,
                   podVars, storeVars, dlq, malformed, lost>>

\* CommitRecords commits, for each partition of the batch, the offset after its
\* last record.  Its error is only logged, and it may fail before or after the
\* group coordinator has stored the offsets.
Commit ==
    /\ committer = "commit"
    /\ LET b == jobs[commitRecv] IN
       \/ committed' = [p \in Partitions |->
                          IF b.from[p] < b.to[p] THEN b.to[p] ELSE committed[p]]
       \/ UNCHANGED committed
    /\ inflight' = inflight - 1
    /\ committer' = "receive"
    /\ UNCHANGED <<position, fetchVars, workerVars, commitRecv, podVars,
                   storeVars, countVars>>

\* committerChan is closed and drained.
CommitterExit ==
    /\ committer = "receive"
    /\ fetch = "returned"
    /\ commitRecv = commitSent
    /\ committer' = "exited"
    /\ UNCHANGED <<kafkaVars, fetchVars, workerVars, commitRecv, inflight,
                   podVars, storeVars, countVars>>

-----------------------------------------------------------------------------
(* The pod                                                                 *)

\* Run has returned, or the process is gone.
Stopped ==
    /\ fetch = "returned"
    /\ \A w \in Workers : wpc[w] = "exited"
    /\ committer = "exited"

\* SIGTERM, or another actor of the run group returned.
Cancel ==
    /\ ~cancelled
    /\ ~Stopped
    /\ cancelled' = TRUE
    /\ UNCHANGED <<kafkaVars, fetchVars, workerVars, commitVars, inflight,
                   restarts, storeVars, countVars>>

\* Batches, channels and the gauge live in the process.
Forget ==
    /\ jobs' = <<>>
    /\ done' = <<>>
    /\ workerSent' = 0 /\ workerRecv' = 0
    /\ commitSent' = 0 /\ commitRecv' = 0
    /\ inflight' = 0
    /\ wjob' = [w \in Workers |-> 0]

\* The process dies at any point, with whatever its goroutines held.
Crash ==
    /\ ~Stopped
    /\ Forget
    /\ fetch' = "returned"
    /\ wpc' = [w \in Workers |-> "exited"]
    /\ committer' = "exited"
    /\ UNCHANGED <<kafkaVars, podVars, storeVars, countVars>>

\* A new incarnation joins the group and fetches from the committed offsets.
Restart ==
    /\ Stopped
    /\ restarts < MaxRestarts
    /\ restarts' = restarts + 1
    /\ Forget
    /\ cancelled' = FALSE
    /\ position' = committed
    /\ fetch' = "poll"
    /\ wpc' = [w \in Workers |-> "idle"]
    /\ committer' = "receive"
    /\ UNCHANGED <<committed, storeVars, countVars>>

-----------------------------------------------------------------------------
FetchLoop ==
    \/ Poll \/ PollCancelled
    \/ SendWorker \/ SendWorkerCancelled
    \/ SendCommitter \/ SendCommitterCancelled

InsertReturns(w) == InsertOK(w) \/ InsertFail(w)
PublishReturns(w) == PublishOK(w) \/ PublishFail(w)

Worker(w) ==
    \/ WorkerReceive(w) \/ Decode(w)
    \/ InsertApply(w) \/ InsertReturns(w)
    \/ HandlerPanic(w) \/ PublishReturns(w) \/ PublishPanics(w)
    \/ WorkerExit(w)

Committer == CommitterReceive \/ CommitterWait \/ Commit \/ CommitterExit

Next ==
    \/ FetchLoop
    \/ \E w \in Workers : Worker(w)
    \/ Committer
    \/ Cancel \/ Crash \/ Restart

Spec == Init /\ [][Next]_vars

(* The Go scheduler runs every goroutine that can run.  Insert returns     *)
(* because its context has a 30 s deadline.  PublishBatch has none: it     *)
(* surely returns only once the consumer's context is cancelled.  No       *)
(* fairness is assumed of polls that find records, panics, SIGTERM,        *)
(* crashes and restarts.                                                   *)
Fairness ==
    /\ WF_vars(PollCancelled)
    /\ WF_vars(SendWorker \/ SendWorkerCancelled)
    /\ WF_vars(SendCommitter \/ SendCommitterCancelled)
    /\ \A w \in Workers :
        /\ WF_vars(WorkerReceive(w))
        /\ WF_vars(Decode(w))
        /\ WF_vars(InsertReturns(w))
        /\ WF_vars(cancelled /\ PublishReturns(w))
        /\ WF_vars(WorkerExit(w))
    /\ WF_vars(Committer)

FairSpec == Spec /\ Fairness

\* The brokers of the DLQ topic answer every publish, one way or the other.
BrokersAnswer == \A w \in Workers : WF_vars(PublishReturns(w))

-----------------------------------------------------------------------------
(* Properties                                                              *)

\* How far the fetch loop has sent the batches it polled.
ChannelCounters ==
    /\ workerSent \in 0 .. Len(jobs) /\ workerRecv \in 0 .. workerSent
    /\ commitSent \in 0 .. Len(jobs) /\ commitRecv \in 0 .. commitSent
    /\ fetch = "poll" => workerSent = Len(jobs) /\ commitSent = Len(jobs)
    /\ fetch = "sendWorker" =>
        workerSent = Len(jobs) - 1 /\ commitSent = Len(jobs) - 1
    /\ fetch = "sendCommitter" =>
        workerSent = Len(jobs) /\ commitSent = Len(jobs) - 1

\* The (partition, first, last) triples a token is made of.
Spans == Partitions \X (0 .. LogLen) \X (0 .. LogLen)

\* A worker in its handler holds a batch.
Busy == {"decode", "insert", "applied", "publish", "publishPanic"}

\* Every variable has its type; channel counters never run past each other.
TypeOK ==
    /\ committed \in Offsets
    /\ position \in Offsets
    /\ fetch \in {"poll", "sendWorker", "sendCommitter", "returned"}
    /\ jobs \in Seq(Batches)
    /\ done \in Seq({"none", "ok", "err"})
    /\ Len(done) = Len(jobs)
    /\ ChannelCounters
    /\ inflight \in Int
    /\ wpc \in [Workers -> Busy \cup {"idle", "exited"}]
    /\ wjob \in [Workers -> 0 .. workerRecv]
    /\ \A w \in Workers : wpc[w] \in Busy => wjob[w] # 0
    /\ committer \in {"receive", "wait", "commit", "exited"}
    /\ committer \in {"wait", "commit"} => commitRecv # 0
    /\ cancelled \in BOOLEAN
    /\ restarts \in Nat
    /\ copies \in [Records -> Nat]
    /\ tokens \subseteq SUBSET Spans
    /\ blocks \subseteq Batches
    /\ dlq \subseteq Records /\ malformed \subseteq Records
    /\ lost \subseteq Records /\ dropped \subseteq Records

\* No silent loss: once the group's offset has passed a record, the record is
\* in ClickHouse or in the DLQ, or a counter says that it is gone.  The workers
\* finish batches in any order, offsets are committed in fetch order, a batch
\* may fail at every stage and the pod may die between any two of them.
AccountedBeforeCommit == Below(committed) \subseteq Accounted

\* A commit never moves the group's offset back, so a batch that was committed
\* is never delivered again.
CommitMonotonic == [][\A p \in Partitions : committed[p] <= committed'[p]]_vars

\* A record is stored twice only by batches with different boundaries: the
\* deduplication token absorbs every redelivery of the same record set.
DuplicatesNeedNewBoundaries ==
    \A r \in Records : copies[r] <= Cardinality({b \in blocks : r \in RecordsOf(b)})

\* One incarnation stores a record at most once; each restart adds at most one
\* copy, whatever commits failed before it.
OneCopyPerIncarnation == \A r \in Records : copies[r] <= restarts + 1

\* The gauge returns to zero when Run returns, on every exit path.
GaugeReturnsToZero == Stopped => inflight = 0

\* "offsets never advance past an un-inserted, un-DLQ'd batch"
\* (insert_handler.go:58): a decoded record behind the committed offsets is in
\* ClickHouse or in the DLQ.  It is not, when the DLQ publish fails too.
NeverPastUnparked == Below(committed) \subseteq Stored \cup dlq \cup malformed

\* RecordsLost counts "records dropped after both the CH insert and the DLQ
\* publish failed" (metrics/ingest.go:93): a record counted that ClickHouse does
\* not hold stays dropped.  It does not, when the batch is delivered again.
LostIsDropped == [][\A r \in lost \ Stored : r \notin Stored']_vars

\* The pipeline implements Delivery: whatever its goroutines do, the group sees
\* offsets that advance over accounted records only.
Promise == INSTANCE Delivery WITH accounted <- Accounted
ImplementsDelivery == Promise!Spec

\* Once its context is cancelled Run returns, even while the DLQ brokers are
\* unreachable: nobody waits for a batch that nobody will finish.
CancelDrains == cancelled ~> Stopped

\* A hung insert does not wedge the worker and the batches behind it: every
\* batch handed to the committer is committed (or tried), unless Run stops, as
\* long as the brokers of the DLQ answer.
BatchesComplete ==
    BrokersAnswer =>
        \A k \in 1 .. Cardinality(Records) :
            (k <= commitSent) ~> (Stopped \/ (commitRecv >= k /\ committer # "wait"))

-----------------------------------------------------------------------------
(* The inductive invariant behind AccountedBeforeCommit                    *)

\* Batches follow one another without gap or overlap, up to the position.
Chained ==
    /\ \A i \in 1 .. Len(jobs) : \A p \in Partitions :
            jobs[i].from[p] <= jobs[i].to[p]
    /\ \A i \in 1 .. Len(jobs) - 1 : jobs[i].to = jobs[i + 1].from
    /\ jobs # <<>> => jobs[Len(jobs)].to = position

\* The offsets before batch k, and the first batch not yet committed.
Frontier(k) == IF k <= Len(jobs) THEN jobs[k].from ELSE position
NextToCommit ==
    IF committer \in {"wait", "commit"} THEN commitRecv ELSE commitRecv + 1

\* The committer has left behind accounted records only.
CommitterInOrder ==
    committer # "exited" =>
        /\ Below(Frontier(NextToCommit)) \subseteq Accounted
        /\ \A p \in Partitions : committed[p] <= Frontier(NextToCommit)[p]

CommitterReady ==
    committer = "commit" => RecordsOf(jobs[commitRecv]) \subseteq Accounted

\* A batch whose handler returned without error is accounted for.
DoneAccounted ==
    \A i \in 1 .. Len(jobs) :
        done[i] = "ok" => RecordsOf(jobs[i]) \subseteq Accounted

\* What a worker knows of the batch it is inserting.
WorkerProgress ==
    \A w \in Workers :
        /\ wpc[w] \in {"insert", "applied"}
                => RecordsOf(jobs[wjob[w]]) \cap Malformed \subseteq malformed
        /\ wpc[w] = "applied"
                => RecordsOf(jobs[wjob[w]]) \ Malformed \subseteq Stored

\* The records a token stands for.  A block skipped for its token is stored.
TokenRecords(t) ==
    {r \in Records : \E s \in t : r[1] = s[1] /\ s[2] <= r[2] /\ r[2] <= s[3]}
TokensStored == \A t \in tokens : TokenRecords(t) \ Malformed \subseteq Stored

\* Everything the proof of AccountedBeforeCommit carries from step to step: a
\* batch is accounted for when its handler is done, and commits follow batches.
IInv ==
    /\ TypeOK
    /\ Chained
    /\ CommitterInOrder
    /\ CommitterReady
    /\ DoneAccounted
    /\ WorkerProgress
    /\ TokensStored
    /\ AccountedBeforeCommit

=============================================================================
