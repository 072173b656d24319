----------------------- MODULE ConsumerPipelineProofs -----------------------
(***************************************************************************)
(* Proofs about ConsumerPipeline for every set of partitions and workers,  *)
(* every log length, poll size and number of restarts.                     *)
(***************************************************************************)
EXTENDS ConsumerPipeline, FiniteSetTheorems, TLAPS

\* A step of one worker, without the disjunction Worker(w).
WorkerStep(w) ==
    \/ WorkerReceive(w) \/ Decode(w) \/ InsertApply(w) \/ InsertOK(w)
    \/ InsertFail(w) \/ HandlerPanic(w) \/ PublishOK(w) \/ PublishFail(w)
    \/ PublishPanics(w) \/ WorkerExit(w)

(***************************************************************************)
(* Type correctness                                                        *)
(***************************************************************************)

\* A batch's token is a set of (partition, first, last) spans.
LEMMA TokenType ==
    ASSUME NEW b \in Batches
    PROVE  Token(b) \in SUBSET Spans
<1> SUFFICES ASSUME NEW p \in Partitions, b.from[p] < b.to[p]
             PROVE  /\ b.from[p] \in 0 .. LogLen
                    /\ b.to[p] - 1 \in 0 .. LogLen
  BY DEF Token, Spans
<1>1. b.from[p] \in 0 .. LogLen /\ b.to[p] \in 0 .. LogLen
  BY DEF Batches, Offsets
<1> QED BY <1>1, LogLenAssumption DEF Spans

\* The initial state is well typed.
LEMMA InitTypeOK == Init => TypeOK
<1> SUFFICES ASSUME Init PROVE TypeOK
  OBVIOUS
<1>1. committed \in Offsets /\ position \in Offsets
  BY LogLenAssumption DEF Offsets, Init
<1>2. /\ jobs \in Seq(Batches) /\ done \in Seq({"none", "ok", "err"})
      /\ Len(done) = Len(jobs)
  BY DEF Init
<1>3. copies \in [Records -> Nat]
  BY DEF Init
<1>4. ChannelCounters
  BY DEF Init, ChannelCounters
<1>5. /\ wpc \in [Workers -> Busy \cup {"idle", "exited"}]
      /\ wjob \in [Workers -> 0 .. workerRecv]
      /\ \A w \in Workers : wpc[w] \in Busy => wjob[w] # 0
  BY DEF Init, Busy
<1>6. tokens \subseteq SUBSET Spans
  BY Zenon DEF Init
<1>7. /\ fetch \in {"poll", "sendWorker", "sendCommitter", "returned"}
      /\ inflight \in Int
      /\ committer \in {"receive", "wait", "commit", "exited"}
      /\ committer \in {"wait", "commit"} => commitRecv # 0
      /\ restarts \in Nat
      /\ blocks \subseteq Batches
      /\ dlq \subseteq Records /\ malformed \subseteq Records
      /\ lost \subseteq Records /\ dropped \subseteq Records
  BY DEF Init
<1>8. cancelled \in BOOLEAN
  BY Zenon DEF Init
<1> QED BY <1>1, <1>2, <1>3, <1>4, <1>5, <1>6, <1>7, <1>8, Zenon DEF TypeOK

\* Steps of the fetch loop preserve types.
LEMMA FetchTypeOK == TypeOK /\ FetchLoop => TypeOK'
<1> SUFFICES ASSUME TypeOK, FetchLoop PROVE TypeOK'
  OBVIOUS
<1> USE DEF TypeOK, ChannelCounters, kafkaVars, fetchVars, workerVars,
            commitVars, podVars, storeVars, countVars, Busy
<1>1. CASE Poll
  <2>1. PICK to \in Offsets : /\ jobs' = Append(jobs, [from |-> position, to |-> to])
                              /\ position' = to
    BY <1>1 DEF Poll
  <2>2. [from |-> position, to |-> to] \in Batches
    BY DEF Batches
  <2>3. jobs' \in Seq(Batches) /\ Len(jobs') = Len(jobs) + 1
    BY <2>1, <2>2
  <2>4. done' \in Seq({"none", "ok", "err"}) /\ Len(done') = Len(done) + 1
    BY <1>1 DEF Poll
  <2> QED BY <1>1, <2>1, <2>3, <2>4 DEF Poll
<1>2. CASE PollCancelled
  BY <1>2 DEF PollCancelled
<1>3. CASE SendWorker
  BY <1>3 DEF SendWorker
<1>4. CASE SendWorkerCancelled
  BY <1>4 DEF SendWorkerCancelled
<1>5. CASE SendCommitter
  BY <1>5 DEF SendCommitter
<1>6. CASE SendCommitterCancelled
  BY <1>6 DEF SendCommitterCancelled
<1> QED BY <1>1, <1>2, <1>3, <1>4, <1>5, <1>6 DEF FetchLoop

\* Steps of a worker preserve types.
LEMMA WorkerTypeOK ==
    ASSUME TypeOK, NEW w \in Workers, WorkerStep(w) PROVE TypeOK'
<1> USE DEF TypeOK, ChannelCounters, kafkaVars, fetchVars, workerVars,
            commitVars, podVars, storeVars, countVars, HandlerReturns, Busy
<1> DEFINE j == wjob[w]
           b == jobs[j]
<1>a. /\ j \in 0 .. Len(jobs)
      /\ wpc[w] \in Busy => j \in 1 .. Len(jobs) /\ b \in Batches
  OBVIOUS
<1>b. RecordsOf(b) \subseteq Records
  BY DEF RecordsOf
<1>c. ASSUME NEW result \in {"none", "ok", "err"}, j \in 1 .. Len(jobs)
      PROVE  LET d == [done EXCEPT ![j] = result] IN
             d \in Seq({"none", "ok", "err"}) /\ Len(d) = Len(done)
  BY <1>c
<1>1. CASE WorkerReceive(w)
  <2>1. workerRecv' = workerRecv + 1 /\ workerRecv + 1 \in 0 .. workerSent
    BY <1>1 DEF WorkerReceive
  <2>2. wjob' \in [Workers -> 0 .. workerRecv'] /\ wjob'[w] # 0
    BY <1>1, <2>1 DEF WorkerReceive
  <2> QED BY <1>1, <2>1, <2>2 DEF WorkerReceive
<1>2. CASE Decode(w)
  <2>1. /\ done' \in Seq({"none", "ok", "err"}) /\ Len(done') = Len(done)
        /\ wpc' \in [Workers -> Busy \cup {"idle", "exited"}]
        /\ wjob' \in [Workers -> 0 .. workerRecv]
        /\ \A v \in Workers : wpc'[v] \in Busy => wjob'[v] # 0
    <3>1. CASE HandlerReturns(w, "ok")
      BY <1>2, <1>a, <1>c, <3>1 DEF Decode
    <3>2. CASE wpc' = [wpc EXCEPT ![w] = "insert"] /\ UNCHANGED <<wjob, done>>
      BY <1>2, <3>2 DEF Decode
    <3> QED BY <1>2, <3>1, <3>2 DEF Decode
  <2>2. malformed' \subseteq Records
    BY <1>2, <1>b DEF Decode
  <2> QED BY <1>2, <2>1, <2>2 DEF Decode
<1>3. CASE InsertApply(w)
  <2>1. b \in Batches
    BY <1>3, <1>a DEF InsertApply
  <2>2. copies' \in [Records -> Nat] /\ blocks' \subseteq Batches
    <3>1. \/ UNCHANGED <<copies, blocks>>
          \/ /\ blocks' = blocks \cup {b}
             /\ copies' = [r \in Records |->
                              IF r \in RecordsOf(b) \ Malformed
                              THEN copies[r] + 1 ELSE copies[r]]
      BY <1>3 DEF InsertApply
    <3> HIDE DEF b
    <3>2. copies \in [Records -> Nat] /\ blocks \subseteq Batches
      BY DEF TypeOK
    <3> QED BY <2>1, <3>1, <3>2
  <2>3. Token(b) \in SUBSET Spans
    BY <2>1, TokenType
  <2>4. tokens' \subseteq SUBSET Spans
    <3>1. tokens' \subseteq tokens \cup {Token(b)}
      BY <1>3 DEF InsertApply
    <3> QED BY <2>3, <3>1, Zenon
  <2> QED BY <1>3, <2>2, <2>4 DEF InsertApply
<1>4. CASE InsertOK(w)
  BY <1>4, <1>a, <1>c DEF InsertOK
<1>5. CASE InsertFail(w)
  BY <1>5 DEF InsertFail
<1>6. CASE HandlerPanic(w)
  BY <1>6 DEF HandlerPanic
<1>7. CASE PublishOK(w)
  <2>1. dlq' \subseteq Records
    BY <1>7, <1>b DEF PublishOK
  <2> QED BY <1>7, <1>a, <1>c, <2>1 DEF PublishOK, Publishing
<1>8. CASE PublishFail(w)
  <2>1. dlq' \subseteq Records /\ lost' \subseteq Records
    BY <1>8, <1>b DEF PublishFail
  <2> QED BY <1>8, <1>a, <1>c, <2>1 DEF PublishFail, Publishing
<1>9. CASE PublishPanics(w)
  BY <1>9, <1>a, <1>c DEF PublishPanics
<1>10. CASE WorkerExit(w)
  BY <1>10 DEF WorkerExit
<1> QED BY <1>1, <1>2, <1>3, <1>4, <1>5, <1>6, <1>7, <1>8, <1>9, <1>10
        DEF WorkerStep

\* Steps of the committer preserve types.
LEMMA CommitterTypeOK == TypeOK /\ Committer => TypeOK'
<1> SUFFICES ASSUME TypeOK, Committer PROVE TypeOK'
  OBVIOUS
<1> USE DEF TypeOK, ChannelCounters, kafkaVars, fetchVars, workerVars,
            commitVars, podVars, storeVars, countVars, Busy
<1>1. CASE CommitterReceive
  BY <1>1 DEF CommitterReceive
<1>2. CASE CommitterWait
  BY <1>2 DEF CommitterWait, RecordsOf
<1>3. CASE Commit
  <2>1. jobs[commitRecv] \in Batches
    BY <1>3 DEF Commit
  <2>2. committed' \in Offsets
    BY <1>3, <2>1 DEF Commit, Batches, Offsets
  <2> QED BY <1>3, <2>2 DEF Commit
<1>4. CASE CommitterExit
  BY <1>4 DEF CommitterExit
<1> QED BY <1>1, <1>2, <1>3, <1>4 DEF Committer

\* The life cycle of the pod preserves types.
LEMMA PodTypeOK == TypeOK /\ (Cancel \/ Crash \/ Restart) => TypeOK'
<1> SUFFICES ASSUME TypeOK, Cancel \/ Crash \/ Restart PROVE TypeOK'
  OBVIOUS
<1> USE DEF TypeOK, ChannelCounters, kafkaVars, fetchVars, workerVars,
            commitVars, podVars, storeVars, countVars, Forget, Busy
<1>1. CASE Cancel
  BY <1>1 DEF Cancel
<1>2. CASE Crash
  BY <1>2 DEF Crash
<1>3. CASE Restart
  <2>1. jobs' \in Seq(Batches) /\ done' \in Seq({"none", "ok", "err"})
    BY <1>3 DEF Restart
  <2>2. /\ wpc' \in [Workers -> Busy \cup {"idle", "exited"}]
        /\ wjob' \in [Workers -> 0 .. workerRecv']
        /\ \A w \in Workers : wpc'[w] \in Busy => wjob'[w] # 0
    BY <1>3 DEF Restart
  <2>3. restarts' \in Nat
    BY <1>3 DEF Restart
  <2>4. ChannelCounters' /\ Len(done') = Len(jobs')
    BY <1>3 DEF Restart
  <2>5. committed' \in Offsets /\ position' \in Offsets
    BY <1>3 DEF Restart
  <2>6. UNCHANGED <<storeVars, countVars>>
    BY <1>3 DEF Restart
  <2>7. /\ fetch' = "poll" /\ committer' = "receive"
        /\ inflight' = 0
    BY <1>3 DEF Restart
  <2>8. cancelled' \in BOOLEAN
    BY <1>3, Zenon DEF Restart
  <2> QED BY <2>1, <2>2, <2>3, <2>4, <2>5, <2>6, <2>7, <2>8
<1> QED BY <1>1, <1>2, <1>3

\* Every action of a worker has the shape the type invariant needs.
LEMMA WorkerSteps == ASSUME NEW w \in Workers, Worker(w) PROVE WorkerStep(w)
  BY DEF Worker, WorkerStep, InsertReturns, PublishReturns

\* Steps of the pod's parts and stuttering steps preserve types.
LEMMA NextTypeOK == TypeOK /\ [Next]_vars => TypeOK'
<1> SUFFICES ASSUME TypeOK, [Next]_vars PROVE TypeOK'
  OBVIOUS
<1>1. CASE FetchLoop
  BY <1>1, FetchTypeOK
<1>2. CASE \E w \in Workers : Worker(w)
  BY <1>2, WorkerSteps, WorkerTypeOK
<1>3. CASE Committer
  BY <1>3, CommitterTypeOK
<1>4. CASE Cancel \/ Crash \/ Restart
  BY <1>4, PodTypeOK
<1>5. CASE UNCHANGED vars
  BY <1>5 DEF TypeOK, ChannelCounters, vars, kafkaVars, fetchVars, workerVars,
              commitVars, podVars, storeVars, countVars
<1> QED BY <1>1, <1>2, <1>3, <1>4, <1>5 DEF Next

\* Type correctness of every reachable state of the consumer, in every
\* incarnation of the pod: offsets stay in the log, a busy worker or committer
\* holds a batch that was polled, no channel is read past its last send.
THEOREM TypeCorrect == Spec => []TypeOK
<1>1. Init => TypeOK
  BY InitTypeOK
<1>2. TypeOK /\ [Next]_vars => TypeOK'
  BY NextTypeOK
<1> QED BY <1>1, <1>2, PTL DEF Spec

(***************************************************************************)
(* Tokens and accounting                                                   *)
(***************************************************************************)

\* The token of a batch stands for exactly the records of the batch.
LEMMA TokenCovers ==
    ASSUME NEW b \in Batches
    PROVE  TokenRecords(Token(b)) = RecordsOf(b)
<1> USE DEF Batches, Offsets, Records
<1>1. ASSUME NEW r \in RecordsOf(b) PROVE r \in TokenRecords(Token(b))
  <2> DEFINE s == <<r[1], b.from[r[1]], b.to[r[1]] - 1>>
  <2>1. /\ r \in Records /\ r[1] \in Partitions /\ r[2] \in 0 .. LogLen - 1
        /\ b.from[r[1]] <= r[2] /\ r[2] < b.to[r[1]]
    BY <1>1 DEF RecordsOf
  <2>2. b.from[r[1]] \in 0 .. LogLen /\ b.to[r[1]] \in 0 .. LogLen
    BY <2>1
  <2>3. s \in Token(b)
    BY <2>1, <2>2, LogLenAssumption DEF Token
  <2>4. r[1] = s[1] /\ s[2] <= r[2] /\ r[2] <= s[3]
    BY <2>1, <2>2, LogLenAssumption
  <2> QED BY <2>1, <2>3, <2>4 DEF TokenRecords
<1>2. ASSUME NEW r \in TokenRecords(Token(b)) PROVE r \in RecordsOf(b)
  <2>1. r \in Records
    BY <1>2 DEF TokenRecords
  <2>2. PICK p \in Partitions :
            r[1] = p /\ b.from[p] <= r[2] /\ r[2] <= b.to[p] - 1
    BY <1>2 DEF TokenRecords, Token
  <2>3. r[2] \in 0 .. LogLen - 1 /\ b.to[p] \in 0 .. LogLen
    BY <2>1
  <2>4. r[2] < b.to[r[1]]
    BY <2>2, <2>3, LogLenAssumption
  <2> QED BY <2>1, <2>2, <2>4 DEF RecordsOf
<1> QED BY <1>1, <1>2

\* Whoever does not touch Kafka, the fetch loop's batches or the committer keeps
\* the committer's part of the invariant, as long as it only adds to Accounted.
LEMMA CommitterFrame ==
    ASSUME IInv, UNCHANGED <<committed, position, jobs, committer, commitRecv>>,
           Accounted \subseteq Accounted'
    PROVE  /\ Chained' /\ CommitterInOrder' /\ CommitterReady'
           /\ AccountedBeforeCommit'
<1>1. Chained'
  BY DEF IInv, Chained
<1>2. NextToCommit' = NextToCommit
  BY DEF NextToCommit
<1>3. Frontier(NextToCommit)' = Frontier(NextToCommit)
  BY <1>2 DEF Frontier
<1>4. CommitterInOrder'
  BY <1>3 DEF IInv, CommitterInOrder, Below
<1>5. CommitterReady'
  BY DEF IInv, CommitterReady, RecordsOf
<1>6. AccountedBeforeCommit'
  BY DEF IInv, AccountedBeforeCommit, Below
<1> QED BY <1>1, <1>4, <1>5, <1>6

\* A handler that returns with its batch accounted for keeps DoneAccounted.
LEMMA HandlerDone ==
    ASSUME IInv, NEW w \in Workers, NEW result \in {"ok", "err"},
           wpc[w] \in Busy, jobs' = jobs,
           HandlerReturns(w, result), Accounted \subseteq Accounted',
           result = "ok" => RecordsOf(jobs[wjob[w]]) \subseteq Accounted'
    PROVE  DoneAccounted'
<1> SUFFICES ASSUME NEW i \in 1 .. Len(jobs), done'[i] = "ok"
             PROVE  RecordsOf(jobs[i]) \subseteq Accounted'
  BY DEF DoneAccounted, RecordsOf
<1>1. Len(done) = Len(jobs) /\ done \in Seq({"none", "ok", "err"})
  BY DEF IInv, TypeOK
<1>2. CASE i = wjob[w]
  BY <1>1, <1>2 DEF HandlerReturns
<1>3. CASE i # wjob[w]
  <2>1. done[i] = "ok"
    BY <1>1, <1>3 DEF HandlerReturns
  <2> QED BY <2>1 DEF IInv, DoneAccounted
<1> QED BY <1>2, <1>3

\* A step of one worker leaves the other workers' progress alone.
LEMMA OtherWorkers ==
    ASSUME IInv, NEW w \in Workers, jobs' = jobs,
           malformed \subseteq malformed', Stored \subseteq Stored',
           \A v \in Workers \ {w} : wpc'[v] = wpc[v] /\ wjob'[v] = wjob[v],
           wpc'[w] \in {"insert", "applied"} =>
                RecordsOf(jobs[wjob'[w]]) \cap Malformed \subseteq malformed',
           wpc'[w] = "applied" =>
                RecordsOf(jobs[wjob'[w]]) \ Malformed \subseteq Stored'
    PROVE  WorkerProgress'
<1> SUFFICES ASSUME NEW v \in Workers
             PROVE  /\ wpc'[v] \in {"insert", "applied"} =>
                        RecordsOf(jobs[wjob'[v]]) \cap Malformed \subseteq malformed'
                    /\ wpc'[v] = "applied" =>
                        RecordsOf(jobs[wjob'[v]]) \ Malformed \subseteq Stored'
  BY DEF WorkerProgress, RecordsOf
<1>1. CASE v = w
  BY <1>1
<1>2. CASE v # w
  BY <1>2 DEF IInv, WorkerProgress
<1> QED BY <1>1, <1>2

(***************************************************************************)
(* The inductive invariant                                                 *)
(***************************************************************************)

\* A first start: nothing polled, nothing committed.
LEMMA InitIInv == Init => IInv
<1> SUFFICES ASSUME Init PROVE IInv
  OBVIOUS
<1>1. TypeOK
  BY InitTypeOK
<1>2. Below(committed) = {} /\ Below(position) = {}
  <2>1. ASSUME NEW r \in Records PROVE ~(r[2] < 0) /\ r[1] \in Partitions
    BY <2>1, LogLenAssumption DEF Records
  <2> QED BY <2>1 DEF Init, Below
<1>3. Chained /\ DoneAccounted
  BY DEF Init, Chained, DoneAccounted
<1>4. CommitterInOrder /\ CommitterReady
  <2>1. Frontier(NextToCommit) = position
    BY DEF Init, Frontier, NextToCommit
  <2> QED BY <1>2, <2>1 DEF Init, CommitterInOrder, CommitterReady
<1>5. WorkerProgress
  BY DEF Init, WorkerProgress
<1>6. TokensStored
  BY DEF Init, TokensStored
<1>7. AccountedBeforeCommit
  BY <1>2 DEF AccountedBeforeCommit
<1> QED BY <1>1, <1>3, <1>4, <1>5, <1>6, <1>7 DEF IInv

\* Steps that change no batch, no outcome, no worker and no store keep what the
\* invariant says of them.
LEMMA WorkersFrame ==
    ASSUME IInv,
           UNCHANGED <<jobs, done, wpc, wjob, copies, tokens, malformed>>,
           Accounted \subseteq Accounted'
    PROVE  DoneAccounted' /\ WorkerProgress' /\ TokensStored'
<1>1. DoneAccounted'
  BY DEF IInv, DoneAccounted, RecordsOf
<1>2. Stored' = Stored
  BY DEF Stored
<1>3. WorkerProgress'
  BY <1>2 DEF IInv, WorkerProgress, RecordsOf
<1>4. TokensStored'
  BY <1>2 DEF IInv, TokensStored, TokenRecords
<1> QED BY <1>1, <1>3, <1>4

\* A poll appends the batch between the old position and the new one.
LEMMA PollIInv == IInv /\ Poll => IInv'
<1> SUFFICES ASSUME IInv, Poll PROVE IInv'
  OBVIOUS
<1> USE DEF IInv
<1>1. TypeOK'
  BY FetchTypeOK DEF FetchLoop
<1>2. PICK to \in Offsets :
        /\ \A p \in Partitions : position[p] <= to[p]
        /\ jobs' = Append(jobs, [from |-> position, to |-> to])
        /\ position' = to
  BY DEF Poll
<1>3. /\ done' = Append(done, "none")
      /\ UNCHANGED <<committed, wpc, wjob, commitVars, storeVars, countVars>>
  BY DEF Poll
<1>4. Accounted' = Accounted /\ Stored' = Stored
  BY <1>3 DEF Accounted, Stored, storeVars, countVars
<1>5. /\ jobs \in Seq(Batches) /\ Len(jobs) \in Nat
      /\ done \in Seq({"none", "ok", "err"}) /\ Len(done) = Len(jobs)
  BY DEF TypeOK
<1>6. /\ Len(jobs') = Len(jobs) + 1
      /\ \A i \in 1 .. Len(jobs) : jobs'[i] = jobs[i] /\ done'[i] = done[i]
      /\ jobs'[Len(jobs) + 1] = [from |-> position, to |-> to]
      /\ done'[Len(jobs) + 1] = "none"
  BY <1>2, <1>3, <1>5
<1>7. Chained'
  <2>1. ASSUME NEW i \in 1 .. Len(jobs'), NEW p \in Partitions
        PROVE  jobs'[i].from[p] <= jobs'[i].to[p]
    <3>1. CASE i = Len(jobs) + 1
      BY <1>2, <1>6, <3>1
    <3>2. CASE i # Len(jobs) + 1
      BY <1>5, <1>6, <3>2 DEF Chained
    <3> QED BY <3>1, <3>2
  <2>2. ASSUME NEW i \in 1 .. Len(jobs') - 1
        PROVE  jobs'[i].to = jobs'[i + 1].from
    <3>1. CASE i = Len(jobs)
      BY <1>5, <1>6, <3>1 DEF Chained
    <3>2. CASE i # Len(jobs)
      <4>1. i \in 1 .. Len(jobs) - 1 /\ i + 1 \in 1 .. Len(jobs)
        BY <1>5, <1>6, <3>2
      <4> QED BY <1>6, <4>1 DEF Chained
    <3> QED BY <3>1, <3>2
  <2>3. jobs'[Len(jobs')].to = position'
    BY <1>2, <1>6
  <2> QED BY <2>1, <2>2, <2>3 DEF Chained
<1>8. CommitterInOrder'
  <2>1. NextToCommit' = NextToCommit
    BY <1>3 DEF NextToCommit, commitVars
  <2>2. NextToCommit \in 1 .. Len(jobs) + 1 \/ NextToCommit = 0
    BY <1>5 DEF NextToCommit, TypeOK, ChannelCounters
  <2>3. ASSUME committer # "exited" PROVE NextToCommit \in 1 .. Len(jobs) + 1
    BY <1>5 DEF NextToCommit, TypeOK, ChannelCounters
  <2>4. ASSUME NextToCommit \in 1 .. Len(jobs) + 1
        PROVE  Frontier(NextToCommit)' = Frontier(NextToCommit)
    BY <1>5, <1>6, <2>1, <2>4 DEF Frontier
  <2> QED BY <1>3, <1>4, <2>3, <2>4 DEF CommitterInOrder, Below, commitVars
<1>9. CommitterReady'
  <2> SUFFICES ASSUME committer = "commit"
               PROVE  RecordsOf(jobs[commitRecv])' \subseteq Accounted'
    BY <1>3 DEF CommitterReady, commitVars
  <2>1. commitRecv \in 1 .. Len(jobs)
    BY <1>5 DEF TypeOK, ChannelCounters
  <2>2. jobs'[commitRecv'] = jobs[commitRecv]
    BY <1>3, <1>6, <2>1 DEF commitVars
  <2> QED BY <1>4, <2>2 DEF CommitterReady, RecordsOf
<1>10. DoneAccounted'
  <2> SUFFICES ASSUME NEW i \in 1 .. Len(jobs'), done'[i] = "ok"
               PROVE  RecordsOf(jobs'[i]) \subseteq Accounted
    BY <1>4 DEF DoneAccounted, RecordsOf
  <2>1. i \in 1 .. Len(jobs)
    BY <1>5, <1>6
  <2> QED BY <1>6, <2>1 DEF DoneAccounted
<1>11. WorkerProgress'
  <2> SUFFICES ASSUME NEW w \in Workers, wpc[w] \in {"insert", "applied"}
               PROVE  jobs'[wjob[w]] = jobs[wjob[w]]
    BY <1>3, <1>4 DEF WorkerProgress, RecordsOf, storeVars, countVars
  <2>1. wjob[w] \in 1 .. Len(jobs)
    BY <1>5 DEF TypeOK, ChannelCounters, Busy
  <2> QED BY <1>6, <2>1
<1>12. TokensStored'
  BY <1>3, <1>4 DEF TokensStored, TokenRecords, storeVars
<1>13. AccountedBeforeCommit'
  BY <1>3, <1>4 DEF AccountedBeforeCommit, Below
<1> QED BY <1>1, <1>7, <1>8, <1>9, <1>10, <1>11, <1>12, <1>13

\* The other steps of the fetch loop only move batches along.
LEMMA FetchIInv == IInv /\ FetchLoop => IInv'
<1> SUFFICES ASSUME IInv, FetchLoop PROVE IInv'
  OBVIOUS
<1>1. TypeOK'
  BY FetchTypeOK DEF IInv
<1>2. CASE Poll
  BY <1>2, PollIInv
<1>3. CASE ~Poll
  <2>1. UNCHANGED <<kafkaVars, jobs, done, wpc, wjob, commitVars, storeVars,
                    countVars>>
    BY <1>3 DEF FetchLoop, PollCancelled, SendWorker, SendWorkerCancelled,
                SendCommitter, SendCommitterCancelled, workerVars
  <2>2. Accounted' = Accounted
    BY <2>1 DEF Accounted, Stored, storeVars, countVars
  <2>3. Chained' /\ CommitterInOrder' /\ CommitterReady' /\ AccountedBeforeCommit'
    BY <2>1, <2>2, CommitterFrame DEF kafkaVars, commitVars
  <2>4. DoneAccounted' /\ WorkerProgress' /\ TokensStored'
    BY <2>1, <2>2, WorkersFrame DEF storeVars, countVars
  <2> QED BY <1>1, <2>3, <2>4 DEF IInv
<1> QED BY <1>2, <1>3

\* An insert that ClickHouse applies, or skips for its token, leaves the rows of
\* the batch stored.
LEMMA InsertApplyIInv ==
    ASSUME IInv, NEW w \in Workers, InsertApply(w) PROVE IInv'
<1> DEFINE b == jobs[wjob[w]]
           rows == RecordsOf(b) \ Malformed
<1>1. TypeOK'
  BY WorkerTypeOK DEF IInv, WorkerStep
<1>2. b \in Batches /\ wjob[w] \in 1 .. Len(jobs)
  BY DEF IInv, TypeOK, ChannelCounters, InsertApply, Busy
<1>3. UNCHANGED <<kafkaVars, fetchVars, wjob, done, workerRecv, commitVars,
                  countVars>>
  BY DEF InsertApply
<1>4. TokenRecords(Token(b)) = RecordsOf(b)
  BY <1>2, TokenCovers
<1>5. Stored \subseteq Stored' /\ rows \subseteq Stored'
  <2>1. CASE Token(b) \in tokens
    <3>1. Stored' = Stored
      BY <2>1 DEF InsertApply, Stored, storeVars
    <3>2. rows \subseteq Stored
      BY <1>4, <2>1 DEF IInv, TokensStored
    <3> QED BY <3>1, <3>2
  <2>2. CASE Token(b) \notin tokens
    <3>1. copies' = [r \in Records |-> IF r \in rows THEN copies[r] + 1 ELSE copies[r]]
      BY <2>2 DEF InsertApply
    <3>2. copies \in [Records -> Nat] /\ RecordsOf(b) \subseteq Records
      BY DEF IInv, TypeOK, RecordsOf
    <3>3. ASSUME NEW r \in rows PROVE r \in Records /\ copies'[r] > 0
      BY <3>1, <3>2
    <3>4. ASSUME NEW r \in Stored PROVE r \in Records /\ copies'[r] > 0
      BY <3>1, <3>2 DEF Stored
    <3> QED BY <3>3, <3>4 DEF Stored
  <2> QED BY <2>1, <2>2
<1>6. Accounted \subseteq Accounted'
  BY <1>3, <1>5 DEF Accounted, countVars
<1>7. Chained' /\ CommitterInOrder' /\ CommitterReady' /\ AccountedBeforeCommit'
  BY <1>3, <1>6, CommitterFrame DEF kafkaVars, fetchVars, commitVars
<1>8. DoneAccounted'
  BY <1>3, <1>6 DEF IInv, DoneAccounted, RecordsOf, fetchVars
<1>9. WorkerProgress'
  <2>1. wpc' = [wpc EXCEPT ![w] = "applied"] /\ wpc[w] = "insert"
    BY DEF InsertApply
  <2>2. RecordsOf(b) \cap Malformed \subseteq malformed
    BY <2>1 DEF IInv, WorkerProgress
  <2>3. \A v \in Workers \ {w} : wpc'[v] = wpc[v]
    BY <2>1 DEF IInv, TypeOK
  <2> QED BY <1>3, <1>5, <2>2, <2>3, OtherWorkers DEF fetchVars, countVars
<1>10. TokensStored'
  <2> SUFFICES ASSUME NEW t \in tokens'
               PROVE  TokenRecords(t) \ Malformed \subseteq Stored'
    BY DEF TokensStored, TokenRecords
  <2>1. t \in tokens \/ t = Token(b)
    BY DEF InsertApply, storeVars
  <2>2. CASE t \in tokens
    BY <1>5, <2>2 DEF IInv, TokensStored
  <2>3. CASE t = Token(b)
    BY <1>4, <1>5, <2>3
  <2> QED BY <2>1, <2>2, <2>3
<1> QED BY <1>1, <1>7, <1>8, <1>9, <1>10 DEF IInv

\* A worker that returns from its handler, with the batch accounted for or with
\* an error for the committer to count.
LEMMA ReturnIInv ==
    ASSUME IInv, NEW w \in Workers, WorkerStep(w), NEW result \in {"ok", "err"},
           wpc[w] \in Busy, HandlerReturns(w, result),
           UNCHANGED <<kafkaVars, fetchVars, commitVars, storeVars>>,
           malformed \subseteq malformed', dlq \subseteq dlq',
           lost \subseteq lost', dropped \subseteq dropped',
           result = "ok" => RecordsOf(jobs[wjob[w]]) \subseteq Accounted'
    PROVE  IInv'
<1>1. TypeOK'
  BY WorkerTypeOK DEF IInv
<1>2. Stored' = Stored
  BY DEF Stored, storeVars
<1>3. Accounted \subseteq Accounted'
  BY <1>2 DEF Accounted
<1>4. Chained' /\ CommitterInOrder' /\ CommitterReady' /\ AccountedBeforeCommit'
  BY <1>3, CommitterFrame DEF kafkaVars, fetchVars, commitVars
<1>5. DoneAccounted'
  BY <1>3, HandlerDone DEF fetchVars
<1>6. WorkerProgress'
  <2>1. /\ wpc'[w] = "idle"
        /\ \A v \in Workers \ {w} : wpc'[v] = wpc[v] /\ wjob'[v] = wjob[v]
    BY DEF IInv, TypeOK, HandlerReturns
  <2> QED BY <1>2, <2>1, OtherWorkers DEF fetchVars
<1>7. TokensStored'
  BY <1>2 DEF IInv, TokensStored, TokenRecords, storeVars
<1> QED BY <1>1, <1>4, <1>5, <1>6, <1>7 DEF IInv

\* A step of a worker that neither returns nor reaches ClickHouse.
LEMMA AdvanceIInv ==
    ASSUME IInv, NEW w \in Workers, WorkerStep(w),
           UNCHANGED <<kafkaVars, fetchVars, done, commitVars, storeVars, dlq,
                       lost, dropped>>,
           malformed \subseteq malformed',
           \A v \in Workers \ {w} : wpc'[v] = wpc[v] /\ wjob'[v] = wjob[v],
           wpc'[w] # "applied",
           wpc'[w] = "insert" =>
                RecordsOf(jobs[wjob'[w]]) \cap Malformed \subseteq malformed'
    PROVE  IInv'
<1>1. TypeOK'
  BY WorkerTypeOK DEF IInv
<1>2. Stored' = Stored
  BY DEF Stored, storeVars
<1>3. Accounted \subseteq Accounted'
  BY <1>2 DEF Accounted
<1>4. Chained' /\ CommitterInOrder' /\ CommitterReady' /\ AccountedBeforeCommit'
  BY <1>3, CommitterFrame DEF kafkaVars, fetchVars, commitVars
<1>5. DoneAccounted'
  BY <1>3 DEF IInv, DoneAccounted, RecordsOf, fetchVars
<1>6. WorkerProgress'
  BY <1>2, OtherWorkers DEF fetchVars
<1>7. TokensStored'
  BY <1>2 DEF IInv, TokensStored, TokenRecords, storeVars
<1> QED BY <1>1, <1>4, <1>5, <1>6, <1>7 DEF IInv

\* Every step of a worker preserves the invariant.
LEMMA WorkerIInv == ASSUME IInv, NEW w \in Workers, WorkerStep(w) PROVE IInv'
<1> DEFINE b == jobs[wjob[w]]
<1>t. /\ wpc \in [Workers -> Busy \cup {"idle", "exited"}]
      /\ wjob \in [Workers -> 0 .. workerRecv]
  BY DEF IInv, TypeOK
<1>r. RecordsOf(b) \subseteq Records /\ "ok" \in {"ok", "err"}
  BY DEF RecordsOf
<1>1. CASE WorkerReceive(w)
  BY <1>1, <1>t, AdvanceIInv DEF WorkerReceive, countVars
<1>2. CASE Decode(w)
  <2>1. /\ malformed' = malformed \cup (RecordsOf(b) \cap Malformed)
        /\ wpc[w] = "decode"
        /\ UNCHANGED <<kafkaVars, fetchVars, commitVars, storeVars, dlq, lost,
                       dropped>>
    BY <1>2 DEF Decode
  <2>2. CASE RecordsOf(b) \subseteq Malformed
    <3>1. HandlerReturns(w, "ok")
      BY <1>2, <2>2 DEF Decode
    <3>2. RecordsOf(b) \subseteq Accounted'
      BY <2>1, <2>2 DEF Accounted
    <3> QED BY <1>2, <2>1, <3>1, <3>2, ReturnIInv DEF Busy, WorkerStep
  <2>3. CASE ~(RecordsOf(b) \subseteq Malformed)
    <3>1. wpc' = [wpc EXCEPT ![w] = "insert"] /\ UNCHANGED <<wjob, done>>
      BY <1>2, <2>3 DEF Decode
    <3> QED BY <1>2, <1>t, <2>1, <3>1, AdvanceIInv DEF WorkerStep
  <2> QED BY <2>2, <2>3
<1>3. CASE InsertApply(w)
  BY <1>3, InsertApplyIInv
<1>4. CASE InsertOK(w)
  <2>1. RecordsOf(b) \subseteq malformed \cup Stored
    BY <1>4 DEF InsertOK, IInv, WorkerProgress
  <2>2. Accounted' = Accounted
    BY <1>4 DEF InsertOK, Accounted, Stored, storeVars, countVars
  <2> QED BY <1>4, <2>1, <2>2, ReturnIInv DEF InsertOK, Accounted, Busy, countVars
<1>5. CASE InsertFail(w)
  BY <1>5, <1>t, AdvanceIInv DEF InsertFail, countVars
<1>6. CASE HandlerPanic(w)
  BY <1>6, <1>t, AdvanceIInv DEF HandlerPanic, countVars
<1>7. CASE PublishOK(w)
  <2>1. RecordsOf(b) \subseteq Accounted'
    BY <1>7 DEF PublishOK, Accounted
  <2> QED BY <1>7, <2>1, ReturnIInv DEF PublishOK, Publishing, Busy
<1>8. CASE PublishFail(w)
  <2>1. RecordsOf(b) \subseteq Accounted'
    BY <1>8 DEF PublishFail, Accounted
  <2>2. dlq \subseteq dlq' /\ lost \subseteq lost'
    BY <1>8 DEF PublishFail
  <2> QED BY <1>8, <2>1, <2>2, ReturnIInv DEF PublishFail, Publishing, Busy
<1>9. CASE PublishPanics(w)
  BY <1>9, ReturnIInv DEF PublishPanics, Busy, countVars
<1>10. CASE WorkerExit(w)
  BY <1>10, <1>t, AdvanceIInv DEF WorkerExit, countVars
<1> QED BY <1>1, <1>2, <1>3, <1>4, <1>5, <1>6, <1>7, <1>8, <1>9, <1>10
        DEF WorkerStep

\* The committer moves on only past a batch that is accounted for, and commits
\* the end of that batch.
LEMMA CommitterIInv == IInv /\ Committer => IInv'
<1> SUFFICES ASSUME IInv, Committer PROVE IInv'
  OBVIOUS
<1> USE DEF IInv
<1>t. TypeOK'
  BY CommitterTypeOK
<1>f. UNCHANGED <<position, fetchVars, workerVars, storeVars, dlq, malformed, lost>>
      /\ dropped \subseteq dropped'
  BY DEF Committer, CommitterReceive, CommitterWait, Commit, CommitterExit,
         kafkaVars, countVars
<1>a. Stored' = Stored /\ Accounted \subseteq Accounted'
  BY <1>f DEF Stored, Accounted, storeVars
<1>w. DoneAccounted' /\ WorkerProgress' /\ TokensStored'
  BY <1>f, <1>a, WorkersFrame DEF fetchVars, workerVars, storeVars
<1>c. Chained'
  BY <1>f DEF Chained, fetchVars
<1>l. Len(jobs) \in Nat /\ commitRecv \in 0 .. commitSent /\ commitSent \in 0 .. Len(jobs)
  BY DEF TypeOK, ChannelCounters
<1>1. CASE CommitterReceive
  <2>1. NextToCommit' = NextToCommit
    BY <1>1, <1>l DEF CommitterReceive, NextToCommit
  <2>2. Frontier(NextToCommit)' = Frontier(NextToCommit)
    BY <2>1, <1>f DEF Frontier, fetchVars
  <2>3. CommitterInOrder'
    BY <1>1, <2>2, <1>a DEF CommitterReceive, CommitterInOrder, Below, kafkaVars
  <2>4. CommitterReady'
    BY <1>1 DEF CommitterReceive, CommitterReady
  <2>5. AccountedBeforeCommit'
    BY <1>1, <1>a DEF CommitterReceive, AccountedBeforeCommit, Below, kafkaVars
  <2> QED BY <1>t, <1>w, <1>c, <2>3, <2>4, <2>5
<1>2. CASE CommitterWait
  <2>1. NextToCommit' = NextToCommit
    BY <1>2 DEF CommitterWait, NextToCommit
  <2>2. Frontier(NextToCommit)' = Frontier(NextToCommit)
    BY <2>1, <1>f DEF Frontier, fetchVars
  <2>3. CommitterInOrder'
    BY <1>2, <2>2, <1>a DEF CommitterWait, CommitterInOrder, Below, kafkaVars
  <2>4. CommitterReady'
    <3>1. commitRecv \in 1 .. Len(jobs)
      BY <1>2, <1>l DEF CommitterWait, TypeOK
    <3>2. done[commitRecv] \in {"ok", "err"}
      BY <1>2, <3>1 DEF CommitterWait, TypeOK
    <3>3. CASE done[commitRecv] = "ok"
      <4>1. RecordsOf(jobs[commitRecv]) \subseteq Accounted'
        BY <3>1, <3>3, <1>a DEF DoneAccounted
      <4> QED BY <1>2, <4>1, <1>f DEF CommitterWait, CommitterReady, RecordsOf, fetchVars
    <3>4. CASE done[commitRecv] = "err"
      <4>1. RecordsOf(jobs[commitRecv]) \subseteq Accounted'
        BY <1>2, <3>4 DEF CommitterWait, Accounted
      <4> QED BY <1>2, <4>1, <1>f DEF CommitterWait, CommitterReady, RecordsOf, fetchVars
    <3> QED BY <3>2, <3>3, <3>4
  <2>5. AccountedBeforeCommit'
    BY <1>2, <1>a DEF CommitterWait, AccountedBeforeCommit, Below, kafkaVars
  <2> QED BY <1>t, <1>w, <1>c, <2>3, <2>4, <2>5
<1>3. CASE Commit
  <2> DEFINE b == jobs[commitRecv]
  <2>1. /\ committer = "commit" /\ committer' = "receive"
        /\ UNCHANGED <<commitRecv, countVars>>
    BY <1>3 DEF Commit
  <2>2. commitRecv \in 1 .. Len(jobs) /\ b \in Batches
    BY <2>1, <1>l DEF TypeOK
  <2>3. NextToCommit = commitRecv /\ NextToCommit' = commitRecv + 1
    BY <2>1 DEF NextToCommit
  <2>4. Frontier(commitRecv) = b.from
    BY <2>2 DEF Frontier
  <2>5. Frontier(NextToCommit)' = b.to
    <3>1. CASE commitRecv = Len(jobs)
      BY <2>1, <2>2, <2>3, <1>f, <1>l, <3>1 DEF Frontier, Chained, fetchVars
    <3>2. CASE commitRecv # Len(jobs)
      <4>1. commitRecv \in 1 .. Len(jobs) - 1 /\ commitRecv + 1 <= Len(jobs)
        BY <2>2, <1>l, <3>2
      <4> QED BY <2>3, <1>f, <4>1 DEF Frontier, Chained, fetchVars
    <3> QED BY <3>1, <3>2
  <2>6. /\ Below(b.from) \subseteq Accounted
        /\ \A p \in Partitions : committed[p] <= b.from[p]
        /\ \A p \in Partitions : b.from[p] <= b.to[p]
        /\ RecordsOf(b) \subseteq Accounted
    BY <2>1, <2>2, <2>3, <2>4 DEF CommitterInOrder, CommitterReady, Chained
  <2>7. Below(b.to) \subseteq Below(b.from) \cup RecordsOf(b)
    <3>1. ASSUME NEW r \in Records
          PROVE  /\ r[1] \in Partitions /\ r[2] \in Int
                 /\ b.from[r[1]] \in Int /\ b.to[r[1]] \in Int
      BY <2>2, <3>1, LogLenAssumption DEF Records, Batches, Offsets
    <3> QED BY <3>1 DEF Below, RecordsOf
  <2>8. /\ committed' \in Offsets /\ committed \in Offsets
        /\ \A p \in Partitions : committed'[p] \in {committed[p], b.to[p]}
    BY <1>3, <1>t DEF Commit, TypeOK, Offsets
  <2>9. \A p \in Partitions : committed'[p] <= b.to[p]
    <3>1. ASSUME NEW p \in Partitions
          PROVE  committed[p] \in Int /\ b.from[p] \in Int /\ b.to[p] \in Int
      BY <2>2, <2>8, <3>1, LogLenAssumption DEF Batches, Offsets
    <3> QED BY <2>6, <2>8, <3>1
  <2>10. Below(b.to) \subseteq Accounted'
    BY <2>6, <2>7, <1>a
  <2>11. CommitterInOrder'
    BY <2>5, <2>9, <2>10 DEF CommitterInOrder, Below
  <2>12. AccountedBeforeCommit'
    <3>1. Below(committed)' \subseteq Below(b.to)
      <4>1. ASSUME NEW r \in Records
            PROVE  /\ r[1] \in Partitions /\ r[2] \in Int
                   /\ committed'[r[1]] \in Int /\ b.to[r[1]] \in Int
        BY <2>2, <2>8, <4>1, LogLenAssumption DEF Records, Batches, Offsets
      <4> QED BY <2>9, <4>1 DEF Below
    <3> QED BY <2>10, <3>1 DEF AccountedBeforeCommit
  <2>13. CommitterReady'
    BY <2>1 DEF CommitterReady
  <2> QED BY <1>t, <1>w, <1>c, <2>11, <2>12, <2>13
<1>4. CASE CommitterExit
  <2>1. CommitterInOrder' /\ CommitterReady'
    BY <1>4 DEF CommitterExit, CommitterInOrder, CommitterReady
  <2>2. AccountedBeforeCommit'
    BY <1>4, <1>a DEF CommitterExit, AccountedBeforeCommit, Below, kafkaVars
  <2> QED BY <1>t, <1>w, <1>c, <2>1, <2>2
<1> QED BY <1>1, <1>2, <1>3, <1>4 DEF Committer

\* A crash forgets every batch; a restart resumes from the committed offsets.
LEMMA PodIInv == IInv /\ (Cancel \/ Crash \/ Restart) => IInv'
<1> SUFFICES ASSUME IInv, Cancel \/ Crash \/ Restart PROVE IInv'
  OBVIOUS
<1>t. TypeOK'
  BY PodTypeOK DEF IInv
<1>a. /\ Stored' = Stored /\ Accounted' = Accounted
      /\ UNCHANGED <<committed, storeVars, countVars>>
  BY DEF Cancel, Crash, Restart, Stored, Accounted, kafkaVars, storeVars, countVars
<1>s. AccountedBeforeCommit' /\ TokensStored'
  BY <1>a DEF IInv, AccountedBeforeCommit, Below, TokensStored, TokenRecords, storeVars
<1>1. CASE Cancel
  <2>1. UNCHANGED <<kafkaVars, fetchVars, workerVars, commitVars>>
    BY <1>1 DEF Cancel
  <2>2. Chained' /\ CommitterInOrder' /\ CommitterReady'
    BY <2>1, <1>a, CommitterFrame DEF kafkaVars, fetchVars, commitVars
  <2>3. DoneAccounted' /\ WorkerProgress'
    BY <2>1, <1>a, WorkersFrame DEF fetchVars, workerVars, storeVars, countVars
  <2> QED BY <1>t, <1>s, <2>2, <2>3 DEF IInv
<1>2. CASE Crash \/ Restart
  <2>1. jobs' = <<>> /\ Len(jobs') = 0
    BY <1>2 DEF Crash, Restart, Forget
  <2>2. Chained' /\ DoneAccounted'
    BY <2>1 DEF Chained, DoneAccounted
  <2>3. \A w \in Workers : wpc'[w] \in {"idle", "exited"}
    BY <1>2 DEF Crash, Restart
  <2>4. WorkerProgress'
    BY <2>3 DEF WorkerProgress
  <2>5. CommitterReady'
    BY <1>2 DEF Crash, Restart, CommitterReady
  <2>6. CommitterInOrder'
    <3>1. CASE Crash
      BY <3>1 DEF Crash, CommitterInOrder
    <3>2. CASE Restart
      <4>1. Frontier(NextToCommit)' = committed
        BY <2>1, <3>2 DEF Restart, Forget, Frontier, NextToCommit
      <4>2. \A p \in Partitions : committed[p] <= committed[p]
        BY LogLenAssumption DEF IInv, TypeOK, Offsets
      <4> QED BY <1>a, <4>1, <4>2 DEF CommitterInOrder, IInv, AccountedBeforeCommit, Below
    <3> QED BY <1>2, <3>1, <3>2
  <2> QED BY <1>t, <1>s, <2>2, <2>4, <2>5, <2>6 DEF IInv
<1> QED BY <1>1, <1>2

\* Every action of the pod keeps the invariant.
LEMMA NextIInv == IInv /\ [Next]_vars => IInv'
<1> SUFFICES ASSUME IInv, [Next]_vars PROVE IInv'
  OBVIOUS
<1>1. CASE FetchLoop
  BY <1>1, FetchIInv
<1>2. CASE \E w \in Workers : Worker(w)
  BY <1>2, WorkerSteps, WorkerIInv
<1>3. CASE Committer
  BY <1>3, CommitterIInv
<1>4. CASE Cancel \/ Crash \/ Restart
  BY <1>4, PodIInv
<1>5. CASE UNCHANGED vars
  <2>1. UNCHANGED <<kafkaVars, fetchVars, workerVars, commitVars, storeVars, countVars>>
    BY <1>5 DEF vars
  <2>2. Accounted' = Accounted
    BY <2>1 DEF Accounted, Stored, storeVars, countVars
  <2>3. TypeOK'
    BY <1>5, NextTypeOK DEF IInv
  <2>4. Chained' /\ CommitterInOrder' /\ CommitterReady' /\ AccountedBeforeCommit'
    BY <2>1, <2>2, CommitterFrame DEF kafkaVars, fetchVars, commitVars
  <2>5. DoneAccounted' /\ WorkerProgress' /\ TokensStored'
    BY <2>1, <2>2, WorkersFrame DEF fetchVars, workerVars, storeVars, countVars
  <2> QED BY <2>3, <2>4, <2>5 DEF IInv
<1> QED BY <1>1, <1>2, <1>3, <1>4, <1>5 DEF Next

\* The invariant that carries the proof below.
THEOREM Inductive == Spec => []IInv
<1>1. Init => IInv
  BY InitIInv
<1>2. IInv /\ [Next]_vars => IInv'
  BY NextIInv
<1> QED BY <1>1, <1>2, PTL DEF Spec

\* No silent loss: a record behind the group's committed offsets is stored, in
\* the DLQ, or counted, whatever the order in which the workers finish, whatever
\* fails, and wherever the pod dies.
THEOREM NoSilentLoss == Spec => []AccountedBeforeCommit
<1>1. IInv => AccountedBeforeCommit
  BY DEF IInv
<1> QED BY <1>1, Inductive, PTL

(***************************************************************************)
(* Commits only move forward, and the pipeline implements Delivery         *)
(***************************************************************************)

\* What a step does to the committed offsets: nothing, or a commit of the batch
\* whose first offsets they have reached at most.
LEMMA CommittedAdvances ==
    ASSUME IInv, [Next]_vars
    PROVE  \A p \in Partitions : committed[p] <= committed'[p]
<1>1. /\ committed \in Offsets
      /\ \A p \in Partitions : committed[p] \in Int /\ committed[p] <= committed[p]
  BY LogLenAssumption DEF IInv, TypeOK, Offsets
<1>2. CASE Commit
  <2> DEFINE b == jobs[commitRecv]
  <2>1. committer = "commit" /\ commitRecv \in 1 .. Len(jobs) /\ b \in Batches
    BY <1>2 DEF Commit, IInv, TypeOK, ChannelCounters
  <2>2. \A p \in Partitions : committed[p] <= b.from[p]
    BY <2>1 DEF IInv, CommitterInOrder, NextToCommit, Frontier
  <2>3. \A p \in Partitions :
            \/ committed'[p] = committed[p]
            \/ b.from[p] < b.to[p] /\ committed'[p] = b.to[p]
    BY <1>2 DEF Commit
  <2>4. \A p \in Partitions : b.from[p] \in Int /\ b.to[p] \in Int
    BY <2>1, LogLenAssumption DEF Batches, Offsets
  <2> QED BY <1>1, <2>2, <2>3, <2>4
<1>3. CASE ~Commit
  <2>1. UNCHANGED committed
    BY <1>3 DEF Next, vars, FetchLoop, Poll, PollCancelled, SendWorker,
                SendWorkerCancelled, SendCommitter, SendCommitterCancelled,
                Worker, WorkerReceive, Decode, InsertApply, InsertReturns,
                InsertOK, InsertFail, HandlerPanic, PublishReturns, PublishOK,
                PublishFail, PublishPanics, WorkerExit, Committer,
                CommitterReceive, CommitterWait, CommitterExit, Cancel, Crash,
                Restart, kafkaVars
  <2> QED BY <1>1, <2>1
<1> QED BY <1>2, <1>3

\* A commit never moves the group's offset back, across crashes and restarts.
THEOREM CommitsMoveForward == Spec => CommitMonotonic
<1>1. IInv /\ [Next]_vars =>
        [\A p \in Partitions : committed[p] <= committed'[p]]_vars
  BY CommittedAdvances
<1> QED BY <1>1, Inductive, PTL DEF Spec, CommitMonotonic

\* No step takes a record out of the account.
LEMMA AccountedGrows == ASSUME IInv, [Next]_vars PROVE Accounted \subseteq Accounted'
<1>1. CASE \E w \in Workers : InsertApply(w)
  <2>1. PICK w \in Workers : InsertApply(w)
    BY <1>1
  <2>2. copies \in [Records -> Nat]
    BY DEF IInv, TypeOK
  <2>3. UNCHANGED countVars
    BY <2>1 DEF InsertApply
  <2>4. \A r \in Records : copies[r] > 0 => copies'[r] > 0
    <3>1. CASE UNCHANGED storeVars
      BY <3>1 DEF storeVars
    <3>2. CASE copies' = [r \in Records |->
                            IF r \in RecordsOf(jobs[wjob[w]]) \ Malformed
                            THEN copies[r] + 1 ELSE copies[r]]
      BY <2>2, <3>2
    <3> QED BY <2>1, <3>1, <3>2 DEF InsertApply
  <2> QED BY <2>3, <2>4 DEF Accounted, Stored, countVars
<1>2. CASE ~\E w \in Workers : InsertApply(w)
  <2>1. /\ copies' = copies /\ dlq \subseteq dlq' /\ malformed \subseteq malformed'
        /\ lost \subseteq lost' /\ dropped \subseteq dropped'
    <3>1. CASE \E w \in Workers : Worker(w)
      <4>1. PICK w \in Workers : Worker(w) /\ ~InsertApply(w)
        BY <1>2, <3>1
      <4> QED BY <4>1 DEF Worker, WorkerReceive, Decode, InsertReturns, InsertOK,
                InsertFail, HandlerPanic, PublishReturns, PublishOK, PublishFail,
                PublishPanics, WorkerExit, storeVars, countVars
    <3>2. CASE FetchLoop
      BY <3>2 DEF FetchLoop, Poll, PollCancelled, SendWorker,
                SendWorkerCancelled, SendCommitter, SendCommitterCancelled,
                storeVars, countVars
    <3>3. CASE Committer
      BY <3>3 DEF Committer, CommitterReceive, CommitterWait, Commit,
                CommitterExit, storeVars, countVars
    <3>4. CASE Cancel \/ Crash \/ Restart \/ UNCHANGED vars
      BY <3>4 DEF Cancel, Crash, Restart, vars, storeVars, countVars
    <3> QED BY <3>1, <3>2, <3>3, <3>4 DEF Next
  <2> QED BY <2>1 DEF Accounted, Stored
<1> QED BY <1>1, <1>2

\* Every step of the pipeline is a step of Delivery or leaves it unchanged.
LEMMA StepImplements == IInv /\ IInv' /\ [Next]_vars => [Promise!Next]_(Promise!vars)
<1> SUFFICES ASSUME IInv, IInv', [Next]_vars
             PROVE  [Promise!Next]_(Promise!vars)
  OBVIOUS
<1>1. Accounted' \in SUBSET Records /\ Accounted \subseteq Accounted'
  <2>1. Accounted' \subseteq Records
    BY DEF IInv, TypeOK, Accounted, Stored
  <2> QED BY <2>1, AccountedGrows
<1>2. CASE UNCHANGED committed
  <2>1. Promise!Account
    BY <1>1, <1>2 DEF Promise!Account, Promise!Records, Records
  <2> QED BY <2>1 DEF Promise!Next
<1>3. CASE ~UNCHANGED committed
  <2>1. Commit
    BY <1>3 DEF Next, vars, FetchLoop, Poll, PollCancelled, SendWorker,
                SendWorkerCancelled, SendCommitter, SendCommitterCancelled,
                Worker, WorkerReceive, Decode, InsertApply, InsertReturns,
                InsertOK, InsertFail, HandlerPanic, PublishReturns, PublishOK,
                PublishFail, PublishPanics, WorkerExit, Committer,
                CommitterReceive, CommitterWait, CommitterExit, Cancel, Crash,
                Restart, kafkaVars
  <2>2. Accounted' = Accounted
    BY <2>1 DEF Commit, Accounted, Stored, storeVars, countVars
  <2>3. Below(committed') \subseteq Accounted
    BY <2>2 DEF IInv, AccountedBeforeCommit, Below
  <2>4. committed' \in Offsets
    BY DEF IInv, TypeOK
  <2>5. Promise!Commit
    BY <2>2, <2>3, <2>4, CommittedAdvances
       DEF Promise!Commit, Promise!Offsets, Promise!Below, Promise!Records,
           Offsets, Below, Records
  <2> QED BY <2>5 DEF Promise!Next
<1> QED BY <1>2, <1>3

\* The consumer keeps its promise: seen from the group's offsets and the places a
\* record can go, the whole pipeline is the two-action Delivery.
THEOREM PipelineImplementsDelivery == Spec => ImplementsDelivery
<1>1. Init => Promise!Init
  <2> SUFFICES ASSUME Init PROVE Promise!Init
    OBVIOUS
  <2>1. Accounted = {}
    BY DEF Init, Accounted, Stored
  <2> QED BY <2>1 DEF Init, Promise!Init
<1>2. IInv /\ IInv' /\ [Next]_vars => [Promise!Next]_(Promise!vars)
  BY StepImplements
<1> QED BY <1>1, <1>2, Inductive, PTL DEF Spec, ImplementsDelivery, Promise!Spec

(***************************************************************************)
(* The gauge                                                               *)
(***************************************************************************)

\* The gauge counts the batches the fetch loop is handing to the committer and
\* those the committer has not left behind.
GaugeInv ==
    /\ inflight = commitSent - (NextToCommit - 1) + (IF fetch = "sendCommitter" THEN 1 ELSE 0)
    /\ committer = "exited" => fetch = "returned" /\ commitRecv = commitSent

\* Workers and the pod's signals have no part in the gauge.
LEMMA GaugeFrame ==
    ASSUME GaugeInv, UNCHANGED <<inflight, fetch, committer, commitSent, commitRecv>>
    PROVE  GaugeInv'
BY DEF GaugeInv, NextToCommit

\* Every step keeps the gauge's invariant: a batch is counted when a worker may
\* have it, and uncounted by the commit or by the send that is given up.
LEMMA GaugeStep == TypeOK /\ GaugeInv /\ [Next]_vars => GaugeInv'
<1> SUFFICES ASSUME TypeOK, GaugeInv, [Next]_vars PROVE GaugeInv'
  OBVIOUS
<1>t. inflight \in Int /\ commitSent \in Nat /\ commitRecv \in Nat
  BY DEF TypeOK, ChannelCounters
<1>1. CASE \E w \in Workers : Worker(w)
  <2>1. PICK w \in Workers : WorkerStep(w)
    BY <1>1, WorkerSteps
  <2>2. UNCHANGED <<fetchVars, commitVars, inflight>>
    BY <2>1 DEF WorkerStep, WorkerReceive, Decode, InsertApply, InsertOK, InsertFail,
                HandlerPanic, PublishOK, PublishFail, PublishPanics, WorkerExit
  <2> QED BY <2>2, GaugeFrame DEF fetchVars, commitVars
<1>2. CASE Poll
  BY <1>2, <1>t DEF Poll, GaugeInv, NextToCommit, commitVars
<1>3. CASE PollCancelled \/ SendWorkerCancelled
  BY <1>3, <1>t DEF PollCancelled, SendWorkerCancelled, GaugeInv, NextToCommit, commitVars
<1>4. CASE SendWorker
  BY <1>4, <1>t DEF SendWorker, GaugeInv, NextToCommit, commitVars
<1>5. CASE SendCommitter
  BY <1>5, <1>t DEF SendCommitter, GaugeInv, NextToCommit, commitVars
<1>6. CASE SendCommitterCancelled
  BY <1>6, <1>t DEF SendCommitterCancelled, GaugeInv, NextToCommit, commitVars
<1>7. CASE CommitterReceive
  BY <1>7, <1>t DEF CommitterReceive, GaugeInv, NextToCommit, fetchVars
<1>8. CASE CommitterWait
  BY <1>8, <1>t DEF CommitterWait, GaugeInv, NextToCommit, fetchVars
<1>9. CASE Commit
  BY <1>9, <1>t DEF Commit, GaugeInv, NextToCommit, fetchVars
<1>10. CASE CommitterExit
  BY <1>10, <1>t DEF CommitterExit, GaugeInv, NextToCommit, fetchVars
<1>11. CASE Cancel
  BY <1>11, GaugeFrame DEF Cancel, fetchVars, commitVars
<1>12. CASE Crash \/ Restart
  BY <1>12 DEF Crash, Restart, Forget, GaugeInv, NextToCommit
<1>13. CASE UNCHANGED vars
  BY <1>13, GaugeFrame DEF vars, fetchVars, commitVars
<1> QED BY <1>1, <1>2, <1>3, <1>4, <1>5, <1>6, <1>7, <1>8, <1>9, <1>10, <1>11, <1>12, <1>13
        DEF Next, FetchLoop, Committer

\* On every path out of Run, with batches handed over, abandoned or committed,
\* the gauge is back at zero when the last goroutine has returned.
THEOREM GaugeBalanced == Spec => []GaugeReturnsToZero
<1>1. Init => GaugeInv
  <2> SUFFICES ASSUME Init PROVE GaugeInv
    OBVIOUS
  <2>1. /\ committer = "receive" /\ fetch = "poll"
        /\ inflight = 0 /\ commitSent = 0 /\ commitRecv = 0
    BY DEF Init
  <2>2. NextToCommit = 1
    BY <2>1 DEF NextToCommit
  <2>3. inflight = commitSent - (NextToCommit - 1) + 0
    BY <2>1, <2>2
  <2>4. (IF fetch = "sendCommitter" THEN 1 ELSE 0) = 0
    BY <2>1
  <2> QED BY <2>1, <2>3, <2>4 DEF GaugeInv
<1>2. TypeOK /\ GaugeInv => GaugeReturnsToZero
  BY DEF TypeOK, ChannelCounters, GaugeInv, NextToCommit, GaugeReturnsToZero, Stopped
<1> QED BY <1>1, <1>2, GaugeStep, TypeCorrect, PTL DEF Spec

(***************************************************************************)
(* Redelivery                                                              *)
(***************************************************************************)

\* What was stored is known by its token, and each copy of a record by a batch.
BlocksInv ==
    /\ IsFiniteSet(blocks)
    /\ \A b \in blocks : Token(b) \in tokens
    /\ DuplicatesNeedNewBoundaries

\* The batches in a set that hold a record.
Holding(r, set) == {b \in set : r \in RecordsOf(b)}

\* One more batch, that was not in the set.
LEMMA HoldingAdds ==
    ASSUME NEW set, IsFiniteSet(set), NEW b, b \notin set, NEW r
    PROVE  /\ Cardinality(Holding(r, set)) \in Nat
           /\ Cardinality(Holding(r, set)) <= Cardinality(Holding(r, set \cup {b}))
           /\ r \in RecordsOf(b) =>
                Cardinality(Holding(r, set \cup {b})) = Cardinality(Holding(r, set)) + 1
<1>1. IsFiniteSet(Holding(r, set)) /\ b \notin Holding(r, set)
  BY FS_Subset DEF Holding
<1>2. Cardinality(Holding(r, set)) \in Nat
  BY <1>1, FS_CardinalityType
<1>3. CASE r \in RecordsOf(b)
  <2>1. Holding(r, set \cup {b}) = Holding(r, set) \cup {b}
    BY <1>3 DEF Holding
  <2>2. Cardinality(Holding(r, set) \cup {b}) = Cardinality(Holding(r, set)) + 1
    BY <1>1, FS_AddElement
  <2> QED BY <1>2, <2>1, <2>2
<1>4. CASE r \notin RecordsOf(b)
  <2>1. Holding(r, set \cup {b}) = Holding(r, set)
    BY <1>4 DEF Holding
  <2> QED BY <1>2, <1>4, <2>1
<1> QED BY <1>2, <1>3, <1>4

\* Only a block whose token is new is stored.
LEMMA BlocksStep == TypeOK /\ BlocksInv /\ [Next]_vars => BlocksInv'
<1> SUFFICES ASSUME TypeOK, BlocksInv, [Next]_vars PROVE BlocksInv'
  OBVIOUS
<1>1. CASE UNCHANGED storeVars
  BY <1>1 DEF BlocksInv, DuplicatesNeedNewBoundaries, storeVars, Token, RecordsOf
<1>2. ASSUME NEW w \in Workers, InsertApply(w), ~UNCHANGED storeVars PROVE BlocksInv'
  <2>1. PICK b : b = jobs[wjob[w]]
    OBVIOUS
  <2>2. /\ Token(b) \notin tokens /\ tokens' = tokens \cup {Token(b)}
        /\ blocks' = blocks \cup {b}
        /\ copies' = [r \in Records |->
                        IF r \in RecordsOf(b) \ Malformed THEN copies[r] + 1 ELSE copies[r]]
    BY <1>2, <2>1 DEF InsertApply
  <2>3. b \notin blocks
    BY <2>2 DEF BlocksInv
  <2>4. IsFiniteSet(blocks')
    BY <2>2, FS_AddElement DEF BlocksInv
  <2>5. \A c \in blocks' : Token(c) \in tokens'
    BY <2>2 DEF BlocksInv
  <2>6. ASSUME NEW r \in Records
        PROVE  copies'[r] <= Cardinality(Holding(r, blocks'))
    <3>1. copies[r] \in Nat /\ copies[r] <= Cardinality(Holding(r, blocks))
      BY DEF TypeOK, BlocksInv, DuplicatesNeedNewBoundaries, Holding
    <3>2. /\ Cardinality(Holding(r, blocks)) \in Nat
          /\ Cardinality(Holding(r, blocks)) <= Cardinality(Holding(r, blocks \cup {b}))
          /\ r \in RecordsOf(b) => Cardinality(Holding(r, blocks \cup {b}))
                                    = Cardinality(Holding(r, blocks)) + 1
      BY <2>3, HoldingAdds DEF BlocksInv
    <3>3. Cardinality(Holding(r, blocks \cup {b})) \in Nat
      <4>1. IsFiniteSet(Holding(r, blocks \cup {b}))
        BY <2>2, <2>4, FS_Subset DEF Holding
      <4> QED BY <4>1, FS_CardinalityType
    <3>4. CASE r \in RecordsOf(b)
      BY <2>2, <3>1, <3>2, <3>4
    <3>5. CASE r \notin RecordsOf(b)
      BY <2>2, <3>1, <3>2, <3>3, <3>5
    <3> QED BY <3>4, <3>5
  <2>7. DuplicatesNeedNewBoundaries'
    BY <2>6 DEF DuplicatesNeedNewBoundaries, Holding, RecordsOf
  <2>8. \A c : Token(c)' = Token(c)
    BY DEF Token
  <2> QED BY <2>4, <2>5, <2>7, <2>8 DEF BlocksInv
<1>3. ASSUME NEW w \in Workers, WorkerStep(w), ~InsertApply(w) PROVE UNCHANGED storeVars
  BY <1>3 DEF WorkerStep, WorkerReceive, Decode, InsertOK, InsertFail, HandlerPanic,
              PublishOK, PublishFail, PublishPanics, WorkerExit
<1>4. CASE FetchLoop
  BY <1>1, <1>4 DEF FetchLoop, Poll, PollCancelled, SendWorker, SendWorkerCancelled,
                    SendCommitter, SendCommitterCancelled
<1>5. CASE Committer
  BY <1>1, <1>5 DEF Committer, CommitterReceive, CommitterWait, Commit, CommitterExit
<1>6. CASE Cancel \/ Crash \/ Restart \/ UNCHANGED vars
  BY <1>1, <1>6 DEF Cancel, Crash, Restart, vars
<1> QED BY <1>1, <1>2, <1>3, <1>4, <1>5, <1>6, WorkerSteps DEF Next

\* The deduplication token absorbs every redelivery of the same record set,
\* however often pods die between an insert and its commit.
THEOREM RedeliveryAbsorbed == Spec => []DuplicatesNeedNewBoundaries
<1>1. Init => BlocksInv
  <2> SUFFICES ASSUME Init PROVE BlocksInv
    OBVIOUS
  <2>1. \A r \in Records : copies[r] = 0 /\ {b \in blocks : r \in RecordsOf(b)} = {}
    BY DEF Init
  <2>2. Cardinality({}) = 0 /\ IsFiniteSet({})
    BY FS_EmptySet
  <2> QED BY <2>1, <2>2 DEF Init, BlocksInv, DuplicatesNeedNewBoundaries
<1>2. BlocksInv => DuplicatesNeedNewBoundaries
  BY DEF BlocksInv
<1> QED BY <1>1, <1>2, BlocksStep, TypeCorrect, PTL DEF Spec

\* The batches of an incarnation do not overlap, and lie before the position.
BatchesInOrder ==
    \A i \in 1 .. Len(jobs) : \A p \in Partitions :
        /\ jobs[i].to[p] <= position[p]
        /\ \A k \in 1 .. Len(jobs) : i < k => jobs[i].to[p] <= jobs[k].from[p]

\* No two workers hold the same batch.
OneHandler ==
    \A v, w \in Workers : wpc[v] \in Busy /\ wpc[w] \in Busy /\ wjob[v] = wjob[w] => v = w

\* A batch that this incarnation has not inserted yet.
Pending(i) ==
    i > workerRecv \/ \E w \in Workers : wjob[w] = i /\ wpc[w] \in {"decode", "insert"}

\* A record has no copy from this incarnation.
Fresh(r) == copies[r] <= restarts

\* What this incarnation has yet to insert, or to fetch, it has not stored.
PendingFresh ==
    /\ \A i \in 1 .. Len(jobs) : Pending(i) => \A r \in RecordsOf(jobs[i]) : Fresh(r)
    /\ \A r \in Records : r[2] >= position[r[1]] => Fresh(r)

\* The strengthening that makes OneCopyPerIncarnation inductive.
OnceInv == BatchesInOrder /\ OneHandler /\ PendingFresh /\ OneCopyPerIncarnation

\* A step of the fetch loop, the committer or Cancel that polls nothing leaves
\* batches, workers and ClickHouse alone.
LEMMA OnceSame ==
    ASSUME OnceInv,
           UNCHANGED <<jobs, position, wpc, wjob, workerRecv, copies, restarts>>
    PROVE  OnceInv'
BY DEF OnceInv, BatchesInOrder, OneHandler, PendingFresh, Pending, Fresh,
       OneCopyPerIncarnation, RecordsOf

\* A worker moves on without an insert.
LEMMA OnceWorker ==
    ASSUME TypeOK, OnceInv, NEW w \in Workers,
           UNCHANGED <<jobs, position, copies, restarts>>,
           workerRecv' >= workerRecv, workerRecv' \in Nat,
           \A v \in Workers \ {w} : wpc'[v] = wpc[v] /\ wjob'[v] = wjob[v],
           wpc'[w] \in Busy => \A v \in Workers \ {w} : wpc[v] \in Busy => wjob[v] # wjob'[w],
           wpc'[w] \in {"decode", "insert"} => Pending(wjob'[w])
    PROVE  OnceInv'
<1>1. BatchesInOrder' /\ OneCopyPerIncarnation'
  BY DEF OnceInv, BatchesInOrder, OneCopyPerIncarnation
<1>2. OneHandler'
  <2> SUFFICES ASSUME NEW v \in Workers, NEW x \in Workers,
                      wpc'[v] \in Busy, wpc'[x] \in Busy, wjob'[v] = wjob'[x]
               PROVE  v = x
    BY DEF OneHandler
  <2>1. CASE v # w /\ x # w
    BY <2>1 DEF OnceInv, OneHandler
  <2>2. CASE v = w \/ x = w
    BY <2>2
  <2> QED BY <2>1, <2>2
<1>3. \A i \in 1 .. Len(jobs) : Pending(i)' => Pending(i)
  <2> SUFFICES ASSUME NEW i \in 1 .. Len(jobs), Pending(i)'
               PROVE  Pending(i)
    OBVIOUS
  <2>1. CASE i > workerRecv'
    <3>1. workerRecv \in Nat
      BY DEF TypeOK, ChannelCounters
    <3> QED BY <2>1, <3>1 DEF Pending
  <2>2. ASSUME NEW v \in Workers, wjob'[v] = i, wpc'[v] \in {"decode", "insert"}
        PROVE  Pending(i)
    BY <2>2 DEF Pending
  <2> QED BY <2>1, <2>2 DEF Pending
<1>4. PendingFresh'
  BY <1>3 DEF OnceInv, PendingFresh, Fresh, RecordsOf
<1> QED BY <1>1, <1>2, <1>4 DEF OnceInv

\* What a batch holds lies between its offsets; batches hold distinct records,
\* and none that is still to be fetched.
LEMMA BatchesApart ==
    ASSUME TypeOK, BatchesInOrder, NEW i \in 1 .. Len(jobs), NEW r \in RecordsOf(jobs[i])
    PROVE  /\ r \in Records /\ r[2] < position[r[1]]
           /\ \A k \in 1 .. Len(jobs) : r \in RecordsOf(jobs[k]) => k = i
<1>1. /\ r \in Records /\ r[1] \in Partitions /\ r[2] \in Int
      /\ jobs[i].from[r[1]] <= r[2] /\ r[2] < jobs[i].to[r[1]]
  BY LogLenAssumption DEF RecordsOf, Records
<1>2. \A k \in 1 .. Len(jobs) :
        jobs[k].from[r[1]] \in Int /\ jobs[k].to[r[1]] \in Int /\ position[r[1]] \in Int
  <2> SUFFICES ASSUME NEW k \in 1 .. Len(jobs)
               PROVE  jobs[k].from[r[1]] \in Int /\ jobs[k].to[r[1]] \in Int
                      /\ position[r[1]] \in Int
    OBVIOUS
  <2>1. jobs[k] \in Batches /\ position \in Offsets
    BY DEF TypeOK
  <2> QED BY <1>1, <2>1, LogLenAssumption DEF Batches, Offsets
<1>3. r[2] < position[r[1]]
  BY <1>1, <1>2 DEF BatchesInOrder
<1>4. ASSUME NEW k \in 1 .. Len(jobs), r \in RecordsOf(jobs[k]), k # i PROVE FALSE
  <2>1. jobs[k].from[r[1]] <= r[2] /\ r[2] < jobs[k].to[r[1]]
    BY <1>4 DEF RecordsOf
  <2>2. \/ jobs[i].to[r[1]] <= jobs[k].from[r[1]]
        \/ jobs[k].to[r[1]] <= jobs[i].from[r[1]]
    <3>1. i < k \/ k < i
      BY <1>4
    <3> QED BY <1>1, <3>1 DEF BatchesInOrder
  <2> QED BY <1>1, <1>2, <2>1, <2>2
<1> QED BY <1>1, <1>3, <1>4

\* A block that is stored was pending: its records get their first copy of this
\* incarnation, and no other batch holds any of them.
LEMMA OnceApply ==
    ASSUME TypeOK, OnceInv, NEW w \in Workers, InsertApply(w)
    PROVE  OnceInv'
<1>1. /\ wpc[w] = "insert" /\ wpc' = [wpc EXCEPT ![w] = "applied"]
      /\ UNCHANGED <<jobs, position, wjob, workerRecv, restarts>>
  BY DEF InsertApply, kafkaVars, fetchVars, podVars
<1>2. PICK i \in 1 .. Len(jobs) : i = wjob[w]
  BY <1>1 DEF TypeOK, ChannelCounters, Busy
<1>3. wpc \in [Workers -> Busy \cup {"idle", "exited"}] /\ copies \in [Records -> Nat]
      /\ restarts \in Nat
  BY DEF TypeOK
<1>4. Pending(i)
  BY <1>1, <1>2 DEF Pending
<1>5. /\ BatchesInOrder
      /\ \A r \in RecordsOf(jobs[i]) : r \in Records /\ copies[r] <= restarts
  <2>1. BatchesInOrder
    BY DEF OnceInv
  <2> QED BY <1>4, <2>1, BatchesApart DEF OnceInv, PendingFresh, Fresh
<1>6. \A r \in Records :
        \/ copies'[r] = copies[r]
        \/ r \in RecordsOf(jobs[i]) /\ copies'[r] = copies[r] + 1
  BY <1>2, <1>3 DEF InsertApply, storeVars
<1>7. OneCopyPerIncarnation'
  <2> SUFFICES ASSUME NEW r \in Records
               PROVE  copies'[r] <= restarts + 1
    BY <1>1 DEF OneCopyPerIncarnation
  <2>1. copies[r] <= restarts + 1 /\ copies[r] \in Nat
    BY <1>3 DEF OnceInv, OneCopyPerIncarnation
  <2> QED BY <1>3, <1>5, <1>6, <2>1
<1>8. OneHandler'
  BY <1>1, <1>3 DEF OnceInv, OneHandler, Busy
<1>9. BatchesInOrder'
  BY <1>1, <1>5 DEF BatchesInOrder
<1>10. ASSUME NEW k \in 1 .. Len(jobs), Pending(k)' PROVE Pending(k) /\ k # i
  <2>0. workerRecv \in Nat /\ i <= workerRecv
    BY <1>2 DEF TypeOK, ChannelCounters
  <2>1. CASE k > workerRecv'
    BY <1>1, <2>0, <2>1 DEF Pending
  <2>2. ASSUME NEW v \in Workers, wjob'[v] = k, wpc'[v] \in {"decode", "insert"}
        PROVE  Pending(k) /\ k # i
    <3>1. v # w /\ wpc[v] = wpc'[v] /\ wjob[v] = k
      BY <1>1, <1>3, <2>2
    <3>2. wpc[v] \in Busy /\ wpc[w] \in Busy
      BY <1>1, <2>2, <3>1 DEF Busy
    <3>3. wjob[v] # wjob[w]
      BY <3>1, <3>2 DEF OnceInv, OneHandler
    <3> QED BY <1>2, <2>2, <3>1, <3>3 DEF Pending
  <2> QED BY <1>10, <2>1, <2>2 DEF Pending
<1>11. ASSUME NEW k \in 1 .. Len(jobs), Pending(k)', NEW r \in RecordsOf(jobs[k])
       PROVE  copies'[r] <= restarts
  <2>1. Pending(k) /\ k # i
    BY <1>10, <1>11
  <2>2. r \in Records /\ r \notin RecordsOf(jobs[i])
    BY <1>5, <2>1, BatchesApart
  <2>3. copies[r] <= restarts
    BY <2>1 DEF OnceInv, PendingFresh, Fresh
  <2> QED BY <1>6, <2>2, <2>3
<1>12. ASSUME NEW r \in Records, r[2] >= position[r[1]]
       PROVE  copies'[r] <= restarts
  <2>1. r[2] \in Int /\ position[r[1]] \in Int
    BY LogLenAssumption DEF TypeOK, Offsets, Records
  <2>2. r \notin RecordsOf(jobs[i])
    BY <1>5, <1>12, <2>1, BatchesApart
  <2>3. copies[r] <= restarts
    BY <1>12 DEF OnceInv, PendingFresh, Fresh
  <2> QED BY <1>6, <2>2, <2>3
<1>13. PendingFresh'
  BY <1>1, <1>11, <1>12 DEF PendingFresh, Fresh, RecordsOf
<1> QED BY <1>7, <1>8, <1>9, <1>13 DEF OnceInv

\* A poll takes what has not been fetched, from the position on.
LEMMA OncePoll ==
    ASSUME TypeOK, OnceInv, Poll
    PROVE  OnceInv'
<1>1. PICK to \in Offsets :
        /\ \A p \in Partitions : position[p] <= to[p]
        /\ jobs' = Append(jobs, [from |-> position, to |-> to]) /\ position' = to
  BY DEF Poll
<1>2. UNCHANGED <<wpc, wjob, workerRecv, copies, restarts>>
  BY DEF Poll, podVars, storeVars
<1>b. PICK b : b = [from |-> position, to |-> to]
  OBVIOUS
<1>3. b = [from |-> position, to |-> to] /\ b.from = position /\ b.to = to
  BY <1>b
<1>4. PICK n \in Nat : n = Len(jobs)
  BY DEF TypeOK
<1>5. /\ Len(jobs') = n + 1 /\ jobs'[n + 1] = b
      /\ \A i \in 1 .. n : jobs'[i] = jobs[i]
  BY <1>1, <1>3, <1>4 DEF TypeOK
<1>6. \A p \in Partitions : position[p] \in Int /\ to[p] \in Int
  BY LogLenAssumption DEF TypeOK, Offsets
<1>7. \A i \in 1 .. n : \A p \in Partitions : jobs[i].to[p] \in Int
  <2>1. \A i \in 1 .. n : jobs[i] \in Batches
    BY <1>4 DEF TypeOK
  <2> QED BY <2>1, LogLenAssumption DEF Batches, Offsets
<1>8. BatchesInOrder'
  <2> SUFFICES ASSUME NEW i \in 1 .. n + 1, NEW p \in Partitions
               PROVE  /\ jobs'[i].to[p] <= to[p]
                      /\ \A k \in 1 .. n + 1 : i < k => jobs'[i].to[p] <= jobs'[k].from[p]
    BY <1>1, <1>5 DEF BatchesInOrder
  <2>1. CASE i = n + 1
    BY <1>3, <1>5, <1>6, <2>1
  <2>2. CASE i \in 1 .. n
    <3>1. jobs'[i] = jobs[i] /\ jobs[i].to[p] <= position[p]
      BY <1>4, <1>5, <2>2 DEF OnceInv, BatchesInOrder
    <3>2. jobs[i].to[p] <= to[p]
      BY <1>1, <1>6, <1>7, <2>2, <3>1
    <3>3. ASSUME NEW k \in 1 .. n + 1, i < k PROVE jobs[i].to[p] <= jobs'[k].from[p]
      <4>1. CASE k = n + 1
        BY <1>3, <1>5, <3>1, <4>1
      <4>2. CASE k \in 1 .. n
        BY <1>4, <1>5, <2>2, <3>3, <4>2 DEF OnceInv, BatchesInOrder
      <4> QED BY <4>1, <4>2
    <3> QED BY <3>1, <3>2, <3>3
  <2> QED BY <2>1, <2>2
<1>9. OneHandler' /\ OneCopyPerIncarnation'
  BY <1>2 DEF OnceInv, OneHandler, OneCopyPerIncarnation
<1>10. ASSUME NEW r \in Records, r[2] >= position[r[1]] PROVE copies[r] <= restarts
  BY <1>10 DEF OnceInv, PendingFresh, Fresh
<1>11. ASSUME NEW i \in 1 .. n + 1, Pending(i), NEW r \in RecordsOf(jobs'[i])
       PROVE  copies[r] <= restarts
  <2>1. CASE i = n + 1
    <3>1. r \in Records /\ r[2] >= position[r[1]]
      <4>1. r \in Records /\ b.from[r[1]] <= r[2]
        BY <1>5, <1>11, <2>1 DEF RecordsOf
      <4>2. r[2] \in Int /\ position[r[1]] \in Int
        BY <1>6, <4>1, LogLenAssumption DEF Records
      <4> QED BY <1>3, <4>1, <4>2
    <3> QED BY <1>10, <3>1
  <2>2. CASE i \in 1 .. n
    BY <1>4, <1>5, <1>11, <2>2 DEF OnceInv, PendingFresh, Fresh
  <2> QED BY <2>1, <2>2
<1>12. ASSUME NEW r \in Records, r[2] >= to[r[1]] PROVE copies[r] <= restarts
  <2>1. r[1] \in Partitions /\ r[2] \in Int
    BY LogLenAssumption DEF Records
  <2>2. r[2] >= position[r[1]]
    BY <1>1, <1>6, <1>12, <2>1
  <2> QED BY <1>10, <2>2
<1>13. PendingFresh'
  BY <1>1, <1>2, <1>5, <1>11, <1>12 DEF PendingFresh, Pending, Fresh, RecordsOf
<1> QED BY <1>8, <1>9, <1>13 DEF OnceInv

\* Every step keeps the invariant of the incarnations.
LEMMA OnceStep == TypeOK /\ OnceInv /\ [Next]_vars => OnceInv'
<1> SUFFICES ASSUME TypeOK, OnceInv, [Next]_vars PROVE OnceInv'
  OBVIOUS
<1>t. /\ workerRecv \in Nat /\ wpc \in [Workers -> Busy \cup {"idle", "exited"}]
      /\ wjob \in [Workers -> 0 .. workerRecv]
  BY DEF TypeOK, ChannelCounters
<1>r. workerRecv >= workerRecv
  BY <1>t
<1>1. ASSUME NEW w \in Workers, WorkerReceive(w) PROVE OnceInv'
  <2>1. /\ UNCHANGED <<jobs, position, copies, restarts>>
        /\ workerRecv' = workerRecv + 1 /\ wjob' = [wjob EXCEPT ![w] = workerRecv + 1]
        /\ wpc' = [wpc EXCEPT ![w] = "decode"]
    BY <1>1 DEF WorkerReceive, kafkaVars, fetchVars, podVars, storeVars
  <2>2. wjob'[w] = workerRecv + 1 /\ Pending(workerRecv + 1)
    BY <1>t, <2>1 DEF Pending
  <2>3. \A v \in Workers \ {w} : wpc'[v] = wpc[v] /\ wjob'[v] = wjob[v] /\ wjob[v] # wjob'[w]
    BY <1>t, <2>1, <2>2
  <2>4. workerRecv' >= workerRecv /\ workerRecv' \in Nat
    BY <1>t, <2>1
  <2> QED BY <2>1, <2>2, <2>3, <2>4, OnceWorker
<1>2. ASSUME NEW w \in Workers, wpc[w] \in Busy \cup {"idle"}, NEW pc, NEW job,
             UNCHANGED <<jobs, position, copies, restarts, workerRecv>>,
             wpc' = [wpc EXCEPT ![w] = pc], wjob' = [wjob EXCEPT ![w] = job],
             \/ pc \notin Busy
             \/ pc \in Busy \ {"decode", "insert"} /\ wpc[w] \in Busy /\ job = wjob[w]
             \/ pc \in Busy /\ wpc[w] \in {"decode", "insert"} /\ job = wjob[w]
      PROVE  OnceInv'
  <2>1. \A v \in Workers \ {w} : wpc'[v] = wpc[v] /\ wjob'[v] = wjob[v]
    BY <1>2, <1>t
  <2>2. wpc'[w] = pc /\ wjob'[w] = job
    BY <1>2, <1>t
  <2>3. wpc'[w] \in Busy => \A v \in Workers \ {w} : wpc[v] \in Busy => wjob[v] # wjob'[w]
    <3> SUFFICES ASSUME pc \in Busy, NEW v \in Workers \ {w}, wpc[v] \in Busy
                 PROVE  wjob[v] # wjob'[w]
      BY <2>2
    <3>1. wpc[w] \in Busy /\ job = wjob[w]
      BY <1>2 DEF Busy
    <3> QED BY <2>2, <3>1 DEF OnceInv, OneHandler
  <2>4. wpc'[w] \in {"decode", "insert"} => Pending(wjob'[w])
    <3>1. pc \in {"decode", "insert"} => pc \in Busy
      BY DEF Busy
    <3> QED BY <1>2, <2>2, <3>1 DEF Pending
  <2> QED BY <1>2, <1>t, <1>r, <2>1, <2>3, <2>4, OnceWorker
<1>3. ASSUME NEW w \in Workers, wpc[w] \in Busy, NEW result, HandlerReturns(w, result),
             UNCHANGED <<jobs, position, copies, restarts, workerRecv>>
      PROVE  OnceInv'
  BY <1>2, <1>3 DEF HandlerReturns, Busy
<1>4. ASSUME NEW w \in Workers, wpc[w] \in Busy \cup {"idle"}, NEW pc,
             UNCHANGED <<jobs, position, copies, restarts, workerRecv, wjob>>,
             wpc' = [wpc EXCEPT ![w] = pc],
             \/ pc \notin Busy
             \/ pc \in Busy \ {"decode", "insert"} /\ wpc[w] \in Busy
             \/ pc \in Busy /\ wpc[w] \in {"decode", "insert"}
      PROVE  OnceInv'
  <2>1. wjob' = [wjob EXCEPT ![w] = wjob[w]]
    BY <1>4, <1>t
  <2> QED BY <1>2, <1>4, <2>1
<1>5. ASSUME NEW w \in Workers, Decode(w) PROVE OnceInv'
  <2>1. /\ wpc[w] = "decode" /\ UNCHANGED <<jobs, position, copies, restarts, workerRecv>>
        /\ \/ HandlerReturns(w, "ok")
           \/ wpc' = [wpc EXCEPT ![w] = "insert"] /\ UNCHANGED wjob
    BY <1>5 DEF Decode, kafkaVars, fetchVars, podVars, storeVars
  <2> QED BY <1>3, <1>4, <2>1 DEF Busy
<1>6. ASSUME NEW w \in Workers, InsertOK(w) \/ PublishOK(w) \/ PublishFail(w) \/ PublishPanics(w)
      PROVE  OnceInv'
  <2>1. /\ wpc[w] \in Busy /\ UNCHANGED <<jobs, position, copies, restarts, workerRecv>>
        /\ \E result : HandlerReturns(w, result)
    BY <1>6 DEF InsertOK, PublishOK, PublishFail, PublishPanics, Publishing, Busy,
                kafkaVars, fetchVars, podVars, storeVars
  <2> QED BY <1>3, <2>1
<1>7. ASSUME NEW w \in Workers, InsertFail(w) \/ HandlerPanic(w) PROVE OnceInv'
  <2>1. /\ wpc[w] \in Busy /\ UNCHANGED <<jobs, position, copies, restarts, workerRecv, wjob>>
        /\ \/ wpc' = [wpc EXCEPT ![w] = "publish"]
           \/ wpc' = [wpc EXCEPT ![w] = "publishPanic"]
    BY <1>7 DEF InsertFail, HandlerPanic, Busy, kafkaVars, fetchVars, podVars, storeVars
  <2> QED BY <1>4, <2>1 DEF Busy
<1>8. ASSUME NEW w \in Workers, WorkerExit(w) PROVE OnceInv'
  <2>1. /\ wpc[w] = "idle" /\ wpc' = [wpc EXCEPT ![w] = "exited"]
        /\ UNCHANGED <<jobs, position, copies, restarts, workerRecv, wjob>>
    BY <1>8 DEF WorkerExit, kafkaVars, fetchVars, podVars, storeVars
  <2> QED BY <1>4, <2>1 DEF Busy
<1>9. ASSUME NEW w \in Workers, Worker(w) PROVE OnceInv'
  BY <1>1, <1>5, <1>6, <1>7, <1>8, <1>9, WorkerSteps, OnceApply DEF WorkerStep
<1>10. CASE FetchLoop
  <2>1. CASE Poll
    BY <2>1, OncePoll
  <2>2. CASE ~Poll
    <3>1. UNCHANGED <<kafkaVars, jobs, workerVars, podVars, storeVars>>
      BY <1>10, <2>2 DEF FetchLoop, PollCancelled, SendWorker, SendWorkerCancelled,
                         SendCommitter, SendCommitterCancelled
    <3> QED BY <3>1, OnceSame DEF kafkaVars, workerVars, podVars, storeVars
  <2> QED BY <2>1, <2>2
<1>11. CASE Committer
  <2>1. UNCHANGED <<position, jobs, workerVars, podVars, storeVars>>
    BY <1>11 DEF Committer, CommitterReceive, CommitterWait, Commit, CommitterExit,
                 kafkaVars, fetchVars
  <2> QED BY <2>1, OnceSame DEF workerVars, podVars, storeVars
<1>12. CASE Cancel \/ UNCHANGED vars
  BY <1>12, OnceSame DEF Cancel, vars, kafkaVars, fetchVars, workerVars, podVars, storeVars
<1>13. CASE Crash \/ Restart
  <2>1. /\ jobs' = <<>> /\ copies' = copies
        /\ \A w \in Workers : wpc'[w] \in {"idle", "exited"}
    BY <1>13 DEF Crash, Restart, Forget, storeVars
  <2>2. BatchesInOrder' /\ OneHandler'
    BY <2>1 DEF BatchesInOrder, OneHandler, Busy
  <2>3. restarts \in Nat /\ \A r \in Records : copies[r] \in Nat
    BY DEF TypeOK
  <2>4. OneCopyPerIncarnation' /\ PendingFresh'
    <3>1. CASE Crash
      BY <2>1, <3>1 DEF Crash, OnceInv, OneCopyPerIncarnation, PendingFresh, Fresh,
                        kafkaVars, podVars
    <3>2. CASE Restart
      <4>1. restarts' = restarts + 1
        BY <3>2 DEF Restart
      <4>2. \A r \in Records : copies[r] <= restarts + 1 /\ copies[r] <= (restarts + 1) + 1
        BY <2>3 DEF OnceInv, OneCopyPerIncarnation
      <4> QED BY <2>1, <4>1, <4>2 DEF OneCopyPerIncarnation, PendingFresh, Fresh
    <3> QED BY <1>13, <3>1, <3>2
  <2> QED BY <2>2, <2>4 DEF OnceInv
<1> QED BY <1>9, <1>10, <1>11, <1>12, <1>13 DEF Next

\* An incarnation stores a record once, whichever worker holds its batch,
\* whatever fails after the insert: each restart adds one copy at most.
THEOREM OncePerIncarnation == Spec => []OneCopyPerIncarnation
<1>1. Init => OnceInv
  <2> SUFFICES ASSUME Init PROVE OnceInv
    OBVIOUS
  <2>1. /\ jobs = <<>> /\ restarts = 0 /\ \A r \in Records : copies[r] = 0
        /\ \A w \in Workers : wpc[w] = "idle"
    BY DEF Init
  <2> QED BY <2>1 DEF OnceInv, BatchesInOrder, OneHandler, PendingFresh, Fresh,
                      OneCopyPerIncarnation, Busy
<1>2. OnceInv => OneCopyPerIncarnation
  BY DEF OnceInv
<1> QED BY <1>1, <1>2, OnceStep, TypeCorrect, PTL DEF Spec

=============================================================================
