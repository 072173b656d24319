------------------------ MODULE AsyncPublisherProofs ------------------------
(***************************************************************************)
(* Proofs about AsyncPublisher for any batches, workers, closers and queue *)
(* size.                                                                   *)
(***************************************************************************)
EXTENDS AsyncPublisher, TLAPS

\* A new publisher: nobody holds the lock, the queue is empty.
LEMMA InitAInv == Init => AInv
<1> SUFFICES ASSUME Init PROVE AInv
  OBVIOUS
<1>1. TypeOK
  <2>1. closed \in BOOLEAN
    BY Zenon DEF Init
  <2> QED BY <2>1 DEF Init, TypeOK
<1>2. Locks /\ NoSendOnClosed /\ Exits
  BY DEF Init, Locks, NoSendOnClosed, Exits, Holding
<1>3. OnePlace /\ Accounted
  BY DEF Init, OnePlace, Accounted, InHand
<1> QED BY <1>1, <1>2, <1>3 DEF AInv

\* The steps of an Enqueue.
LEMMA EnqueueAInv == ASSUME AInv, NEW b \in Batches, Enqueue(b) PROVE AInv'
<1> USE DEF AInv, callVars, closeVars, Holding
<1>1. CASE EnqueueLock(b)
  <2> USE <1>1 DEF EnqueueLock
  <2>1. TypeOK'
    BY DEF TypeOK
  <2>2. Locks' /\ NoSendOnClosed' /\ Exits'
    BY DEF TypeOK, Locks, NoSendOnClosed, Exits
  <2>3. OnePlace' /\ Accounted'
    BY DEF TypeOK, OnePlace, Accounted, InHand
  <2> QED BY <2>1, <2>2, <2>3
<1>2. CASE EnqueueClosed(b)
  <2> USE <1>2 DEF EnqueueClosed, Drop
  <2>1. TypeOK'
    BY DEF TypeOK
  <2>2. Locks' /\ NoSendOnClosed' /\ Exits'
    BY DEF TypeOK, Locks, NoSendOnClosed, Exits
  <2>3. OnePlace' /\ Accounted'
    BY DEF TypeOK, OnePlace, Accounted, InHand
  <2> QED BY <2>1, <2>2, <2>3
<1>3. CASE EnqueueOpen(b)
  <2> USE <1>3 DEF EnqueueOpen
  <2>1. TypeOK'
    BY DEF TypeOK
  <2>2. Locks' /\ NoSendOnClosed' /\ Exits'
    BY DEF TypeOK, Locks, NoSendOnClosed, Exits
  <2>3. OnePlace' /\ Accounted'
    BY DEF TypeOK, OnePlace, Accounted, InHand
  <2> QED BY <2>1, <2>2, <2>3
<1>4. CASE EnqueueSend(b)
  <2> USE <1>4 DEF EnqueueSend
  <2>1. TypeOK'
    BY DEF TypeOK
  <2>2. ~closed
    BY DEF NoSendOnClosed
  <2>3. Locks' /\ NoSendOnClosed' /\ Exits'
    BY <2>2 DEF TypeOK, Locks, NoSendOnClosed, Exits
  <2>4. ~InHand(b) /\ b \notin delivered /\ ~(drops[b] > 0)
    BY DEF OnePlace
  <2>5. OnePlace' /\ Accounted'
    BY <2>4 DEF TypeOK, OnePlace, Accounted, InHand
  <2> QED BY <2>1, <2>3, <2>5
<1>5. CASE EnqueueFull(b)
  <2> USE <1>5 DEF EnqueueFull, Drop
  <2>1. TypeOK'
    BY DEF TypeOK
  <2>2. Locks' /\ NoSendOnClosed' /\ Exits'
    BY DEF TypeOK, Locks, NoSendOnClosed, Exits
  <2>3. OnePlace' /\ Accounted'
    BY DEF TypeOK, OnePlace, Accounted, InHand
  <2> QED BY <2>1, <2>2, <2>3
<1>6. CASE EnqueueReturn(b)
  <2> USE <1>6 DEF EnqueueReturn
  <2>1. TypeOK'
    BY DEF TypeOK
  <2>2. Locks' /\ NoSendOnClosed' /\ Exits'
    BY DEF TypeOK, Locks, NoSendOnClosed, Exits
  <2>3. OnePlace' /\ Accounted'
    BY DEF TypeOK, OnePlace, Accounted, InHand
  <2> QED BY <2>1, <2>2, <2>3
<1> QED BY <1>1, <1>2, <1>3, <1>4, <1>5, <1>6 DEF Enqueue

\* The steps of a worker.
LEMMA WorkerAInv == ASSUME AInv, NEW w \in Workers, Worker(w) PROVE AInv'
<1> USE DEF AInv, callVars, closeVars, Holding
<1>1. CASE WorkerTake(w)
  <2>1. PICK b \in queue : /\ wbatch' = [wbatch EXCEPT ![w] = {b}]
                           /\ queue' = queue \ {b}
    BY <1>1 DEF WorkerTake
  <2>2. /\ wpc[w] = "range" /\ wpc' = [wpc EXCEPT ![w] = "publish"]
        /\ wbatch[w] = {} /\ b \in Batches
        /\ UNCHANGED <<callVars, closeVars, delivered, drops>>
    BY <1>1, <2>1 DEF WorkerTake, Exits, TypeOK
  <2>3. TypeOK'
    BY <2>1, <2>2 DEF TypeOK
  <2>4. Locks' /\ NoSendOnClosed' /\ Exits'
    BY <2>1, <2>2 DEF TypeOK, Locks, NoSendOnClosed, Exits
  <2>5. \A a \in Batches : InHand(a)' <=> InHand(a)
    BY <2>1, <2>2 DEF TypeOK, InHand
  <2>6. OnePlace'
    BY <2>1, <2>2, <2>5 DEF TypeOK, OnePlace
  <2>7. Accounted'
    BY <2>2, <2>5 DEF Accounted
  <2> QED BY <2>3, <2>4, <2>6, <2>7
<1>2. CASE PublishOK(w) \/ PublishFail(w)
  <2>1. /\ wpc[w] = "publish" /\ wpc' = [wpc EXCEPT ![w] = "range"]
        /\ wbatch' = [wbatch EXCEPT ![w] = {}]
        /\ UNCHANGED <<callVars, queue, closeVars>>
    BY <1>2 DEF PublishOK, PublishFail
  <2>2. /\ delivered \subseteq delivered'
        /\ delivered' \subseteq delivered \cup wbatch[w]
        /\ \/ drops' = drops /\ wbatch[w] \subseteq delivered'
           \/ drops' = [b \in Batches |-> IF b \in wbatch[w] THEN drops[b] + 1 ELSE drops[b]]
    BY <1>2 DEF PublishOK, PublishFail, Drop
  <2>3. TypeOK'
    BY <2>1, <2>2 DEF TypeOK
  <2>4. Locks' /\ NoSendOnClosed' /\ Exits'
    BY <2>1 DEF TypeOK, Locks, NoSendOnClosed, Exits
  <2>5. \A b \in Batches : InHand(b)' <=> InHand(b) /\ b \notin wbatch[w]
    BY <2>1 DEF TypeOK, InHand, OnePlace
  <2>6. \A b \in wbatch[w] : /\ b \in Batches /\ InHand(b)
                             /\ enqueue[b] \in {"unlock", "returned"}
                             /\ drops[b] = 0
    BY DEF TypeOK, InHand, OnePlace, Accounted
  <2>7. OnePlace'
    BY <2>1, <2>2, <2>5, <2>6 DEF TypeOK, OnePlace
  <2>8. Accounted'
    <3> SUFFICES ASSUME NEW b \in Batches
                 PROVE  /\ enqueue'[b] \in {"unlock", "returned"} =>
                              InHand(b)' \/ b \in delivered' \/ drops'[b] > 0
                        /\ drops'[b] <= 1
                        /\ InHand(b)' => drops'[b] = 0 /\ b \notin delivered'
      BY DEF Accounted, InHand
    <3>1. CASE b \in wbatch[w]
      BY <2>1, <2>2, <2>5, <2>6, <3>1 DEF TypeOK
    <3>2. CASE b \notin wbatch[w]
      <4>1. drops'[b] = drops[b] /\ (b \in delivered' <=> b \in delivered)
        BY <2>2, <3>2 DEF TypeOK
      <4> QED BY <2>1, <2>5, <3>2, <4>1 DEF Accounted
    <3> QED BY <3>1, <3>2
  <2> QED BY <2>3, <2>4, <2>7, <2>8
<1>3. CASE WorkerExit(w)
  <2> USE <1>3 DEF WorkerExit
  <2>1. TypeOK'
    BY DEF TypeOK
  <2>2. Locks' /\ NoSendOnClosed' /\ Exits'
    BY DEF TypeOK, Locks, NoSendOnClosed, Exits
  <2>3. OnePlace' /\ Accounted'
    BY DEF TypeOK, OnePlace, Accounted, InHand
  <2> QED BY <2>1, <2>2, <2>3
<1> QED BY <1>1, <1>2, <1>3 DEF Worker

\* The steps of a Close touch no batch.
LEMMA CloseAInv == ASSUME AInv, NEW c \in Closers, Close(c) PROVE AInv'
<1> USE DEF AInv, callVars
<1>1. UNCHANGED <<callVars, queue, wpc, wbatch, delivered, drops>>
  BY DEF Close, CloseCall, CloseLock, CloseAgain, CloseFirst, CloseReturn
<1>2. OnePlace' /\ Accounted'
  BY <1>1 DEF OnePlace, Accounted, InHand
<1>3. TypeOK'
  <2>1. closed' \in BOOLEAN
    BY Zenon DEF TypeOK, Close, CloseCall, CloseLock, CloseAgain, CloseFirst, CloseReturn
  <2>2. /\ writer' \subseteq Closers
        /\ close' \in [Closers -> {"new", "lock", "locked", "wait", "returned", "drained"}]
    BY DEF TypeOK, Close, CloseCall, CloseLock, CloseAgain, CloseFirst, CloseReturn
  <2> QED BY <1>1, <2>1, <2>2 DEF TypeOK
<1>4. Locks'
  BY <1>1 DEF TypeOK, Locks, Close, CloseCall, CloseLock, CloseAgain, CloseFirst,
              CloseReturn
<1>5. NoSendOnClosed'
  <2>1. CASE CloseFirst(c)
    <3>1. readers = {}
      BY <2>1 DEF CloseFirst, Locks
    <3> QED BY <1>1, <3>1 DEF NoSendOnClosed, Locks, Holding
  <2>2. CASE ~CloseFirst(c)
    <3>1. closed' = closed
      BY <2>2 DEF Close, CloseCall, CloseLock, CloseAgain, CloseReturn
    <3> QED BY <1>1, <3>1 DEF NoSendOnClosed
  <2> QED BY <2>1, <2>2
<1>6. Exits'
  BY <1>1 DEF TypeOK, Exits, Close, CloseCall, CloseLock, CloseAgain, CloseFirst,
              CloseReturn
<1> QED BY <1>2, <1>3, <1>4, <1>5, <1>6

\* The inductive invariant holds in every reachable state.
THEOREM PublisherInductive == Spec => []AInv
<1>1. Init => AInv
  BY InitAInv
<1>2. AInv /\ [Next]_vars => AInv'
  <2> SUFFICES ASSUME AInv, [Next]_vars PROVE AInv'
    OBVIOUS
  <2>1. CASE UNCHANGED vars
    BY <2>1 DEF vars, callVars, closeVars, AInv, TypeOK, Locks, NoSendOnClosed,
                OnePlace, Exits, Accounted, InHand
  <2> QED BY <2>1, EnqueueAInv, WorkerAInv, CloseAInv DEF Next
<1> QED BY <1>1, <1>2, PTL DEF Spec

\* No Enqueue sends on the closed channel, whatever the number of concurrent
\* requests and Close calls.
THEOREM NeverSendsOnClosed == Spec => []NoSendOnClosed
<1>1. AInv => NoSendOnClosed
  BY DEF AInv
<1> QED BY <1>1, PublisherInductive, PTL

\* Every batch is published, counted once as dropped, or still on its way.
THEOREM EveryBatchAccounted == Spec => []Accounted
<1>1. AInv => Accounted
  BY DEF AInv
<1> QED BY <1>1, PublisherInductive, PTL

\* When the first Close returns, no batch is left in the queue or with a worker.
THEOREM CloseLeavesNothing == Spec => []CloseDrains
<1>1. AInv => CloseDrains
  <2> SUFFICES ASSUME AInv, NEW c \in Closers, close[c] = "drained", NEW b \in Batches
               PROVE  ~InHand(b) /\ enqueue[b] # "send"
    BY DEF CloseDrains
  <2>1. closed /\ \A w \in Workers : wpc[w] = "exited"
    BY DEF AInv, Exits
  <2>2. queue = {} /\ \A w \in Workers : wbatch[w] = {}
    BY <2>1, PublisherAssumption DEF AInv, Exits
  <2> QED BY <2>1, <2>2 DEF AInv, NoSendOnClosed, InHand
<1> QED BY <1>1, PublisherInductive, PTL

=============================================================================
