--------------------------- MODULE AsyncPublisher ---------------------------
(***************************************************************************)
(* The bounded queue that publishes side-effect rows off the request path  *)
(* (internal/ingestion/core/async_publisher.go): request goroutines call   *)
(* Enqueue, workers publish with a deadline, and Close stops them all.     *)
(* The RWMutex is modelled with its readers and its writer, because it is  *)
(* what keeps a late Enqueue from sending on the closed channel.  The      *)
(* channel's order is left out: the queue is the set of batches in it.     *)
(***************************************************************************)
EXTENDS Integers, FiniteSets

CONSTANTS
    Batches,        \* the row batches that requests enqueue, each once
    Workers,        \* publisher goroutines
    Closers,        \* goroutines that call Close
    QueueSize       \* capacity of the queue channel

ASSUME QueueSizeAssumption == QueueSize \in Nat \ {0}
ASSUME PublisherAssumption == IsFiniteSet(Batches) /\ Workers # {}

VARIABLES
    enqueue,        \* where the Enqueue call of each batch stands
    queue,          \* batches in the channel
    closed,         \* the flag, and with it the channel, is closed
    readers,        \* Enqueue calls that hold the read lock
    writer,         \* the Close calls that hold the write lock (at most one)
    close,          \* where each Close call stands
    wpc,            \* "range", "publish" or "exited"
    wbatch,         \* the batches a worker is publishing (at most one)
    delivered,      \* batches that reached the topic
    drops           \* how often each batch was counted as dropped

callVars  == <<enqueue, readers>>
closeVars == <<close, writer, closed>>
vars == <<callVars, queue, closeVars, wpc, wbatch, delivered, drops>>

Init ==
    /\ enqueue = [b \in Batches |-> "new"]
    /\ queue = {}
    /\ closed = FALSE
    /\ readers = {} /\ writer = {}
    /\ close = [c \in Closers |-> "new"]
    /\ wpc = [w \in Workers |-> "range"]
    /\ wbatch = [w \in Workers |-> {}]
    /\ delivered = {}
    /\ drops = [b \in Batches |-> 0]

Drop(rows) ==
    drops' = [b \in Batches |-> IF b \in rows THEN drops[b] + 1 ELSE drops[b]]

-----------------------------------------------------------------------------
(* Enqueue                                                                 *)

\* Go's RWMutex holds new readers back while a writer waits for the lock.
WriterWaits == \E c \in Closers : close[c] = "lock"

\* Mutant of EnqueueLock: the flag is read without the lock.
BugEnqueueNoLock(b) ==
    /\ enqueue[b] = "new"
    /\ enqueue' = [enqueue EXCEPT ![b] = "locked"]
    /\ UNCHANGED <<readers, queue, closeVars, wpc, wbatch, delivered, drops>>

EnqueueLock(b) ==
    /\ enqueue[b] = "new"
    /\ writer = {} /\ ~WriterWaits
    /\ readers' = readers \cup {b}
    /\ enqueue' = [enqueue EXCEPT ![b] = "locked"]
    /\ UNCHANGED <<queue, closeVars, wpc, wbatch, delivered, drops>>

\* Mutant of EnqueueClosed: returns early without releasing the read lock.
BugClosedKeepsLock(b) ==
    /\ enqueue[b] = "locked"
    /\ closed
    /\ Drop({b})
    /\ enqueue' = [enqueue EXCEPT ![b] = "returned"]
    /\ UNCHANGED <<readers, queue, closeVars, wpc, wbatch, delivered>>

EnqueueClosed(b) ==
    /\ enqueue[b] = "locked"
    /\ closed
    /\ Drop({b})
    /\ enqueue' = [enqueue EXCEPT ![b] = "unlock"]
    /\ UNCHANGED <<readers, queue, closeVars, wpc, wbatch, delivered>>

EnqueueOpen(b) ==
    /\ enqueue[b] = "locked"
    /\ ~closed
    /\ enqueue' = [enqueue EXCEPT ![b] = "send"]
    /\ UNCHANGED <<readers, queue, closeVars, wpc, wbatch, delivered, drops>>

\* The select: send when there is room, else drop.
Room == Cardinality(queue) < QueueSize

EnqueueSend(b) ==
    /\ enqueue[b] = "send"
    /\ Room
    /\ queue' = queue \cup {b}
    /\ enqueue' = [enqueue EXCEPT ![b] = "unlock"]
    /\ UNCHANGED <<readers, closeVars, wpc, wbatch, delivered, drops>>

\* Mutant of EnqueueFull: a full queue drops the rows without counting them.
BugFullNotCounted(b) ==
    /\ enqueue[b] = "send"
    /\ ~Room
    /\ enqueue' = [enqueue EXCEPT ![b] = "unlock"]
    /\ UNCHANGED <<readers, queue, closeVars, wpc, wbatch, delivered, drops>>

EnqueueFull(b) ==
    /\ enqueue[b] = "send"
    /\ ~Room
    /\ Drop({b})
    /\ enqueue' = [enqueue EXCEPT ![b] = "unlock"]
    /\ UNCHANGED <<readers, queue, closeVars, wpc, wbatch, delivered>>

EnqueueReturn(b) ==
    /\ enqueue[b] = "unlock"
    /\ readers' = readers \ {b}
    /\ enqueue' = [enqueue EXCEPT ![b] = "returned"]
    /\ UNCHANGED <<queue, closeVars, wpc, wbatch, delivered, drops>>

-----------------------------------------------------------------------------
(* The workers                                                             *)

WorkerTake(w) ==
    /\ wpc[w] = "range"
    /\ \E b \in queue :
        /\ wbatch' = [wbatch EXCEPT ![w] = {b}]
        /\ queue' = queue \ {b}
    /\ wpc' = [wpc EXCEPT ![w] = "publish"]
    /\ UNCHANGED <<callVars, closeVars, delivered, drops>>

PublishOK(w) ==
    /\ wpc[w] = "publish"
    /\ delivered' = delivered \cup wbatch[w]
    /\ wbatch' = [wbatch EXCEPT ![w] = {}]
    /\ wpc' = [wpc EXCEPT ![w] = "range"]
    /\ UNCHANGED <<callVars, queue, closeVars, drops>>

\* The publish fails, or its 5 s deadline passes before or after the rows have
\* reached the topic.
PublishFail(w) ==
    /\ wpc[w] = "publish"
    /\ \/ delivered' = delivered \cup wbatch[w]
       \/ UNCHANGED delivered
    /\ Drop(wbatch[w])
    /\ wbatch' = [wbatch EXCEPT ![w] = {}]
    /\ wpc' = [wpc EXCEPT ![w] = "range"]
    /\ UNCHANGED <<callVars, queue, closeVars>>

\* Mutant of WorkerExit: a worker leaves at close, whatever is still queued.
BugWorkerExitUndrained(w) ==
    /\ wpc[w] = "range"
    /\ closed
    /\ wpc' = [wpc EXCEPT ![w] = "exited"]
    /\ UNCHANGED <<callVars, queue, closeVars, wbatch, delivered, drops>>

\* The range loop ends when the channel is closed and drained.
WorkerExit(w) ==
    /\ wpc[w] = "range"
    /\ closed
    /\ queue = {}
    /\ wpc' = [wpc EXCEPT ![w] = "exited"]
    /\ UNCHANGED <<callVars, queue, closeVars, wbatch, delivered, drops>>

-----------------------------------------------------------------------------
(* Close                                                                   *)

CloseCall(c) ==
    /\ close[c] = "new"
    /\ close' = [close EXCEPT ![c] = "lock"]
    /\ UNCHANGED <<callVars, queue, closed, writer, wpc, wbatch, delivered, drops>>

CloseLock(c) ==
    /\ close[c] = "lock"
    /\ writer = {} /\ readers = {}
    /\ writer' = {c}
    /\ close' = [close EXCEPT ![c] = "locked"]
    /\ UNCHANGED <<callVars, queue, closed, wpc, wbatch, delivered, drops>>

\* The second Close returns at once, without waiting for the workers.
CloseAgain(c) ==
    /\ close[c] = "locked"
    /\ closed
    /\ writer' = {}
    /\ close' = [close EXCEPT ![c] = "returned"]
    /\ UNCHANGED <<callVars, queue, closed, wpc, wbatch, delivered, drops>>

CloseFirst(c) ==
    /\ close[c] = "locked"
    /\ ~closed
    /\ closed' = TRUE
    /\ writer' = {}
    /\ close' = [close EXCEPT ![c] = "wait"]
    /\ UNCHANGED <<callVars, queue, wpc, wbatch, delivered, drops>>

\* wg.Wait
CloseReturn(c) ==
    /\ close[c] = "wait"
    /\ \A w \in Workers : wpc[w] = "exited"
    /\ close' = [close EXCEPT ![c] = "drained"]
    /\ UNCHANGED <<callVars, queue, closed, writer, wpc, wbatch, delivered, drops>>

-----------------------------------------------------------------------------
Enqueue(b) ==
    \/ EnqueueLock(b) \/ EnqueueClosed(b) \/ EnqueueOpen(b)
    \/ EnqueueSend(b) \/ EnqueueFull(b) \/ EnqueueReturn(b)

Worker(w) == WorkerTake(w) \/ PublishOK(w) \/ PublishFail(w) \/ WorkerExit(w)

Close(c) ==
    \/ CloseCall(c) \/ CloseLock(c)
    \/ CloseAgain(c) \/ CloseFirst(c) \/ CloseReturn(c)

Next ==
    \/ \E b \in Batches : Enqueue(b)
    \/ \E w \in Workers : Worker(w)
    \/ \E c \in Closers : Close(c)

Spec == Init /\ [][Next]_vars

(* Goroutines run; a publish returns within its deadline.  Nothing obliges *)
(* a request to call Enqueue or anyone to call Close.                      *)
Fairness ==
    /\ \A b \in Batches :
        WF_vars(EnqueueClosed(b) \/ EnqueueOpen(b) \/ EnqueueSend(b)
                \/ EnqueueFull(b) \/ EnqueueReturn(b))
    /\ \A w \in Workers : WF_vars(Worker(w))
    /\ \A c \in Closers :
        WF_vars(CloseLock(c) \/ CloseAgain(c) \/ CloseFirst(c) \/ CloseReturn(c))

FairSpec == Spec /\ Fairness

-----------------------------------------------------------------------------
(* Properties                                                              *)

Holding == {"locked", "send", "unlock"}

TypeOK ==
    /\ enqueue \in [Batches -> Holding \cup {"new", "returned"}]
    /\ queue \subseteq Batches
    /\ closed \in BOOLEAN
    /\ readers \subseteq Batches
    /\ writer \subseteq Closers
    /\ close \in [Closers -> {"new", "lock", "locked", "wait", "returned", "drained"}]
    /\ wpc \in [Workers -> {"range", "publish", "exited"}]
    /\ wbatch \in [Workers -> SUBSET Batches]
    /\ delivered \subseteq Batches
    /\ drops \in [Batches -> Nat]

\* An Enqueue that saw the publisher open never sends on a closed channel (which
\* would panic in the request's goroutine): Close waits for it.
NoSendOnClosed == \A b \in Batches : enqueue[b] = "send" => ~closed

\* Every batch whose Enqueue decided is in the queue, with a worker, on the
\* topic or counted as dropped, and no batch is in two hands.
InHand(b) ==
    \/ b \in queue
    \/ \E w \in Workers : b \in wbatch[w]
Accounted ==
    \A b \in Batches :
        /\ enqueue[b] \in {"unlock", "returned"} =>
                InHand(b) \/ b \in delivered \/ drops[b] > 0
        /\ drops[b] <= 1
        /\ InHand(b) => drops[b] = 0 /\ b \notin delivered

\* The Close that closed the queue returns with nothing left behind: what was
\* accepted has been published or counted, and later calls are refused.
CloseDrains ==
    \A c \in Closers : close[c] = "drained" =>
        \A b \in Batches : ~InHand(b) /\ enqueue[b] # "send"

\* Close returns, however many requests and other Closes compete with it.
CloseReturns ==
    \A c \in Closers : close[c] = "lock" ~> close[c] \in {"returned", "drained"}

-----------------------------------------------------------------------------
(* The inductive invariant                                                 *)

\* The read lock is held from the check of closed to the return; the write lock
\* is held by one Close, and never with a reader.
Locks ==
    /\ \A b \in Batches : enqueue[b] \in Holding => b \in readers
    /\ writer # {} => readers = {}
    /\ \A c \in Closers : close[c] = "locked" => writer = {c}

\* A batch is in at most one place, and only once its Enqueue has decided.
OnePlace ==
    /\ \A b \in Batches : InHand(b) \/ b \in delivered \/ drops[b] > 0
            => enqueue[b] \in {"unlock", "returned"}
    /\ \A w \in Workers : wbatch[w] \cap queue = {}
    /\ \A w, v \in Workers : w # v => wbatch[w] \cap wbatch[v] = {}

\* Workers leave a closed and empty queue with nothing in their hands.
Exits ==
    /\ \A w \in Workers :
        /\ wpc[w] # "publish" => wbatch[w] = {}
        /\ wpc[w] = "exited" => closed /\ queue = {}
    /\ \A c \in Closers :
        /\ close[c] \in {"wait", "drained"} => closed
        /\ close[c] = "drained" => \A w \in Workers : wpc[w] = "exited"

\* What every step preserves: the lock discipline, and one place per batch.
AInv == TypeOK /\ Locks /\ NoSendOnClosed /\ OnePlace /\ Exits /\ Accounted

=============================================================================
