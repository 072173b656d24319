--------------------------- MODULE HourlyRecorder ---------------------------
(***************************************************************************)
(* The usage recorder (internal/ingestion/ingestionstats/recorder.go):     *)
(* request goroutines add rows to a map under a mutex, one goroutine swaps *)
(* the map out and publishes it on a timer and once more at Close.  A row  *)
(* is reduced to its key and its record count.                             *)
(***************************************************************************)
EXTENDS Integers

CONSTANTS
    Keys,           \* (tenant, hour, signal, service, environment)
    Closers,        \* goroutines that call Close
    MaxRecords      \* bound on the records one key receives

ASSUME MaxRecordsAssumption == MaxRecords \in Nat

VARIABLES
    rows,           \* the map: records buffered per key (0: no row)
    closing,        \* Record refuses rows; the done channel is closed
    runner,         \* where the flush goroutine stands
    snapshot,       \* the rows it has taken and not yet published
    close,          \* where each Close call stands
    accepted,       \* history: records that Record added, per key
    refused,        \* history: records that Record refused, per key
    published,      \* records of publishes that succeeded, per key
    dropped         \* records of publishes that failed, per key

recordVars == <<rows, accepted, refused>>
flushVars  == <<snapshot, published, dropped>>
vars == <<recordVars, closing, runner, flushVars, close>>

None == [k \in Keys |-> 0]
Plus(f, g) == [k \in Keys |-> f[k] + g[k]]

Init ==
    /\ rows = None
    /\ closing = FALSE
    /\ runner = "select"
    /\ snapshot = None
    /\ close = [c \in Closers |-> "new"]
    /\ accepted = None /\ refused = None
    /\ published = None /\ dropped = None

\* Mutant of Record: no check of closing.
BugRecordAfterClose(k) ==
    /\ accepted[k] + refused[k] < MaxRecords
    /\ rows' = [rows EXCEPT ![k] = @ + 1]
    /\ accepted' = [accepted EXCEPT ![k] = @ + 1]
    /\ UNCHANGED <<refused, closing, runner, flushVars, close>>

\* One call of Record with a row of key k.
Record(k) ==
    /\ accepted[k] + refused[k] < MaxRecords
    /\ IF closing
       THEN /\ refused' = [refused EXCEPT ![k] = @ + 1]
            /\ UNCHANGED <<rows, accepted>>
       ELSE /\ rows' = [rows EXCEPT ![k] = @ + 1]
            /\ accepted' = [accepted EXCEPT ![k] = @ + 1]
            /\ UNCHANGED refused
    /\ UNCHANGED <<closing, runner, flushVars, close>>

-----------------------------------------------------------------------------
(* The flush goroutine: select on the timer and on done, then snapshot and *)
(* publish.                                                                *)

\* Mutant of TakeSnapshot: the map is copied and not replaced.
BugSnapshotKeepsRows ==
    /\ snapshot' = rows
    /\ UNCHANGED <<rows, accepted, refused, published, dropped>>

\* snapshot(): the map is replaced under the mutex.
TakeSnapshot ==
    /\ snapshot' = rows
    /\ rows' = None
    /\ UNCHANGED <<accepted, refused, published, dropped>>

Tick ==
    /\ runner = "select"
    /\ TakeSnapshot
    /\ runner' = "publish"
    /\ UNCHANGED <<closing, close>>

\* Mutant of Done: the goroutine returns without the last flush.
BugNoLastFlush ==
    /\ runner = "select"
    /\ closing
    /\ runner' = "exited"
    /\ UNCHANGED <<recordVars, flushVars, closing, close>>

Done ==
    /\ runner = "select"
    /\ closing
    /\ TakeSnapshot
    /\ runner' = "lastPublish"
    /\ UNCHANGED <<closing, close>>

\* Mutant of AfterFlush: the goroutine waits for another tick after the last.
BugLoopsAfterLastFlush == runner' = "select"

AfterFlush == runner' = IF runner = "publish" THEN "select" ELSE "exited"

\* An empty snapshot publishes nothing; a publish that succeeds settles it.
PublishOK ==
    /\ runner \in {"publish", "lastPublish"}
    /\ published' = Plus(published, snapshot)
    /\ snapshot' = None
    /\ AfterFlush
    /\ UNCHANGED <<recordVars, closing, dropped, close>>

\* A failed publish, its deadline included, is counted and not retried.
PublishFail ==
    /\ runner \in {"publish", "lastPublish"}
    /\ snapshot # None
    /\ dropped' = Plus(dropped, snapshot)
    /\ snapshot' = None
    /\ AfterFlush
    /\ UNCHANGED <<recordVars, closing, published, close>>

-----------------------------------------------------------------------------
(* Close, run once; later calls wait for the first.                        *)

CloseCall(c) ==
    /\ close[c] = "new"
    /\ close' = [close EXCEPT ![c] = IF \A d \in Closers : close[d] = "new"
                                     THEN "first" ELSE "once"]
    /\ UNCHANGED <<recordVars, closing, runner, flushVars>>

CloseSignal(c) ==
    /\ close[c] = "first"
    /\ ~closing
    /\ closing' = TRUE
    /\ UNCHANGED <<recordVars, runner, flushVars, close>>

\* wg.Wait
CloseWait(c) ==
    /\ close[c] = "first"
    /\ closing
    /\ runner = "exited"
    /\ close' = [close EXCEPT ![c] = "returned"]
    /\ UNCHANGED <<recordVars, closing, runner, flushVars>>

CloseOnce(c) ==
    /\ close[c] = "once"
    /\ \E d \in Closers : close[d] = "returned"
    /\ close' = [close EXCEPT ![c] = "returned"]
    /\ UNCHANGED <<recordVars, closing, runner, flushVars>>

-----------------------------------------------------------------------------
Run == Tick \/ Done \/ PublishOK \/ PublishFail
Close(c) == CloseCall(c) \/ CloseSignal(c) \/ CloseWait(c) \/ CloseOnce(c)

Next ==
    \/ \E k \in Keys : Record(k)
    \/ Run
    \/ \E c \in Closers : Close(c)

Spec == Init /\ [][Next]_vars

(* The timer fires again and again, and a publish returns within its 5 s   *)
(* deadline.  Each select arms a fresh timer, so a closed done is ready    *)
(* long before the next tick: it is not passed over for ever.              *)
Fairness ==
    /\ WF_vars(Tick \/ Done)
    /\ SF_vars(Done)
    /\ WF_vars(PublishOK \/ PublishFail)
    /\ \A c \in Closers : WF_vars(CloseSignal(c) \/ CloseWait(c) \/ CloseOnce(c))

FairSpec == Spec /\ Fairness

-----------------------------------------------------------------------------
(* Properties                                                              *)

Counts == [Keys -> Nat]

TypeOK ==
    /\ rows \in Counts /\ snapshot \in Counts
    /\ accepted \in Counts /\ refused \in Counts
    /\ published \in Counts /\ dropped \in Counts
    /\ closing \in BOOLEAN
    /\ runner \in {"select", "publish", "lastPublish", "exited"}
    /\ close \in [Closers -> {"new", "first", "once", "returned"}]

\* Every accepted record is in the map, in the snapshot, or in exactly one
\* publish: none is billed twice and none disappears between two flushes.
Conserved ==
    \A k \in Keys :
        accepted[k] = rows[k] + snapshot[k] + published[k] + dropped[k]

\* Close returns with every accepted record settled, and it stays that way: a
\* request that is still running is refused, not accepted and forgotten.
CloseSettles ==
    \A c \in Closers : close[c] = "returned" => rows = None /\ snapshot = None

\* Close returns for every caller.
CloseReturns == \A c \in Closers : close[c] # "new" ~> close[c] = "returned"

\* A buffered row leaves the map: no record waits for Close.
RowsFlushed == \A k \in Keys : rows[k] > 0 ~> rows[k] = 0

-----------------------------------------------------------------------------
(* The inductive invariant                                                 *)

\* The flush goroutine holds rows only between a snapshot and its publish, and
\* takes the last snapshot after Record has begun to refuse.
FlushOrder ==
    /\ runner = "select" => snapshot = None
    /\ runner \in {"lastPublish", "exited"} => closing /\ rows = None
    /\ runner = "exited" => snapshot = None
    /\ \A c \in Closers : close[c] = "returned" => runner = "exited"

\* What every step preserves: conservation, and the order of the last flush.
RInv == TypeOK /\ Conserved /\ FlushOrder

=============================================================================
