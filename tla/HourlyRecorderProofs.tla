------------------------ MODULE HourlyRecorderProofs ------------------------
(***************************************************************************)
(* Proofs about HourlyRecorder for any keys, closers and record bound.     *)
(***************************************************************************)
EXTENDS HourlyRecorder, TLAPS

\* A new recorder: no rows, no flush, nobody closing.
LEMMA InitRInv == Init => RInv
<1> SUFFICES ASSUME Init PROVE RInv
  OBVIOUS
<1>1. closing \in BOOLEAN
  BY Zenon DEF Init
<1>2. TypeOK
  BY <1>1 DEF Init, TypeOK, None, Counts
<1>3. Conserved /\ FlushOrder
  BY DEF Init, Conserved, FlushOrder, None
<1> QED BY <1>2, <1>3 DEF RInv

\* A Record adds to the map and to the history alike, or is refused.
LEMMA RecordRInv == ASSUME RInv, NEW k \in Keys, Record(k) PROVE RInv'
<1> USE DEF RInv, flushVars
<1>1. CASE closing
  <2> USE <1>1 DEF Record
  <2>1. refused' \in Counts
    BY DEF TypeOK, Counts
  <2>2. TypeOK'
    BY <2>1 DEF TypeOK
  <2> QED BY <2>2 DEF Conserved, FlushOrder
<1>2. CASE ~closing
  <2> USE <1>2 DEF Record
  <2>1. rows' \in Counts /\ accepted' \in Counts
    BY DEF TypeOK, Counts
  <2>2. TypeOK'
    BY <2>1 DEF TypeOK
  <2>3. Conserved'
    BY DEF TypeOK, Conserved, Counts
  <2>4. FlushOrder'
    BY DEF FlushOrder
  <2> QED BY <2>2, <2>3, <2>4
<1> QED BY <1>1, <1>2

\* A flush moves records from the map to the snapshot, and from there to one of
\* the two outcomes.
LEMMA RunRInv == RInv /\ Run => RInv'
<1> SUFFICES ASSUME RInv, Run PROVE RInv'
  OBVIOUS
<1> USE DEF RInv, recordVars
<1>n. None \in Counts
  BY DEF None, Counts
<1>1. CASE Tick \/ Done
  <2>1. /\ runner = "select" /\ TakeSnapshot
        /\ runner' \in {"publish", "lastPublish"}
        /\ runner' = "lastPublish" => closing
        /\ UNCHANGED <<closing, close>>
    BY <1>1 DEF Tick, Done
  <2>2. TypeOK'
    BY <1>n, <2>1 DEF TypeOK, TakeSnapshot
  <2>3. Conserved'
    BY <2>1 DEF TypeOK, Conserved, Counts, FlushOrder, TakeSnapshot, None
  <2>4. FlushOrder'
    BY <2>1 DEF FlushOrder, TakeSnapshot
  <2> QED BY <2>2, <2>3, <2>4
<1>2. CASE PublishOK \/ PublishFail
  <2>1. /\ runner \in {"publish", "lastPublish"} /\ AfterFlush
        /\ snapshot' = None
        /\ UNCHANGED <<recordVars, closing, close>>
        /\ \/ published' = Plus(published, snapshot) /\ dropped' = dropped
           \/ dropped' = Plus(dropped, snapshot) /\ published' = published
    BY <1>2 DEF PublishOK, PublishFail
  <2>2. Plus(published, snapshot) \in Counts /\ Plus(dropped, snapshot) \in Counts
    BY DEF TypeOK, Counts, Plus
  <2>3. TypeOK'
    BY <1>n, <2>1, <2>2 DEF TypeOK, AfterFlush
  <2>4. Conserved'
    BY <2>1 DEF TypeOK, Conserved, Counts, Plus, None
  <2>5. FlushOrder'
    BY <2>1 DEF FlushOrder, AfterFlush
  <2> QED BY <2>3, <2>4, <2>5
<1> QED BY <1>1, <1>2 DEF Run

\* A Close only closes: it touches no row.
LEMMA CloseRInv == ASSUME RInv, NEW c \in Closers, Close(c) PROVE RInv'
<1> USE DEF RInv, recordVars, flushVars, Close, CloseCall, CloseSignal, CloseWait,
            CloseOnce
<1>1. closing' \in BOOLEAN
  BY Zenon DEF TypeOK
<1>2. close' \in [Closers -> {"new", "first", "once", "returned"}]
  BY DEF TypeOK
<1>3. TypeOK'
  BY <1>1, <1>2 DEF TypeOK
<1>4. Conserved'
  BY DEF Conserved
<1>5. FlushOrder'
  BY DEF TypeOK, FlushOrder
<1> QED BY <1>3, <1>4, <1>5

\* The inductive invariant holds in every reachable state.
THEOREM RecorderInductive == Spec => []RInv
<1>1. Init => RInv
  BY InitRInv
<1>2. RInv /\ [Next]_vars => RInv'
  <2> SUFFICES ASSUME RInv, [Next]_vars PROVE RInv'
    OBVIOUS
  <2>1. CASE UNCHANGED vars
    BY <2>1 DEF vars, recordVars, flushVars, RInv, TypeOK, Conserved, FlushOrder
  <2> QED BY <2>1, RecordRInv, RunRInv, CloseRInv DEF Next
<1> QED BY <1>1, <1>2, PTL DEF Spec

\* Usage is conserved: an accepted record is buffered, in flight, or in exactly
\* one publish, across any number of flushes and Close calls.
THEOREM UsageConserved == Spec => []Conserved
<1>1. RInv => Conserved
  BY DEF RInv
<1> QED BY <1>1, RecorderInductive, PTL

\* Once a Close has returned, nothing that was accepted is left unsettled.
THEOREM NothingAfterClose == Spec => []CloseSettles
<1>1. RInv => CloseSettles
  BY DEF RInv, FlushOrder, CloseSettles
<1> QED BY <1>1, RecorderInductive, PTL

=============================================================================
