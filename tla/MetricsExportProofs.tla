------------------------ MODULE MetricsExportProofs ------------------------
(***************************************************************************)
(* Proofs about MetricsExport for any requests, series, cache capacity and *)
(* number of buckets.  What is published does not rest on the order of the *)
(* LRU list: for that, an entry may vanish at any Add.                     *)
(***************************************************************************)
EXTENDS MetricsExport, TLAPS

\* What every step keeps: the topic only grows, and an export's bucket is
\* read once.
Grows ==
    /\ published \subseteq published' /\ payload \subseteq payload'
    /\ \A q \in Requests : pc[q] # "idle" =>
           bucket'[q] = bucket[q] /\ pc'[q] # "idle"

\* Export q takes no part in the step.
Untouched(q) ==
    /\ pc'[q] = pc[q] /\ bucket'[q] = bucket[q] /\ todo'[q] = todo[q]
    /\ out'[q] = out[q] /\ want'[q] = want[q]
    /\ sp'[q] = sp[q] /\ mp'[q] = mp[q]

\* A mark stays justified while the cache is left alone.
LEMMA MarksKept ==
    ASSUME MInv, Grows, mark' = mark
    PROVE  MarksArePublished'
<1> SUFFICES ASSUME NEW s \in Series, mark[s] # 0
             PROVE  \E q \in Requests :
                        <<q, s>> \in published' /\ bucket'[q] = mark[s]
  BY DEF MarksArePublished
<1>1. PICK q \in Requests : <<q, s>> \in published /\ bucket[q] = mark[s]
  BY DEF MInv, MarksArePublished
<1>2. pc[q] # "idle"
  BY <1>1 DEF MInv, PublishersBegan
<1> QED BY <1>1, <1>2 DEF Grows

\* The exports that do not move keep their part of the invariant.
LEMMA OthersKept ==
    ASSUME MInv, Grows, NEW q \in Requests, Untouched(q)
    PROVE  ExportProgress(q)'
<1>1. ExportProgress(q)
  BY DEF MInv
<1>2. want[q] \subseteq Series
  BY DEF MInv, ExportTypes
<1>3. \A o \in Requests, s \in Series : <<o, s>> \in published =>
          <<o, s>> \in published' /\ bucket'[o] = bucket[o]
  BY DEF MInv, PublishersBegan, Grows
<1>4. \A s \in want[q] :
          (\E o \in Requests : <<o, s>> \in published /\ bucket[o] >= bucket[q])
          => \E o \in Requests :
                 <<o, s>> \in published' /\ bucket'[o] >= bucket'[q]
  BY <1>2, <1>3 DEF Untouched
<1> QED BY <1>1, <1>4 DEF Untouched, ExportProgress, Grows, PublishedSince

\* The initial state satisfies the invariant.
LEMMA InitMInv == Init => MInv
<1> SUFFICES ASSUME Init PROVE MInv
  OBVIOUS
<1>1. ExportTypes
  BY MaxBucketAssumption DEF Init, ExportTypes, Buckets, Steps, Outcomes
<1>2. MarksArePublished /\ PublishersBegan
  BY DEF Init, MarksArePublished, PublishersBegan
<1>3. \A r \in Requests : ExportProgress(r)
  BY DEF Init, ExportProgress
<1> QED BY <1>1, <1>2, <1>3 DEF MInv

\* The steps that leave the cache's marks alone.
LEMMA QuietStep ==
    ASSUME MInv, NEW r \in Requests, ExportTypes', Grows, mark' = mark,
           PublishersBegan', ExportProgress(r)',
           \A q \in Requests \ {r} : Untouched(q)
    PROVE  MInv'
<1>1. MarksArePublished'
  BY MarksKept
<1>2. \A q \in Requests \ {r} : ExportProgress(q)'
  BY OthersKept
<1>3. \A q \in Requests : ExportProgress(q)'
  BY <1>2
<1> QED BY <1>1, <1>3 DEF MInv

\* Add keeps the types and gives s the mark b; any other mark is as before or
\* is gone.
LEMMA AddMarks ==
    ASSUME ExportTypes, NEW s \in Series, NEW b \in Buckets, Add(s, b)
    PROVE  /\ mark' \in [Series -> 0 .. MaxBucket]
           /\ \A k \in Series : mark'[k] \in {0, mark[k]} \/ (k = s /\ mark'[k] = b)
<1> DEFINE full == Len(Touched(s)) > Capacity
           victim == Last(Touched(s))
           marked == [mark EXCEPT ![s] = b]
<1>1. mark' = IF full THEN [marked EXCEPT ![victim] = 0] ELSE marked
  BY DEF Add
<1> HIDE DEF full, victim
<1>2. \A k \in Series : mark'[k] \in {0, mark[k]} \/ (k = s /\ mark'[k] = b)
  BY <1>1 DEF ExportTypes
<1>3. \A k \in Series : mark'[k] \in 0 .. MaxBucket
  BY <1>2, MaxBucketAssumption DEF ExportTypes, Buckets
<1>4. mark' = [k \in Series |-> mark'[k]]
  BY <1>1 DEF ExportTypes
<1> QED BY <1>2, <1>3, <1>4


\* Begin reads the bucket and takes the request's series; nothing has been
\* published under this export before.
LEMMA BeginStep == ASSUME MInv, NEW r \in Requests, Begin(r) PROVE MInv'
<1> USE DEF cacheVars, topicVars, reqVars
<1>1. ExportTypes'
  BY DEF MInv, ExportTypes, Begin, Buckets, Steps, Acked
<1>2. Grows
  BY <1>1 DEF MInv, ExportTypes, Begin, Grows
<1>3. \A q \in Requests \ {r} : Untouched(q)
  BY DEF MInv, ExportTypes, Begin, Untouched
<1>4. PublishersBegan'
  BY DEF MInv, ExportTypes, PublishersBegan, Begin
<1>5. ExportProgress(r)'
  <2>1. ExportProgress(r)
    BY DEF MInv
  <2>2. /\ pc[r] = "idle" /\ pc'[r] = "filter"
        /\ todo'[r] = want'[r]
        /\ bucket'[r] # 0
        /\ UNCHANGED <<published, payload, out, sp, mp>>
    BY MaxBucketAssumption DEF MInv, ExportTypes, Begin, Buckets
  <2> QED BY <2>1, <2>2 DEF ExportProgress, PublishedSince
<1> QED BY <1>1, <1>2, <1>3, <1>4, <1>5, QuietStep DEF Begin

\* A series is dropped only for a mark of this bucket or a later one, and that
\* mark stands for a publish.
LEMMA FilterStep == ASSUME MInv, NEW r \in Requests, Filter(r) PROVE MInv'
<1> USE DEF cacheVars, topicVars, reqVars
<1>1. ExportTypes'
  BY DEF MInv, ExportTypes, Filter
<1>2. Grows
  BY DEF Filter, Grows
<1>3. \A q \in Requests \ {r} : Untouched(q)
  BY DEF MInv, ExportTypes, Filter, Untouched
<1>4. PublishersBegan'
  BY DEF MInv, PublishersBegan, Filter
<1>5. ExportProgress(r)'
  <2>1. ExportProgress(r)
    BY DEF MInv
  <2>2. PICK s \in todo[r] :
            /\ todo' = [todo EXCEPT ![r] = @ \ {s}]
            /\ out' = IF Hit(r, s) THEN out
                                   ELSE [out EXCEPT ![r] = @ \cup {s}]
    BY DEF Filter
  <2>3. s \in Series
    BY DEF MInv, ExportTypes
  <2>4. Hit(r, s) => PublishedSince(s, bucket[r])
    BY <2>3 DEF MInv, MarksArePublished, Hit, PublishedSince
  <2>5. \A k \in want[r] : \/ k \in todo'[r]
                           \/ k \in out'[r]
                           \/ PublishedSince(k, bucket[r])
    BY <2>1, <2>2, <2>4 DEF MInv, ExportTypes, ExportProgress, Filter
  <2>6. pc[r] = "filter" /\ pc'[r] = "filter"
    BY DEF Filter
  <2>7. UNCHANGED <<published, payload, bucket, want, sp, mp>>
    BY DEF Filter
  <2> QED BY <2>1, <2>5, <2>6, <2>7 DEF ExportProgress, PublishedSince
<1> QED BY <1>1, <1>2, <1>3, <1>4, <1>5, QuietStep DEF Filter

\* When the loop is over, what was not dropped is in out.
LEMMA PublishStep == ASSUME MInv, NEW r \in Requests, Publish(r) PROVE MInv'
<1> USE DEF cacheVars, topicVars, reqVars
<1>1. ExportTypes'
  BY DEF MInv, ExportTypes, Publish, Steps, Outcomes
<1>2. Grows
  BY DEF MInv, ExportTypes, Publish, Grows
<1>3. \A q \in Requests \ {r} : Untouched(q)
  BY DEF MInv, ExportTypes, Publish, Untouched
<1>4. PublishersBegan'
  BY DEF MInv, ExportTypes, PublishersBegan, Publish
<1>5. ExportProgress(r)'
  <2>1. ExportProgress(r)
    BY DEF MInv
  <2>2. /\ pc[r] = "filter" /\ todo[r] = {}
        /\ pc'[r] = "publish"
        /\ sp'[r] \in {"ok", "run"} /\ (sp'[r] = "ok" => out[r] = {})
        /\ mp'[r] = "run"
        /\ UNCHANGED <<published, payload, bucket, want, out>>
    BY DEF MInv, ExportTypes, Publish
  <2> QED BY <2>1, <2>2 DEF ExportProgress, PublishedSince
<1> QED BY <1>1, <1>2, <1>3, <1>4, <1>5, QuietStep DEF Publish

\* The two publishes only add to the topic, under an export that has begun.
LEMMA OutcomeStep ==
    ASSUME MInv, NEW r \in Requests,
           SeriesOK(r) \/ SeriesFail(r) \/ MetricsOK(r) \/ MetricsFail(r)
    PROVE  MInv'
<1> USE DEF cacheVars, topicVars, reqVars
<1>0. ExportProgress(r)
  BY DEF MInv
<1>1. out[r] \subseteq Series
  BY DEF MInv, ExportTypes
<1>2. /\ published \subseteq published'
      /\ published' \subseteq published \cup ({r} \X out[r])
      /\ payload \subseteq payload' /\ payload' \subseteq payload \cup {r}
      /\ UNCHANGED <<now, mark, evicted, pc, bucket, want, before, todo, out>>
  BY DEF SeriesOK, SeriesFail, MetricsOK, MetricsFail
<1>3. \/ /\ sp[r] = "run" /\ sp' = [sp EXCEPT ![r] = "ok"] /\ mp' = mp
         /\ {r} \X out[r] \subseteq published' /\ payload' = payload
      \/ sp[r] = "run" /\ sp' = [sp EXCEPT ![r] = "err"] /\ mp' = mp
      \/ /\ mp[r] = "run" /\ mp' = [mp EXCEPT ![r] = "ok"] /\ sp' = sp
         /\ r \in payload'
      \/ mp[r] = "run" /\ mp' = [mp EXCEPT ![r] = "err"] /\ sp' = sp
  BY DEF SeriesOK, SeriesFail, MetricsOK, MetricsFail
<1>4. ExportTypes'
  BY <1>1, <1>2, <1>3 DEF MInv, ExportTypes, Outcomes
<1>5. Grows
  BY <1>2 DEF Grows
<1>6. \A q \in Requests \ {r} : Untouched(q)
  BY <1>2, <1>3 DEF MInv, ExportTypes, Untouched
<1>7. pc[r] \in {"publish", "acked", "mark", "failed"}
  BY <1>0, <1>3 DEF MInv, ExportTypes, ExportProgress, Steps
<1>8. PublishersBegan'
  BY <1>2, <1>7 DEF MInv, PublishersBegan
<1>9. ExportProgress(r)'
  <2>1. \A s \in want[r] : s \in out[r] \/ PublishedSince(s, bucket[r]) =>
            s \in out'[r] \/ PublishedSince(s, bucket[r])'
    BY <1>2 DEF PublishedSince
  <2>2. pc[r] \notin {"mark", "acked"}
    BY <1>0, <1>3 DEF ExportProgress
  <2>3. sp'[r] = "ok" => \A s \in out'[r] : <<r, s>> \in published'
    BY <1>0, <1>2, <1>3 DEF MInv, ExportTypes, ExportProgress
  <2>4. mp'[r] = "ok" => r \in payload'
    BY <1>0, <1>2, <1>3 DEF MInv, ExportTypes, ExportProgress
  <2> QED BY <1>0, <1>2, <1>7, <2>1, <2>2, <2>3, <2>4
             DEF ExportProgress, PublishedSince
<1> QED BY <1>2, <1>4, <1>5, <1>6, <1>8, <1>9, QuietStep

\* Waiting for the publishes and the answer change no more than where the
\* export is.
LEMMA WaitStep ==
    ASSUME MInv, NEW r \in Requests, WaitOK(r) \/ WaitFail(r) \/ Ack(r)
    PROVE  MInv'
<1> USE DEF cacheVars, topicVars, reqVars
<1>1. ExportTypes'
  BY DEF MInv, ExportTypes, WaitOK, WaitFail, Ack, Steps
<1>2. Grows
  BY DEF MInv, ExportTypes, WaitOK, WaitFail, Ack, Grows
<1>3. \A q \in Requests \ {r} : Untouched(q)
  BY DEF MInv, ExportTypes, WaitOK, WaitFail, Ack, Untouched
<1>4. PublishersBegan'
  BY DEF MInv, ExportTypes, PublishersBegan, WaitOK, WaitFail, Ack
<1>5. ExportProgress(r)'
  <2>1. ExportProgress(r)
    BY DEF MInv
  <2>2. /\ pc[r] \in {"publish", "mark"}
        /\ pc'[r] \in {"mark", "acked"} => sp[r] = "ok" /\ mp[r] = "ok"
        /\ pc'[r] = "mark" => todo'[r] = out[r]
        /\ pc'[r] \in {"mark", "acked", "failed"}
        /\ UNCHANGED <<published, payload, bucket, want, out, sp, mp>>
    BY <2>1 DEF MInv, ExportTypes, ExportProgress, WaitOK, WaitFail, Ack
  <2> QED BY <2>1, <2>2 DEF ExportProgress, PublishedSince
<1>6. mark' = mark
  BY DEF WaitOK, WaitFail, Ack
<1> QED BY <1>1, <1>2, <1>3, <1>4, <1>5, <1>6, QuietStep

\* A mark is set by an export whose publish was complete, to its own bucket.
LEMMA MarkStep == ASSUME MInv, NEW r \in Requests, Mark(r) PROVE MInv'
<1> USE DEF topicVars, reqVars
<1>1. ExportProgress(r)
  BY DEF MInv
<1>2. /\ pc[r] = "mark"
      /\ UNCHANGED <<now, pc, bucket, want, before, out, sp, mp, published,
                     payload>>
  BY DEF Mark
<1>3. PICK s \in todo[r] : /\ todo' = [todo EXCEPT ![r] = @ \ {s}]
                           /\ Add(s, bucket[r])
  BY DEF Mark
<1>4. s \in Series /\ <<r, s>> \in published
  BY <1>1, <1>2, <1>3 DEF MInv, ExportTypes, ExportProgress
<1>5. bucket[r] \in Buckets
  BY <1>1, <1>2 DEF MInv, ExportTypes, ExportProgress, Buckets
<1>6. /\ mark' \in [Series -> 0 .. MaxBucket]
      /\ \A k \in Series :
             mark'[k] \in {0, mark[k]} \/ (k = s /\ mark'[k] = bucket[r])
  BY <1>3, <1>4, <1>5, AddMarks DEF MInv
<1>7. ExportTypes'
  BY <1>2, <1>3, <1>6 DEF MInv, ExportTypes
<1>8. MarksArePublished'
  <2> SUFFICES ASSUME NEW k \in Series, mark'[k] # 0
               PROVE  \E q \in Requests :
                          <<q, k>> \in published /\ bucket[q] = mark'[k]
    BY <1>2 DEF MarksArePublished
  <2>1. CASE mark'[k] = mark[k]
    BY <2>1 DEF MInv, MarksArePublished
  <2>2. CASE k = s /\ mark'[k] = bucket[r]
    BY <2>2, <1>4
  <2> QED BY <1>6, <2>1, <2>2
<1>9. PublishersBegan'
  BY <1>2 DEF MInv, PublishersBegan
<1>10. Grows
  BY <1>2 DEF Grows
<1>11. \A q \in Requests \ {r} : Untouched(q)
  BY <1>2, <1>3 DEF MInv, ExportTypes, Untouched
<1>12. ExportProgress(r)'
  BY <1>1, <1>2, <1>3 DEF MInv, ExportTypes, ExportProgress, PublishedSince
<1>13. \A q \in Requests \ {r} : ExportProgress(q)'
  BY <1>10, <1>11, OthersKept
<1>14. \A q \in Requests : ExportProgress(q)'
  BY <1>12, <1>13
<1> QED BY <1>7, <1>8, <1>9, <1>14 DEF MInv

\* The clock's step and stuttering.
LEMMA ClockStep == MInv /\ (NextBucket \/ UNCHANGED vars) => MInv'
<1> SUFFICES ASSUME MInv, NextBucket \/ UNCHANGED vars PROVE MInv'
  OBVIOUS
<1>1. /\ UNCHANGED <<mark, pc, bucket, todo, out, want, sp, mp, published,
                     payload, before>>
      /\ now' \in Buckets
  BY MaxBucketAssumption DEF NextBucket, vars, MInv, ExportTypes, Buckets
<1>2. ExportTypes' /\ MarksArePublished' /\ PublishersBegan'
  BY <1>1 DEF MInv, ExportTypes, MarksArePublished, PublishersBegan
<1>3. ASSUME NEW r \in Requests PROVE ExportProgress(r)'
  <2>1. ExportProgress(r)
    BY DEF MInv
  <2> QED BY <1>1, <2>1 DEF ExportProgress, PublishedSince
<1> QED BY <1>2, <1>3 DEF MInv

\* MInv holds in every reachable state, whatever exports interleave: an entry
\* of the deduplication cache stands for a publish, and a series that an
\* export has dropped is on the topic (publishPair).
THEOREM ExportInductive == Spec => []MInv
<1>1. Init => MInv
  BY InitMInv
<1>2. MInv /\ [Next]_vars => MInv'
  <2> SUFFICES ASSUME MInv, [Next]_vars PROVE MInv'
    OBVIOUS
  <2>1. CASE NextBucket \/ UNCHANGED vars
    BY <2>1, ClockStep
  <2>2. ASSUME NEW r \in Requests, Export(r) PROVE MInv'
    BY <2>2, BeginStep, FilterStep, PublishStep, OutcomeStep, WaitStep,
       MarkStep DEF Export
  <2> QED BY <2>1, <2>2 DEF Next
<1> QED BY <1>1, <1>2, PTL DEF Spec

\* An acknowledged export has its metric rows on the topic, and each of its
\* series published in its bucket or later, by any interleaving of exports,
\* failures and evictions (Handler.Export).
THEOREM AckedNeverLost == Spec => []AckedIsPublished
<1>1. MInv => AckedIsPublished
  <2> SUFFICES ASSUME MInv, NEW r \in Requests, pc[r] = "acked"
               PROVE  /\ r \in payload
                      /\ \A s \in want[r] : PublishedSince(s, bucket[r])
    BY DEF AckedIsPublished, Acked
  <2>1. ExportProgress(r)
    BY DEF MInv
  <2>2. \A s \in out[r] : PublishedSince(s, bucket[r])
    BY <2>1 DEF MInv, ExportTypes, ExportProgress, PublishedSince
  <2> QED BY <2>1, <2>2 DEF ExportProgress
<1> QED BY <1>1, ExportInductive, PTL

---------------------------------------------------------------------------
(* Repeated publishes *)

\* An export of an older bucket, not yet acknowledged when q began, has put s
\* on the topic.
Older(q, s) ==
    \E o \in Requests : /\ bucket[o] < bucket[q]
                        /\ o \notin before[q]
                        /\ <<o, s>> \in published

\* Export q has published s and marked it.
Marked(q, s) ==
    /\ <<q, s>> \in published
    /\ pc[q] = "acked" \/ (pc[q] = "mark" /\ s \notin todo[q])

\* Export r publishes s, or will, after q did in the same bucket.
Repeating(q, r, s) ==
    /\ q \in before[r] /\ bucket[q] = bucket[r]
    /\ <<q, s>> \in published /\ s \in out[r]

\* Only what has passed the filter is published.
OutPublished ==
    \A q \in Requests, s \in Series :
        <<q, s>> \in published => s \in out[q] /\ pc[q] \notin {"idle", "filter"}

\* What an export found acknowledged stays so; an idle one has found nothing.
BeforeAcked ==
    \A r \in Requests : /\ before[r] \subseteq Acked
                        /\ pc[r] = "idle" => out[r] = {}

\* A mark lasts, but for evictions and exports of older buckets.
MarksLast ==
    \A q \in Requests, s \in Series : Marked(q, s) =>
        s \in evicted \/ mark[s] >= bucket[q] \/ Older(q, s)

\* The filter lets a series through again for the same reasons only.
FilterHolds ==
    \A q, r \in Requests, s \in Series : Repeating(q, r, s) => s \in evicted \/ Older(q, s)

\* The strengthening that makes RepeatNeedsOverlap inductive, with MInv.
RepeatInv == OutPublished /\ BeforeAcked /\ MarksLast /\ FilterHolds

\* An export of an older bucket has published for good.
LEMMA OlderKept ==
    ASSUME MInv, Grows, NEW q \in Requests, pc[q] # "idle", before'[q] = before[q],
           NEW s \in Series, Older(q, s)
    PROVE  Older(q, s)'
<1>1. PICK o \in Requests : bucket[o] < bucket[q] /\ o \notin before[q] /\ <<o, s>> \in published
  BY DEF Older
<1>2. pc[o] # "idle"
  BY <1>1 DEF MInv, PublishersBegan
<1> QED BY <1>1, <1>2 DEF Older, Grows

\* A step keeps the invariant when it marks, and lets through, nothing but for
\* the reasons the invariant names.
LEMMA RepeatKept ==
    ASSUME MInv, RepeatInv, Grows, evicted \subseteq evicted', OutPublished', BeforeAcked',
           \A q \in Requests : pc[q] # "idle" => before'[q] = before[q],
           \A q \in Requests, s \in Series : Marked(q, s)' =>
                \/ Marked(q, s) /\ (mark'[s] = mark[s] \/ s \in evicted')
                \/ mark'[s] >= bucket'[q]
                \/ s \in evicted' \/ Older(q, s)',
           \A q, r \in Requests, s \in Series : Repeating(q, r, s)' =>
                Repeating(q, r, s) \/ s \in evicted \/ Older(q, s)
    PROVE  RepeatInv'
<1>1. ASSUME NEW q \in Requests, NEW s \in Series, <<q, s>> \in published
      PROVE  /\ pc[q] # "idle" /\ bucket'[q] = bucket[q]
             /\ Older(q, s) => Older(q, s)'
  <2>1. pc[q] # "idle"
    BY <1>1 DEF MInv, PublishersBegan
  <2> QED BY <2>1, OlderKept DEF Grows
<1>2. ASSUME NEW q \in Requests, NEW s \in Series, Marked(q, s)'
      PROVE  s \in evicted' \/ mark'[s] >= bucket'[q] \/ Older(q, s)'
  <2>1. CASE Marked(q, s) /\ mark'[s] = mark[s]
    <3>1. <<q, s>> \in published /\ (s \in evicted \/ mark[s] >= bucket[q] \/ Older(q, s))
      BY <2>1 DEF Marked, RepeatInv, MarksLast
    <3> QED BY <1>1, <2>1, <3>1
  <2> QED BY <1>2, <2>1
<1>3. ASSUME NEW q \in Requests, NEW r \in Requests, NEW s \in Series, Repeating(q, r, s)'
      PROVE  s \in evicted' \/ Older(q, s)'
  <2>1. s \in evicted \/ Older(q, s)
    BY <1>3 DEF RepeatInv, FilterHolds
  <2>2. CASE Older(q, s)
    <3>1. q \in before'[r]
      BY <1>3 DEF Repeating
    <3>2. pc[q] # "idle"
      <4>1. CASE pc[r] # "idle"
        <5>1. q \in before[r]
          BY <3>1, <4>1
        <5> QED BY <5>1 DEF RepeatInv, BeforeAcked, Acked
      <4>2. CASE pc[q] = "idle"
        <5>1. bucket[q] = 0
          BY <4>2 DEF MInv, ExportProgress
        <5>2. PICK o \in Requests : bucket[o] < bucket[q]
          BY <2>2 DEF Older
        <5>3. bucket[o] \in Nat
          BY DEF MInv, ExportTypes
        <5> QED BY <5>1, <5>2, <5>3
      <4> QED BY <4>2
    <3> QED BY <2>2, <3>2, OlderKept
  <2> QED BY <2>1, <2>2
<1> QED BY <1>2, <1>3 DEF RepeatInv, MarksLast, FilterHolds

\* What Begin finds acknowledged is; it lets nothing through.
LEMMA BeginRepeat ==
    ASSUME MInv, RepeatInv, Grows, NEW r \in Requests, Begin(r)
    PROVE  RepeatInv'
<1>1. /\ pc[r] = "idle" /\ pc' = [pc EXCEPT ![r] = "filter"]
      /\ bucket' = [bucket EXCEPT ![r] = now] /\ before' = [before EXCEPT ![r] = Acked]
      /\ UNCHANGED <<mark, evicted, out, published>>
      /\ \A q \in Requests \ {r} : todo'[q] = todo[q]
  BY DEF Begin, MInv, ExportTypes, cacheVars, topicVars
<1>2. /\ pc \in [Requests -> Steps] /\ bucket \in [Requests -> 0 .. MaxBucket]
      /\ before \in [Requests -> SUBSET Requests]
  BY DEF MInv, ExportTypes
<1>3. out[r] = {} /\ \A s \in Series : <<r, s>> \notin published
  BY <1>1 DEF RepeatInv, BeforeAcked, OutPublished
<1>4. Acked' = Acked
  BY <1>1, <1>2 DEF Acked
<1>5. OutPublished'
  BY <1>1, <1>2, <1>3 DEF RepeatInv, OutPublished
<1>6. BeforeAcked'
  BY <1>1, <1>2, <1>4 DEF RepeatInv, BeforeAcked
<1>7. \A q \in Requests : pc[q] # "idle" => before'[q] = before[q]
  BY <1>1, <1>2
<1>8. \A q \in Requests, s \in Series : Marked(q, s)' => Marked(q, s)
  BY <1>1, <1>2, <1>3 DEF Marked
<1>9. ASSUME NEW q \in Requests, NEW x \in Requests, NEW s \in Series, Repeating(q, x, s)'
      PROVE  Repeating(q, x, s)
  <2>1. x # r
    BY <1>1, <1>3, <1>9 DEF Repeating
  <2>2. q # r
    BY <1>1, <1>3, <1>9 DEF Repeating
  <2> QED BY <1>1, <1>2, <1>9, <2>1, <2>2 DEF Repeating
<1> QED BY <1>1, <1>5, <1>6, <1>7, <1>8, <1>9, RepeatKept

\* A series passes the filter when its mark is gone or older than the bucket.
LEMMA FilterRepeat ==
    ASSUME MInv, RepeatInv, Grows, NEW r \in Requests, Filter(r)
    PROVE  RepeatInv'
<1>1. PICK s \in todo[r] :
        /\ pc[r] = "filter" /\ todo' = [todo EXCEPT ![r] = @ \ {s}]
        /\ out' = IF Hit(r, s) THEN out ELSE [out EXCEPT ![r] = @ \cup {s}]
  BY DEF Filter
<1>2. UNCHANGED <<mark, evicted, pc, bucket, before, published>>
  BY DEF Filter, reqVars, topicVars
<1>3. /\ pc \in [Requests -> Steps] /\ out \in [Requests -> SUBSET Series]
      /\ todo \in [Requests -> SUBSET Series] /\ s \in Series
      /\ mark[s] \in Nat /\ \A q \in Requests : bucket[q] \in Nat
  BY <1>1 DEF MInv, ExportTypes
<1>4. \A q \in Requests : out[q] \subseteq out'[q] /\ (q # r => out'[q] = out[q])
  BY <1>1, <1>3
<1>5. OutPublished'
  BY <1>2, <1>4 DEF RepeatInv, OutPublished
<1>6. BeforeAcked'
  BY <1>1, <1>2, <1>4 DEF RepeatInv, BeforeAcked, Acked
<1>7. \A q \in Requests, x \in Series : Marked(q, x)' => Marked(q, x)
  BY <1>1, <1>2, <1>3 DEF Marked
<1>8. ASSUME NEW q \in Requests, NEW x \in Requests, NEW k \in Series, Repeating(q, x, k)',
             ~Repeating(q, x, k)
      PROVE  k \in evicted \/ Older(q, k)
  <2>1. /\ q \in before[x] /\ bucket[q] = bucket[x] /\ <<q, k>> \in published
        /\ k \notin out[x] /\ k \in out'[x]
    BY <1>2, <1>8 DEF Repeating
  <2>2. x = r /\ k = s /\ ~Hit(r, s)
    BY <1>1, <1>3, <1>4, <2>1
  <2>3. Marked(q, s)
    BY <2>1, <2>2 DEF RepeatInv, BeforeAcked, Acked, Marked
  <2>4. bucket[q] # 0
    BY <2>1 DEF MInv, PublishersBegan, ExportProgress
  <2>5. ~(mark[s] >= bucket[q])
    BY <1>3, <2>1, <2>2, <2>4 DEF Hit
  <2> QED BY <2>2, <2>3, <2>5 DEF RepeatInv, MarksLast
<1> QED BY <1>2, <1>5, <1>6, <1>7, <1>8, RepeatKept

\* The publishes put on the topic what has passed the filter.
LEMMA OutcomeRepeat ==
    ASSUME MInv, RepeatInv, Grows, NEW r \in Requests,
           Publish(r) \/ SeriesOK(r) \/ SeriesFail(r) \/ MetricsOK(r) \/ MetricsFail(r)
    PROVE  RepeatInv'
<1>0. ExportProgress(r) /\ pc \in [Requests -> Steps]
  BY DEF MInv, ExportTypes
<1>1. /\ published \subseteq published'
      /\ published' \subseteq published \cup ({r} \X out[r])
      /\ published' # published => sp[r] = "run"
      /\ UNCHANGED <<mark, evicted, bucket, before, todo, out>>
      /\ \/ pc' = pc
         \/ pc[r] = "filter" /\ pc' = [pc EXCEPT ![r] = "publish"] /\ published' = published
  BY DEF Publish, SeriesOK, SeriesFail, MetricsOK, MetricsFail, reqVars, cacheVars, topicVars
<1>2. sp[r] = "run" => pc[r] \notin {"idle", "filter", "mark", "acked"}
  BY <1>0 DEF ExportProgress
<1>3. \A q \in Requests :
        /\ pc'[q] = pc[q] \/ (q = r /\ pc[r] = "filter" /\ pc'[r] = "publish")
        /\ pc'[q] \in {"idle", "mark", "acked"} <=> pc[q] \in {"idle", "mark", "acked"}
        /\ pc'[q] \in {"idle", "mark", "acked"} => pc'[q] = pc[q]
  BY <1>0, <1>1
<1>4. OutPublished'
  BY <1>1, <1>2, <1>3 DEF RepeatInv, OutPublished
<1>5. Acked' = Acked
  BY <1>3 DEF Acked
<1>6. BeforeAcked'
  BY <1>1, <1>3, <1>5 DEF RepeatInv, BeforeAcked
<1>7. \A q \in Requests, s \in Series : Marked(q, s)' => Marked(q, s)
  BY <1>1, <1>2, <1>3 DEF Marked
<1>8. ASSUME NEW q \in Requests, NEW x \in Requests, NEW s \in Series, Repeating(q, x, s)'
      PROVE  Repeating(q, x, s)
  <2>1. q \in Acked
    BY <1>1, <1>8 DEF Repeating, RepeatInv, BeforeAcked
  <2>2. <<q, s>> \in published
    BY <1>1, <1>2, <1>8, <2>1 DEF Repeating, Acked
  <2> QED BY <1>1, <1>8, <2>2 DEF Repeating
<1> QED BY <1>1, <1>4, <1>6, <1>7, <1>8, RepeatKept

\* Waiting for the publishes and the answer mark nothing.
LEMMA WaitRepeat ==
    ASSUME MInv, RepeatInv, Grows, NEW r \in Requests, WaitOK(r) \/ WaitFail(r) \/ Ack(r)
    PROVE  RepeatInv'
<1>0. pc \in [Requests -> Steps] /\ todo \in [Requests -> SUBSET Series]
  BY DEF MInv, ExportTypes
<1>1. /\ UNCHANGED <<mark, evicted, bucket, before, out, published>>
      /\ \A q \in Requests \ {r} : pc'[q] = pc[q] /\ todo'[q] = todo[q]
      /\ \/ pc[r] = "publish" /\ pc'[r] = "mark" /\ todo'[r] = out[r]
         \/ pc[r] = "publish" /\ pc'[r] = "failed"
         \/ pc[r] = "mark" /\ todo[r] = {} /\ pc'[r] = "acked"
  BY <1>0 DEF WaitOK, WaitFail, Ack, reqVars, cacheVars, topicVars
<1>2. OutPublished'
  BY <1>1 DEF RepeatInv, OutPublished
<1>3. BeforeAcked'
  BY <1>1 DEF RepeatInv, BeforeAcked, Acked
<1>4. ASSUME NEW q \in Requests, NEW s \in Series, Marked(q, s)' PROVE Marked(q, s)
  <2>1. <<q, s>> \in published /\ s \in out[q]
    BY <1>1, <1>4 DEF Marked, RepeatInv, OutPublished
  <2>2. CASE q = r
    BY <1>1, <1>4, <2>1, <2>2 DEF Marked
  <2>3. CASE q # r
    BY <1>1, <1>4, <2>3 DEF Marked
  <2> QED BY <2>2, <2>3
<1>5. \A q, x \in Requests, s \in Series : Repeating(q, x, s)' => Repeating(q, x, s)
  BY <1>1 DEF Repeating
<1> QED BY <1>1, <1>2, <1>3, <1>4, <1>5, RepeatKept

\* A mark goes back only by an export of an older bucket, which is not
\* acknowledged yet, or by an eviction.
LEMMA MarkRepeat ==
    ASSUME MInv, RepeatInv, Grows, NEW r \in Requests, Mark(r)
    PROVE  RepeatInv'
<1>1. PICK s \in todo[r] : todo' = [todo EXCEPT ![r] = @ \ {s}] /\ Add(s, bucket[r])
  BY DEF Mark
<1>2. pc[r] = "mark" /\ UNCHANGED <<pc, bucket, before, out, published>>
  BY DEF Mark, reqVars, topicVars
<1>3. ExportProgress(r) /\ s \in Series /\ todo \in [Requests -> SUBSET Series]
      /\ \A q \in Requests : bucket[q] \in Nat
  BY <1>1 DEF MInv, ExportTypes
<1>4. <<r, s>> \in published
  BY <1>1, <1>2, <1>3 DEF ExportProgress
<1>5. /\ evicted \subseteq evicted'
      /\ \A k \in Series : \/ mark'[k] = mark[k] /\ k # s
                           \/ k \in evicted'
                           \/ k = s /\ mark'[k] = bucket[r]
  <2> DEFINE full == Len(Touched(s)) > Capacity
             victim == Last(Touched(s))
             marked == [mark EXCEPT ![s] = bucket[r]]
  <2>1. /\ mark' = IF full THEN [marked EXCEPT ![victim] = 0] ELSE marked
        /\ evicted' = IF full THEN evicted \cup {victim} ELSE evicted
    BY <1>1 DEF Add
  <2> HIDE DEF full, victim
  <2> QED BY <1>1, <2>1 DEF MInv, ExportTypes
<1>6. OutPublished' /\ BeforeAcked'
  BY <1>2 DEF RepeatInv, OutPublished, BeforeAcked, Acked
<1>7. ASSUME NEW q \in Requests, NEW k \in Series, Marked(q, k)'
      PROVE  \/ Marked(q, k) /\ (mark'[k] = mark[k] \/ k \in evicted')
             \/ mark'[k] >= bucket'[q]
             \/ k \in evicted' \/ Older(q, k)'
  <2>1. CASE k = s /\ mark'[k] = bucket[r]
    <3>1. CASE bucket[r] < bucket[q]
      <4>1. r \notin before[q]
        BY <1>2 DEF RepeatInv, BeforeAcked, Acked
      <4> QED BY <1>2, <1>4, <2>1, <3>1, <4>1 DEF Older
    <3>2. CASE ~(bucket[r] < bucket[q])
      BY <1>2, <1>3, <2>1, <3>2
    <3> QED BY <3>1, <3>2
  <2>2. CASE mark'[k] = mark[k] /\ k # s
    <3>1. k \in todo[q] => k \in todo'[q]
      BY <1>1, <1>3, <2>2
    <3> QED BY <1>2, <1>7, <2>2, <3>1 DEF Marked
  <2> QED BY <1>5, <2>1, <2>2
<1>8. \A q, x \in Requests, k \in Series : Repeating(q, x, k)' => Repeating(q, x, k)
  BY <1>2 DEF Repeating
<1> QED BY <1>2, <1>5, <1>6, <1>7, <1>8, RepeatKept

\* No step takes anything off the topic or changes the bucket of an export.
LEMMA StepGrows == ASSUME MInv, [Next]_vars PROVE Grows
<1> USE DEF cacheVars, topicVars, reqVars
<1>1. pc \in [Requests -> Steps] /\ bucket \in [Requests -> 0 .. MaxBucket]
  BY DEF MInv, ExportTypes
<1>2. ASSUME NEW r \in Requests, Begin(r) PROVE Grows
  BY <1>1, <1>2 DEF Begin, Grows
<1>3. ASSUME NEW r \in Requests, Filter(r) \/ Mark(r) PROVE Grows
  BY <1>3 DEF Filter, Mark, Grows
<1>4. ASSUME NEW r \in Requests, Publish(r) \/ WaitOK(r) \/ WaitFail(r) \/ Ack(r) PROVE Grows
  BY <1>1, <1>4 DEF Publish, WaitOK, WaitFail, Ack, Grows
<1>5. ASSUME NEW r \in Requests, SeriesOK(r) \/ SeriesFail(r) \/ MetricsOK(r) \/ MetricsFail(r)
      PROVE  Grows
  BY <1>5 DEF SeriesOK, SeriesFail, MetricsOK, MetricsFail, Grows
<1>6. CASE NextBucket \/ UNCHANGED vars
  BY <1>6 DEF NextBucket, vars, Grows
<1> QED BY <1>2, <1>3, <1>4, <1>5, <1>6 DEF Next, Export

\* A series is published again in one bucket, after an acknowledged publish,
\* only when its mark was evicted or an export of an older bucket, still running
\* when the first one began, has overwritten it.
THEOREM RepeatsHaveCause == Spec => []RepeatNeedsOverlap
<1>1. Init => RepeatInv
  BY DEF Init, RepeatInv, OutPublished, BeforeAcked, MarksLast, FilterHolds, Marked, Repeating
<1>2. MInv /\ RepeatInv /\ [Next]_vars => RepeatInv'
  <2> SUFFICES ASSUME MInv, RepeatInv, [Next]_vars PROVE RepeatInv'
    OBVIOUS
  <2>1. Grows
    BY StepGrows
  <2>2. ASSUME NEW r \in Requests, Export(r) PROVE RepeatInv'
    BY <2>1, <2>2, BeginRepeat, FilterRepeat, OutcomeRepeat, WaitRepeat, MarkRepeat DEF Export
  <2>3. CASE NextBucket \/ UNCHANGED vars
    <3>1. UNCHANGED <<mark, evicted, pc, bucket, todo, out, published, before>>
      BY <2>3 DEF NextBucket, vars
    <3> QED BY <3>1 DEF RepeatInv, OutPublished, BeforeAcked, MarksLast, FilterHolds, Marked,
                        Repeating, Older, Acked
  <2> QED BY <2>2, <2>3 DEF Next
<1>3. RepeatInv => RepeatNeedsOverlap
  <2> SUFFICES ASSUME RepeatInv, NEW q \in Requests, NEW r \in Requests, NEW s \in Series,
                      Repeats(q, r, s)
               PROVE  s \in evicted \/ Older(q, s)
    BY DEF RepeatNeedsOverlap, Older
  <2>1. Repeating(q, r, s)
    BY DEF Repeats, Repeating, RepeatInv, OutPublished
  <2> QED BY <2>1 DEF RepeatInv, FilterHolds
<1> QED BY <1>1, <1>2, <1>3, ExportInductive, PTL DEF Spec

---------------------------------------------------------------------------
(* The recency list of the cache *)

\* A sequence less one of its elements.
LEMMA RemoveAtIs ==
    ASSUME NEW S, NEW q \in Seq(S), NEW i \in 1 .. Len(q)
    PROVE  /\ RemoveAt(q, i) \in Seq(S)
           /\ Len(RemoveAt(q, i)) = Len(q) - 1
           /\ \A j \in 1 .. Len(q) - 1 : RemoveAt(q, i)[j] = IF j < i THEN q[j] ELSE q[j + 1]
<1>1. PICK a : a = SubSeq(q, 1, i - 1)
  OBVIOUS
<1>2. PICK b : b = SubSeq(q, i + 1, Len(q))
  OBVIOUS
<1>3. a \in Seq(S) /\ Len(a) = i - 1 /\ \A j \in 1 .. i - 1 : a[j] = q[j]
  BY <1>1
<1>4. b \in Seq(S) /\ Len(b) = Len(q) - i /\ \A j \in 1 .. Len(q) - i : b[j] = q[i + j]
  BY <1>2
<1>5. RemoveAt(q, i) = a \o b
  BY <1>1, <1>2 DEF RemoveAt
<1>6. a \o b \in Seq(S) /\ Len(a \o b) = Len(q) - 1
  BY <1>3, <1>4
<1>7. ASSUME NEW j \in 1 .. Len(q) - 1
      PROVE  (a \o b)[j] = IF j < i THEN q[j] ELSE q[j + 1]
  <2>1. CASE j < i
    BY <1>3, <1>4, <2>1
  <2>2. CASE ~(j < i)
    <3>1. (a \o b)[j] = b[j - (i - 1)]
      BY <1>3, <1>4, <2>2
    <3>2. j - (i - 1) \in 1 .. Len(q) - i /\ i + (j - (i - 1)) = j + 1
      BY <2>2
    <3> QED BY <1>4, <2>2, <3>1, <3>2
  <2> QED BY <2>1, <2>2
<1> QED BY <1>5, <1>6, <1>7

\* An element put in front of a sequence.
LEMMA ConsIs ==
    ASSUME NEW S, NEW q \in Seq(S), NEW s \in S
    PROVE  /\ <<s>> \o q \in Seq(S) /\ Len(<<s>> \o q) = Len(q) + 1
           /\ (<<s>> \o q)[1] = s
           /\ \A j \in 1 .. Len(q) : (<<s>> \o q)[j + 1] = q[j]
OBVIOUS

\* What the keys of the cache satisfy, besides the capacity.
Keys(q) == q \in Seq(Series) /\ IsInjective(q)

\* A new first element of a list that does not have it.
LEMMA ConsKeys ==
    ASSUME NEW q, Keys(q), NEW s \in Series, s \notin ToSet(q)
    PROVE  /\ Keys(<<s>> \o q) /\ ToSet(<<s>> \o q) = ToSet(q) \cup {s}
           /\ Len(<<s>> \o q) = Len(q) + 1
<1>1. q \in Seq(Series) /\ Len(q) \in Nat /\ DOMAIN q = 1 .. Len(q)
  BY DEF Keys
<1>2. PICK t : t = <<s>> \o q
  OBVIOUS
<1>3. /\ t \in Seq(Series) /\ Len(t) = Len(q) + 1 /\ t[1] = s
      /\ \A j \in 1 .. Len(q) : t[j + 1] = q[j]
  BY <1>1, <1>2, ConsIs
<1>4. DOMAIN t = 1 .. Len(q) + 1
  BY <1>1, <1>3
<1>5. \A j \in 1 .. Len(q) + 1 : j = 1 \/ (j - 1 \in 1 .. Len(q) /\ t[j] = q[j - 1])
  <2> SUFFICES ASSUME NEW j \in 1 .. Len(q) + 1, j # 1
               PROVE  j - 1 \in 1 .. Len(q) /\ t[j] = q[j - 1]
    OBVIOUS
  <2>1. j - 1 \in 1 .. Len(q) /\ (j - 1) + 1 = j
    BY <1>1
  <2> QED BY <1>3, <2>1
<1>6. \A j \in 1 .. Len(q) : q[j] # s
  BY <1>1 DEF ToSet
<1>7. IsInjective(t)
  <2> SUFFICES ASSUME NEW j \in 1 .. Len(q) + 1, NEW k \in 1 .. Len(q) + 1, t[j] = t[k]
               PROVE  j = k
    BY <1>4 DEF IsInjective
  <2>1. CASE j = 1 \/ k = 1
    <3>1. \A i \in 1 .. Len(q) + 1 : i # 1 => t[i] # s
      BY <1>5, <1>6
    <3> QED BY <1>3, <2>1, <3>1
  <2>2. CASE j # 1 /\ k # 1
    <3>1. q[j - 1] = q[k - 1] /\ j - 1 \in DOMAIN q /\ k - 1 \in DOMAIN q
      BY <1>1, <1>5, <2>2
    <3>2. j - 1 = k - 1
      BY <3>1 DEF Keys, IsInjective
    <3> QED BY <1>1, <3>2
  <2> QED BY <2>1, <2>2
<1>8. ToSet(t) = ToSet(q) \cup {s}
  <2>1. ASSUME NEW x \in ToSet(t) PROVE x \in ToSet(q) \cup {s}
    <3>1. PICK j \in 1 .. Len(q) + 1 : x = t[j]
      BY <1>4, <2>1 DEF ToSet
    <3>2. CASE j = 1
      BY <1>3, <3>1, <3>2
    <3>3. CASE j # 1
      <4>1. j - 1 \in DOMAIN q /\ x = q[j - 1]
        BY <1>1, <1>5, <3>1, <3>3
      <4> QED BY <4>1 DEF ToSet
    <3> QED BY <3>2, <3>3
  <2>2. s \in ToSet(t)
    <3>1. 1 \in DOMAIN t
      BY <1>1, <1>4
    <3> QED BY <1>3, <3>1 DEF ToSet
  <2>3. ASSUME NEW x \in ToSet(q) PROVE x \in ToSet(t)
    <3>1. PICK j \in 1 .. Len(q) : x = q[j]
      BY <1>1, <2>3 DEF ToSet
    <3>2. j + 1 \in DOMAIN t /\ t[j + 1] = x
      BY <1>1, <1>3, <1>4, <3>1
    <3> QED BY <3>2 DEF ToSet
  <2> QED BY <2>1, <2>2, <2>3
<1> QED BY <1>2, <1>3, <1>7, <1>8 DEF Keys

\* A list less one of its keys.
LEMMA RemoveKeys ==
    ASSUME NEW q, Keys(q), NEW i \in DOMAIN q
    PROVE  /\ Keys(RemoveAt(q, i)) /\ ToSet(RemoveAt(q, i)) = ToSet(q) \ {q[i]}
           /\ Len(RemoveAt(q, i)) = Len(q) - 1
<1>1. q \in Seq(Series) /\ Len(q) \in Nat /\ DOMAIN q = 1 .. Len(q) /\ i \in 1 .. Len(q)
  BY DEF Keys
<1>2. PICK t : t = RemoveAt(q, i)
  OBVIOUS
<1>3. /\ t \in Seq(Series) /\ Len(t) = Len(q) - 1
      /\ \A j \in 1 .. Len(q) - 1 : t[j] = IF j < i THEN q[j] ELSE q[j + 1]
  BY <1>1, <1>2, RemoveAtIs
<1>4. DOMAIN t = 1 .. Len(q) - 1
  BY <1>1, <1>3
<1> DEFINE at(j) == IF j < i THEN j ELSE j + 1
<1>5. \A j \in 1 .. Len(q) - 1 : at(j) \in DOMAIN q /\ at(j) # i /\ t[j] = q[at(j)]
  BY <1>1, <1>3
<1>6. \A j, k \in 1 .. Len(q) - 1 : at(j) = at(k) => j = k
  BY <1>1
<1>7. \A k \in 1 .. Len(q) : k # i => \E j \in 1 .. Len(q) - 1 : at(j) = k
  <2> SUFFICES ASSUME NEW k \in 1 .. Len(q), k # i
               PROVE  \E j \in 1 .. Len(q) - 1 : at(j) = k
    OBVIOUS
  <2>1. CASE k < i
    <3>1. k \in 1 .. Len(q) - 1 /\ at(k) = k
      BY <1>1, <2>1
    <3> QED BY <3>1
  <2>2. CASE ~(k < i)
    <3>1. k - 1 \in 1 .. Len(q) - 1 /\ at(k - 1) = k
      BY <1>1, <2>2
    <3> QED BY <3>1
  <2> QED BY <2>1, <2>2
<1> HIDE DEF at
<1>8. IsInjective(t)
  <2> SUFFICES ASSUME NEW j \in 1 .. Len(q) - 1, NEW k \in 1 .. Len(q) - 1, t[j] = t[k]
               PROVE  j = k
    BY <1>4 DEF IsInjective
  <2>1. at(j) = at(k)
    BY <1>5 DEF Keys, IsInjective
  <2> QED BY <1>6, <2>1
<1>9. ToSet(t) = ToSet(q) \ {q[i]}
  <2>1. ASSUME NEW x \in ToSet(t) PROVE x \in ToSet(q) \ {q[i]}
    <3>1. PICK j \in 1 .. Len(q) - 1 : x = t[j]
      BY <1>4, <2>1 DEF ToSet
    <3>2. x = q[at(j)] /\ at(j) \in DOMAIN q /\ at(j) # i
      BY <1>5, <3>1
    <3> QED BY <3>2 DEF ToSet, Keys, IsInjective
  <2>2. ASSUME NEW x \in ToSet(q), x # q[i] PROVE x \in ToSet(t)
    <3>1. PICK k \in 1 .. Len(q) : x = q[k] /\ k # i
      BY <1>1, <2>2 DEF ToSet
    <3>2. PICK j \in 1 .. Len(q) - 1 : at(j) = k
      BY <1>7, <3>1
    <3>3. j \in DOMAIN t /\ t[j] = x
      BY <1>4, <1>5, <3>1, <3>2
    <3> QED BY <3>3 DEF ToSet
  <2> QED BY <2>1, <2>2
<1> QED BY <1>2, <1>3, <1>8, <1>9 DEF Keys

\* A key that is used moves to the front; a new one is put there.
LEMMA TouchedKeys ==
    ASSUME Keys(recent), NEW s \in Series
    PROVE  /\ Keys(Touched(s)) /\ ToSet(Touched(s)) = ToSet(recent) \cup {s}
           /\ Len(Touched(s)) = IF s \in ToSet(recent) THEN Len(recent) ELSE Len(recent) + 1
<1>1. CASE s \in ToSet(recent)
  <2>1. PICK i \in DOMAIN recent :
            i = (CHOOSE j \in DOMAIN recent : recent[j] = s) /\ recent[i] = s
    BY <1>1 DEF ToSet
  <2>2. PICK q : q = RemoveAt(recent, i)
    OBVIOUS
  <2>3. Keys(q) /\ ToSet(q) = ToSet(recent) \ {s} /\ Len(q) = Len(recent) - 1
    BY <2>1, <2>2, RemoveKeys
  <2>4. Touched(s) = <<s>> \o q
    BY <1>1, <2>1, <2>2 DEF Touched
  <2>5. /\ Keys(<<s>> \o q) /\ ToSet(<<s>> \o q) = ToSet(q) \cup {s}
        /\ Len(<<s>> \o q) = Len(q) + 1
    BY <2>3, ConsKeys
  <2>6. Len(recent) \in Nat
    BY DEF Keys
  <2> QED BY <1>1, <2>3, <2>4, <2>5, <2>6
<1>2. CASE s \notin ToSet(recent)
  BY <1>2, ConsKeys DEF Touched
<1> QED BY <1>1, <1>2

\* The list less its last key.
LEMMA FrontKeys ==
    ASSUME NEW q, Keys(q), Len(q) > 0
    PROVE  /\ Keys(Front(q)) /\ ToSet(Front(q)) = ToSet(q) \ {Last(q)}
           /\ Len(Front(q)) = Len(q) - 1 /\ Last(q) \in Series
<1>1. q \in Seq(Series) /\ Len(q) \in Nat /\ DOMAIN q = 1 .. Len(q) /\ Len(q) \in DOMAIN q
  BY DEF Keys
<1>2. Front(q) \in Seq(Series) /\ Len(Front(q)) = Len(q) - 1
      /\ \A j \in 1 .. Len(q) - 1 : Front(q)[j] = q[j]
  BY <1>1 DEF Front
<1>3. PICK t : t = Front(q)
  OBVIOUS
<1>4. t \in Seq(Series) /\ Len(t) = Len(q) - 1
  BY <1>2, <1>3
<1>5. \A j \in 1 .. Len(q) - 1 : t[j] = q[j]
  BY <1>2, <1>3, Zenon
<1>6. /\ t \in Seq(Series) /\ Len(t) = Len(q) - 1 /\ DOMAIN t = 1 .. Len(q) - 1
      /\ \A j \in 1 .. Len(q) - 1 : t[j] = q[j]
  <2>1. DOMAIN t = 1 .. Len(q) - 1
    BY <1>1, <1>4
  <2> QED BY <1>4, <1>5, <2>1
<1>7. IsInjective(t)
  <2> SUFFICES ASSUME NEW j \in 1 .. Len(q) - 1, NEW k \in 1 .. Len(q) - 1, t[j] = t[k]
               PROVE  j = k
    BY <1>6 DEF IsInjective
  <2>1. j \in DOMAIN q /\ k \in DOMAIN q /\ q[j] = q[k]
    BY <1>1, <1>6
  <2> QED BY <2>1 DEF Keys, IsInjective
<1>8. ToSet(t) = ToSet(q) \ {Last(q)}
  <2>1. ASSUME NEW x \in ToSet(t) PROVE x \in ToSet(q) \ {Last(q)}
    <3>1. PICK j \in 1 .. Len(q) - 1 : x = t[j]
      BY <1>6, <2>1 DEF ToSet
    <3>2. x = q[j]
      BY <1>6, <3>1
    <3>3. j \in DOMAIN q /\ j # Len(q)
      <4> DEFINE n == Len(q)
      <4>1. n \in Nat /\ j \in 1 .. n - 1
        BY <1>1
      <4> HIDE DEF n
      <4>2. j \in 1 .. n /\ j # n
        BY <4>1
      <4> QED BY <1>1, <4>2 DEF n
    <3>4. q[j] # q[Len(q)]
      BY <1>1, <3>3 DEF Keys, IsInjective
    <3> QED BY <3>2, <3>3, <3>4 DEF ToSet, Last
  <2>2. ASSUME NEW x \in ToSet(q), x # Last(q) PROVE x \in ToSet(t)
    <3>1. PICK j \in 1 .. Len(q) : x = q[j] /\ j # Len(q)
      BY <1>1, <2>2 DEF ToSet, Last
    <3>2. j \in 1 .. Len(q) - 1
      <4> DEFINE n == Len(q)
      <4>1. n \in Nat /\ j \in 1 .. n /\ j # n
        BY <1>1, <3>1
      <4> HIDE DEF n
      <4>2. j \in 1 .. n - 1
        BY <4>1
      <4> QED BY <4>2 DEF n
    <3>3. j \in DOMAIN t /\ t[j] = x
      BY <1>6, <3>1, <3>2
    <3> QED BY <3>3 DEF ToSet
  <2> QED BY <2>1, <2>2
<1>9. Last(q) \in Series
  BY <1>1 DEF Last
<1> QED BY <1>3, <1>6, <1>7, <1>8, <1>9 DEF Keys

\* The list names the marked keys, and no more than fit.
RecencyInv ==
    /\ evicted \subseteq Series
    /\ Keys(recent) /\ Len(recent) <= Capacity
    /\ ToSet(recent) = {s \in Series : mark[s] # 0}

\* Add evicts the least recent key when, and only when, a new one does not fit.
LEMMA AddRecency ==
    ASSUME RecencyInv, ExportTypes, NEW s \in Series, NEW b \in Buckets, Add(s, b)
    PROVE  RecencyInv'
<1>1. PICK keys : keys = Touched(s)
  OBVIOUS
<1>2. /\ Keys(keys) /\ ToSet(keys) = ToSet(recent) \cup {s}
      /\ Len(keys) = IF s \in ToSet(recent) THEN Len(recent) ELSE Len(recent) + 1
  BY <1>1, TouchedKeys DEF RecencyInv
<1>3. Len(recent) \in Nat /\ Len(recent) <= Capacity /\ Capacity \in Nat \ {0} /\ Len(keys) \in Nat
  BY <1>2, CapacityAssumption DEF RecencyInv, Keys
<1>4. b # 0 /\ mark \in [Series -> 0 .. MaxBucket]
  BY DEF ExportTypes, Buckets
<1>5. \A k \in Series : mark[k] # 0 <=> k \in ToSet(recent)
  BY DEF RecencyInv
<1>6. CASE Len(keys) > Capacity
  <2>1. PICK victim : victim = Last(keys)
    OBVIOUS
  <2>2. /\ recent' = Front(keys) /\ evicted' = evicted \cup {victim}
        /\ mark' = [[mark EXCEPT ![s] = b] EXCEPT ![victim] = 0]
    BY <1>1, <1>6, <2>1 DEF Add
  <2>3. /\ Keys(recent') /\ ToSet(recent') = ToSet(keys) \ {victim}
        /\ Len(recent') = Len(keys) - 1 /\ victim \in Series
    BY <1>2, <1>3, <1>6, <2>1, <2>2, FrontKeys
  <2>4. Len(recent') <= Capacity
    BY <1>2, <1>3, <2>3
  <2>5. ASSUME NEW k \in Series PROVE mark'[k] # 0 <=> k \in ToSet(recent')
    <3>1. CASE k = victim
      <4>1. mark'[k] = 0
        BY <1>4, <2>2, <3>1
      <4>2. k \notin ToSet(recent')
        BY <2>3, <3>1
      <4> QED BY <4>1, <4>2
    <3>2. CASE k # victim /\ k = s
      BY <1>2, <1>4, <2>2, <2>3, <3>2
    <3>3. CASE k # victim /\ k # s
      <4>1. mark'[k] = mark[k]
        BY <1>4, <2>2, <3>3
      <4> QED BY <1>2, <1>5, <2>3, <3>3, <4>1
    <3> QED BY <3>1, <3>2, <3>3
  <2>6. ToSet(recent') \subseteq Series
    BY <2>3 DEF Keys, ToSet
  <2> QED BY <2>2, <2>3, <2>4, <2>5, <2>6 DEF RecencyInv
<1>7. CASE ~(Len(keys) > Capacity)
  <2>1. /\ recent' = keys /\ evicted' = evicted
        /\ mark' = [mark EXCEPT ![s] = b]
    BY <1>1, <1>7 DEF Add
  <2>2. ASSUME NEW k \in Series PROVE mark'[k] # 0 <=> k \in ToSet(recent')
    BY <1>2, <1>4, <1>5, <2>1
  <2>3. ToSet(recent') \subseteq Series
    BY <1>2, <2>1 DEF Keys, ToSet
  <2>4. Len(recent') <= Capacity
    BY <1>3, <1>7, <2>1
  <2> QED BY <1>2, <2>1, <2>2, <2>3, <2>4 DEF RecencyInv
<1> QED BY <1>6, <1>7

\* Every step keeps the list in step with the marks.
LEMMA RecencyStep == MInv /\ RecencyInv /\ [Next]_vars => RecencyInv'
<1> SUFFICES ASSUME MInv, RecencyInv, [Next]_vars PROVE RecencyInv'
  OBVIOUS
<1>1. CASE UNCHANGED cacheVars
  BY <1>1 DEF RecencyInv, Keys, cacheVars
<1>2. ASSUME NEW r \in Requests, Mark(r) PROVE RecencyInv'
  <2>1. PICK s \in todo[r] : Add(s, bucket[r])
    BY <1>2 DEF Mark
  <2>2. s \in Series /\ bucket[r] \in Buckets
    <3>1. ExportProgress(r) /\ pc[r] = "mark"
      BY <1>2 DEF MInv, Mark
    <3> QED BY <3>1 DEF MInv, ExportTypes, ExportProgress, Buckets
  <2> QED BY <2>1, <2>2, AddRecency DEF MInv
<1>3. ASSUME NEW r \in Requests, Filter(r) PROVE RecencyInv'
  <2>1. PICK s \in todo[r] : recent' = IF mark[s] # 0 THEN Touched(s) ELSE recent
    BY <1>3 DEF Filter
  <2>2. UNCHANGED <<mark, evicted>>
    BY <1>3 DEF Filter
  <2>3. CASE mark[s] # 0
    <3>1. s \in Series /\ s \in ToSet(recent)
      BY <2>3 DEF MInv, ExportTypes, RecencyInv
    <3>2. Keys(recent') /\ ToSet(recent') = ToSet(recent) /\ Len(recent') = Len(recent)
      BY <2>1, <2>3, <3>1, TouchedKeys DEF RecencyInv
    <3> QED BY <2>2, <3>2 DEF RecencyInv
  <2>4. CASE mark[s] = 0
    BY <2>1, <2>2, <2>4 DEF RecencyInv, Keys
  <2> QED BY <2>3, <2>4
<1>4. ASSUME NEW r \in Requests,
             \/ Begin(r) \/ Publish(r) \/ SeriesOK(r) \/ SeriesFail(r) \/ MetricsOK(r)
             \/ MetricsFail(r) \/ WaitOK(r) \/ WaitFail(r) \/ Ack(r)
      PROVE  RecencyInv'
  BY <1>1, <1>4 DEF Begin, Publish, SeriesOK, SeriesFail, MetricsOK, MetricsFail, WaitOK,
                    WaitFail, Ack
<1>5. CASE NextBucket \/ UNCHANGED vars
  BY <1>1, <1>5 DEF NextBucket, vars, cacheVars
<1> QED BY <1>2, <1>3, <1>4, <1>5 DEF Next, Export

\* Whatever exports interleave their Gets and Adds, the cache never outgrows its
\* capacity and its recency list names each marked key once.
THEOREM CacheBounded == Spec => []TypeOK
<1>1. Init => RecencyInv
  <2> SUFFICES ASSUME Init PROVE RecencyInv
    OBVIOUS
  <2>1. /\ recent = <<>> /\ evicted = {} /\ \A s \in Series : mark[s] = 0
    BY DEF Init
  <2>2. recent \in Seq(Series) /\ Len(recent) = 0 /\ DOMAIN recent = {}
    BY <2>1
  <2> QED BY <2>1, <2>2, CapacityAssumption DEF RecencyInv, Keys, IsInjective, ToSet
<1>2. MInv /\ RecencyInv => TypeOK
  BY DEF MInv, RecencyInv, Keys, TypeOK
<1> QED BY <1>1, <1>2, RecencyStep, ExportInductive, PTL DEF Spec

=============================================================================
