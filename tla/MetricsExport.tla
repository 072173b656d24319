--------------------------- MODULE MetricsExport ---------------------------
(***************************************************************************)
(* Concurrent metric exports of one pod and their series deduplication:    *)
(* Handler.Export and publishPair (metrics/handler.go), PublishMetricPair  *)
(* (core/paired_publisher.go) and Dedup (metricseries/dedup.go).           *)
(*                                                                         *)
(* An export reads the wall clock's republish bucket, drops the series     *)
(* whose mark in the shared LRU cache is not older than that bucket,       *)
(* publishes the rest together with the metric rows, and marks them once   *)
(* both publishes succeeded.  Nothing holds a lock over the three steps:   *)
(* the cache locks each Get and Add only.                                  *)
(*                                                                         *)
(* A request is the handling of one RPC; a client's retry is a new one.    *)
(* The keys <tenant, fingerprint> are the members of Series.               *)
(***************************************************************************)
EXTENDS Naturals, FiniteSets, Sequences, SequencesExt

CONSTANTS
    Requests,   \* the exports, each handled once
    Series,     \* deduplication keys
    Capacity,   \* NewDedup's capacity
    MaxBucket   \* bound: the clock stops at this bucket

ASSUME CapacityAssumption == Capacity \in Nat \ {0}
ASSUME MaxBucketAssumption == MaxBucket \in Nat \ {0}

VARIABLES
    now,        \* the bucket of the wall clock
    mark,       \* the cache: a series' bucket, 0 where it has no entry
    recent,     \* the cache's keys, the most recently used first
    pc,         \* where each export is
    bucket,     \* publishPair's bucket, 0 before it is read
    todo,       \* the rows the current loop over series has left
    out,        \* unpublished: the rows that passed the filter
    want,       \* the series of the request
    sp,         \* the series publish: "idle", "run", "ok" or "err"
    mp,         \* the metrics publish, likewise
    published,  \* <<r, s>>: export r has put series s on the topic
    payload,    \* the exports whose metric rows are all on the topic
    before,     \* the exports acknowledged when this one read its bucket
    evicted     \* the series that have ever been evicted

cacheVars == <<mark, recent, evicted>>
topicVars == <<published, payload>>
reqVars == <<bucket, want, before>>
vars == <<now, mark, recent, evicted, pc, bucket, todo, out, want, sp, mp,
          published, payload, before>>

Buckets == 1 .. MaxBucket

Init ==
    /\ now = 1
    /\ mark = [s \in Series |-> 0]
    /\ recent = << >>
    /\ pc = [r \in Requests |-> "idle"]
    /\ bucket = [r \in Requests |-> 0]
    /\ todo = [r \in Requests |-> {}]
    /\ out = [r \in Requests |-> {}]
    /\ want = [r \in Requests |-> {}]
    /\ sp = [r \in Requests |-> "idle"]
    /\ mp = [r \in Requests |-> "idle"]
    /\ published = {}
    /\ payload = {}
    /\ before = [r \in Requests |-> {}]
    /\ evicted = {}

Acked == {r \in Requests : pc[r] = "acked"}

\* Time passes between any two steps.
NextBucket ==
    /\ now < MaxBucket
    /\ now' = now + 1
    /\ UNCHANGED <<mark, recent, evicted, pc, bucket, todo, out, want, sp, mp,
                   published, payload, before>>

---------------------------------------------------------------------------
(* The LRU cache. *)

\* Get and Add make their key the most recent one.
Touched(s) ==
    IF s \in ToSet(recent)
    THEN <<s>> \o RemoveAt(recent, CHOOSE i \in DOMAIN recent : recent[i] = s)
    ELSE <<s>> \o recent

\* Mutant of Add: the cache never evicts.
BugAddUnbounded(s, b) ==
    /\ recent' = Touched(s)
    /\ mark' = [mark EXCEPT ![s] = b]
    /\ UNCHANGED evicted

\* Add: the key is set and, in a full cache, the least recent one removed.
Add(s, b) ==
    LET keys == Touched(s)
        full == Len(keys) > Capacity
        victim == Last(keys)
        marked == [mark EXCEPT ![s] = b]
    IN  /\ recent' = IF full THEN Front(keys) ELSE keys
        /\ mark' = IF full THEN [marked EXCEPT ![victim] = 0] ELSE marked
        /\ evicted' = IF full THEN evicted \cup {victim} ELSE evicted

---------------------------------------------------------------------------
(* publishPair *)

\* The request is mapped (with or without series) and the bucket read.
Begin(r) ==
    /\ pc[r] = "idle"
    /\ \E rows \in SUBSET Series :
           /\ want' = [want EXCEPT ![r] = rows]
           /\ todo' = [todo EXCEPT ![r] = rows]
    /\ bucket' = [bucket EXCEPT ![r] = now]
    /\ before' = [before EXCEPT ![r] = Acked]
    /\ pc' = [pc EXCEPT ![r] = "filter"]
    /\ UNCHANGED <<now, cacheVars, out, sp, mp, topicVars>>

\* Mutant of Hit: the filter tolerates a mark that is one bucket old.
BugHitStale(r, s) == mark[s] # 0 /\ mark[s] + 1 >= bucket[r]

\* Mutant of Hit: a mark of this very bucket does not count.
BugHitStrict(r, s) == mark[s] # 0 /\ mark[s] > bucket[r]

\* The series has an entry, of this bucket or of a later one.
Hit(r, s) == mark[s] # 0 /\ mark[s] >= bucket[r]

\* One round of FilterUnpublished: a Get, which refreshes an entry's use.
Filter(r) ==
    /\ pc[r] = "filter"
    /\ \E s \in todo[r] :
           /\ todo' = [todo EXCEPT ![r] = @ \ {s}]
           /\ out' = IF Hit(r, s) THEN out
                                  ELSE [out EXCEPT ![r] = @ \cup {s}]
           /\ recent' = IF mark[s] # 0 THEN Touched(s) ELSE recent
    /\ UNCHANGED <<now, mark, evicted, pc, reqVars, sp, mp, topicVars>>

\* PublishMetricPair starts both publishes; one without rows succeeds.
Publish(r) ==
    /\ pc[r] = "filter"
    /\ todo[r] = {}
    /\ pc' = [pc EXCEPT ![r] = "publish"]
    /\ sp' = [sp EXCEPT ![r] = IF out[r] = {} THEN "ok" ELSE "run"]
    /\ mp' = [mp EXCEPT ![r] = "run"]
    /\ UNCHANGED <<now, cacheVars, reqVars, todo, out, topicVars>>

\* Every series record was written.
SeriesOK(r) ==
    /\ sp[r] = "run"
    /\ sp' = [sp EXCEPT ![r] = "ok"]
    /\ published' = published \cup ({r} \X out[r])
    /\ UNCHANGED <<now, cacheVars, reqVars, pc, todo, out, mp, payload>>

\* Some record failed (or the other publish did, which cancels this one);
\* the others may have been written.
SeriesFail(r) ==
    /\ sp[r] = "run"
    /\ sp' = [sp EXCEPT ![r] = "err"]
    /\ \E some \in SUBSET out[r] :
           published' = published \cup ({r} \X some)
    /\ UNCHANGED <<now, cacheVars, reqVars, pc, todo, out, mp, payload>>

MetricsOK(r) ==
    /\ mp[r] = "run"
    /\ mp' = [mp EXCEPT ![r] = "ok"]
    /\ payload' = payload \cup {r}
    /\ UNCHANGED <<now, cacheVars, reqVars, pc, todo, out, sp, published>>

MetricsFail(r) ==
    /\ mp[r] = "run"
    /\ mp' = [mp EXCEPT ![r] = "err"]
    /\ UNCHANGED <<now, cacheVars, reqVars, pc, todo, out, sp, topicVars>>

\* group.Wait returns no error: the rows that were published get marked.
WaitOK(r) ==
    /\ pc[r] = "publish"
    /\ sp[r] = "ok"
    /\ mp[r] = "ok"
    /\ pc' = [pc EXCEPT ![r] = "mark"]
    /\ todo' = [todo EXCEPT ![r] = out[r]]
    /\ UNCHANGED <<now, cacheVars, reqVars, out, sp, mp, topicVars>>

\* A publish failed: the RPC is answered Unavailable, nothing is marked.
WaitFail(r) ==
    /\ pc[r] = "publish"
    /\ {sp[r], mp[r]} \subseteq {"ok", "err"}
    /\ "err" \in {sp[r], mp[r]}
    /\ pc' = [pc EXCEPT ![r] = "failed"]
    /\ UNCHANGED <<now, cacheVars, reqVars, todo, out, sp, mp, topicVars>>

\* One round of MarkPublished: the mark is overwritten whatever it holds.
Mark(r) ==
    /\ pc[r] = "mark"
    /\ \E s \in todo[r] :
           /\ todo' = [todo EXCEPT ![r] = @ \ {s}]
           /\ Add(s, bucket[r])
    /\ UNCHANGED <<now, pc, reqVars, out, sp, mp, topicVars>>

\* Export returns its response.
Ack(r) ==
    /\ pc[r] = "mark"
    /\ todo[r] = {}
    /\ pc' = [pc EXCEPT ![r] = "acked"]
    /\ UNCHANGED <<now, cacheVars, reqVars, todo, out, sp, mp, topicVars>>

Export(r) ==
    \/ Begin(r) \/ Filter(r) \/ Publish(r)
    \/ SeriesOK(r) \/ SeriesFail(r) \/ MetricsOK(r) \/ MetricsFail(r)
    \/ WaitOK(r) \/ WaitFail(r) \/ Mark(r) \/ Ack(r)

Next == NextBucket \/ \E r \in Requests : Export(r)

Spec == Init /\ [][Next]_vars

---------------------------------------------------------------------------
(* Properties *)

Steps == {"idle", "filter", "publish", "mark", "acked", "failed"}
Outcomes == {"idle", "run", "ok", "err"}

\* The variables' types, without the cache's recency list and its victims.
ExportTypes ==
    /\ now \in Buckets
    /\ mark \in [Series -> 0 .. MaxBucket]
    /\ pc \in [Requests -> Steps]
    /\ bucket \in [Requests -> 0 .. MaxBucket]
    /\ todo \in [Requests -> SUBSET Series]
    /\ out \in [Requests -> SUBSET Series]
    /\ want \in [Requests -> SUBSET Series]
    /\ sp \in [Requests -> Outcomes]
    /\ mp \in [Requests -> Outcomes]
    /\ published \subseteq Requests \X Series
    /\ payload \subseteq Requests
    /\ before \in [Requests -> SUBSET Requests]

\* Every variable has its type.  The cache's recency list (the key order of
\* the LRU in Dedup) names each marked key once and fits the capacity.
TypeOK ==
    /\ ExportTypes
    /\ evicted \subseteq Series
    /\ recent \in Seq(Series)
    /\ Len(recent) <= Capacity
    /\ IsInjective(recent)
    /\ ToSet(recent) = {s \in Series : mark[s] # 0}

\* Some export has put s on the topic in bucket b or in a later one.
PublishedSince(s, b) ==
    \E q \in Requests : <<q, s>> \in published /\ bucket[q] >= b

\* An acknowledged export has lost nothing: its metric rows are on the topic
\* and each of its series has been published in its own bucket or later, by
\* itself or by whoever the filter trusted -- also if that export had failed
\* or was overtaken (ExportOTLP, publishPair).
AckedIsPublished ==
    \A r \in Acked :
        /\ r \in payload
        /\ \A s \in want[r] : PublishedSince(s, bucket[r])

\* A mark in the cache stands for a publish in exactly that bucket: "marking
\* series only after the synchronous publish succeeded so a failed publish
\* keeps them eligible for republish" (metrics/handler.go:49).
MarksArePublished ==
    \A s \in Series : mark[s] # 0 =>
        \E q \in Requests : <<q, s>> \in published /\ bucket[q] = mark[s]

\* Exports q and r, one after the other, both published s in one bucket.
Repeats(q, r, s) ==
    /\ q \in before[r]
    /\ {<<q, s>>, <<r, s>>} \subseteq published
    /\ bucket[q] = bucket[r]

\* When a series is published again after an acknowledged publish of the
\* same bucket, then its mark was evicted, or an export of an OLDER bucket,
\* still running when the first one began, has overwritten it
\* (FilterUnpublished and MarkPublished of concurrent exports).
RepeatNeedsOverlap ==
    \A q, r \in Requests, s \in Series :
        Repeats(q, r, s) =>
            \/ s \in evicted
            \/ \E o \in Requests :
                   /\ bucket[o] < bucket[q]
                   /\ o \notin before[q]
                   /\ <<o, s>> \in published

\* What the comment of Dedup says (dedup.go:19): "a series row is published
\* at most once per republish bucket", concurrent publishes and evictions
\* excepted.
OncePerBucket ==
    \A q, r \in Requests, s \in Series : Repeats(q, r, s) => s \in evicted

\* The state of one export that AckedIsPublished rests on: the series it no
\* longer carries are on the topic.
ExportProgress(r) ==
    /\ pc[r] = "idle" => want[r] = {}
    /\ pc[r] = "idle" <=> bucket[r] = 0
    /\ pc[r] = "filter" => \A s \in want[r] :
           s \in todo[r] \/ s \in out[r] \/ PublishedSince(s, bucket[r])
    /\ pc[r] \in {"publish", "mark", "acked"} => \A s \in want[r] :
           s \in out[r] \/ PublishedSince(s, bucket[r])
    /\ pc[r] \in {"idle", "filter"} => sp[r] = "idle" /\ mp[r] = "idle"
    /\ sp[r] = "ok" => \A s \in out[r] : <<r, s>> \in published
    /\ mp[r] = "ok" => r \in payload
    /\ pc[r] = "mark" => todo[r] \subseteq out[r]
    /\ pc[r] \in {"mark", "acked"} => sp[r] = "ok" /\ mp[r] = "ok"

\* A series is on the topic only under an export that has read its bucket.
PublishersBegan ==
    \A r \in Requests, s \in Series :
        <<r, s>> \in published => pc[r] # "idle"

\* The inductive invariant: marks stand for publishes, and what an export
\* has dropped in its filter is on the topic (FilterUnpublished).
MInv ==
    /\ ExportTypes
    /\ MarksArePublished
    /\ PublishersBegan
    /\ \A r \in Requests : ExportProgress(r)

=============================================================================
