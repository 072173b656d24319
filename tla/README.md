# A TLA+ model of optikklabs/ingest

The ingest service receives OTLP traces, logs and metrics over gRPC and HTTP,
authenticates the sender, maps the payload to rows and publishes them to Kafka
before it answers.  The same process (every pod runs all parts) consumes those
topics and inserts the rows into ClickHouse; what cannot be inserted goes to a
dead-letter topic.  Beside this main path it publishes LLM scores and
hourly usage rows, and filters the series metadata that metric exports repeat.

This directory models that program, checks the models with TLC and proves
theorems about them with TLAPS.  Line numbers refer to the files under `src/`;
`PROJECT.json` maps every definition to the lines it stands for.

## The system

```
 client --gRPC/HTTP--> auth --> handler --> mapper --> producer --> Kafka topic
                                  |                                    |
                                  +--> usage recorder (hourly rows)    v
                                  +--> async publisher (LLM scores)  consumer
                                  +--> series dedup (metrics)          |
                                                          ClickHouse <-+-> DLQ
```

| Component | State it keeps | Operations | What is hard |
|---|---|---|---|
| Topic consumer (`infra/kafka/consumer.go`) | two channels of batches, one done channel per batch, in-flight gauge; the group's offsets outside | fetch, hand over, handle, commit | batches finish in any order and commit in order; full channels; cancellation between two sends; panics; crash before commit |
| Insert handler, writer, DLQ (`ingestion/core`) | none in the process; ClickHouse's deduplication tokens outside | decode, insert with a 30 s limit, publish to the DLQ | timeouts that stored the block; redelivery with other boundaries; DLQ failure |
| Async publisher (`core/async_publisher.go`) | bounded channel, closed flag under an RWMutex | Enqueue, worker, Close | sending while closing; drain; exactly one count per drop |
| Usage recorder (`ingestionstats/recorder.go`) | map of rows, closing flag | Record, flush, Close | a record during the last flush; two Close calls |
| Usage apportionment (`ingestionstats/usage.go`) | none | byte shares per resource | rounding, the remainder |
| Export path (`core/export.go`, `core/producer.go`) | none | map, publish, answer | acknowledge only after the publish; retries |
| Metrics export, series dedup (`metrics/handler.go`, `metricseries/dedup.go`) | LRU cache of marks | filter, publish the pair, mark | concurrent exports over a change of bucket; half a pair fails; evictions |
| Authentication (`auth`, `authrepo`) | cache with positive and negative entries, singleflight, limiter | resolve a key | stale entries, one caller's deadline failing others, removal of a fresh entry |
| OTLP over HTTP (`otlphttp`) | none | authenticate, read with a limit, decode, export | error mapping |
| Topic provisioning (`infra/kafka/topics.go`) | none; the topics outside | create, grow, reconcile | two pods at boot |
| Lag poller, hooks (`infra/kafka/observability.go`) | gauges | poll | partitions, committed and end offsets read at different moments |
| Wiring and shutdown (`app`) | actors, closers | run, stop | order of servers, consumers, closers and clients |
| Mappers (`spans`, `logs`, `metrics`, `llmscores`) | none between requests; within one, maps that the rows of a resource share | map OTLP to rows, series, usage and scores | shared maps; two caps; fallbacks from record to resource; cuts inside a rune; bucket conversion |

What makes each component correct:

- *Consumer and handler*: no record is passed by the group's offset unless it is
  stored, dead-lettered or counted; offsets never go back; a redelivery of the
  same batch is absorbed; what is in memory is bounded; shutdown ends; nothing
  but an unanswered DLQ publish holds back the batches behind it.
- *Async publisher*: no send on the closed channel; each batch is published or
  counted once; Close leaves nothing behind and returns.
- *Usage recorder*: an accepted record is published in exactly one attempt, and
  before Close returns.
- *Metrics export*: an acknowledged export has published its rows, and the
  metadata of all its series is on the topic for its bucket; a series is not
  published twice in a bucket without a reason.
- *Authentication*: a revoked key is refused after a bounded time; no caller sees
  another tenant; a failure of the database is never cached as a refusal.
- *Export path and HTTP*: an answer of success implies the publish.
- *Topics*: all pods end up with the configured partition counts, none shrinks.
- *Shutdown*: no closer runs while something still uses what it closes.
- *Consumer group*: what any pod commits is stored, parked or counted as lost,
  wherever a partition moves while its batches are in flight; the lag gauge does
  not hide a backlog.
- *Mappers*: an attribute is kept, in a column, or lost by a named rule; no
  record changes another's row; every row can be marshalled; every row of a
  metrics request has its series; usage counts each row and byte once.

## Modules

| Module | Models |
|---|---|
| `Delivery` | what the consumer promises, in two actions: records become accounted for; offsets advance over accounted records |
| `ConsumerPipeline` | consumer, insert handler, writer and DLQ of one pod and one topic, with Kafka's offsets and ClickHouse's deduplication; refines `Delivery` |
| `Topics` | topic provisioning by pods that boot at once |
| `ConsumerGroup` | extends `Topics`: the consumers of all pods on one topic, with rebalances, and the lag poller |
| `AsyncPublisher` | Enqueue, worker and Close of the side publisher |
| `HourlyRecorder` | Record, flush loop and Close of the usage recorder |
| `MetricsExport` | concurrent metric exports with the series deduplication |
| `Authenticator` | API keys to tenants: cache, singleflight, limiter, tenant table, clock |
| `ExportPath` | an OTLP export over gRPC or HTTP, its side effects and the client's retries |
| `PodLifecycle` | extends `ExportPath`: boot, run group, shutdown, kill and restart of a pod that serves those exports |
| `Attributes` | what all mappers do with attributes: texts, caps, typed attributes, resource dimensions, time buckets |
| `SpanMapper`, `LogMapper`, `MetricMapper` | one span (and its scores), one log record, one data point to a row |
| `RowMapping` | extends the three: `mapRequest` over the resources and records of a request, then usage and scores |
| `MC*` | symmetry sets and instances for TLC |
| `*Proofs` | the theorems of the eight modules that have some |

A definition named `Bug...` stands before the definition it distorts; it is the
bug that a property of the runs would find, and no specification uses it.

The composition is by EXTENDS where components share state (`ConsumerGroup` over
`Topics`, `PodLifecycle` over `ExportPath`, `RowMapping` over the mappers), and by
abstraction where one component needs only the promise of another: a pod's
pipeline is a queue of batches in `ConsumerGroup`, the recorder and the side
publisher are two sets in `ExportPath` whose closing is one step, because their
own modules show what Close leaves behind.

### ConsumerPipeline

Three kinds of goroutines share two channels.  Only the fetch loop sends on them
and both are FIFO, so a channel is the interval between a send and a receive
counter, and a batch is its number in `jobs`.  Each `select` arm of `fetchLoop`
is an action (`SendWorker`, `SendWorkerCancelled`, ...); when both arms are
ready either may happen, as in Go.  `done[i]` is the batch's done channel:
`"none"` until the worker's deferred send.  `wpc[w]` follows a worker through
`Decode`, the insert (`InsertApply` is the moment ClickHouse stores the block,
`InsertOK` and `InsertFail` what the client sees, so a timeout may follow a
stored block), the DLQ publish (complete, partial, failed or panicking) and the
worker loop's own recovery.  `Crash` may happen at every state; `Restart` begins
from the committed offsets with any new batch boundaries.

Abstractions: the topic is a fixed log per partition, and a poll returns any
non-empty run of at most `MaxPoll` offsets (records that arrive later are
covered by polls that return fewer).  The token's hash is injective.
ClickHouse's deduplication window is unbounded, so `DuplicatesNeedNewBoundaries`
says nothing of redeliveries later than the window.  After cancellation an
insert or publish may still succeed, which is more than the client library
allows.  A block that a dead pod had sent is stored before the crash or never.
Partitions stay with the pod; that they move is the subject of `ConsumerGroup`.

### Topics and ConsumerGroup

`Topics` follows `EnsureTopics` request by request: `Create`, `CreateExists`
(TopicAlreadyExists), `List`, `Grow`.  Each request is one step at the broker, so
two pods interleave between listing and growing, and the second is refused.
`RequestFails` loses a request or its response.  A pod whose provisioning fails
exits and is started again.  Pods may belong to releases with different counts.

In `ConsumerGroup` a pod that is ready may be assigned a partition that nobody
owns (`Assign`), fetches from its position (`Fetch`), finishes its batches in any
order (`Finish`) and commits in the order of the fetch (`Commit`).  A batch that
finishes is stored (inserted or parked), or it is lost: the DLQ publish fails
after the insert did (`dlq.go:50-53`), or a panic reaches the worker loop
(`consumer.go:98-113`).  A lost batch is committed like any other; the code counts
its records or its batch, and `Accounted` is `stored` and `lost` together.
`Revoke` takes a partition away while its batches are in flight: the code installs
no callback that waits for them, and the broker checks that the committer is a
member, not that it owns the partition.  `Crash` loses what a pod holds.  A lost
batch, a revocation, a crash and an odd answer to the poller each cost one of the
`MaxFaults` faults of an instance.

`SampleStarts`, `SampleReads` and `SampleEnds` are the three requests of
`fetchGroupLag`: the partitions (metadata), the committed offsets, the end offsets.
Either of the last two may answer with an error for some partition, which the
code does not look at, or leave a partition out.  `Report` sets the gauges of the
partitions whose end offset came back and leaves the others as they are; a gauge
is -1 until it is first set.  A metadata answer from before a growth is that of an
earlier request and no step of its own.

### AsyncPublisher

The RWMutex is explicit (`readers`, `writer`): a waiting writer holds back new
readers, as `sync.RWMutex` does, and `Enqueue` holds the read lock over its
non-blocking send.  The channel's order plays no part and is left out.

### HourlyRecorder

A row is its key and its record count.  `Tick` and `Done` are the two arms of
the loop's `select`; each takes the snapshot under the mutex and then publishes
outside it.  The jitter of the first tick is any delay.  `MaxRecords` bounds the
records a key receives.

### MetricsExport

`Begin` maps the request and reads the bucket, `Filter` and `Mark` are single
rounds of the two loops (the cache locks each `Get` and `Add`, nothing locks the
loops), `SeriesOK`, `SeriesFail`, `MetricsOK`, `MetricsFail` are the outcomes of
the two concurrent publishes and `WaitOK`, `WaitFail` the `errgroup`'s.  A failed
publish may have written some records.  The cache is a mark per series and its
recency list.  The clock does not run backwards and stops at `MaxBucket`; a
client's retry is another request; a restart of the pod would be `Init` with a
topic that has grown, and is not an action.  Requests without metric rows, which
`ExportOTLP` answers before `publishPair`, are left out.

### Authenticator

`pc` follows a call of `ResolveTenantID` through its first look at the cache, the
singleflight, the second look, the limiter and the lookup.  `Get` and `Remove`
of an expired entry are two steps, and so are the moment the statement reads the
tenant's row (`DatabaseReads`) and the `Add` that caches it (`LookupReturns`).
The lookup runs under the leader's context: `GiveUp` cancels it.  Followers wait
without a context of their own.  Time is an integer; `MaxDelay` is the longest
time between the determination of a result and its delivery, and it appears in
the bounds because nothing in the code limits it.  Other keys are present as
evictions only.

### ExportPath and PodLifecycle

`at[e]` is where an export is: with the client, or in one of the steps of
`ExportOTLP`.  The attempt's number identifies its records (`written`), its usage
(`buffered`, then `settled`, or `refused` after Close: `recorder.go:53-55` returns
without a trace, so that usage is dropped and not counted) and its scores
(`queued`, then `scored`).  The client sends again what OTLP allows it to:
Unavailable, 429, 503 and broken connections.  `PodLifecycle` decides what is
open.  Boot is one step per resource, each of which may fail and run its own
cleanup; the first actor of the run group to return starts the interrupts in the
order the actors were added; HTTP's `Shutdown` and gRPC's `GracefulStop` may end
with handlers still running, as their budgets allow; when all actors have returned
`Infra.Close` closes consumers, recorder, scores publisher, producer and
databases, in that order.  A handler that outlives all this goes on against closed
resources, and the process then ends with it.  `Kill` may happen at every state.

### Attributes, the mappers and RowMapping

A text is opaque; a list of attributes is a function from keys to values, and a
value has a kind and the text it is rendered as.  A map that rows share is not
copied: a row says that it is `shared`, and `bases` holds the one map of each
resource, so that a mapper that merged in place would change rows built before.
The tables of columns and keys (`SpanColumns`, `GenAIColumns`, `IdentityColumns`,
...) and the list of promoted keys (`PromotedKeys`, `mapper.go:254-292`) are
transcribed entry by entry and none from another, because what could be wrong is
that they disagree. A long text is given with the places where its runes start,
and with what remains of it when it is cut there or anywhere.  Hashes are
injective: a fingerprint is its input, and the 0 that lists no series
(`NoFingerprint`) is that of the empty input, which the sentinel keys exclude.
The two sentinel keys that the fingerprint adds to the labels (`__name__`,
`__temporality__`) win over an attribute of the same name, so such an attribute is
in the row and not in its series' identity (`Identity`). Bucket bounds are powers
of a base and stand for their exponents.  A request's scores are kept by the place
they come from, the row and its event, so that no order of their publication is
claimed.

## Runs

| Run | Instance | What it shows |
|---|---|---|
| `pipeline_order` | 1 partition, 3 records (the first malformed), 2 workers, polls of 1 or 2, `FairSpec` | batches finish in every order: `AccountedBeforeCommit`, `GaugeReturnsToZero`; `CancelDrains`, `BatchesComplete` |
| `pipeline_redelivery` | 2 partitions of 1 record, 2 workers, 2 restarts | `OneCopyPerIncarnation`, `DuplicatesNeedNewBoundaries`; the pipeline implements `Delivery` |
| `consumer_group` | 2 pods of equal or different releases, 1 topic of up to 2 partitions, logs of 2 and 1 records, 2 batches per pod, 1 fault, 1 sample, `FairSpec` | `ReadyHasTarget`, `NoSilentLoss`, `BackOnlyByHandover`, `LagNotUnderReported`, `AllBoot` |
| `async_publisher` | 3 requests, 2 workers, 2 Close calls, queue of 1, `FairSpec` | `NoSendOnClosed`, `Accounted`, `CloseDrains`, `CloseReturns` |
| `usage_recorder` | 2 keys, 3 records each, 2 Close calls, `FairSpec` | `Conserved`, `CloseSettles`, `CloseReturns`, `RowsFlushed` |
| `metrics_dedup` | 3 exports, 2 series, cache of 1, 2 buckets | `AckedIsPublished`, `RepeatNeedsOverlap`, `TypeOK` (the recency list) |
| `authentication` | 3 calls that repeat, 1 key, TTL 1, negative TTL 0, delay 1, rate and burst 1, clock to 4, `FairSpec` | `AcceptsBounded`, `RefusalsBounded`, `ColdLookupsOnly`, `WaitersReturn` |
| `pod_lifecycle` | 1 request of any shape over either protocol, 2 rows, 2 attempts, 1 signal, 2 boots, `FairSpec` | `AckedOnTopic`, `UsageOnlyOfStored`, `DroppedHasCause`, `DrainedBeforeProducer`, `AckedAccounted`, `ShutdownCompletes` |
| `row_mapping` | 2 records of 1 or 2 resources, caps of 2 attributes and 2 bytes, all signals | `AttributesKept`, `NothingLost`, `MarshalOK`, `LogsKept` (`FallbackOnly`, `RetryKeepsID`), `PointsKept` (`SeriesComplete`, `CountsConserved`), `DerivedExact` (`UsageExact`, `ScoresTyped`), `RowsStable` |
| `finding_unparked`, `finding_lost_counter`, `finding_regressed_mark` | see below | the code does not do what a comment says |

The runs list what a reader should know of, not the lemmas of the proofs.  The
inductive invariants are proved for every instance; an `MC` module that EXTENDS
the `*Proofs` module of its component and names them in its cfg checks them too,
and each was checked so before it was proved.  `CommitMonotonic` and
`ActorsHaveClients` are theorems that no run repeats.

Deadlock is checked in `authentication`, whose callers never stop.  The other
systems really may: a pod that is not restarted, a recorder after Close, a
request that has been mapped or answered, an instance whose faults are used up.
That nobody waits for ever is what the liveness properties say there.

Why the bounds are enough to be interesting.  Three batches and two workers give
every order of completion between two neighbours of a batch that is waited for;
two restarts let a batch be redelivered with its old boundaries, with new ones,
and again; two partitions let one batch span both and let spans collide that
differ in the partition only.  Two pods and one fault are an old owner with a
batch in flight and a new one that fetches the same records, or two pods that
boot over each other, or a lost batch that is committed, or an answer to the
poller with a partition missing; no run combines two of these, the proof combines
any number.  A queue of one is full with one batch.  Three exports are a
slow one from the older bucket, a fast one from the newer, and one that meets
the marks both have left; a cache of one evicts as soon as two series are
marked.  Three calls are a leader, its follower and a call between two lookups;
a clock of four passes a whole bound with a key revoked at its worst moment, and
both bounds are reached.  Two attempts are a partial publish and its retry, and
two boots let the retry meet another life of the pod.  Two records share a
resource or have one each, and caps of two are exceeded by a resource, by a span
and by both together only.

Safety rests on none of these bounds, because it is proved as well.

## Fairness

`ConsumerPipeline!Fairness` gives weak fairness to what the Go scheduler runs: a
goroutine with a ready arm moves.  Insert returns because its context has a
30 s deadline.  The DLQ publish has no deadline of its own, so it returns surely
only after cancellation: `FairSpec` assumes no more, and `CancelDrains` holds
without an answer from the brokers.  That a cancelled publish returns is a promise
of the Kafka client, which is external: franz-go's `ProduceSync` gives up its
records when their context ends, and `client.go` sets no `RecordDeliveryTimeout`
that would end them otherwise.  That the consumers return in `PodLifecycle`
(`ConsumerReturns`), and with it `ShutdownCompletes`, rests on the same promise.
`BatchesComplete` has their answer as its
premise (`BrokersAnswer => ...`), which is the very dependence a reader should
know of: without it a single unanswered publish holds back its worker and every
commit behind it.  Nothing obliges a poll to find records, or a panic, SIGTERM,
crash or restart to happen.

`AsyncPublisher!Fairness` covers requests in progress, workers (publishes have a
deadline) and Close calls in progress.  Its `CloseLock` is weakly fair only:
arriving readers cannot starve it, because a waiting writer holds them back.
`HourlyRecorder!Fairness` has strong fairness for `Done`: each round arms a fresh
timer of minutes, so a closed done channel is ready long before the next tick and
cannot lose the `select` for ever.

`Authenticator!FairSpec` runs the goroutines, and lets a query whose context is
done return; the database need never answer.  `PodLifecycle!FairSpec` is fair to
the steps of a shutdown and to nothing else: no handler, client or boot has to
move, and `ShutdownCompletes` all the same.  `ConsumerGroup!FairSpec` restarts a
pod that is down and lets its boot go on, which is what the deployment does.

## What is proved

Every safety invariant and every action property that a passing run checks is
also a theorem.  A theorem holds for all values of the constants, from the named
assumptions of the modules only: positive bounds; a finite, non-empty set of
workers; malformed records that are records; batches that are finitely many; an
order of keys without repetition that has the keys in use.  Two assumptions are
about what clients send:

- `RowMapping!TextsAssumption`: the strings of a request are UTF-8, which protobuf
  guarantees of its `string` fields when it decodes; a bytes value may be anything
  (`AnyValueString` renders it in hexadecimal, `TypedAttrs` keeps it as it is).
- `RowMapping!PointsAssumption`: an exponential histogram's count is that of its
  zero bucket and its buckets, as OTLP requires of the sender.  The service does
  not check it; of a histogram that breaks it `CountsConserved` says nothing.

TLC evaluates all assumptions on the instances of the runs.

### The consumer

`ConsumerPipelineProofs`, for any partitions, workers, polls and restarts:

- `TypeCorrect`, `Inductive` (`Spec => []IInv`), `NoSilentLoss`, `CommitsMoveForward`,
  `PipelineImplementsDelivery`.
  `AccountedBeforeCommit` alone is not inductive: that a commit covers accounted
  records needs that the records of *all earlier* batches are accounted for.
  `IInv` therefore says that batches chain without gaps (`Chained`), that
  everything before the committer's next batch is accounted for
  (`CommitterInOrder`), that a batch whose done channel carries `"ok"` is
  (`DoneAccounted`), what a worker has achieved so far (`WorkerProgress`), and
  that a token ClickHouse has seen stands for records it holds (`TokensStored`:
  without it a skipped insert might lose its rows).  The refinement then follows
  step by step: a step that moves `committed` is a `Commit` of `Delivery`, any
  other an `Account` or a stutter.
- `GaugeBalanced`: `GaugeInv` counts what the gauge stands for while Run is under
  way, the batches that the fetch loop is handing over and those that the
  committer has not left behind; at the end both are none.
- `RedeliveryAbsorbed`: the copies of a record are bounded by the number of
  *distinct* blocks sent that hold it.  `BlocksInv` says that the tokens seen are
  those of the blocks stored; a block adds copies only if it is new to that set
  (`HoldingAdds` is the step of the count).
- `OncePerIncarnation`: a record has at most one copy more than there were
  restarts.  `OnceInv` adds that the batches of an incarnation do not overlap
  and lie before the position (`BatchesInOrder`), that no two workers hold one
  batch (`OneHandler`), and that what this incarnation has yet to insert or to
  fetch has no copy from it (`PendingFresh`).

### The group

`ConsumerGroupProofs`, for any pods, partitions, rebalances and crashes:

- `Inductive` (`Spec => []GroupInv`) and `NothingLost`.  With moving partitions the
  committed offset may go *back*, so order alone no longer carries the proof:
  `GroupInv` says of every batch, whoever holds it and whoever owns its partition
  by now, that all records before it are accounted for (stored, or lost and
  counted) or held by the same pod in front of it, and the same of an owner's
  position.  `NothingLost` does not say that committed records are stored: the code
  commits lost batches, which is the finding `finding_unparked`.
- `BackOnlyBetweenOwners`: an offset goes back only between the commits of two
  assignments.  `HandoverInv` says that an assignment's commits stay below its
  position, that each of its batches lies above its commits, below its later
  batches and below the position while it owns the partition, and that one pod
  holds them all (`CommitsOrdered`, `BatchesOrdered`, `EpochsExclusive`).
- `BootHasPartitions`: `ProvisionInv` says of every pod that has been through a
  topic that the topic has the partitions this pod wants; counts only grow, so
  no other pod, of whatever release, takes them away.
- `LagIsReported`: `LagInv` carries what was read as committed over the time until
  the end offsets are read: it has not gone back since, or its partition is
  excused.  The claim is about the partitions that the sample's metadata request
  listed and that the end offsets name without an error.

### The side publishers, metrics and authentication

- `AsyncPublisherProofs`: `PublisherInductive` (`Spec => []AInv`), then
  `NeverSendsOnClosed`, `EveryBatchAccounted`, `CloseLeavesNothing`.  `AInv` is the
  lock discipline (readers and a writer exclude one another, who is between lock
  and unlock holds it), and that a worker leaves only a closed and empty queue.
- `HourlyRecorderProofs`: `RecorderInductive`, `UsageConserved`,
  `NothingAfterClose`: the last snapshot is taken after `closing` is set.
- `MetricsExportProofs`: `ExportInductive` (`Spec => []MInv`) and
  `AckedNeverLost`.  `MInv` says that a mark stands for a publish in its bucket, and
  that a series which an export no longer carries was published in that bucket
  or later; the order in which the cache evicts plays no part.
  `RepeatsHaveCause` is about two exports of one bucket, of which the second began
  after the first was acknowledged.  `RepeatInv` follows the first one's mark
  (`MarksLast`): it is there, or in a newer bucket, unless it was evicted or an
  older export that was running then has overwritten it; and the second one
  lets a series pass its filter only in these cases (`FilterHolds`).
  `CacheBounded` is the recency list: for any interleaving of `Get` and `Add` it
  names each marked series once, and no more than fit.
- `AuthenticatorProofs`: `Inductive` (`Spec => []AuthInv`), `TypeCorrect`,
  `OneColdLookup`, `RevocationBound`, `ActivationBound`.  The bounds compose: a
  result is as old as the row or the entry it was read from, an entry expires
  within its lifetime and one delay of the row it stands for, and a result is
  handed out within one more.
- `PodLifecycleProofs`: `Inductive` (`Spec => []PodInv`), `TypeCorrect`,
  `AckedIsStored`, `UsageIsStored`, `NoSilentDrop`, `DrainOrder`, `UsageAccounted`,
  `ClientsOutliveActors`, for any number of requests, signals, attempts and
  boots.  `PodInv` says how far the attempt of each handler got, what each phase
  has open, and that what is buffered has its publisher and the producer open or
  still to be closed.

### The mappers

`RowMappingProofs`, for any attributes, caps, resources and records:

- `Inductive` (`Spec => []RowInv`), `SharedMapsStable` and `AttributesAsMerged`.
  `RowInv` says that the map of a resource is still what its attributes made it,
  and each row what its record makes of that map; most of what follows is then
  about a single row.  That two caps keep what one would have kept is `CapOnce`,
  which rests on a fact about orders (`SmallestOnce`: the *n* smallest of the *n*
  smallest of A and all of B are the *n* smallest of A and B); its proof takes the
  least key that the first cap left out.
- `SpansKept`: every text of a span's attributes is in its row, or lost by one of
  the rules that `NothingLost` lists.  `PromotedPlaced` is the agreement of the
  two hand-kept lists: each of the promoted keys is a key of some column, of the
  exception, of the kind of observation, or one of the five keys whose columns are
  read from the resource only.  The proof goes through the lists name by name,
  because what could be wrong is an entry, and then through the columns, each of
  which shows the first of its spellings.
- `LogsFromTheirRecords`: a log's resource map is patched, not replaced, and its
  identifier does not contain the time of arrival unless the record has none.
- `RowsMarshal` covers prompts, completions, the comments of scores, and the texts
  and attributes of logs; metric rows are not looked at, because their texts come
  in as UTF-8 and are not cut.  A cut text is one of its own prefixes that end
  before a rune, and every other text is one that came in or a constant of the
  code.  For the scores `ScoresAsExtracted` says that those of a finished request
  are its rows'.
- `PointsComplete`: `SeriesListed` says that a series is listed once, under the
  hash of its own fields, and that every row has one; `HashIsSet` that no hash is
  the 0 which lists nothing; `HashTells` that two with one hash agree in what
  identifies a series.  The type and the unit are not in the hash and not in
  `Identity`: two metrics of a request that differ only in these share the series
  of the first.  Counts are compared, bucket bounds are not.
- `UsageAddsUp`: `UsageCounted` says that the records of the resources that have
  ended, and those of the one that is open, are all there are.  That the byte
  shares of any request, rounded down but for the last, sum to its size and are
  never negative is `SharesAddUp`, with nothing bounded.

Sums over a finite set are defined by recursion on the set, and the library
proves nothing about them.  `RowMappingProofs` therefore has a small theory of
them: induction on finite sets (`SubsetInduction`, from the least cardinality at
which a fact fails, because the library's induction rule takes an operator as
its parameter), the existence of the recursive function (`SumsExist`), and from
it what a sum over one element more or less is (`SumStep`, `SumWithout`), and its
bounds, congruence and shift (`SumIn`, `SumAtLeast`, `SumOfEqual`, `SumBounded`,
`SumShifted`, `SumFramed`).

### Model-checked only

Liveness: `CancelDrains`, `BatchesComplete`, `CloseReturns` of both publishers,
`RowsFlushed`, `WaitersReturn`, `ShutdownCompletes` and `AllBoot`.  They rest on
fairness and on which actions are enabled, which the prover cannot treat.  So do,
of course, the counterexamples of the three findings.

## Findings

- `finding_unparked`: `insert_handler.go:58` says that offsets never advance past an
  un-inserted, un-DLQ'd batch.  When the DLQ publish fails as well, the batch is
  counted as lost and its offsets are committed.
- `finding_lost_counter`: the metric behind `RecordsLost` is described as records
  dropped (`metrics/ingest.go:93`).  It is incremented before the fate of the
  offsets is known.  At shutdown the cancelled context may fail the insert, the
  publish and the commit of one batch: its records are counted as lost, delivered
  again after the restart, and stored.
- `finding_regressed_mark`: `dedup.go:19` says that a series row is published at
  most once per bucket, concurrent publishes excepted.  `MarkPublished` overwrites
  a newer mark, so an export that began in the older bucket and ends late makes
  the *next* export publish the series again.  It costs a redundant row only;
  `RepeatNeedsOverlap` shows that this and eviction are the only reasons.

Other things the models show about the code, which no comment contradicts, and
which the properties therefore state as they are:

- A late commit by the last owner of a partition can move the group's offset back
  (`BackOnlyByHandover`); the cost is a redelivery, never a loss (`NoSilentLoss`).
- A partition error in an offset response is taken for an offset of -1, so the
  lag of that partition may be reported as zero (`LagNotUnderReported` excepts it).
- A partition that appeared after the poller's metadata request, or that the end
  offsets leave out, keeps the gauge it had, or has none, however long its backlog.
- A batch whose insert and DLQ publish fail, or whose panic reaches the worker
  loop, is committed (`Finish`, `NoSilentLoss`).
- The usage of an HTTP request that is acknowledged after the recorder was closed,
  by a handler that outlived the shutdown budget, is dropped and nowhere counted
  (`recorder.go:53-55`; `AckedAccounted` names the case).
- Two pods that grow one topic at once: the second is refused and boots again.
- A revoked key is accepted for one TTL *and* the delays of two lookups.
- A failed tenant lookup is answered with Internal, which OTLP clients do not
  send again; after authentication every failure is retryable (`DroppedHasCause`).
- A boot that fails while the signals are wired does not close the scores
  publisher.  This is harmless, since no request was accepted.
- What a span says can be lost, and `NothingLost` names each way: the five keys
  of a resource that a span carries itself (`service.name`, `host.name`,
  `k8s.pod.name`, `service.version`, `deployment.environment`: `mapper.go:260` keeps
  them out of the attributes, and their columns are read from the resource);
  `langfuse.release` and `optikk.eval` on a span that is not GenAI; a count that is no
  number; an unknown kind of observation; all but the first spelling of a column;
  and the span's own stack trace when an event brings the exception.
- A bytes attribute that is not UTF-8 makes every row of its log request
  impossible to marshal, at every retry (`MarshalOK` excepts it).
- A log without timestamps gets another identifier at each retry (`RetryKeepsID`).
- Negative observations of an exponential histogram are in its count and in no
  bucket (`CountsConserved`).

## Not modelled

- Configuration, the metrics registry, the health endpoint and the database
  clients declare settings and counters or call a driver.  They keep no state of
  their own; what fails in them is a failed boot step of `PodLifecycle`.  A flush
  interval of zero, which `rand.Int64N` does not accept, is a constant.
- Generated protobuf code, the lists of columns and SQL.  This is a large part of
  the implementation's lines (the schemas alone are about 2,400), and one
  reason why the map covers a third of them only.  ClickHouse's `ReplacingMergeTree`
  merges belong here too.
- The Kafka client's hooks, which only count; topic retention and replication,
  which are given at creation and never read back; record sizes and broker
  limits, whose failures are outcomes of the actions; the order of records in a
  batch and their partition keys.
- In the mappers: fields that are copied as they are, links, the splitting of
  tags (the column shows their text), trimming and upper-casing, quantiles.  Hash
  collisions.  Byte shares of requests so long that the product of their size and
  record count wraps around 64 bits.

## Plan

Done: the consumer of one pod, the group of all pods, both side publishers, the
metrics export, authentication, the export path with the pod's life, the
mappers, and a theorem for every safety property of theirs.  What is left, in
order of what it would add:

1. `ConsumerPipeline` as a refinement of one pod of `ConsumerGroup`, so that the
   abstraction of a pod to a queue of batches is itself checked; it needs the
   pipeline's records to be split by partition.
2. `HourlyRecorder` and `AsyncPublisher` as refinements of the two sets that
   `ExportPath` has in their place.
3. A bounded deduplication window in `ConsumerPipeline`, if the retention of the
   tables is ever shortened.
