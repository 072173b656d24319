------------------------------ MODULE MetricMapper ------------------------------
(***************************************************************************)
(* One data point to one row and one series (internal/ingestion/metrics/   *)
(* mapper.go, normalize.go).                                               *)
(***************************************************************************)
EXTENDS Attributes

CONSTANTS
    ClientGroups,   \* client ids of the form consumer-<group>-<n>, and their groups
    KafkaMetrics,   \* the names that start with "kafka."
    HostKeys        \* the keys that start with "os.", "host." or "cloud."

HostResourceAttrs(resMap) ==
    Restrict(resMap, DOMAIN resMap \cap (HostKeys \cup {"k8s.node.name", "k8s.cluster.name"}))

Temporality(t) ==
    CASE t = "delta" -> "Delta" [] t = "cumulative" -> "Cumulative" [] OTHER -> "Unspecified"

\* The canonical key takes the first of its spellings that is set.
Alias(m, key, sources) ==
    IF FirstNonEmpty(m, sources) = "" THEN m ELSE Put(m, key, FirstNonEmpty(m, sources))

NormalizeAttrs(name, attrs) ==
    LET system == Alias(attrs, "db.system", <<"db.system.name", "db.system">>)
        topic  == Alias(system, "messaging.destination.name", <<"messaging.destination.name", "topic">>)
        group  == Alias(topic, "messaging.consumer.group.name",
                        <<"messaging.consumer.group.name", "group">>)
        client == Get(attrs, "client-id")
        named  == IF Get(group, "messaging.consumer.group.name") = "" /\ client \in DOMAIN ClientGroups
                  THEN Put(group, "messaging.consumer.group.name", ClientGroups[client])
                  ELSE group
    IN IF Get(named, "messaging.system") = "" /\ name \in KafkaMetrics
       THEN Put(named, "messaging.system", "kafka")
       ELSE named

HighCardinalityKeys == {"k8s.pod.uid", "k8s.replicaset.uid", "container.id", "process.pid"}

\* Mutant of SeriesHash: without the temporality.
BugSeriesHash(name, temporality, resAttrs, dpAttrs) ==
    Put(Restrict(Over(resAttrs, dpAttrs), (DOMAIN resAttrs \cup DOMAIN dpAttrs) \ HighCardinalityKeys),
        "__name__", name)

\* The hash is its input map, so two maps never collide; of the empty map it is 0.
SeriesHash(name, temporality, resAttrs, dpAttrs) ==
    Put(Put(Restrict(Over(resAttrs, dpAttrs),
                     (DOMAIN resAttrs \cup DOMAIN dpAttrs) \ HighCardinalityKeys),
            "__temporality__", temporality), "__name__", name)

\* Bounds are powers of the base, here by their exponents; the zeros lie below
\* the first, and nothing above the last.
ExpBucketsToExplicit(dp) ==
    IF dp.positive = <<>> THEN [bounds |-> <<>>, counts |-> <<>>]
    ELSE [bounds |-> [i \in 1 .. Len(dp.positive) + 1 |-> dp.offset + i - 1],
          counts |-> <<dp.zero>> \o dp.positive \o <<0>>]

\* What a point of each type brings besides its value.
Histogram(dp) ==
    CASE dp.type = "ExponentialHistogram" -> ExpBucketsToExplicit(dp)
      [] dp.type = "Histogram"            -> [bounds |-> dp.bounds, counts |-> dp.counts]
      [] OTHER                            -> [bounds |-> <<>>, counts |-> <<>>]

PointTemporality(dp) ==
    CASE dp.type = "Gauge"   -> "Unspecified"
      [] dp.type = "Summary" -> "Cumulative"
      [] OTHER               -> Temporality(dp.temporality)

\* The row of a point, and its series.
ScalarRow(resMap, dims, dp) ==
    LET attrs == NormalizeAttrs(dp.name, AttrsToMap(dp.attrs))
        common == [name |-> dp.name, temporality |-> PointTemporality(dp), attrs |-> attrs,
                   time |-> dp.time, dims |-> dims,
                   fp |-> SeriesHash(dp.name, PointTemporality(dp), resMap, attrs)]
    IN [row |-> Over(common,
            [value |-> IF dp.type \in {"Gauge", "Sum"} THEN dp.value ELSE 0,
             count |-> IF dp.type \in {"Gauge", "Sum"} THEN 0 ELSE dp.count,
             hist  |-> Histogram(dp),
             cloud |-> [provider |-> Get(resMap, "cloud.provider"),
                        account  |-> Get(resMap, "cloud.account.id"),
                        region   |-> FirstNonEmpty(resMap, <<"cloud.region", "aws.region">>),
                        platform |-> Get(resMap, "cloud.platform"),
                        node     |-> Get(resMap, "k8s.node.name")]]),
        series |-> Over(common,
            [type |-> dp.type, monotonic |-> dp.type = "Sum" /\ dp.monotonic,
             resource |-> HostResourceAttrs(resMap)])]

NoFingerprint(fp) == DOMAIN fp = {}

\* rowAccumulator.add: a series once per request, and none for the fingerprint 0.
AddSeries(series, s) ==
    IF NoFingerprint(s.fp) \/ \E i \in DOMAIN series : series[i].fp = s.fp
    THEN series ELSE Append(series, s)

=============================================================================
