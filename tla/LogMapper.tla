------------------------------- MODULE LogMapper -------------------------------
(***************************************************************************)
(* One log record to one row (internal/ingestion/logs/mapper.go).          *)
(***************************************************************************)
EXTENDS Attributes

ResourceFallbackKeys == {"service.name", "host.name", "k8s.pod.name", "deployment.environment"}

\* What a resource leaves for its records to say.
Missing(res) == {k \in ResourceFallbackKeys : Get(res, k) = ""}

\* Mutant of PatchResource: patched in place.
BugPatchInPlace(res, attrs) ==
    LET patch == Restrict(attrs, {k \in Missing(res) : Get(attrs, k) # ""})
    IN [base |-> Over(res, patch), shared |-> TRUE, own |-> Over(res, patch)]

\* Rows share the resource unless their record patches it, which copies it.
PatchResource(res, attrs) ==
    LET patch == Restrict(attrs, {k \in Missing(res) : Get(attrs, k) # ""})
    IN [base |-> res, shared |-> DOMAIN patch = {}, own |-> Over(res, patch)]

Timestamp(lr, now) ==
    IF lr.time # 0 THEN lr.time ELSE IF lr.observed # 0 THEN lr.observed ELSE now

\* The hash of its inputs, taken to have no collisions.
ComputeLogID(trace, ts, body) == <<trace, ts, body>>

\* The upper-cased text, or the level's name.
ResolveSeverity(lr) ==
    CASE lr.severity # ""                           -> lr.severity
      [] lr.severity = "" /\ lr.number <= 0         -> "UNSET"
      [] lr.severity = "" /\ lr.number \in 1 .. 4   -> "TRACE"
      [] lr.severity = "" /\ lr.number \in 5 .. 8   -> "DEBUG"
      [] lr.severity = "" /\ lr.number \in 9 .. 12  -> "INFO"
      [] lr.severity = "" /\ lr.number \in 13 .. 16 -> "WARN"
      [] lr.severity = "" /\ lr.number \in 17 .. 20 -> "ERROR"
      [] OTHER                                      -> "FATAL"

BuildLogRow(patch, lr, now) ==
    LET ts == Timestamp(lr, now)
    IN [timestamp |-> ts,
        observed  |-> IF lr.observed = 0 THEN now ELSE lr.observed,
        bucket    |-> BucketStart(ts \div NsPerSecond),
        attrs     |-> TypedAttrs(lr.attrs),
        shared    |-> patch.shared,
        own       |-> IF patch.shared THEN <<>> ELSE patch.own,
        dims      |-> ResolveResource(patch.own),
        trace     |-> BytesToHex(lr.trace),
        body      |-> AnyValueString(lr.body),
        severity  |-> ResolveSeverity(lr),
        id        |-> ComputeLogID(BytesToHex(lr.trace), ts, AnyValueString(lr.body))]

=============================================================================
