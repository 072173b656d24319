------------------------------- MODULE RowMapping -------------------------------
(***************************************************************************)
(* mapRequest of the three signals: the resources of a request one after   *)
(* the other, each with its records, to rows, series and usage; then what  *)
(* the handlers make of them (EmitUsage, ExtractFromSpans).  Rows of one   *)
(* resource share a map in memory unless they need one of their own.       *)
(***************************************************************************)
EXTENDS SpanMapper, LogMapper, MetricMapper

CONSTANTS
    Resources,      \* resources of a request, as attributes
    Spans, Logs, Points,
    Sizes,          \* request sizes in bytes
    Invalid,        \* texts that are not UTF-8
    MaxResources, MaxRecords

ASSUME RequestAssumption == MaxResources \in Nat /\ MaxRecords \in Nat /\ Sizes \subseteq Nat

\* KeyOrder has every key that may become an attribute of a span's row.
ASSUME KeysAssumption ==
    /\ \A attrs \in Resources : DOMAIN attrs \ PromotedKeys \subseteq Range(KeyOrder)
    /\ \A s \in Spans : DOMAIN s.attrs \ PromotedKeys \subseteq Range(KeyOrder)
    /\ {"messaging.destination.name", "messaging.consumer.group.name"} \subseteq Range(KeyOrder)

\* Texts arrive as UTF-8 (protobuf's strings are; bytes need not be), and one
\* that is cut where a rune starts stays so.
ASSUME TextsAssumption ==
    /\ "" \notin Invalid
    /\ \A attrs \in Resources \cup {s.attrs : s \in Spans} : \A k \in DOMAIN attrs :
        AnyValueString(attrs[k]) \notin Invalid
    /\ \A s \in Spans : \A i \in DOMAIN s.events : Range(s.events[i].attrs) \cap Invalid = {}
    /\ \A lr \in Logs :
        /\ AnyValueString(lr.body) \notin Invalid
        /\ \A k \in OfKind(lr.attrs, {"string"}) : lr.attrs[k].text \notin Invalid
    /\ \A text \in DOMAIN Prefix :
        /\ RuneStarts[text] \subseteq Nat
        /\ \A c \in {0} \cup {c \in RuneStarts[text] : c <= MaxBytes} : Prefix[text][c] \notin Invalid

\* An exponential histogram counts what its buckets do (OTLP).
ASSUME PointsAssumption ==
    \A dp \in Points : dp.type = "ExponentialHistogram" =>
        /\ dp.positive \in Seq(Nat) /\ {dp.zero, dp.negative} \subseteq Nat
        /\ dp.count = dp.zero + SumFunction(dp.positive) + dp.negative

VARIABLES
    signal,         \* the request's signal
    now,            \* its time of arrival
    phase,          \* between resources, in one, or done
    resources,      \* the resources so far, as texts
    bases,          \* the map of each that its rows may share
    inputs,         \* history: the records so far, and the resource of each
    rows, series, usage,
    size, stats, scores

vars == <<signal, now, phase, resources, bases, inputs, rows, series, usage, size, stats, scores>>

Init ==
    /\ signal \in {"spans", "logs", "metrics"}
    /\ now = 9 /\ phase = "between"
    /\ resources = <<>> /\ bases = <<>> /\ inputs = <<>>
    /\ rows = <<>> /\ series = <<>> /\ usage = <<>>
    /\ size = 0 /\ stats = <<>> /\ scores = <<>>

Current == Len(resources)

StartResource(attrs) ==
    /\ phase = "between"
    /\ Current < MaxResources
    /\ phase' = "open"
    /\ resources' = Append(resources, AttrsToMap(attrs))
    /\ bases' = Append(bases, IF signal = "spans" THEN ResourceBaseAttrs(AttrsToMap(attrs))
                              ELSE AttrsToMap(attrs))
    /\ UNCHANGED <<signal, now, inputs, rows, series, usage, size, stats, scores>>

\* A record becomes a row; the map its resource shares may not change, but
\* that is the mappers' affair.
AddRow(record, row, base) ==
    /\ phase = "open"
    /\ Len(inputs) < MaxRecords
    /\ inputs' = Append(inputs, [of |-> Current, record |-> record])
    /\ rows' = Append(rows, row)
    /\ bases' = [bases EXCEPT ![Current] = base]
    /\ UNCHANGED <<signal, now, phase, resources, usage, size, stats, scores>>

MapSpan(s) ==
    LET spanMap == NormalizeMessagingAttrs(AttrsToMap(s.attrs))
        merge == MergeAndCapAttrs(bases[Current], spanMap, IsGenAI(spanMap))
    IN /\ signal = "spans"
       /\ AddRow(s, BuildSpanRow(merge, ResolveResource(resources[Current]), s), merge.base)
       /\ UNCHANGED series

MapLog(lr) ==
    LET patch == PatchResource(bases[Current], TypedAttrs(lr.attrs).str)
    IN /\ signal = "logs"
       /\ AddRow(lr, BuildLogRow(patch, lr, now), patch.base)
       /\ UNCHANGED series

\* A metric of an unknown type has no points.
MapPoint(dp) ==
    LET scalar == ScalarRow(bases[Current], ResolveResource(resources[Current]), dp)
    IN /\ signal = "metrics"
       /\ AddRow(dp, scalar.row, bases[Current])
       /\ series' = AddSeries(series, Over(scalar.series, [of |-> Current]))

\* A resource without rows has no usage.
EndResource ==
    LET records == Cardinality({i \in DOMAIN inputs : inputs[i].of = Current})
        dims == ResolveResource(resources[Current])
    IN /\ phase = "open"
       /\ phase' = "between"
       /\ usage' = IF records = 0 THEN usage
                   ELSE Append(usage, [of |-> Current, service |-> dims.service,
                                       environment |-> dims.environment, records |-> records])
       /\ UNCHANGED <<signal, now, resources, bases, inputs, rows, series, size, stats, scores>>

\* The sum of s[i].records, or of s[i].bytes.
Total(s, field) == SumFunction([i \in DOMAIN s |-> s[i][field]])

\* Mutant of UsageRows: shares alone, without the remainder.
BugUsageRows(shares, total) ==
    [i \in DOMAIN shares |-> Over(shares[i],
        [bytes |-> (total * shares[i].records) \div Total(shares, "records")])]

\* Bytes by records, rounded down; the last takes what remains.
UsageRows(shares, total) ==
    LET share == [i \in DOMAIN shares |->
                    [bytes |-> (total * shares[i].records) \div Total(shares, "records")]]
        before == SubSeq(share, 1, Len(share) - 1)
    IN [i \in DOMAIN shares |-> Over(shares[i],
            IF i = Len(shares) THEN [bytes |-> total - Total(before, "bytes")] ELSE share[i])]

\* The handler after a publish that succeeded.
Finish(total) ==
    /\ phase = "between"
    /\ Current > 0
    /\ phase' = "done"
    /\ size' = total
    /\ stats' = UsageRows(usage, total)
    /\ scores' = IF signal = "spans" THEN ScoresOf(rows) ELSE <<>>
    /\ UNCHANGED <<signal, now, resources, bases, inputs, rows, series, usage>>

Next ==
    \/ \E attrs \in Resources : StartResource(attrs)
    \/ \E s \in Spans : MapSpan(s)
    \/ \E lr \in Logs : MapLog(lr)
    \/ \E dp \in Points : MapPoint(dp)
    \/ EndResource
    \/ \E total \in Sizes : Finish(total)

Spec == Init /\ [][Next]_vars

-----------------------------------------------------------------------------
(* Properties                                                              *)

\* The attributes of a span row, or the resource of a log row.
Held(rs, maps, of, i) == IF rs[i].shared THEN maps[of[i].of] ELSE rs[i].own
Attributes(i) == Held(rows, bases, inputs, i)
Source(i) == resources[inputs[i].of]
Shared == signal \in {"spans", "logs"}

\* A row stays as it was built: no later record changes a map it shares.
RowsStable ==
    [][Shared => \A i \in DOMAIN rows :
        /\ rows'[i] = rows[i]
        /\ Held(rows', bases', inputs', i) = Held(rows, bases, inputs, i)]_vars

SpanMap(i) == NormalizeMessagingAttrs(AttrsToMap(inputs[i].record.attrs))

\* Capping the resource once for all spans and again with each changes
\* nothing: a row holds the smallest keys of both, the span's value first.
AttributesKept ==
    signal = "spans" => \A i \in DOMAIN rows :
        Attributes(i) = CapStringMap(Over(
            Restrict(Source(i), DOMAIN Source(i) \ PromotedKeys),
            Restrict(SpanMap(i), KeptKeys(SpanMap(i), IsGenAI(SpanMap(i))))))

\* The columns that a span's own attributes are read into, and their keys.
OwnColumns ==
    Over(SpanColumns, Over(GenAIColumns, Over(IdentityColumns, [gen_ai_span_kind |-> TypeKeys])))
Counts == {"gen_ai_input_tokens", "gen_ai_output_tokens", "llm_prompt_version"}
Kinds == {"generation", "event", "span", "eval"}

\* How a column shows a text: contents are cut, operations grouped, counts read,
\* a prompt's version modulo its width.
Shown(c, text) ==
    CASE c \in {"gen_ai_prompt", "gen_ai_completion"} -> TruncateUTF8(text)
      [] c = "gen_ai_operation"                       -> NormalizeGenAIOperation(text)
      [] c = "llm_prompt_version"                     -> Numbers[text] % Word
      [] c \in Counts \ {"llm_prompt_version"}        -> Numbers[text]
      [] OTHER                                        -> text

\* The texts a column may show for a key: its own, or that of one before it.
Spellings(m, keys, k) ==
    {m[keys[j]] : j \in {j \in DOMAIN keys :
        Get(m, keys[j]) # "" /\ \E l \in DOMAIN keys : keys[l] = k /\ j <= l}}

\* What a column cannot show, and the row nowhere has: a count that is no
\* number, a kind that is not known or that optikk.eval overrides, and the
\* release of a span that is not a GenAI one.
Unfit(c, text, m) ==
    \/ c \in Counts /\ text \notin DOMAIN Numbers
    \/ c = "gen_ai_span_kind" /\ (text \notin Kinds \/ "optikk.eval" \in DOMAIN m)
    \/ c = "llm_release" /\ ~IsGenAI(m)

\* The row's exception is that of an event when the span names none itself.
FromEvent(m, events) ==
    /\ Get(m, "exception.type") = "" /\ Get(m, "exception.message") = ""
    /\ \E i \in DOMAIN events : events[i].name = "exception"

\* The promoted keys whose columns are the resource's.
ResourceKeys ==
    {"service.name", "host.name", "k8s.pod.name", "service.version", "deployment.environment"}

\* Every text of a span is in its row, or is lost by one of the rules listed
\* here and by no other: it is an attribute; or a column of its key shows it, or
\* shows an earlier spelling, or cannot (Unfit); or it is the exception's, unless
\* an event replaces what the span says of it; or it marks an evaluation, which
\* only a GenAI span has; or it is beyond the cap; or it is a resource's key,
\* whose columns say what the resource does and never what the span does.
NothingLost ==
    signal = "spans" => \A i \in DOMAIN rows :
        LET m == SpanMap(i)
            row == rows[i]
            kept == (DOMAIN m \cup DOMAIN Source(i)) \ PromotedKeys
        IN \A k \in {k \in DOMAIN m : m[k] # ""} :
            \/ Get(Attributes(i), k) = m[k]
            \/ k \in kept /\ k \notin Smallest(kept, MaxAttributes)
            \/ \E c \in DOMAIN OwnColumns : \E text \in Spellings(m, OwnColumns[c], k) :
                Unfit(c, text, m) \/ row.columns[c] = Shown(c, text)
            \/ /\ k \in ExceptionKeys
               /\ \/ row.exception[k] = IF k = "exception.escaped" THEN m[k] = "true" ELSE m[k]
                  \/ FromEvent(m, row.events)
            \/ k = "optikk.eval" /\ row.columns.gen_ai_span_kind = IF IsGenAI(m) THEN "eval" ELSE ""
            \/ k \in ResourceKeys /\ row.dims = ResolveResource(Source(i))

\* Every span and log row and every score can be marshalled, as far as the texts
\* go that the mappers cut or convert (prompts, completions, comments, bodies,
\* attributes), unless a log record brought bytes that are not UTF-8 as an
\* attribute: such a record fails its request at every retry.
MarshalOK ==
    /\ signal = "spans" =>
        /\ \A i \in DOMAIN rows :
            {rows[i].columns.gen_ai_prompt, rows[i].columns.gen_ai_completion} \cap Invalid = {}
        /\ \A at \in DOMAIN scores : scores[at].comment \notin Invalid
    /\ signal = "logs" => \A i \in DOMAIN rows :
        (({rows[i].body} \cup Range(rows[i].attrs.str) \cup Range(Attributes(i))) \cap Invalid) # {}
            => OfKind(inputs[i].record.attrs, {"bytes"}) # {}

\* A log row has the resource of its record, with what that lacks taken from
\* the record itself and from no other.
FallbackOnly ==
    signal = "logs" => \A i \in DOMAIN rows :
        \A k \in DOMAIN Attributes(i) \cup DOMAIN Source(i) \cup ResourceFallbackKeys :
            Get(Attributes(i), k) =
                IF k \in ResourceFallbackKeys /\ Get(Source(i), k) = ""
                THEN Get(rows[i].attrs.str, k) ELSE Get(Source(i), k)

\* A log that is sent again keeps its id, if it says when it was made or seen.
RetryKeepsID ==
    signal = "logs" => \A i \in DOMAIN rows :
        LET lr == inputs[i].record
        IN lr.time # 0 \/ lr.observed # 0 =>
            ComputeLogID(BytesToHex(lr.trace), Timestamp(lr, now + 1), AnyValueString(lr.body))
                = rows[i].id

\* A log row is that of its record alone, and keeps its identifier.
LogsKept == FallbackOnly /\ RetryKeepsID

\* What the fingerprint distinguishes a row's series by: neither its type nor its
\* unit.  An attribute that has the key of the name or of the temporality loses
\* to it.
Identity(x, of) ==
    LET attrs == Over(resources[of], x.attrs)
        keys  == DOMAIN attrs \ (HighCardinalityKeys \cup {"__name__", "__temporality__"})
    IN <<x.name, x.temporality, Restrict(attrs, keys)>>

\* Every row of a request has one series row, that agrees with it in all that
\* identifies a series.
SeriesComplete ==
    signal = "metrics" => \A i \in DOMAIN rows :
        \E j \in DOMAIN series :
            /\ Identity(series[j], series[j].of) = Identity(rows[i], inputs[i].of)
            /\ \A k \in DOMAIN series : series[k].fp = rows[i].fp <=> k = j

\* The explicit buckets of an exponential histogram count every observation
\* that is not negative, unless none was positive.
CountsConserved ==
    signal = "metrics" => \A i \in DOMAIN rows :
        LET dp == inputs[i].record
            hist == rows[i].hist
        IN dp.type = "ExponentialHistogram" /\ dp.positive # <<>> =>
            /\ SumFunction(hist.counts) + dp.negative = rows[i].count
            /\ Len(hist.counts) = Len(hist.bounds) + 1

\* A point keeps its series and what it counted; where its buckets end is a
\* matter of ExpBucketsToExplicit.
PointsKept == SeriesComplete /\ CountsConserved

\* Usage counts every row once and every byte once, for the service of its
\* resource: that of the row too, unless a log record patched it.
UsageExact ==
    phase = "done" =>
        /\ Total(stats, "records") = Len(rows)
        /\ rows # <<>> => Total(stats, "bytes") = size
        /\ \A i \in DOMAIN stats :
            /\ stats[i].bytes \in 0 .. size
            /\ stats[i].records = Cardinality({j \in DOMAIN rows : inputs[j].of = stats[i].of})
            /\ \A j \in DOMAIN rows : inputs[j].of = stats[i].of =>
                \/ rows[j].dims.service = stats[i].service
                \/ signal = "logs" /\ ~rows[j].shared

\* The type of a score whose sender declared none says what its value is.
ScoresTyped ==
    \A at \in DOMAIN scores :
        LET v == scores[at].value
        IN scores[at].declared = "" =>
            /\ v.type = "numeric" => v.text = ""
            /\ v.type = "boolean" => v.text \in {"true", "pass", "yes", "false", "fail", "no"}
            /\ v.type = "categorical" => v.value = 0

\* What the handlers derive from a request agrees with its rows and events:
\* the tenant's usage and the scores (EmitUsage, ExtractFromSpans).
DerivedExact == UsageExact /\ ScoresTyped

=============================================================================
