------------------------------ MODULE MCRowMapping ------------------------------
(* Two records of one resource or of two; limits of two attributes and two  *)
(* bytes.  A span's attributes have their keys for values.                  *)
EXTENDS RowMapping, TLC

MCKeyOrder == <<"a", "client-id", "enduser.id", "group", "k8s.pod.uid",
    "messaging.consumer.group.name", "messaging.destination", "messaging.destination.name",
    "service.name", "user.id", "z">>
MCRuneStarts == "hue" :> {0, 1}
MCPrefix == "hue" :> (0 :> "" @@ 1 :> "h" @@ 2 :> "h?")
MCNumbers == "3" :> 3 @@ "9" :> 9 @@ "17" :> 17
MCInvalid == {"h?", "raw"}

String(text) == [kind |-> "string", text |-> text]
Bytes == [kind |-> "bytes", text |-> "ff", raw |-> "raw"]
Named(keys) == [k \in keys |-> String(k)]

MCResources == {<<>>, Named({"a"}), "service.name" :> String("r") @@ "a" :> String("r"), "z" :> String("r") @@ "a" :> String("r")
                    @@ "messaging.destination" :> String("r")}

Event(name, attrs) == [name |-> name, attrs |-> attrs]
Span(attrs, events) ==
    [attrs |-> attrs, events |-> events, start |-> 1, end |-> 1, status |-> "unset", trace |-> "zero"]
SpanKeys == {"a", "z", "user.id", "gen_ai.request.user", "http.method", "http.request.method",
             "langfuse.release", "messaging.destination"}
Otel(value, label) == Event("gen_ai.evaluation.result",
    "gen_ai.evaluation.name" :> "q" @@ "gen_ai.evaluation.score.value" :> value
        @@ "gen_ai.evaluation.score.label" :> label @@ "gen_ai.evaluation.explanation" :> "hue")
\* Promoted keys whose columns take them in another form, or not at all.
MCPromoted ==
    {"service.name" :> "s", "optikk.eval" :> "e", "langfuse.session.id" :> "s",
     "exception.escaped" :> "true", "gen_ai.operation.name" :> "embeddings",
     "optikk.eval" :> "e" @@ "gen_ai.observation.type" :> "event",
     "langfuse.observation.type" :> "chain" @@ "gen_ai.observation.type" :> "event",
     "gen_ai.usage.input_tokens" :> "x" @@ "gen_ai.usage.prompt_tokens" :> "3",
     "gen_ai.usage.completion_tokens" :> "9", "optikk.prompt.version" :> "17"}
MCSpans ==
    {Span(Named(keys), <<>>) : keys \in {k \in SUBSET SpanKeys : Cardinality(k) <= 2}}
    \cup {Span([k \in DOMAIN texts |-> String(texts[k])], <<>>) : texts \in MCPromoted}
    \cup {Span(Named({key}), <<Event("exception", <<>>)>>) :
            key \in {"exception.message", "exception.stacktrace", "exception.escaped"}}
    \cup {Span("a" :> [kind |-> "unset"], <<>>), Span("gen_ai.prompt" :> String("hue"), <<>>)}
    \cup {Span(<<>>, <<Event("exception", "exception.type" :> "t"), Otel(value, label)>>) :
            value \in {"", "3", "good"}, label \in {"", "pass", "no", "well"}}

MCLogs ==
    {[attrs |-> attrs, time |-> time, observed |-> observed, severity |-> "", number |-> number,
      body |-> String("b"), trace |-> "t1"] :
        attrs \in {<<>>, Named({"service.name"}), "a" :> Bytes, Named({"a", "user.id", "service.name"}),
                   "a" :> [kind |-> "array", text |-> "[]"] @@ "z" :> [kind |-> "int", text |-> "3"]},
        time \in {0, 5, 40}, observed \in {0, 7}, number \in {0, 17}}

Point(type, name, temporality, attrs) ==
    [type |-> type, name |-> name, temporality |-> temporality, attrs |-> attrs, time |-> 1,
     value |-> 1, monotonic |-> FALSE, count |-> 0, bounds |-> <<>>, counts |-> <<>>]
MCPoints ==
    {Point(type, name, temporality, attrs) : type \in {"Gauge", "Sum"}, name \in {"m", "kafka.m"},
        temporality \in {"delta", "cumulative"},
        attrs \in {<<>>, Named({"group"}), Named({"k8s.pod.uid"}), "client-id" :> String("consumer-g-1"), Named({"__name__"})}}
    \cup {Over(Point("ExponentialHistogram", "e", "delta", <<>>),
            [zero |-> zero, positive |-> positive, negative |-> negative, offset |-> -1,
             count |-> zero + SumFunction(positive) + negative]) :
            zero \in {0, 1}, positive \in {<<>>, <<1>>, <<0, 2>>}, negative \in {0, 1}}
    \cup {Over(Point("Histogram", "h", "unspecified", <<>>), [bounds |-> <<1>>, counts |-> <<1, 0>>]),
           Point("Summary", "s", "unspecified", <<>>)}

MCClientGroups == "consumer-g-1" :> "g"
=============================================================================
