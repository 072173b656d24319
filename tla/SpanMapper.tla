------------------------------ MODULE SpanMapper ------------------------------
(***************************************************************************)
(* One span to one row (internal/ingestion/spans/mapper.go, genai.go) and  *)
(* the scores of its events (internal/ingestion/llmscores/extract.go).     *)
(***************************************************************************)
EXTENDS Attributes

\* The columns read from a span's attributes, each from the first of its keys
\* that is set.
SpanColumns ==
    [http_method |-> <<"http.method", "http.request.method">>,
     http_url |-> <<"http.url", "url.full">>,
     http_host |-> <<"http.host", "net.host.name">>,
     response_status_code |-> <<"http.status_code", "http.response.status_code">>,
     db_system |-> <<"db.system", "db.system.name">>,
     db_name |-> <<"db.name", "db.namespace">>,
     db_statement |-> <<"db.statement", "db.query.text">>,
     peer_service |-> <<"peer.service">>,
     http_route |-> <<"http.route">>]

GenAIColumns ==
    [gen_ai_system |-> <<"gen_ai.provider.name", "gen_ai.system">>,
     gen_ai_operation |-> <<"gen_ai.operation.name">>,
     gen_ai_request_model |-> <<"gen_ai.request.model">>,
     gen_ai_response_model |-> <<"gen_ai.response.model">>,
     gen_ai_prompt |-> <<"gen_ai.prompt", "gen_ai.input.messages">>,
     gen_ai_completion |-> <<"gen_ai.completion", "gen_ai.output.messages">>,
     gen_ai_input_tokens |-> <<"gen_ai.usage.input_tokens", "gen_ai.usage.prompt_tokens">>,
     gen_ai_output_tokens |-> <<"gen_ai.usage.output_tokens", "gen_ai.usage.completion_tokens">>,
     llm_tags |-> <<"langfuse.trace.tags", "optikk.llm.tags">>,
     llm_prompt_name |-> <<"langfuse.prompt.name", "optikk.prompt.name">>,
     llm_prompt_version |-> <<"langfuse.prompt.version", "optikk.prompt.version">>]

\* Mutant of IdentityColumns: a promoted key that no column is read from.
BugIdentityColumns ==
    [llm_user_id |-> <<"gen_ai.request.user", "user.id", "enduser.id", "langfuse.user.id">>,
     llm_session_id |-> <<"gen_ai.conversation.id", "session.id">>,
     llm_release |-> <<"langfuse.release">>]

\* Those that only a GenAI span has.
IdentityColumns ==
    [llm_user_id |-> <<"gen_ai.request.user", "user.id", "enduser.id", "langfuse.user.id">>,
     llm_session_id |-> <<"gen_ai.conversation.id", "session.id", "langfuse.session.id">>,
     llm_release |-> <<"langfuse.release">>]

ExceptionKeys ==
    {"exception.type", "exception.message", "exception.stacktrace", "exception.escaped"}
TypeKeys == <<"langfuse.observation.type", "gen_ai.observation.type">>
GenAIIdentityKeys == {"user.id", "enduser.id", "session.id"}

\* Kept out of the attributes, by a list of their own: nothing in the code
\* compares it with the keys the columns are read from.
PromotedKeys ==
    {"http.method", "http.request.method", "http.url", "url.full", "http.host", "net.host.name",
     "http.status_code", "http.response.status_code",
     "exception.type", "exception.message", "exception.stacktrace", "exception.escaped",
     "service.name", "host.name", "k8s.pod.name", "service.version", "deployment.environment",
     "peer.service", "http.route",
     "db.system", "db.system.name", "db.name", "db.namespace", "db.statement", "db.query.text",
     "gen_ai.provider.name", "gen_ai.system", "gen_ai.operation.name",
     "gen_ai.request.model", "gen_ai.response.model",
     "gen_ai.usage.input_tokens", "gen_ai.usage.output_tokens",
     "gen_ai.usage.prompt_tokens", "gen_ai.usage.completion_tokens",
     "gen_ai.prompt", "gen_ai.completion", "gen_ai.input.messages", "gen_ai.output.messages",
     "gen_ai.request.user", "langfuse.user.id", "gen_ai.conversation.id", "langfuse.session.id",
     "langfuse.release", "langfuse.trace.tags", "optikk.llm.tags",
     "langfuse.prompt.name", "optikk.prompt.name",
     "langfuse.prompt.version", "optikk.prompt.version",
     "langfuse.observation.type", "gen_ai.observation.type", "optikk.eval"}

ResourceBaseAttrs(resMap) == CapStringMap(Restrict(resMap, DOMAIN resMap \ PromotedKeys))

KeptKeys(spanMap, genAI) ==
    DOMAIN spanMap \ (PromotedKeys \cup (IF genAI THEN GenAIIdentityKeys ELSE {}))

\* Mutants of MergeAndCapAttrs: merged in place; capped before the merge.
BugMergeInPlace(base, spanMap, genAI) ==
    LET merged == CapStringMap(Over(base, Restrict(spanMap, KeptKeys(spanMap, genAI))))
    IN [base |-> merged, own |-> merged, shared |-> TRUE]
BugCapFirst(base, spanMap, genAI) ==
    [base |-> base, shared |-> FALSE,
     own  |-> Over(base, CapStringMap(Restrict(spanMap, KeptKeys(spanMap, genAI))))]

\* A span without attributes of its own shares the map of its resource; any
\* other gets a copy.
MergeAndCapAttrs(base, spanMap, genAI) ==
    [base   |-> base,
     shared |-> KeptKeys(spanMap, genAI) = {},
     own    |-> CapStringMap(Over(base, Restrict(spanMap, KeptKeys(spanMap, genAI))))]

\* A key that is not set, by a legacy one that is.
Fill(m, key, legacy) ==
    IF Get(m, key) # "" \/ FirstNonEmpty(m, legacy) = "" THEN m
    ELSE Put(m, key, FirstNonEmpty(m, legacy))

NormalizeMessagingAttrs(m) ==
    Fill(Fill(m, "messaging.destination.name", <<"messaging.source.name", "messaging.destination">>),
         "messaging.consumer.group.name", <<"messaging.kafka.consumer.group">>)

\* The map that holds the exception: the span's own, or its last such event's.
ExceptionAttrs(spanMap, events) ==
    LET exceptions == {i \in DOMAIN events : events[i].name = "exception"}
    IN IF Get(spanMap, "exception.type") # "" \/ Get(spanMap, "exception.message") # ""
          \/ exceptions = {}
       THEN spanMap
       ELSE events[Greatest(exceptions)].attrs

SpanDuration(s) == IF s.end > s.start THEN s.end - s.start ELSE 0

NormalizeGenAIOperation(op) ==
    CASE op = ""                                                    -> ""
      [] op \in {"chat", "text_completion", "generate_content"}     -> "chat"
      [] op = "execute_tool"                                        -> "tool"
      [] op = "embeddings"                                          -> "embedding"
      [] op \in {"retrieval", "retrieve"}                           -> "retrieval"
      [] op \in {"invoke_agent", "create_agent", "agent"}           -> "agent"
      [] OTHER                                                      -> "other"

Read(m, columns) == [c \in DOMAIN columns |-> FirstNonEmpty(m, columns[c])]

\* A system, an operation, a model, a user, a session or a type marks a span.
IsGenAI(m) ==
    FirstNonEmpty(m, <<"gen_ai.provider.name", "gen_ai.system", "gen_ai.operation.name",
        "gen_ai.request.model", "gen_ai.response.model", "gen_ai.conversation.id",
        "gen_ai.request.user", "langfuse.session.id", "langfuse.user.id">> \o TypeKeys) # ""

GenAISpanKind(m, duration) ==
    LET type == FirstNonEmpty(m, TypeKeys)
    IN CASE ~IsGenAI(m) -> ""
         [] IsGenAI(m) /\ "optikk.eval" \in DOMAIN m -> "eval"
         [] OTHER ->
            IF type \in {"generation", "event", "span", "eval"} THEN type
            ELSE IF FirstNonEmpty(m, <<"gen_ai.request.model", "gen_ai.response.model">>) # ""
            THEN "generation"
            ELSE IF duration = 0 THEN "event" ELSE "span"

ExtractGenAI(m, duration, version) ==
    LET read == Read(m, GenAIColumns)
        identity == Read(m, IdentityColumns)
    IN Over(Over(read,
        [gen_ai_operation |-> NormalizeGenAIOperation(read.gen_ai_operation),
         gen_ai_prompt |-> TruncateUTF8(read.gen_ai_prompt),
         gen_ai_completion |-> TruncateUTF8(read.gen_ai_completion),
         gen_ai_input_tokens |-> ParseUint(read.gen_ai_input_tokens),
         gen_ai_output_tokens |-> ParseUint(read.gen_ai_output_tokens),
         llm_prompt_version |-> ParseUint(read.llm_prompt_version) % Word,
         is_gen_ai |-> IsGenAI(m),
         gen_ai_span_kind |-> GenAISpanKind(m, duration)]),
        IF ~IsGenAI(m) THEN [c \in DOMAIN identity |-> ""]
        ELSE IF identity.llm_release = "" THEN [identity EXCEPT !.llm_release = version]
        ELSE identity)

\* The row of a span; its attributes are those of MergeAndCapAttrs.
BuildSpanRow(merge, dims, s) ==
    LET m == NormalizeMessagingAttrs(AttrsToMap(s.attrs))
        exc == ExceptionAttrs(m, s.events)
    IN [columns   |-> Over(Read(m, SpanColumns), ExtractGenAI(m, SpanDuration(s), dims.version)),
        exception |-> [k \in ExceptionKeys |->
                        IF k = "exception.escaped" THEN Get(exc, k) = "true" ELSE Get(exc, k)],
        shared    |-> merge.shared,
        own       |-> IF merge.shared THEN <<>> ELSE merge.own,
        dims      |-> dims,
        trace     |-> BytesToHex(s.trace),
        duration  |-> SpanDuration(s),
        error     |-> s.status = "error",
        events    |-> s.events]

-----------------------------------------------------------------------------
(* Scores                                                                  *)

NormalizeType(type) ==
    CASE type \in {"numeric", "number"} -> "numeric"
      [] type \in {"boolean", "bool"}   -> "boolean"
      [] OTHER                          -> "categorical"

\* A number, a word for true or false, or any other text.
AssignValue(declared, raw, label) ==
    LET text == IF label = "" THEN raw ELSE label
        Typed(type, value, string) ==
            [type |-> IF declared = "" THEN type ELSE declared, value |-> value, text |-> string]
    IN CASE raw \in DOMAIN Numbers -> Typed("numeric", Numbers[raw], "")
         [] raw \notin DOMAIN Numbers /\ text \in {"true", "pass", "yes"} -> Typed("boolean", 1, text)
         [] raw \notin DOMAIN Numbers /\ text \in {"false", "fail", "no"} -> Typed("boolean", 0, text)
         [] OTHER -> Typed("categorical", 0, text)

\* The keys of an event's name, comment, type, value and label, by its name.
ScoreKeys(name) ==
    IF name = "langfuse.score"
    THEN <<"langfuse.score.name", "langfuse.score.comment", "langfuse.score.dataType",
           "langfuse.score.value", "langfuse.score.stringValue">>
    ELSE <<"gen_ai.evaluation.name", "gen_ai.evaluation.explanation", "",
           "gen_ai.evaluation.score.value", "gen_ai.evaluation.score.label">>

ScoreOf(row, event) ==
    LET field == [i \in 1 .. 5 |-> Get(event.attrs, ScoreKeys(event.name)[i])]
    IN [name |-> field[1], comment |-> TruncateUTF8(field[2]), declared |-> field[3],
        trace |-> row.trace, user |-> row.columns.llm_user_id, service |-> row.dims.service,
        value |-> AssignValue(IF field[3] = "" THEN "" ELSE NormalizeType(field[3]),
                              field[4], field[5])]

\* Events of another name, or without a name for their score, have none.
IsScore(event) ==
    /\ event.name \in {"gen_ai.evaluation.result", "langfuse.score"}
    /\ Get(event.attrs, ScoreKeys(event.name)[1]) # ""

\* The scores of rows, by the places of their events.
ScoresOf(spanRows) ==
    LET places == UNION {{<<i, j>> : j \in DOMAIN spanRows[i].events} : i \in DOMAIN spanRows}
        event(at) == spanRows[at[1]].events[at[2]]
    IN [at \in {at \in places : IsScore(event(at))} |-> ScoreOf(spanRows[at[1]], event(at))]

=============================================================================
