------------------------------ MODULE ExportPath ------------------------------
(***************************************************************************)
(* One OTLP export from the client's first attempt to its last: over gRPC  *)
(* (internal/auth/grpc.go) or HTTP (internal/ingestion/otlphttp), through  *)
(* the body the handlers share (internal/ingestion/core/export.go), the    *)
(* producer (producer.go), and the side effects of a spans handler: usage  *)
(* and scores.  The client retries as OTLP tells it to.  What the request  *)
(* finds open is decided by the pod (PodLifecycle).                        *)
(***************************************************************************)
EXTENDS Integers

CONSTANTS
    Requests,       \* export requests, each sent until it is answered for good
    Rows,           \* what the mapper makes of a request that has rows
    MaxAttempts     \* bound on the attempts of a request

ASSUME AttemptsAssumption == MaxAttempts \in Nat

VARIABLES
    open,           \* servers that accept and resources that work
    shape,          \* what each request holds
    server,         \* the server it is sent to
    at,             \* where each request is
    attempts,       \* attempts of each request so far
    answer,         \* the status of the last attempt
    authenticated,  \* history: the last attempt got past authentication
    written,        \* history, <<attempt, row>>: records on the topic
    buffered,       \* attempts whose usage is in the recorder's map
    settled,        \* attempts whose usage was published, or dropped and counted
    refused,        \* history: attempts whose usage came after Close, and is lost
                    \* without a trace
    queued,         \* attempts whose scores wait in the side publisher
    scored          \* attempts whose scores were published or counted as dropped

clientVars == <<shape, server, at, attempts, answer, authenticated>>
effectVars == <<buffered, settled, refused, queued, scored>>
requestVars == <<clientVars, written, effectVars>>

Shapes == {"rows", "empty", "malformed"}
Attempts == Requests \X (1 .. MaxAttempts)

\* The attempt a request is in.
Current(e) == <<e, attempts[e]>>

Handling == {"auth", "decode", "publish", "effects", "respond"}

ExportInit ==
    /\ shape \in [Requests -> Shapes]
    /\ server \in [Requests -> {"grpc", "http"}]
    /\ at = [e \in Requests |-> "client"]
    /\ attempts = [e \in Requests |-> 0]
    /\ answer = [e \in Requests |-> "none"]
    /\ authenticated = [e \in Requests |-> FALSE]
    /\ written = {}
    /\ buffered = {} /\ settled = {} /\ refused = {}
    /\ queued = {} /\ scored = {}

-----------------------------------------------------------------------------
(* Status codes                                                            *)

\* Mutant of HTTPCode: the case of Unavailable is missing.
BugHTTPCode(code) ==
    CASE code = "Unauthenticated"   -> 401
      [] code = "InvalidArgument"   -> 400
      [] code = "ResourceExhausted" -> 429
      [] OTHER                      -> 500

\* writeError, and the codes that Export writes itself.
HTTPCode(code) ==
    CASE code = "Unauthenticated"   -> 401
      [] code = "InvalidArgument"   -> 400
      [] code = "ResourceExhausted" -> 429
      [] code = "Unavailable"       -> 503
      [] OTHER                      -> 500

\* What OTLP lets a client send again: Unavailable; 429 and 503; and any attempt
\* whose connection broke.
Retryable(e, code) ==
    \/ code = "lost"
    \/ IF server[e] = "grpc" THEN code = "Unavailable" ELSE HTTPCode(code) \in {429, 503}

-----------------------------------------------------------------------------
(* The client                                                              *)

Send(e) ==
    /\ at[e] = "client"
    /\ answer[e] = "none" \/ Retryable(e, answer[e])
    /\ attempts[e] < MaxAttempts
    /\ server[e] \in open
    /\ attempts' = [attempts EXCEPT ![e] = @ + 1]
    /\ at' = [at EXCEPT ![e] = IF server[e] = "grpc" /\ shape[e] = "malformed" THEN "respond" ELSE "auth"]
    /\ answer' = [answer EXCEPT ![e] =
                    IF server[e] = "grpc" /\ shape[e] = "malformed" THEN "Internal" ELSE "none"]
    /\ authenticated' = [authenticated EXCEPT ![e] = FALSE]
    /\ UNCHANGED <<open, shape, server, written, effectVars>>

\* The handler returns a status.
Fails(e, code) ==
    /\ answer' = [answer EXCEPT ![e] = code]
    /\ at' = [at EXCEPT ![e] = "respond"]

Proceed(e, next) ==
    /\ at' = [at EXCEPT ![e] = next]
    /\ UNCHANGED answer

\* The connection breaks, or the client's deadline passes: the handler goes on
\* to its end, and its answer reaches nobody.
Disconnect(e) ==
    /\ at[e] = "respond"
    /\ at' = [at EXCEPT ![e] = "client"]
    /\ answer' = [answer EXCEPT ![e] = "lost"]
    /\ UNCHANGED <<open, shape, server, attempts, authenticated, written, effectVars>>

Respond(e) ==
    /\ at[e] = "respond"
    /\ server[e] = "grpc" => "connections" \in open
    /\ at' = [at EXCEPT ![e] = "client"]
    /\ UNCHANGED <<open, shape, server, attempts, answer, authenticated, written, effectVars>>

-----------------------------------------------------------------------------
(* The handler                                                             *)

\* The interceptor, or Export, resolves the key: no key, an unknown one, a rate
\* limit and a failed lookup have statuses of their own.
Authenticate(e) ==
    /\ at[e] = "auth"
    /\ \/ /\ authenticated' = [authenticated EXCEPT ![e] = TRUE]
          /\ Proceed(e, "decode")
       \/ /\ \E code \in {"Unauthenticated", "ResourceExhausted", "Internal"} : Fails(e, code)
          /\ UNCHANGED authenticated
    /\ UNCHANGED <<open, shape, server, attempts, written, effectVars>>

\* Content type, encoding, size and body (HTTP; gRPC decodes before the
\* handlers), and the mapper: a request without rows succeeds unpublished.
Decode(e) ==
    /\ at[e] = "decode"
    /\ CASE shape[e] = "malformed" -> Fails(e, "InvalidArgument")
         [] shape[e] = "empty"     -> Proceed(e, "effects")
         [] OTHER                  -> Proceed(e, "publish")
    /\ UNCHANGED <<open, shape, server, attempts, authenticated, written, effectVars>>

\* Every record was acknowledged by all in-sync replicas.
PublishOK(e) ==
    /\ at[e] = "publish"
    /\ "producer" \in open
    /\ written' = written \cup ({Current(e)} \X Rows)
    /\ Proceed(e, "effects")
    /\ UNCHANGED <<open, shape, server, attempts, authenticated, effectVars>>

\* Mutant of PublishFail: the error is logged and the request goes on.
BugPublishErrorIgnored(e) ==
    /\ at[e] = "publish"
    /\ \E some \in SUBSET Rows : written' = written \cup ({Current(e)} \X some)
    /\ Proceed(e, "effects")
    /\ UNCHANGED <<open, shape, server, attempts, authenticated, effectVars>>

\* The first error fails the whole batch, whichever records were written.
PublishFail(e) ==
    /\ at[e] = "publish"
    /\ \E some \in SUBSET Rows :
        /\ "producer" \notin open => some = {}
        /\ written' = written \cup ({Current(e)} \X some)
    /\ Fails(e, "Unavailable")
    /\ UNCHANGED <<open, shape, server, attempts, authenticated, effectVars>>

\* Mutant of EmitUsage: Record ignores that the recorder is closed.
BugRecordWhenClosed(e) ==
    IF shape[e] = "rows"
    THEN buffered' = buffered \cup {Current(e)} /\ UNCHANGED refused
    ELSE UNCHANGED <<buffered, refused>>

\* EmitUsage: a request without records has no usage; Record drops what comes
\* after Close, and neither counts nor logs it.
EmitUsage(e) ==
    IF shape[e] = "rows"
    THEN IF "stats" \in open
         THEN buffered' = buffered \cup {Current(e)} /\ UNCHANGED refused
         ELSE refused' = refused \cup {Current(e)} /\ UNCHANGED buffered
    ELSE UNCHANGED <<buffered, refused>>

\* Enqueue: scores found in the rows are queued, or dropped and counted.
EnqueueScores(e) ==
    IF shape[e] = "rows"
    THEN \/ "scores" \in open /\ queued' = queued \cup {Current(e)} /\ UNCHANGED scored
         \/ scored' = scored \cup {Current(e)} /\ UNCHANGED queued
    ELSE UNCHANGED <<queued, scored>>

Effects(e) ==
    /\ at[e] = "effects"
    /\ EmitUsage(e)
    /\ EnqueueScores(e)
    /\ Fails(e, "OK")
    /\ UNCHANGED <<open, shape, server, attempts, authenticated, written, settled>>

Handler(e) ==
    \/ Authenticate(e) \/ Decode(e)
    \/ PublishOK(e) \/ PublishFail(e)
    \/ Effects(e)
    \/ Respond(e) \/ Disconnect(e)

=============================================================================
