----------------------------- MODULE PodLifecycle -----------------------------
(***************************************************************************)
(* The life of one pod (cmd/ingest/main.go, internal/app): it opens its    *)
(* resources step by step and releases them when a step fails, serves,     *)
(* and stops when SIGTERM arrives or one actor of its run.Group returns:   *)
(* the actors are interrupted one after the other, each within a budget,   *)
(* awaited, and then Infra.Close closes everything in order.  A kill may   *)
(* strike at any time, and the pod is started again.  The requests of      *)
(* ExportPath run against it throughout.                                   *)
(***************************************************************************)
EXTENDS ExportPath

CONSTANTS
    NSignals,       \* wired signals; the first is spans, which owns the scores
    MaxBoots        \* bound on the starts of the pod

ASSUME SignalsAssumption == NSignals \in Nat \ {0}
ASSUME BootsAssumption == MaxBoots \in Nat

VARIABLES
    phase,          \* what the pod does, or opens, next
    clients,        \* consumer clients that are open, opened in the order of the signals
    running,        \* server actors that have not returned
    pollers,        \* lag poller actors that have not returned
    consumers,      \* consumer actors that have not returned
    interrupted,    \* server actors interrupted so far, in the order they were added
    toClose,        \* what is left to close
    cancelled,      \* SIGTERM arrived
    boots,          \* starts so far
    killed          \* history: attempts whose usage or scores a kill destroyed

actorVars == <<clients, running, pollers, consumers, interrupted>>
podVars == <<phase, actorVars, toClose, cancelled, boots, killed>>
vars == <<open, requestVars, podVars>>

Signals == 1 .. NSignals
Servers == {"signal", "metrics", "http", "grpc"}
Phases == {"mysql", "clickhouse", "topics", "producer", "wiring", "listen",
           "serving", "interrupting", "waiting", "closing", "exited"}
Resources == {"mysql", "clickhouse", "producer", "stats", "scores"}
Listeners == {"http", "grpc", "connections"}

Init ==
    /\ ExportInit
    /\ open = {}
    /\ phase = "exited"
    /\ clients = 0
    /\ running = {} /\ pollers = {} /\ consumers = {}
    /\ interrupted = 0
    /\ toClose = {}
    /\ cancelled = FALSE
    /\ boots = 0
    /\ killed = {}

-----------------------------------------------------------------------------
(* Boot                                                                    *)

Boot ==
    /\ phase = "exited"
    /\ boots < MaxBoots
    /\ phase' = "mysql"
    /\ boots' = boots + 1
    /\ cancelled' = FALSE
    /\ UNCHANGED <<open, requestVars, actorVars, toClose, killed>>

\* The steps of newInfra and buildIngest before the signals are wired.
BootPhases == {"mysql", "clickhouse", "topics", "producer"}

Opens ==
    CASE phase = "producer" -> {"producer", "stats"}
      [] phase = "topics"   -> {}
      [] OTHER              -> {phase}

NextPhase ==
    CASE phase = "mysql"      -> "clickhouse"
      [] phase = "clickhouse" -> "topics"
      [] phase = "topics"     -> "producer"
      [] OTHER                -> "wiring"

BootStep ==
    /\ phase \in BootPhases
    /\ open' = open \cup Opens
    /\ phase' = NextPhase
    /\ UNCHANGED <<requestVars, actorVars, toClose, cancelled, boots, killed>>

\* A signal's consumer client; spans also starts the scores publisher.
Wire ==
    /\ phase = "wiring"
    /\ clients' = clients + 1
    /\ open' = IF clients = 0 THEN open \cup {"scores"} ELSE open
    /\ phase' = IF clients' = NSignals THEN "listen" ELSE phase
    /\ UNCHANGED <<requestVars, running, pollers, consumers, interrupted, toClose,
                   cancelled, boots, killed>>

\* What a failed step closes: newInfra's deferred closes, and before them
\* closeOnErr, which does not know of the scores publisher.
Cleanup ==
    CASE phase = "mysql"      -> {}
      [] phase = "clickhouse" -> {"mysql"}
      [] phase = "wiring"     -> {"clients", "stats", "producer", "clickhouse", "mysql"}
      [] OTHER                -> {"clickhouse", "mysql"}

BootFails ==
    /\ phase \in BootPhases \cup {"wiring"}
    /\ toClose' = Cleanup
    /\ phase' = "closing"
    /\ UNCHANGED <<open, requestVars, actorVars, cancelled, boots, killed>>

\* The gRPC port is bound, and the group starts every actor.
Listen ==
    /\ phase = "listen"
    /\ phase' = "serving"
    /\ open' = open \cup Listeners
    /\ running' = Servers
    /\ pollers' = Signals
    /\ consumers' = Signals
    /\ interrupted' = 0
    /\ UNCHANGED <<requestVars, clients, toClose, cancelled, boots, killed>>

\* Start returns without Infra.Close.
ListenFails ==
    /\ phase = "listen"
    /\ phase' = "closing"
    /\ toClose' = {}
    /\ UNCHANGED <<open, requestVars, actorVars, cancelled, boots, killed>>

-----------------------------------------------------------------------------
(* Actors                                                                  *)

\* NotifyContext cancels the context that pollers and consumers run under.
Terminate ==
    /\ phase # "exited"
    /\ cancelled' = TRUE
    /\ UNCHANGED <<open, requestVars, phase, actorVars, toClose, boots, killed>>

\* A listener breaks, or could not be opened: its server returns.
ServerFails(a) ==
    /\ a \in running \ {"signal"}
    /\ running' = running \ {a}
    /\ open' = open \ {a}
    /\ UNCHANGED <<requestVars, phase, clients, pollers, consumers, interrupted, toClose,
                   cancelled, boots, killed>>

SignalReturns ==
    /\ "signal" \in running
    /\ cancelled \/ interrupted > 0
    /\ running' = running \ {"signal"}
    /\ UNCHANGED <<open, requestVars, phase, clients, pollers, consumers, interrupted, toClose,
                   cancelled, boots, killed>>

\* The contexts of pollers and consumers end.
ContextsDone == cancelled \/ phase = "waiting"

PollerReturns(s) ==
    /\ s \in pollers
    /\ ContextsDone
    /\ pollers' = pollers \ {s}
    /\ UNCHANGED <<open, requestVars, phase, clients, running, consumers, interrupted, toClose,
                   cancelled, boots, killed>>

\* Consumer.Run has drained its workers and its committer (ConsumerPipeline).
ConsumerReturns(s) ==
    /\ s \in consumers
    /\ ContextsDone
    /\ consumers' = consumers \ {s}
    /\ UNCHANGED <<open, requestVars, phase, clients, running, pollers, interrupted, toClose,
                   cancelled, boots, killed>>

-----------------------------------------------------------------------------
(* Shutdown                                                                *)

\* run.Group: the first actor to return starts the interrupts.
FirstReturn ==
    /\ phase = "serving"
    /\ running # Servers \/ pollers # Signals \/ consumers # Signals
    /\ phase' = "interrupting"
    /\ UNCHANGED <<open, requestVars, actorVars, toClose, cancelled, boots, killed>>

\* The signal actor's context, and the server of metrics and health.
InterruptUnloaded ==
    /\ phase = "interrupting"
    /\ interrupted < 2
    /\ interrupted' = interrupted + 1
    /\ running' = IF interrupted = 1 THEN running \ {"metrics"} ELSE running
    /\ UNCHANGED <<open, requestVars, phase, clients, pollers, consumers, toClose, cancelled,
                   boots, killed>>

\* Shutdown and GracefulStop close the listener at once.
StopAccepting(srv, turn) ==
    /\ phase = "interrupting"
    /\ interrupted = turn
    /\ srv \in open
    /\ open' = open \ {srv}
    /\ running' = running \ {srv}
    /\ UNCHANGED <<requestVars, phase, clients, pollers, consumers, interrupted, toClose,
                   cancelled, boots, killed>>

Drained(srv) == \A e \in Requests : server[e] = srv => at[e] \notin Handling

\* Shutdown returns when the server is idle, or after its budget of ten
\* seconds, which no handler is bound to: it may return at any time.
ShutdownEnds ==
    /\ phase = "interrupting" /\ interrupted = 2 /\ "http" \notin open
    /\ interrupted' = 3
    /\ UNCHANGED <<open, requestVars, phase, clients, running, pollers, consumers, toClose,
                   cancelled, boots, killed>>

\* Mutant of StopEnds: GracefulStop alone.
BugGracefulOnly ==
    /\ phase = "interrupting" /\ interrupted = 3 /\ "grpc" \notin open
    /\ Drained("grpc")
    /\ interrupted' = 4
    /\ open' = open \ {"connections"}
    /\ UNCHANGED <<requestVars, phase, clients, running, pollers, consumers, toClose,
                   cancelled, boots, killed>>

\* GracefulStop returns, or Stop cuts the connections after five seconds: the
\* handlers that are left go on without a client.
StopEnds ==
    /\ phase = "interrupting" /\ interrupted = 3 /\ "grpc" \notin open
    /\ interrupted' = 4
    /\ open' = open \ {"connections"}
    /\ UNCHANGED <<requestVars, phase, clients, running, pollers, consumers, toClose,
                   cancelled, boots, killed>>

\* Pollers and consumers: their contexts are cancelled, then Run waits for all.
CancelRest ==
    /\ phase = "interrupting" /\ interrupted = 4
    /\ phase' = "waiting"
    /\ UNCHANGED <<open, requestVars, actorVars, toClose, cancelled, boots, killed>>

\* Mutant of Turn: the producer is closed with the other Kafka clients.
BugTurn(what) ==
    CASE what = "clients" -> 1 [] what = "producer" -> 2 [] what = "stats" -> 3
      [] what = "scores" -> 4 [] what = "clickhouse" -> 5 [] OTHER -> 6

\* The order of every close: consumers, the closers as they were registered,
\* the producer they publish through, the databases.
Turn(what) ==
    CASE what = "clients" -> 1 [] what = "stats" -> 2 [] what = "scores" -> 3
      [] what = "producer" -> 4 [] what = "clickhouse" -> 5 [] OTHER -> 6

AllReturned ==
    /\ phase = "waiting"
    /\ running = {}
    /\ pollers = {} /\ consumers = {}
    /\ phase' = "closing"
    /\ toClose' = {"clients"} \cup Resources
    /\ UNCHANGED <<open, requestVars, actorVars, cancelled, boots, killed>>

\* HourlyRecorder.Close flushes once more, AsyncPublisher.Close drains the
\* queue: what they cannot publish is dropped and counted.
CloseNext ==
    /\ phase = "closing"
    /\ \E what \in toClose :
          /\ \A other \in toClose : Turn(what) <= Turn(other)
          /\ open' = open \ {what}
          /\ clients' = IF what = "clients" THEN 0 ELSE clients
          /\ IF what = "stats"
             THEN settled' = settled \cup buffered /\ buffered' = {}
             ELSE UNCHANGED <<settled, buffered>>
          /\ IF what = "scores"
             THEN scored' = scored \cup queued /\ queued' = {}
             ELSE UNCHANGED <<scored, queued>>
          /\ toClose' = toClose \ {what}
    /\ UNCHANGED <<clientVars, written, refused, phase, running, pollers, consumers,
                   interrupted, cancelled, boots, killed>>

\* The process is gone, with the handlers that outlived the budgets.
ProcessEnds ==
    /\ phase' = "exited"
    /\ open' = {}
    /\ clients' = 0 /\ running' = {} /\ pollers' = {} /\ consumers' = {}
    /\ toClose' = {}
    /\ answer' = [e \in Requests |-> IF at[e] \in Handling THEN "lost" ELSE answer[e]]
    /\ at' = [e \in Requests |-> "client"]
    /\ UNCHANGED <<shape, server, attempts, authenticated, written, settled, refused, scored,
                   interrupted, cancelled, boots>>

Exit ==
    /\ phase = "closing" /\ toClose = {}
    /\ ProcessEnds
    /\ UNCHANGED <<buffered, queued, killed>>

\* SIGKILL, an OOM kill, a lost node.
Kill ==
    /\ phase # "exited"
    /\ ProcessEnds
    /\ buffered' = {} /\ queued' = {}
    /\ killed' = killed \cup buffered \cup queued

-----------------------------------------------------------------------------
(* The recorder and the scores publisher at work                           *)

Flush ==
    /\ "stats" \in open /\ buffered # {}
    /\ settled' = settled \cup buffered
    /\ buffered' = {}
    /\ UNCHANGED <<open, clientVars, written, refused, queued, scored, podVars>>

PublishScores ==
    /\ "scores" \in open
    /\ \E a \in queued : queued' = queued \ {a} /\ scored' = scored \cup {a}
    /\ UNCHANGED <<open, clientVars, written, buffered, settled, refused, podVars>>

-----------------------------------------------------------------------------
(* The pod and its requests                                                *)

Request(e) == (Send(e) \/ Handler(e)) /\ UNCHANGED podVars

ShutdownStep ==
    \/ SignalReturns
    \/ \E s \in Signals : PollerReturns(s) \/ ConsumerReturns(s)
    \/ FirstReturn
    \/ InterruptUnloaded
    \/ StopAccepting("http", 2) \/ ShutdownEnds
    \/ StopAccepting("grpc", 3) \/ StopEnds
    \/ CancelRest
    \/ AllReturned
    \/ CloseNext
    \/ Exit

PodStep ==
    \/ Boot \/ BootStep \/ Wire \/ BootFails \/ Listen \/ ListenFails
    \/ Terminate \/ Kill
    \/ \E a \in Servers : ServerFails(a)
    \/ Flush \/ PublishScores

Next == (\E e \in Requests : Request(e)) \/ PodStep \/ ShutdownStep

Spec == Init /\ [][Next]_vars

\* The runtime schedules the goroutines of a shutdown; nothing is assumed of
\* handlers, of clients and of what is still booting.
FairSpec == Spec /\ WF_vars(ShutdownStep)

-----------------------------------------------------------------------------
(* Properties                                                              *)

TypeOK ==
    /\ open \subseteq Resources \cup Listeners
    /\ shape \in [Requests -> Shapes]
    /\ server \in [Requests -> {"grpc", "http"}]
    /\ at \in [Requests -> {"client"} \cup Handling]
    /\ attempts \in [Requests -> 0 .. MaxAttempts]
    /\ answer \in [Requests -> {"none", "OK", "lost", "Unavailable", "Unauthenticated",
                                "InvalidArgument", "ResourceExhausted", "Internal"}]
    /\ authenticated \in [Requests -> BOOLEAN]
    /\ written \subseteq Attempts \X Rows
    /\ buffered \cup settled \cup refused \cup queued \cup scored \cup killed \subseteq Attempts
    /\ phase \in Phases
    /\ clients \in 0 .. NSignals
    /\ running \subseteq Servers
    /\ pollers \subseteq Signals
    /\ consumers \subseteq Signals
    /\ interrupted \in 0 .. 4
    /\ toClose \subseteq {"clients"} \cup Resources
    /\ cancelled \in BOOLEAN
    /\ boots \in 0 .. MaxBoots

\* The client has its answer to an attempt that carried rows.
Answered(e) == at[e] = "client" /\ shape[e] = "rows"

Stored(a) == {a} \X Rows \subseteq written

\* A success tells the client to forget the data: every row of that attempt is
\* on the topic, across partial publishes, retries, late handlers and restarts.
AckedOnTopic == \A e \in Requests : Answered(e) /\ answer[e] = "OK" => Stored(Current(e))

\* A tenant is billed, and scores are derived, only for attempts that were
\* stored whole: none for the failed attempts of a request that is retried.
UsageOnlyOfStored ==
    \A a \in buffered \cup settled \cup refused \cup queued \cup scored \cup killed : Stored(a)

\* An authenticated request with rows is never told to give up: whatever fails
\* after authentication has a status that lets the client send it again.
DroppedHasCause ==
    \A e \in Requests :
        Answered(e) /\ authenticated[e] => answer[e] = "OK" \/ Retryable(e, answer[e])

\* While the process lives, usage and scores that wait to be published find the
\* producer open: Close drains both before it closes the producer.
DrainedBeforeProducer ==
    phase # "exited" /\ buffered \cup queued # {} => "producer" \in open

\* After a shutdown, the usage of every acknowledged attempt was published or
\* counted as dropped, unless a kill destroyed it, or unless Record dropped it
\* silently: that befalls only an HTTP handler that outlived Shutdown's budget
\* and found the recorder closed.  Stop cuts the connections of such a gRPC
\* handler before, so its client is never told that the export succeeded.
AckedAccounted ==
    phase = "exited" =>
        \A e \in Requests :
            Answered(e) /\ answer[e] = "OK" =>
                \/ Current(e) \in settled \cup killed
                \/ Current(e) \in refused /\ server[e] = "http"

\* A consumer commits, and a poller polls, on a client that is open: Close comes
\* after every actor has returned.
ActorsHaveClients == consumers \cup pollers \subseteq 1 .. clients

-----------------------------------------------------------------------------
(* The inductive invariant                                                 *)

Quiet ==
    /\ open \cap {"http", "grpc"} = {}
    /\ \A e \in Requests : at[e] = "client"
    /\ buffered = {} /\ queued = {}

\* Where a handler is, and how far its attempt got.
HandlerInv ==
    \A e \in Requests :
        /\ at[e] \in Handling => attempts[e] > 0
        /\ at[e] = "auth" => ~authenticated[e]
        /\ attempts[e] = 0 => answer[e] = "none" /\ ~authenticated[e]
        /\ shape[e] = "rows" =>
            /\ at[e] = "effects" => Stored(Current(e))
            /\ at[e] \in {"client", "respond"} =>
                /\ answer[e] = "OK" =>
                    /\ Stored(Current(e))
                    /\ Current(e) \in buffered \cup settled \cup refused \cup killed
                /\ authenticated[e] => answer[e] = "OK" \/ Retryable(e, answer[e])
        /\ shape[e] = "empty" => at[e] # "publish"

\* An attempt is refused as its handler ends, and over gRPC only after Stop has
\* cut the connections, so that its client gets no success.
RefusedInv ==
    \A e \in Requests : \A n \in 1 .. MaxAttempts :
        <<e, n>> \in refused =>
            /\ n <= attempts[e]
            /\ n = attempts[e] => at[e] \in {"client", "respond"}
            /\ n = attempts[e] /\ server[e] = "grpc" =>
                IF at[e] = "respond" THEN "connections" \notin open ELSE answer[e] # "OK"

\* What is open in each phase, and in what order it was opened.
PhaseInv ==
    /\ phase \in BootPhases \cup {"wiring", "listen", "exited"} => Quiet
    /\ phase \in BootPhases =>
        open \cap {"stats", "scores"} = {} /\ clients = 0
    /\ phase \in {"wiring", "listen", "serving", "interrupting", "waiting"} =>
        {"stats", "producer"} \subseteq open
    /\ phase = "wiring" => clients < NSignals /\ (clients > 0 => "scores" \in open)
    /\ phase \in {"listen", "serving", "interrupting", "waiting"} =>
        clients = NSignals /\ "scores" \in open
    /\ phase \notin {"serving", "interrupting", "waiting"} => consumers \cup pollers = {}
    /\ phase = "exited" => open = {} /\ clients = 0
    /\ "connections" \in open =>
        phase \in {"serving", "interrupting"} /\ interrupted < 4

\* What waits finds its publisher, and the publisher finds the producer.
PublisherInv ==
    /\ buffered # {} => "stats" \in open
    /\ queued # {} => "scores" \in open
    /\ "stats" \in open => "producer" \in open
    /\ "scores" \in open /\ "producer" \notin open => Quiet

\* A publisher that is still open will be closed before the producer, unless
\* nothing can be in it.
CloseInv ==
    phase = "closing" =>
        /\ "stats" \in open => "stats" \in toClose \/ (Quiet /\ toClose = {})
        /\ "scores" \in open => "scores" \in toClose \/ Quiet

\* The strengthening that makes the properties above inductive: each handler's
\* progress, what every phase has open, and the order of the closes.
PodInv ==
    TypeOK /\ HandlerInv /\ RefusedInv /\ UsageOnlyOfStored /\ PhaseInv /\ PublisherInv /\ CloseInv

\* A pod that lost an actor, or that SIGTERM reached, exits, though handlers
\* may hang for ever.
ShutdownCompletes ==
    (phase = "serving" /\ (cancelled \/ running # Servers)) ~> (phase = "exited")

=============================================================================
