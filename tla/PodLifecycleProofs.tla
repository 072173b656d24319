-------------------------- MODULE PodLifecycleProofs --------------------------
(* The pod's safety properties, for every number of requests, rows,        *)
(* attempts, signals and restarts.                                         *)
EXTENDS PodLifecycle, TLAPS

USE SignalsAssumption, BootsAssumption, AttemptsAssumption

\* The initial state satisfies the invariant.
LEMMA Initial == Init => PodInv
<1> SUFFICES ASSUME Init PROVE PodInv
    OBVIOUS
<1> USE DEF Init, ExportInit
<1>1. TypeOK
    <2>1. cancelled \in BOOLEAN /\ authenticated \in [Requests -> BOOLEAN]
        OBVIOUS
    <2> QED
        BY <2>1 DEF TypeOK, Handling, Phases
<1>2. HandlerInv /\ RefusedInv
    BY DEF HandlerInv, RefusedInv, Handling
<1>3. UsageOnlyOfStored /\ PhaseInv /\ PublisherInv /\ CloseInv
    BY DEF UsageOnlyOfStored, PhaseInv, BootPhases, Quiet, PublisherInv, CloseInv
<1> QED
    BY <1>1, <1>2, <1>3 DEF PodInv

-----------------------------------------------------------------------------
(* Steps of a request                                                      *)

\* A request that moves finds its server serving: the pod is past its boot, and
\* not quiet.
LEMMA RequestNeedsPod ==
    ASSUME PodInv, NEW e \in Requests, Request(e)
    PROVE  ~Quiet /\ phase \in {"serving", "interrupting", "waiting", "closing"}
<1>1. at[e] # "client" \/ open \cap {"http", "grpc"} # {}
    BY DEF Request, Send, Handler, Authenticate, Decode, PublishOK, PublishFail, Effects,
           Respond, Disconnect, PodInv, TypeOK
<1>2. ~Quiet
    BY <1>1 DEF Quiet
<1> QED
    BY <1>2 DEF PodInv, PhaseInv, TypeOK, Phases, BootPhases

\* Types of what a request changes.
LEMMA RequestType ==
    ASSUME PodInv, NEW e \in Requests, Request(e)
    PROVE  TypeOK'
<1> USE DEF PodInv, TypeOK, Request, podVars, actorVars
<1>0. Current(e) \in Attempts \/ at[e] \notin Handling
    BY DEF HandlerInv, Current, Attempts
<1>1. CASE Send(e)
    BY <1>1 DEF Send, effectVars, Handling
<1>2. CASE Authenticate(e)
    <2>1. authenticated' \in [Requests -> BOOLEAN]
        BY <1>2 DEF Authenticate
    <2>2. CASE Proceed(e, "decode")
        BY <1>2, <2>1, <2>2 DEF Authenticate, Proceed, effectVars, Handling
    <2>3. CASE \E code \in {"Unauthenticated", "ResourceExhausted", "Internal"} : Fails(e, code)
        BY <1>2, <2>1, <2>3 DEF Authenticate, Fails, effectVars, Handling
    <2> QED
        BY <1>2, <2>2, <2>3 DEF Authenticate
<1>3. CASE Decode(e)
    BY <1>3 DEF Decode, Proceed, Fails, effectVars, Handling
<1>4. CASE PublishOK(e)
    BY <1>4, <1>0 DEF PublishOK, Proceed, effectVars, Handling
<1>5. CASE PublishFail(e)
    BY <1>5, <1>0 DEF PublishFail, Fails, effectVars, Handling
<1>6. CASE Effects(e)
    BY <1>6, <1>0 DEF Effects, EmitUsage, EnqueueScores, Fails, Handling
<1>7. CASE Respond(e)
    BY <1>7 DEF Respond, effectVars
<1>8. CASE Disconnect(e)
    BY <1>8 DEF Disconnect, effectVars
<1> QED
    BY <1>1, <1>2, <1>3, <1>4, <1>5, <1>6, <1>7, <1>8 DEF Handler

\* A request's own step keeps the record of its progress.
LEMMA RequestHandler ==
    ASSUME PodInv, NEW e \in Requests, Request(e)
    PROVE  HandlerInv' /\ UsageOnlyOfStored'
<1> USE DEF PodInv, Request
<1>0. TypeOK /\ TypeOK'
    BY RequestType
<1> USE DEF podVars
<1>1. CASE Send(e)
    <2>1. \A f \in Requests \ {e} :
            /\ at'[f] = at[f] /\ attempts'[f] = attempts[f] /\ answer'[f] = answer[f]
            /\ authenticated'[f] = authenticated[f] /\ shape'[f] = shape[f]
            /\ server'[f] = server[f]
        BY <1>0, <1>1 DEF Send, TypeOK
    <2>2. /\ attempts'[e] > 0 /\ ~authenticated'[e] /\ at'[e] \in {"auth", "respond"}
          /\ shape'[e] = shape[e]
          /\ at'[e] = "respond" => answer'[e] = "Internal"
        BY <1>0, <1>1 DEF Send, TypeOK
    <2>3. written' = written /\ UNCHANGED <<buffered, settled, refused, queued, scored, killed>>
        BY <1>1 DEF Send, effectVars
    <2> QED
        BY <1>0, <2>1, <2>2, <2>3 DEF HandlerInv, UsageOnlyOfStored, Stored, Current, Retryable
<1>2. CASE Authenticate(e)
    BY <1>0, <1>2 DEF Authenticate, Proceed, Fails, effectVars, HandlerInv, UsageOnlyOfStored,
        Stored, Current, Retryable, Handling, TypeOK
<1>3. CASE Decode(e)
    BY <1>0, <1>3 DEF Decode, Proceed, Fails, effectVars, HandlerInv, UsageOnlyOfStored,
        Stored, Current, Retryable, Handling, TypeOK, Shapes
<1>4. CASE PublishOK(e)
    BY <1>0, <1>4 DEF PublishOK, Proceed, effectVars, HandlerInv, UsageOnlyOfStored,
        Stored, Current, Retryable, Handling, TypeOK
<1>5. CASE PublishFail(e)
    BY <1>0, <1>5 DEF PublishFail, Fails, effectVars, HandlerInv, UsageOnlyOfStored,
        Stored, Current, Retryable, HTTPCode, Handling, TypeOK
<1>6. CASE Effects(e)
    BY <1>0, <1>6 DEF Effects, EmitUsage, EnqueueScores, Fails, HandlerInv, UsageOnlyOfStored,
        Stored, Current, Retryable, Handling, TypeOK
<1>7. CASE Respond(e)
    BY <1>0, <1>7 DEF Respond, effectVars, HandlerInv, UsageOnlyOfStored,
        Stored, Current, Retryable, Handling, TypeOK
<1>8. CASE Disconnect(e)
    BY <1>0, <1>8 DEF Disconnect, effectVars, HandlerInv, UsageOnlyOfStored,
        Stored, Current, Retryable, Handling, TypeOK
<1> QED
    BY <1>1, <1>2, <1>3, <1>4, <1>5, <1>6, <1>7, <1>8 DEF Handler

\* Record refuses nothing of a gRPC handler whose client still has a connection,
\* and a new attempt has refused nothing.
LEMMA RequestRefused ==
    ASSUME PodInv, NEW e \in Requests, Request(e)
    PROVE  RefusedInv'
<1> USE DEF PodInv, Request, podVars
<1>0. /\ attempts \in [Requests -> 0 .. MaxAttempts]
      /\ at \in [Requests -> {"client"} \cup Handling] /\ DOMAIN answer = Requests
      /\ server' = server /\ shape' = shape /\ open' = open /\ MaxAttempts \in Nat
    <2>1. DOMAIN answer = Requests
        BY DEF TypeOK
    <2>2. server' = server /\ shape' = shape /\ open' = open
        BY DEF Handler, Send, Authenticate, Decode, PublishOK, PublishFail, Effects, Respond, Disconnect
    <2> QED
        BY <2>1, <2>2 DEF TypeOK
<1>1. CASE Send(e)
    <2>1. /\ refused' = refused /\ attempts' = [attempts EXCEPT ![e] = @ + 1]
          /\ \A f \in Requests \ {e} : at'[f] = at[f] /\ answer'[f] = answer[f]
        BY <1>0, <1>1 DEF Send, effectVars
    <2>2. ASSUME NEW n \in 1 .. MaxAttempts, <<e, n>> \in refused
          PROVE  n < attempts'[e]
        BY <1>0, <2>1, <2>2 DEF RefusedInv
    <2>3. attempts'[e] \in Int
        BY <1>0, <2>1
    <2>4. \A f \in Requests \ {e} : attempts'[f] = attempts[f]
        BY <1>0, <2>1
    <2> SUFFICES ASSUME NEW f \in Requests, NEW n \in 1 .. MaxAttempts, <<f, n>> \in refused
                 PROVE  /\ n <= attempts'[f]
                        /\ n = attempts'[f] => at'[f] \in {"client", "respond"}
                        /\ n = attempts'[f] /\ server[f] = "grpc" =>
                            IF at'[f] = "respond" THEN "connections" \notin open ELSE answer'[f] # "OK"
        BY <1>0, <2>1 DEF RefusedInv
    <2>5. CASE f = e
        BY <2>2, <2>3, <2>5
    <2>6. CASE f # e
        BY <2>1, <2>4, <2>6 DEF RefusedInv
    <2> QED
        BY <2>5, <2>6
<1>2. CASE Authenticate(e) \/ Decode(e) \/ PublishOK(e) \/ PublishFail(e)
    <2>1. at[e] \in {"auth", "decode", "publish"} /\ UNCHANGED <<attempts, refused>>
        BY <1>2 DEF Authenticate, Decode, PublishOK, PublishFail, effectVars
    <2>2. \A f \in Requests \ {e} : at'[f] = at[f] /\ answer'[f] = answer[f]
        BY <1>0, <1>2 DEF Authenticate, Decode, PublishOK, PublishFail, Proceed, Fails
    <2> QED
        BY <1>0, <2>1, <2>2 DEF RefusedInv
<1>3. CASE Effects(e)
    <2>1. /\ at[e] = "effects" /\ UNCHANGED attempts
          /\ refused' = refused \/ ("stats" \notin open /\ refused' = refused \cup {<<e, attempts[e]>>})
          /\ at'[e] = "respond"
          /\ \A f \in Requests \ {e} : at'[f] = at[f] /\ answer'[f] = answer[f]
        BY <1>0, <1>3 DEF Effects, EmitUsage, Fails, Current
    <2>2. "stats" \notin open => "connections" \notin open
        BY DEF PhaseInv
    <2>3. \A f \in Requests : attempts[f] \in Int
        BY <1>0
    <2> SUFFICES ASSUME NEW f \in Requests, NEW n \in 1 .. MaxAttempts, <<f, n>> \in refused'
                 PROVE  /\ n <= attempts[f]
                        /\ n = attempts[f] => at'[f] \in {"client", "respond"}
                        /\ n = attempts[f] /\ server[f] = "grpc" =>
                            IF at'[f] = "respond" THEN "connections" \notin open ELSE answer'[f] # "OK"
        BY <1>0, <2>1 DEF RefusedInv
    <2>4. CASE <<f, n>> \notin refused
        BY <2>1, <2>2, <2>3, <2>4
    <2>5. CASE <<f, n>> \in refused /\ f # e
        BY <2>1, <2>5 DEF RefusedInv
    <2>6. CASE <<f, n>> \in refused /\ f = e
        BY <2>1, <2>6 DEF RefusedInv
    <2> QED
        BY <2>4, <2>5, <2>6
<1>4. CASE Respond(e) \/ Disconnect(e)
    <2>1. /\ UNCHANGED <<attempts, refused>> /\ at[e] = "respond" /\ at'[e] = "client"
          /\ (server[e] = "grpc" => "connections" \in open) \/ answer'[e] = "lost"
          /\ \A f \in Requests \ {e} : at'[f] = at[f] /\ answer'[f] = answer[f]
        BY <1>0, <1>4 DEF Respond, Disconnect, effectVars
    <2> QED
        BY <1>0, <2>1 DEF RefusedInv
<1> QED
    BY <1>1, <1>2, <1>3, <1>4 DEF Handler

\* A request's step leaves the pod as it is, and adds to the recorder and the
\* scores queue only while they are open.
LEMMA RequestPod ==
    ASSUME PodInv, NEW e \in Requests, Request(e)
    PROVE  PhaseInv' /\ PublisherInv' /\ CloseInv'
<1>1. ~Quiet /\ phase \in {"serving", "interrupting", "waiting", "closing"}
    BY RequestNeedsPod
<1>2. /\ open' = open /\ UNCHANGED podVars
      /\ buffered' # {} => buffered # {} \/ "stats" \in open
      /\ queued' # {} => queued # {} \/ "scores" \in open
    BY DEF Request, Handler, Send, Authenticate, Decode, PublishOK, PublishFail, Effects,
           EmitUsage, EnqueueScores, Respond, Disconnect, effectVars
<1> QED
    BY <1>1, <1>2 DEF PodInv, PhaseInv, PublisherInv, CloseInv, podVars, actorVars

\* A step of a client or handler keeps the invariant (ExportOTLP).
LEMMA RequestStep ==
    ASSUME PodInv, NEW e \in Requests, Request(e)
    PROVE  PodInv'
BY RequestType, RequestHandler, RequestRefused, RequestPod DEF PodInv

-----------------------------------------------------------------------------
(* Steps of the pod                                                        *)

\* Types of what the pod changes.
LEMMA PodType ==
    ASSUME PodInv, PodStep \/ ShutdownStep
    PROVE  TypeOK'
<1> USE DEF PodInv, requestVars, clientVars, effectVars, actorVars
<1>1. CASE Boot
    <2>1. cancelled' \in BOOLEAN
        BY <1>1 DEF Boot
    <2> QED
        BY <1>1, <2>1 DEF Boot, TypeOK, Phases
<1>2. CASE BootStep
    BY <1>2 DEF BootStep, BootPhases, Opens, NextPhase, TypeOK, Phases, Resources
<1>3. CASE Wire
    BY <1>3 DEF Wire, TypeOK, PhaseInv, Phases, Resources
<1>4. CASE BootFails
    BY <1>4 DEF BootFails, BootPhases, Cleanup, TypeOK, Phases, Resources
<1>5. CASE Listen
    BY <1>5 DEF Listen, TypeOK, Phases
<1>6. CASE ListenFails
    BY <1>6 DEF ListenFails, TypeOK, Phases
<1>7. CASE Terminate
    <2>1. cancelled' \in BOOLEAN
        BY <1>7 DEF Terminate
    <2> QED
        BY <1>7, <2>1 DEF Terminate, TypeOK
<1>8. CASE Kill
    BY <1>8 DEF Kill, ProcessEnds, TypeOK, Phases
<1>9. ASSUME NEW a \in Servers, ServerFails(a) PROVE TypeOK'
    BY <1>9 DEF ServerFails, TypeOK
<1>10. CASE Flush
    BY <1>10 DEF Flush, TypeOK, podVars
<1>11. CASE PublishScores
    BY <1>11 DEF PublishScores, TypeOK, podVars
<1>12. CASE SignalReturns
    BY <1>12 DEF SignalReturns, TypeOK
<1>13. ASSUME NEW s \in Signals, PollerReturns(s) \/ ConsumerReturns(s) PROVE TypeOK'
    BY <1>13 DEF PollerReturns, ConsumerReturns, TypeOK
<1>14. CASE FirstReturn
    BY <1>14 DEF FirstReturn, TypeOK, Phases
<1>15. CASE InterruptUnloaded
    BY <1>15 DEF InterruptUnloaded, TypeOK
<1>16. CASE StopAccepting("http", 2) \/ StopAccepting("grpc", 3)
    BY <1>16 DEF StopAccepting, TypeOK
<1>17. CASE ShutdownEnds \/ StopEnds
    <2>1. interrupted' \in 0 .. 4
        BY <1>17 DEF ShutdownEnds, StopEnds
    <2>2. open' \subseteq Resources \cup Listeners
        BY <1>17 DEF ShutdownEnds, StopEnds, TypeOK
    <2> QED
        BY <1>17, <2>1, <2>2 DEF ShutdownEnds, StopEnds, TypeOK
<1>18. CASE CancelRest
    BY <1>18 DEF CancelRest, TypeOK, Phases
<1>19. CASE AllReturned
    BY <1>19 DEF AllReturned, TypeOK, Phases, Resources
<1>20. CASE CloseNext
    BY <1>20 DEF CloseNext, TypeOK
<1>21. CASE Exit
    BY <1>21 DEF Exit, ProcessEnds, TypeOK, Phases
<1> QED
    BY <1>1, <1>2, <1>3, <1>4, <1>5, <1>6, <1>7, <1>8, <1>9, <1>10, <1>11, <1>12, <1>13,
       <1>14, <1>15, <1>16, <1>17, <1>18, <1>19, <1>20, <1>21 DEF PodStep, ShutdownStep

\* The pod's own steps neither publish rows nor answer; a request whose process
\* ends is lost, and its client may send it again.
LEMMA PodHandler ==
    ASSUME PodInv, PodStep \/ ShutdownStep
    PROVE  HandlerInv' /\ UsageOnlyOfStored'
<1>1. UNCHANGED <<shape, server, attempts, authenticated, written>>
    BY DEF PodStep, ShutdownStep, Boot, BootStep, Wire, BootFails, Listen, ListenFails, Terminate,
        Kill, ServerFails, Flush, PublishScores, SignalReturns, PollerReturns, ConsumerReturns,
        FirstReturn, InterruptUnloaded, StopAccepting, ShutdownEnds, StopEnds, CancelRest,
        AllReturned, CloseNext, Exit, ProcessEnds, requestVars, clientVars
<1>2. UNCHANGED <<at, answer>> \/ ProcessEnds
    BY DEF PodStep, ShutdownStep, Boot, BootStep, Wire, BootFails, Listen, ListenFails, Terminate,
        Kill, ServerFails, Flush, PublishScores, SignalReturns, PollerReturns, ConsumerReturns,
        FirstReturn, InterruptUnloaded, StopAccepting, ShutdownEnds, StopEnds, CancelRest,
        AllReturned, CloseNext, Exit, requestVars, clientVars
<1>3. /\ buffered \cup settled \cup refused \cup killed
            \subseteq (buffered \cup settled \cup refused \cup killed)'
      /\ (buffered \cup settled \cup refused \cup queued \cup scored \cup killed)'
            \subseteq buffered \cup settled \cup refused \cup queued \cup scored \cup killed
    BY DEF PodStep, ShutdownStep, Boot, BootStep, Wire, BootFails, Listen, ListenFails, Terminate,
        Kill, ServerFails, Flush, PublishScores, SignalReturns, PollerReturns, ConsumerReturns,
        FirstReturn, InterruptUnloaded, StopAccepting, ShutdownEnds, StopEnds, CancelRest,
        AllReturned, CloseNext, Exit, ProcessEnds, requestVars, effectVars, podVars
<1>4. UsageOnlyOfStored'
    BY <1>1, <1>3 DEF PodInv, UsageOnlyOfStored, Stored
<1>5. CASE UNCHANGED <<at, answer>>
    BY <1>1, <1>3, <1>4, <1>5 DEF PodInv, HandlerInv, Stored, Current, Retryable
<1>6. CASE ProcessEnds
    <2>1. \A e \in Requests :
            /\ at'[e] = "client"
            /\ answer'[e] = IF at[e] \in Handling THEN "lost" ELSE answer[e]
        BY <1>6 DEF ProcessEnds
    <2>2. \A e \in Requests : at[e] \in {"client"} \cup Handling
        BY DEF PodInv, TypeOK
    <2> QED
        BY <1>1, <1>3, <1>4, <2>1, <2>2 DEF PodInv, HandlerInv, Stored, Current, Retryable, Handling
<1> QED
    BY <1>2, <1>4, <1>5, <1>6

\* No step of the pod gives a gRPC client the answer of a handler whose
\* connection Stop has cut.
LEMMA PodRefused ==
    ASSUME PodInv, PodStep \/ ShutdownStep
    PROVE  RefusedInv'
<1>1. UNCHANGED <<server, attempts, refused>>
    BY DEF PodStep, ShutdownStep, Boot, BootStep, Wire, BootFails, Listen, ListenFails, Terminate,
        Kill, ServerFails, Flush, PublishScores, SignalReturns, PollerReturns, ConsumerReturns,
        FirstReturn, InterruptUnloaded, StopAccepting, ShutdownEnds, StopEnds, CancelRest,
        AllReturned, CloseNext, Exit, ProcessEnds, requestVars, clientVars, effectVars
<1>2. UNCHANGED <<at, answer>> \/ ProcessEnds
    BY DEF PodStep, ShutdownStep, Boot, BootStep, Wire, BootFails, Listen, ListenFails, Terminate,
        Kill, ServerFails, Flush, PublishScores, SignalReturns, PollerReturns, ConsumerReturns,
        FirstReturn, InterruptUnloaded, StopAccepting, ShutdownEnds, StopEnds, CancelRest,
        AllReturned, CloseNext, Exit, requestVars, clientVars
<1>3. "connections" \in open' => "connections" \in open \/ Quiet
    BY DEF PodInv, PhaseInv, PodStep, ShutdownStep, Boot, BootStep, Opens, Wire, BootFails, Listen,
        ListenFails, Terminate, Kill, ServerFails, Flush, PublishScores, SignalReturns, PollerReturns,
        ConsumerReturns, FirstReturn, InterruptUnloaded, StopAccepting, ShutdownEnds, StopEnds,
        CancelRest, AllReturned, CloseNext, Exit, ProcessEnds, podVars, BootPhases
<1>4. CASE UNCHANGED <<at, answer>>
    BY <1>1, <1>3, <1>4 DEF PodInv, RefusedInv, Quiet
<1>5. CASE ProcessEnds
    <2>1. \A e \in Requests :
            /\ at'[e] = "client"
            /\ answer'[e] = IF at[e] \in Handling THEN "lost" ELSE answer[e]
        BY <1>5 DEF ProcessEnds
    <2> QED
        BY <1>1, <2>1 DEF PodInv, RefusedInv, Handling
<1> QED
    BY <1>2, <1>4, <1>5

\* What is open follows the phase.
LEMMA PodPhase ==
    ASSUME PodInv, PodStep \/ ShutdownStep
    PROVE  PhaseInv'
<1> USE DEF PodInv, PhaseInv, TypeOK, requestVars, clientVars, effectVars, actorVars, BootPhases
<1>1. CASE Boot
    BY <1>1 DEF Boot, Quiet
<1>2. CASE BootStep
    BY <1>2 DEF BootStep, Opens, NextPhase, Quiet
<1>3. CASE Wire
    BY <1>3 DEF Wire, Quiet
<1>4. CASE BootFails \/ ListenFails
    BY <1>4 DEF BootFails, ListenFails
<1>5. CASE Listen
    BY <1>5 DEF Listen
<1>6. CASE Terminate
    BY <1>6 DEF Terminate, Quiet
<1>7. CASE Kill \/ Exit
    <2>1. ProcessEnds /\ buffered' = {} /\ queued' = {}
        BY <1>7 DEF Kill, Exit, CloseInv, PublisherInv, Quiet
    <2>2. \A e \in Requests : at'[e] = "client"
        BY <2>1 DEF ProcessEnds
    <2> QED
        BY <2>1, <2>2 DEF ProcessEnds, Quiet
<1>8. ASSUME NEW a \in Servers, ServerFails(a) PROVE PhaseInv'
    BY <1>8 DEF ServerFails, Servers, Quiet
<1>9. CASE Flush \/ PublishScores
    BY <1>9 DEF Flush, PublishScores, podVars, Quiet
<1>10. CASE SignalReturns
    BY <1>10 DEF SignalReturns, Quiet
<1>11. ASSUME NEW s \in Signals, PollerReturns(s) \/ ConsumerReturns(s) PROVE PhaseInv'
    BY <1>11 DEF PollerReturns, ConsumerReturns, Quiet
<1>12. CASE FirstReturn \/ InterruptUnloaded \/ ShutdownEnds \/ StopEnds \/ CancelRest
    <2>1. CASE FirstReturn
        BY <2>1 DEF FirstReturn
    <2>2. CASE CancelRest
        BY <2>2 DEF CancelRest
    <2>3. CASE InterruptUnloaded
        BY <2>3 DEF InterruptUnloaded
    <2>4. CASE ShutdownEnds
        BY <2>4 DEF ShutdownEnds
    <2>5. CASE StopEnds
        BY <2>5 DEF StopEnds
    <2> QED
        BY <1>12, <2>1, <2>2, <2>3, <2>4, <2>5
<1>13. CASE StopAccepting("http", 2) \/ StopAccepting("grpc", 3)
    BY <1>13 DEF StopAccepting
<1>14. CASE AllReturned
    BY <1>14 DEF AllReturned
<1>15. CASE CloseNext
    BY <1>15 DEF CloseNext
<1> QED
    BY <1>1, <1>2, <1>3, <1>4, <1>5, <1>6, <1>7, <1>8, <1>9, <1>10, <1>11, <1>12, <1>13, <1>14,
       <1>15 DEF PodStep, ShutdownStep

\* Publishers close before the producer, in every order of closes.
LEMMA PodPublisher ==
    ASSUME PodInv, PodStep \/ ShutdownStep
    PROVE  PublisherInv' /\ CloseInv'
<1> USE DEF PodInv, PublisherInv, requestVars, clientVars, effectVars, actorVars
<1>1. CASE Boot \/ BootStep \/ Wire
    BY <1>1 DEF Boot, BootStep, Opens, NextPhase, Wire, PhaseInv, BootPhases, Quiet, CloseInv
<1>11. CASE Listen
    BY <1>11 DEF Listen, PhaseInv, Listeners, CloseInv
<1>2. CASE BootFails \/ ListenFails
    BY <1>2 DEF BootFails, ListenFails, Cleanup, CloseInv, PhaseInv,
        BootPhases, Quiet
<1>3. CASE Terminate
    BY <1>3 DEF Terminate, CloseInv, Quiet
<1>4. CASE Kill \/ Exit
    <2>1. ProcessEnds /\ buffered' = {} /\ queued' = {}
        BY <1>4 DEF Kill, Exit, CloseInv, Quiet
    <2> QED
        BY <2>1 DEF ProcessEnds, CloseInv
<1>5. ASSUME NEW a \in Servers, ServerFails(a) PROVE PublisherInv' /\ CloseInv'
    BY <1>5 DEF ServerFails, Servers, Quiet, CloseInv
<1>6. CASE Flush \/ PublishScores
    BY <1>6 DEF Flush, PublishScores, podVars, Quiet, CloseInv
<1>7. CASE SignalReturns \/ FirstReturn \/ InterruptUnloaded \/ ShutdownEnds \/ StopEnds
           \/ CancelRest \/ StopAccepting("http", 2) \/ StopAccepting("grpc", 3)
    BY <1>7 DEF SignalReturns, FirstReturn, InterruptUnloaded, ShutdownEnds, StopEnds, CancelRest,
        StopAccepting, Quiet, CloseInv
<1>8. ASSUME NEW s \in Signals, PollerReturns(s) \/ ConsumerReturns(s)
      PROVE  PublisherInv' /\ CloseInv'
    BY <1>8 DEF PollerReturns, ConsumerReturns, Quiet, CloseInv
<1>9. CASE AllReturned
    BY <1>9 DEF AllReturned, CloseInv, Quiet, Resources
<1>10. CASE CloseNext
    <2>1. PICK what \in toClose :
            /\ \A other \in toClose : Turn(what) <= Turn(other)
            /\ open' = open \ {what} /\ toClose' = toClose \ {what}
            /\ buffered' = IF what = "stats" THEN {} ELSE buffered
            /\ queued' = IF what = "scores" THEN {} ELSE queued
        BY <1>10 DEF CloseNext
    <2>2. phase = "closing" /\ phase' = "closing" /\ at' = at
        BY <1>10 DEF CloseNext
    <2>3. Quiet => Quiet'
        BY <2>1, <2>2 DEF Quiet
    <2>4. what = "producer" => "stats" \notin toClose /\ "scores" \notin toClose
        BY <2>1 DEF Turn
    <2> QED
        BY <2>1, <2>2, <2>3, <2>4 DEF CloseInv
<1> QED
    BY <1>1, <1>2, <1>3, <1>4, <1>5, <1>6, <1>7, <1>8, <1>9, <1>10, <1>11 DEF PodStep, ShutdownStep

\* A step of boot, service or shutdown keeps the invariant (Start, Infra.Close).
LEMMA PodStepKeeps ==
    ASSUME PodInv, PodStep \/ ShutdownStep
    PROVE  PodInv'
BY PodType, PodHandler, PodRefused, PodPhase, PodPublisher DEF PodInv

-----------------------------------------------------------------------------
(* The theorems                                                            *)

\* The inductive invariant: how far each handler got, what each phase has open
\* and what is left to close.
THEOREM Inductive == Spec => []PodInv
<1>1. Init => PodInv
    BY Initial
<1>2. PodInv /\ [Next]_vars => PodInv'
    <2> SUFFICES ASSUME PodInv, [Next]_vars PROVE PodInv'
        OBVIOUS
    <2>1. ASSUME NEW e \in Requests, Request(e) PROVE PodInv'
        BY <2>1, RequestStep
    <2>2. CASE PodStep \/ ShutdownStep
        BY <2>2, PodStepKeeps
    <2>3. CASE UNCHANGED vars
        BY <2>3 DEF vars, requestVars, clientVars, effectVars, podVars, actorVars, PodInv, TypeOK,
            HandlerInv, RefusedInv, UsageOnlyOfStored, PhaseInv, PublisherInv, CloseInv, Quiet, Stored,
            Current, Retryable
    <2> QED
        BY <2>1, <2>2, <2>3 DEF Next
<1> QED
    BY <1>1, <1>2, PTL DEF Spec

\* Type correctness of the pod and its requests.
THEOREM TypeCorrect == Spec => []TypeOK
<1>1. PodInv => TypeOK
    BY DEF PodInv
<1> QED
    BY <1>1, Inductive, PTL

\* A success says that every row of that attempt is on the topic, through
\* partial publishes, retries, late handlers, shutdowns, kills and restarts.
THEOREM AckedIsStored == Spec => []AckedOnTopic
<1>1. PodInv => AckedOnTopic
    BY DEF PodInv, HandlerInv, AckedOnTopic, Answered
<1> QED
    BY <1>1, Inductive, PTL

\* Usage and scores exist only for attempts that were stored whole.
THEOREM UsageIsStored == Spec => []UsageOnlyOfStored
<1>1. PodInv => UsageOnlyOfStored
    BY DEF PodInv
<1> QED
    BY <1>1, Inductive, PTL

\* No authenticated request with rows is told to give up.
THEOREM NoSilentDrop == Spec => []DroppedHasCause
<1>1. PodInv => DroppedHasCause
    BY DEF PodInv, HandlerInv, DroppedHasCause, Answered
<1> QED
    BY <1>1, Inductive, PTL

\* Close drains the recorder and the scores before it closes the producer.
THEOREM DrainOrder == Spec => []DrainedBeforeProducer
<1>1. PodInv => DrainedBeforeProducer
    BY DEF PodInv, PublisherInv, Quiet, DrainedBeforeProducer
<1> QED
    BY <1>1, Inductive, PTL

\* After every shutdown, the usage of an acknowledged attempt was published or
\* counted as dropped, or a kill destroyed it, or it came over HTTP from a
\* handler that outlived Shutdown's budget, and Record dropped it silently.
THEOREM UsageAccounted == Spec => []AckedAccounted
<1>1. PodInv => AckedAccounted
    <2> SUFFICES ASSUME PodInv, phase = "exited", NEW e \in Requests,
                        Answered(e), answer[e] = "OK"
                 PROVE  \/ Current(e) \in settled \cup killed
                        \/ Current(e) \in refused /\ server[e] = "http"
        BY DEF AckedAccounted
    <2>1. at[e] = "client" /\ shape[e] = "rows" /\ buffered = {}
        BY DEF Answered, PodInv, PhaseInv, Quiet
    <2>2. Current(e) \in settled \cup refused \cup killed /\ attempts[e] \in 1 .. MaxAttempts
        <3>1. Current(e) \in settled \cup refused \cup killed /\ attempts[e] # 0
            BY <2>1 DEF PodInv, HandlerInv
        <3> QED
            BY <3>1 DEF PodInv, TypeOK
    <2>3. Current(e) \in refused => server[e] # "grpc"
        BY <2>1, <2>2 DEF PodInv, RefusedInv, Current
    <2> QED
        BY <2>2, <2>3 DEF PodInv, TypeOK
<1> QED
    BY <1>1, Inductive, PTL

\* Consumers and pollers run only while their clients are open.
THEOREM ClientsOutliveActors == Spec => []ActorsHaveClients
<1>1. PodInv => ActorsHaveClients
    BY DEF PodInv, TypeOK, PhaseInv, Phases, BootPhases, ActorsHaveClients, Signals
<1> QED
    BY <1>1, Inductive, PTL

=============================================================================
