------------------------------ MODULE Lifecycle ------------------------------
(***************************************************************************)
(* The goroutines of one service process from start-service to its exit:   *)
(*                                                                         *)
(*   main      startService: prepares the database, starts the consumer and*)
(*             the server in an error group, waits for the first of them to*)
(*             return, stops the service, waits for both                   *)
(*   consumer  startConsumer, which blocks in Serve                        *)
(*   loop      the goroutine Serve starts, which calls Consume             *)
(*   claim     ConsumeClaim, run by Sarama for a session                   *)
(*   server    startServer, which blocks in ListenAndServe                 *)
(*   signal    the handler of SIGINT and SIGTERM, which stops the service  *)
(*                                                                         *)
(* Main and signal may be inside stopService at the same time.  What the   *)
(* Kafka client and net/http do is modelled from how it is used.           *)
(***************************************************************************)
EXTENDS Integers

CONSTANTS
    BrokerModes,     \* whether broker.enabled may be set in the configuration
    Faults,          \* what may fail, see FaultKinds
    MaxRequests,     \* HTTP requests in flight
    MaxMessages,     \* messages a claim is given
    MaxRebalances    \* bounds of the model

\* database: prepareDB or createStorage fails; broker: the consumer cannot be
\* created or Consume returns an error; listen: ListenAndServe fails;
\* shutdown: Shutdown cannot close its listener.
FaultKinds == {"database", "broker", "listen", "shutdown"}

ASSUME LifecycleConstants ==
    /\ BrokerModes \subseteq BOOLEAN
    /\ Faults \subseteq FaultKinds
    /\ MaxRequests \in Nat /\ MaxMessages \in Nat /\ MaxRebalances \in Nat

Running == -1        \* exitCode of a process that has not exited
ExitStatusOK == 0
ExitStatusError == 1
ExitStatusPrepareDbError == 2
ExitStatusConsumerError == 3
ExitStatusServerError == 4

VARIABLES
    main, consumer, loop, claim, server,   \* where the goroutines are
    stop,         \* stop[a]: where actor a is in stopService
    errCode,      \* errCode[a]: its result so far
    ctxDone,      \* cancel of startService has been called
    ready,        \* the current consumer.ready has been closed by Setup
    cancelled,    \* the context Serve made has been cancelled
    groupClosed,  \* ConsumerGroup.Close has been called
    shutdown,     \* Shutdown has been called
    consumerDB,   \* the storage startConsumer opened is open
    serverDB,     \* the storage startServer opened is open
    requests,     \* HTTP requests in flight
    buffered,     \* messages fetched for the claim and not yet taken by it
    fetched, rebalances,
    signalled,    \* SIGINT or SIGTERM has been sent
    exitCode

consumerSide == <<consumer, loop, claim, ready, cancelled, groupClosed, consumerDB,
                  buffered, fetched, rebalances>>
serverSide == <<server, shutdown, serverDB, requests>>
stopping == <<stop, errCode>>
vars == <<main, consumerSide, serverSide, stopping, ctxDone, signalled, exitCode>>

Actors == {"main", "signal"}

Init ==
    /\ main = "prepare"
    /\ consumer = "off" /\ loop = "off" /\ claim = "idle"
    /\ server = "off"
    /\ stop = [a \in Actors |-> "idle"]
    /\ errCode = [a \in Actors |-> ExitStatusOK]
    /\ ctxDone = FALSE
    /\ ready = FALSE /\ cancelled = FALSE /\ groupClosed = FALSE /\ shutdown = FALSE
    /\ consumerDB = FALSE /\ serverDB = FALSE
    /\ requests = 0
    /\ buffered = 0 /\ fetched = 0 /\ rebalances = 0
    /\ signalled = FALSE
    /\ exitCode = Running

-----------------------------------------------------------------------------
\* What the flags shared by the goroutines say.

\* The configuration, once startService has looked at it.
BrokerEnabled == consumer # "off"

\* consumerInstance # nil, and its cancel has been set by Serve.
ConsumerInstance == consumer \in {"created", "waiting", "serving", "returned"}
CancelIsSet == consumer \in {"waiting", "serving", "returned"}

\* Mutant: finishConsumerInstanceInitialization is not deferred.
ConsumerStarted_OnlyOnSuccess == ConsumerInstance

\* consumerInstanceIsStarting is done: by the call before Serve or by the defer.
ConsumerStarted == ConsumerInstance \/ consumer = "failed"

ServerInstance == server \in {"created", "listening", "returned", "broken"}
ServerStarted == ServerInstance \/ server = "failed"

\* The function given to errorGroup.Go has returned.
ConsumerEnded == consumer \in {"failed", "returned"} \/ ~BrokerEnabled
ServerEnded == server \in {"failed", "returned", "broken"}

-----------------------------------------------------------------------------
\* main: startService.

\* The error of prepareDB is the exit code.
PrepareDB ==
    /\ main = "prepare"
    /\ \/ /\ main' = "running"
          /\ \E enabled \in BrokerModes :
                 consumer' = IF enabled THEN "starting" ELSE "off"
          /\ server' = "starting"
          /\ UNCHANGED exitCode
       \/ /\ "database" \in Faults
          /\ exitCode' = ExitStatusPrepareDbError
          /\ UNCHANGED <<main, consumer, server>>
    /\ UNCHANGED <<loop, claim, ready, cancelled, groupClosed, consumerDB, buffered,
                   fetched, rebalances, shutdown, serverDB, requests, stopping,
                   ctxDone, signalled>>

\* <-ctx.Done(), then stopService.
MainStops ==
    /\ main = "running" /\ ctxDone
    /\ main' = "stopping"
    /\ stop' = [stop EXCEPT !["main"] = "server"]
    /\ UNCHANGED <<consumerSide, serverSide, errCode, ctxDone, signalled, exitCode>>

\* Returning from main ends the process, whatever other goroutines do.
MainExits ==
    /\ main = "stopping" /\ stop["main"] = "done"
    /\ \/ /\ errCode["main"] # ExitStatusOK
          /\ exitCode' = errCode["main"]
       \/ /\ errCode["main"] = ExitStatusOK
          /\ ConsumerEnded /\ ServerEnded
          /\ exitCode' = IF consumer = "failed" \/ server \in {"failed", "broken"}
                         THEN ExitStatusError ELSE ExitStatusOK
    /\ UNCHANGED <<main, consumerSide, serverSide, stopping, ctxDone, signalled>>

-----------------------------------------------------------------------------
\* signal: stopServiceOnProcessStopSignal.

ReceiveSignal ==
    /\ signalled /\ stop["signal"] = "idle"
    /\ stop' = [stop EXCEPT !["signal"] = "server"]
    /\ UNCHANGED <<main, consumerSide, serverSide, errCode, ctxDone, signalled, exitCode>>

SignalExits ==
    /\ stop["signal"] = "done" /\ errCode["signal"] # ExitStatusOK
    /\ exitCode' = errCode["signal"]
    /\ UNCHANGED <<main, consumerSide, serverSide, stopping, ctxDone, signalled>>

SendSignal ==
    /\ ~signalled
    /\ signalled' = TRUE
    /\ UNCHANGED <<main, consumerSide, serverSide, stopping, ctxDone, exitCode>>

-----------------------------------------------------------------------------
\* stopService, run by actor a.

\* stopServer waits for the server to start or fail and then calls Shutdown,
\* which makes ListenAndServe return at once.
StopServer(a) ==
    /\ stop[a] = "server"
    /\ ServerStarted
    /\ shutdown' = (shutdown \/ ServerInstance)
    /\ stop' = [stop EXCEPT ![a] = IF ServerInstance THEN "drain" ELSE "consumer"]
    /\ UNCHANGED <<main, consumerSide, server, serverDB, requests, errCode, ctxDone,
                   signalled, exitCode>>

\* Mutant: Close instead of Shutdown, which does not wait for requests.
ServerDrained_AtOnce(a) ==
    /\ stop[a] = "drain"
    /\ stop' = [stop EXCEPT ![a] = "consumer"]
    /\ UNCHANGED <<main, consumerSide, serverSide, errCode, ctxDone, signalled, exitCode>>

\* Shutdown itself returns when there are no requests any more.
ServerDrained(a) ==
    /\ stop[a] = "drain" /\ requests = 0
    /\ stop' = [stop EXCEPT ![a] = "consumer"]
    /\ \/ UNCHANGED errCode
       \/ "shutdown" \in Faults /\ errCode' = [errCode EXCEPT ![a] = ExitStatusServerError]
    /\ UNCHANGED <<main, consumerSide, serverSide, ctxDone, signalled, exitCode>>

\* stopConsumer waits for the consumer to start or fail and then calls Close.
StopConsumer(a) ==
    /\ stop[a] = "consumer"
    /\ \/ /\ ~BrokerEnabled \/ (ConsumerStarted /\ ~ConsumerInstance)
          /\ stop' = [stop EXCEPT ![a] = "done"]
          /\ UNCHANGED <<cancelled, groupClosed>>
       \/ /\ BrokerEnabled /\ ConsumerStarted /\ ConsumerInstance
          /\ stop' = [stop EXCEPT ![a] = "closing"]
          /\ cancelled' = (cancelled \/ CancelIsSet)
          /\ groupClosed' = TRUE
    /\ UNCHANGED <<main, consumer, loop, claim, ready, consumerDB, buffered, fetched,
                   rebalances, serverSide, errCode, ctxDone, signalled, exitCode>>

\* Mutant: the session is not waited for.
GroupClosed_NoWait(a) ==
    /\ stop[a] = "closing"
    /\ stop' = [stop EXCEPT ![a] = "done"]
    /\ UNCHANGED <<main, consumerSide, serverSide, errCode, ctxDone, signalled, exitCode>>

\* ConsumerGroup.Close waits for Consume to return; then the producers are closed.
GroupClosed(a) ==
    /\ stop[a] = "closing"
    /\ loop \notin {"joining", "session"}
    /\ stop' = [stop EXCEPT ![a] = "done"]
    /\ UNCHANGED <<main, consumerSide, serverSide, errCode, ctxDone, signalled, exitCode>>

StopService(a) == StopServer(a) \/ ServerDrained(a) \/ StopConsumer(a) \/ GroupClosed(a)

-----------------------------------------------------------------------------
\* consumer: startConsumer.

\* createStorage and NewKafkaConsumer; on an error the storage is closed again
\* and the deferred functions end both the initialization and the context.
CreateConsumer ==
    /\ consumer = "starting"
    /\ \/ /\ consumer' = "created"
          /\ consumerDB' = TRUE
          /\ UNCHANGED ctxDone
       \/ /\ Faults \intersect {"database", "broker"} # {}
          /\ consumer' = "failed"
          /\ ctxDone' = TRUE
          /\ UNCHANGED consumerDB
    /\ UNCHANGED <<main, loop, claim, ready, cancelled, groupClosed, buffered, fetched,
                   rebalances, serverSide, stopping, signalled, exitCode>>

\* Serve sets cancel and starts the loop.
Serve ==
    /\ consumer = "created"
    /\ consumer' = "waiting"
    /\ loop' = "calling"
    /\ UNCHANGED <<main, claim, ready, cancelled, groupClosed, consumerDB, buffered,
                   fetched, rebalances, serverSide, stopping, ctxDone, signalled, exitCode>>

\* <-consumer.ready
ConsumerReady ==
    /\ consumer = "waiting" /\ ready
    /\ consumer' = "serving"
    /\ UNCHANGED <<main, loop, claim, ready, cancelled, groupClosed, consumerDB, buffered,
                   fetched, rebalances, serverSide, stopping, ctxDone, signalled, exitCode>>

\* <-ctx.Done(); Serve returns, the deferred calls close the storage and cancel.
ConsumerReturns ==
    /\ consumer = "serving" /\ cancelled
    /\ consumer' = "returned"
    /\ consumerDB' = FALSE
    /\ ctxDone' = TRUE
    /\ UNCHANGED <<main, loop, claim, ready, cancelled, groupClosed, buffered, fetched,
                   rebalances, serverSide, stopping, signalled, exitCode>>

-----------------------------------------------------------------------------
\* loop and claim: Consume, Setup, ConsumeClaim.

\* log.Fatal
Fatal == exitCode' = ExitStatusError /\ UNCHANGED loop

CallConsume ==
    /\ loop = "calling"
    /\ \/ ~groupClosed /\ loop' = "joining" /\ UNCHANGED exitCode
       \/ groupClosed /\ Fatal
    /\ UNCHANGED <<main, consumer, claim, ready, cancelled, groupClosed, consumerDB,
                   buffered, fetched, rebalances, serverSide, stopping, ctxDone, signalled>>

\* The group accepts the process and Setup closes ready; or Consume returns an
\* error, which a context or a group closed in the meantime is, too.
JoinGroup ==
    /\ loop = "joining"
    /\ \/ loop' = "session" /\ ready' = TRUE /\ UNCHANGED exitCode
       \/ /\ "broker" \in Faults \/ cancelled \/ groupClosed
          /\ Fatal
          /\ UNCHANGED ready
    /\ UNCHANGED <<main, consumer, claim, cancelled, groupClosed, consumerDB, buffered,
                   fetched, rebalances, serverSide, stopping, ctxDone, signalled>>

Fetch ==
    /\ loop = "session" /\ ~cancelled /\ ~groupClosed
    /\ fetched < MaxMessages
    /\ fetched' = fetched + 1
    /\ buffered' = buffered + 1
    /\ UNCHANGED <<main, consumer, loop, claim, ready, cancelled, groupClosed, consumerDB,
                   rebalances, serverSide, stopping, ctxDone, signalled, exitCode>>

\* ConsumeClaim goes on with what was fetched before its channel was closed.
TakeMessage ==
    /\ claim = "idle" /\ buffered > 0
    /\ claim' = "busy"
    /\ buffered' = buffered - 1
    /\ UNCHANGED <<main, consumer, loop, ready, cancelled, groupClosed, consumerDB, fetched,
                   rebalances, serverSide, stopping, ctxDone, signalled, exitCode>>

\* HandleMessage returns, with whatever result, and the message is marked.
FinishMessage ==
    /\ claim = "busy"
    /\ claim' = "idle"
    /\ UNCHANGED <<main, consumer, loop, ready, cancelled, groupClosed, consumerDB, buffered,
                   fetched, rebalances, serverSide, stopping, ctxDone, signalled, exitCode>>

\* Mutant: the next session starts while a claim of the last one still runs.
EndSession_NotDrained ==
    /\ loop = "session" /\ ~cancelled
    /\ rebalances < MaxRebalances
    /\ rebalances' = rebalances + 1
    /\ loop' = "calling"
    /\ ready' = FALSE
    /\ UNCHANGED <<main, consumer, claim, cancelled, groupClosed, consumerDB, buffered,
                   fetched, serverSide, stopping, ctxDone, signalled, exitCode>>

\* Once the claims have returned, Consume does; without a cancelled context the
\* loop goes on with a new ready channel.
EndSession ==
    /\ loop = "session" /\ claim = "idle" /\ buffered = 0
    /\ \/ /\ cancelled
          /\ loop' = "ended"
          /\ UNCHANGED <<ready, rebalances>>
       \/ /\ ~cancelled
          /\ groupClosed \/ rebalances < MaxRebalances
          /\ rebalances' = IF groupClosed THEN rebalances ELSE rebalances + 1
          /\ loop' = "calling"
          /\ ready' = FALSE
    /\ UNCHANGED <<main, consumer, claim, cancelled, groupClosed, consumerDB, buffered,
                   fetched, serverSide, stopping, ctxDone, signalled, exitCode>>

-----------------------------------------------------------------------------
\* server: startServer and the requests.

CreateServer ==
    /\ server = "starting"
    /\ \/ /\ server' = "created"
          /\ serverDB' = TRUE
          /\ UNCHANGED ctxDone
       \/ /\ "database" \in Faults
          /\ server' = "failed"
          /\ ctxDone' = TRUE
          /\ UNCHANGED serverDB
    /\ UNCHANGED <<main, consumerSide, shutdown, requests, stopping, signalled, exitCode>>

Listen ==
    /\ server = "created" /\ ~shutdown
    /\ server' = "listening"
    /\ UNCHANGED <<main, consumerSide, shutdown, serverDB, requests, stopping, ctxDone,
                   signalled, exitCode>>

\* ListenAndServe returns: ErrServerClosed after (or before) Shutdown is no error.
ServerReturns ==
    /\ server \in {"created", "listening"}
    /\ \/ shutdown /\ server' = "returned"
       \/ ~shutdown /\ "listen" \in Faults /\ server' = "broken"
    /\ serverDB' = FALSE
    /\ ctxDone' = TRUE
    /\ UNCHANGED <<main, consumerSide, shutdown, requests, stopping, signalled, exitCode>>

Accept ==
    /\ server = "listening" /\ ~shutdown
    /\ requests < MaxRequests
    /\ requests' = requests + 1
    /\ UNCHANGED <<main, consumerSide, server, shutdown, serverDB, stopping, ctxDone,
                   signalled, exitCode>>

Respond ==
    /\ requests > 0
    /\ requests' = requests - 1
    /\ UNCHANGED <<main, consumerSide, server, shutdown, serverDB, stopping, ctxDone,
                   signalled, exitCode>>

-----------------------------------------------------------------------------

Main == exitCode = Running /\ (PrepareDB \/ MainStops \/ MainExits)
Signal == exitCode = Running /\ (ReceiveSignal \/ SignalExits)
Stops(a) == exitCode = Running /\ StopService(a)
Consumer == exitCode = Running /\ (CreateConsumer \/ Serve \/ ConsumerReady \/ ConsumerReturns)
Loop == exitCode = Running /\ (CallConsume \/ JoinGroup \/ EndSession)
Claim == exitCode = Running /\ (TakeMessage \/ FinishMessage)
Server == exitCode = Running /\ (CreateServer \/ Listen \/ ServerReturns)
Handler == exitCode = Running /\ Respond
Environment == exitCode = Running /\ (SendSignal \/ Fetch \/ Accept)

Next ==
    \/ Main \/ Signal \/ Consumer \/ Loop \/ Claim \/ Server \/ Handler
    \/ \E a \in Actors : Stops(a)
    \/ Environment

Spec == Init /\ [][Next]_vars

\* The Go scheduler runs every goroutine that can run; messages and requests in
\* progress end, and the broker answers.
FairSpec ==
    /\ Spec
    /\ WF_vars(Main) /\ WF_vars(Signal) /\ WF_vars(Consumer) /\ WF_vars(Loop)
    /\ WF_vars(Claim) /\ WF_vars(Server) /\ WF_vars(Handler)
    /\ \A a \in Actors : WF_vars(Stops(a))

-----------------------------------------------------------------------------
\* Every variable has its type; the claim works for a session only.
LifecycleTypeOK ==
    /\ main \in {"prepare", "running", "stopping"}
    /\ consumer \in {"off", "starting", "failed", "created", "waiting", "serving", "returned"}
    /\ loop \in {"off", "calling", "joining", "session", "ended"}
    /\ claim \in {"idle", "busy"}
    /\ server \in {"off", "starting", "failed", "created", "listening", "returned", "broken"}
    /\ stop \in [Actors -> {"idle", "server", "drain", "consumer", "closing", "done"}]
    /\ errCode \in [Actors -> {ExitStatusOK, ExitStatusServerError}]
    /\ {ctxDone, ready, cancelled, groupClosed, shutdown, consumerDB, serverDB, signalled}
           \subseteq BOOLEAN
    /\ requests \in 0..MaxRequests
    /\ fetched \in 0..MaxMessages /\ buffered \in 0..fetched
    /\ rebalances \in 0..MaxRebalances
    /\ exitCode \in {Running, ExitStatusOK, ExitStatusError, ExitStatusPrepareDbError,
                     ExitStatusServerError}
    /\ claim = "busy" \/ buffered > 0 => loop = "session"

\* "If service is terminated correctly, ExitStatusOK is returned": the process
\* ends with code 0 only after a signal, if nothing has failed, no request and no
\* message is left half way, and both storages have been closed.
CleanExit ==
    exitCode = ExitStatusOK =>
        /\ signalled
        /\ consumer # "failed" /\ server \notin {"failed", "broken"}
        /\ requests = 0 /\ claim = "idle" /\ buffered = 0
        /\ ~consumerDB /\ ~serverDB

(***************************************************************************)
(* The inductive invariant for CleanExit.  Nothing begins to stop without  *)
(* a cause, which is a signal or the failure of a part.  A caller of       *)
(* stopService that is past Shutdown has left no requests behind and no    *)
(* way for new ones, and one that is past Close no session and no way into *)
(* another, although the other caller may be anywhere.  The storages are   *)
(* open exactly while startConsumer and startServer use them.              *)
(***************************************************************************)
Cause == signalled \/ consumer = "failed" \/ server \in {"failed", "broken"}

StoppedForCause ==
    /\ ctxDone \/ cancelled \/ groupClosed \/ shutdown \/ main = "stopping" => Cause
    /\ \A a \in Actors : stop[a] # "idle" => Cause

StartedByMain ==
    /\ main = "prepare" <=> server = "off"
    /\ main = "prepare" => consumer = "off"
    /\ consumer \in {"off", "starting", "failed", "created"} => loop = "off"

ShutdownDone ==
    \A a \in Actors :
        /\ stop[a] \in {"drain", "consumer", "closing", "done"} => ServerStarted
        /\ stop[a] = "drain" => shutdown
        /\ stop[a] \in {"consumer", "closing", "done"} =>
               server = "failed" \/ (shutdown /\ requests = 0)

CloseDone ==
    \A a \in Actors :
        /\ stop[a] = "closing" => groupClosed /\ ConsumerInstance
        /\ stop[a] = "done" =>
               \/ consumer \in {"off", "failed"}
               \/ groupClosed /\ loop \notin {"joining", "session"}

StorageInUse ==
    /\ consumerDB <=> consumer \in {"created", "waiting", "serving"}
    /\ serverDB <=> server \in {"created", "listening"}

\* What the proof shows to be inductive together with LifecycleTypeOK: both callers
\* of stopService wait for the work in progress, in whatever order they, the
\* failures and the goroutines they stop take their steps.
LifecycleInv ==
    /\ StoppedForCause
    /\ StartedByMain
    /\ ShutdownDone
    /\ CloseDone
    /\ StorageInUse

\* "it's gonna finish when either of goroutines finishes or fails": after a signal,
\* and after the failure of either part, the process ends, however far the other
\* part and the two callers of stopService have got.
Termination ==
    (signalled \/ consumer = "failed" \/ server \in {"failed", "broken"})
        ~> exitCode # Running

\* "Serve starts listening for messages and processing them. It blocks current
\* thread.": while a message is processed Serve has not returned, and so the
\* storage that startConsumer closes after Serve is open.
StorageOpenWhileHandling ==
    exitCode = Running /\ claim = "busy" => consumerDB
=============================================================================
