-------------------------- MODULE LifecycleProofs ----------------------------
(***************************************************************************)
(* Proofs that a service process which exits with code 0 has stopped       *)
(* cleanly, for every number of requests, messages and rebalances and any  *)
(* set of faults.                                                          *)
(***************************************************************************)
EXTENDS Lifecycle, TLAPS

LEMMA TypeInit == Init => LifecycleTypeOK
  <1> SUFFICES ASSUME Init PROVE LifecycleTypeOK  OBVIOUS
  <1> USE DEF Init
  <1>1. /\ stop \in [Actors -> {"idle", "server", "drain", "consumer", "closing", "done"}]
        /\ errCode \in [Actors -> {ExitStatusOK, ExitStatusServerError}]
    OBVIOUS
  <1>2. {ctxDone, ready, cancelled, groupClosed, shutdown, consumerDB, serverDB, signalled}
            \subseteq BOOLEAN
    OBVIOUS
  <1>3. /\ requests \in 0..MaxRequests /\ fetched \in 0..MaxMessages /\ buffered \in 0..fetched
        /\ rebalances \in 0..MaxRebalances /\ ~(buffered > 0)
    BY LifecycleConstants
  <1> QED  BY <1>1, <1>2, <1>3 DEF LifecycleTypeOK

LEMMA TypeStep == LifecycleTypeOK /\ StartedByMain /\ [Next]_vars => LifecycleTypeOK'
  <1> SUFFICES ASSUME LifecycleTypeOK, StartedByMain, [Next]_vars PROVE LifecycleTypeOK'  OBVIOUS
  <1> USE LifecycleConstants DEF LifecycleTypeOK, Actors, Running, ExitStatusOK,
      ExitStatusError, ExitStatusPrepareDbError, ExitStatusServerError,
      consumerSide, serverSide, stopping
  <1>1. CASE PrepareDB  BY <1>1 DEF PrepareDB
  <1>2. CASE MainStops  BY <1>2 DEF MainStops
  <1>3. CASE MainExits  BY <1>3 DEF MainExits
  <1>4. CASE ReceiveSignal  BY <1>4 DEF ReceiveSignal
  <1>5. CASE SignalExits  BY <1>5 DEF SignalExits
  <1>6. CASE SendSignal  BY <1>6 DEF SendSignal
  <1>7. CASE CreateConsumer  BY <1>7 DEF CreateConsumer
  <1>8. CASE Serve  BY <1>8 DEF Serve, StartedByMain
  <1>9. CASE ConsumerReady  BY <1>9 DEF ConsumerReady
  <1>10. CASE ConsumerReturns  BY <1>10 DEF ConsumerReturns
  <1>11. CASE CallConsume  BY <1>11 DEF CallConsume, Fatal
  <1>12. CASE JoinGroup  BY <1>12 DEF JoinGroup, Fatal
  <1>13. CASE Fetch  BY <1>13 DEF Fetch
  <1>14. CASE TakeMessage  BY <1>14 DEF TakeMessage
  <1>15. CASE FinishMessage  BY <1>15 DEF FinishMessage
  <1>16. CASE EndSession
    <2>1. CASE cancelled /\ loop' = "ended" /\ UNCHANGED <<ready, rebalances>>
      BY <1>16, <2>1 DEF EndSession
    <2>2. CASE /\ ~cancelled
               /\ groupClosed \/ rebalances < MaxRebalances
               /\ rebalances' = IF groupClosed THEN rebalances ELSE rebalances + 1
               /\ loop' = "calling" /\ ready' = FALSE
      <3>1. rebalances' \in 0..MaxRebalances
        <4>1. CASE groupClosed  BY <2>2, <4>1
        <4>2. CASE ~groupClosed  BY <2>2, <4>2
        <4> QED  BY <4>1, <4>2
      <3>2. {ctxDone, ready, cancelled, groupClosed, shutdown, consumerDB, serverDB,
             signalled}' \subseteq BOOLEAN
        BY <1>16, <2>2 DEF EndSession
      <3> QED  BY <1>16, <2>2, <3>1, <3>2 DEF EndSession
    <2> QED  BY <1>16, <2>1, <2>2 DEF EndSession
  <1>17. CASE CreateServer  BY <1>17 DEF CreateServer
  <1>18. CASE Listen  BY <1>18 DEF Listen
  <1>19. CASE ServerReturns  BY <1>19 DEF ServerReturns
  <1>20. CASE Accept  BY <1>20 DEF Accept
  <1>21. CASE Respond  BY <1>21 DEF Respond
  <1>22. ASSUME NEW a \in Actors, StopServer(a) PROVE LifecycleTypeOK'
    BY <1>22 DEF StopServer, ServerInstance
  <1>23. ASSUME NEW a \in Actors, ServerDrained(a) PROVE LifecycleTypeOK'
    BY <1>23 DEF ServerDrained
  <1>24. ASSUME NEW a \in Actors, StopConsumer(a) PROVE LifecycleTypeOK'
    <2>1. CASE UNCHANGED <<cancelled, groupClosed>>  BY <1>24, <2>1 DEF StopConsumer
    <2>2. CASE cancelled' = (cancelled \/ CancelIsSet) /\ groupClosed' = TRUE
      <3>1. cancelled' \in BOOLEAN /\ groupClosed' \in BOOLEAN  BY <2>2
      <3>2. stop' \in [Actors -> {"idle", "server", "drain", "consumer", "closing", "done"}]
        BY <1>24 DEF StopConsumer
      <3> HIDE DEF Actors
      <3> QED  BY <1>24, <3>1, <3>2 DEF StopConsumer
    <2> QED  BY <1>24, <2>1, <2>2 DEF StopConsumer
  <1>25. ASSUME NEW a \in Actors, GroupClosed(a) PROVE LifecycleTypeOK'
    BY <1>25 DEF GroupClosed
  <1>26. CASE UNCHANGED vars  BY <1>26 DEF vars
  <1> QED
    BY <1>1, <1>2, <1>3, <1>4, <1>5, <1>6, <1>7, <1>8, <1>9, <1>10, <1>11, <1>12,
       <1>13, <1>14, <1>15, <1>16, <1>17, <1>18, <1>19, <1>20, <1>21, <1>22, <1>23,
       <1>24, <1>25, <1>26
       DEF Next, Main, Signal, Consumer, Loop, Claim, Server, Handler, Stops, StopService,
           Environment

-----------------------------------------------------------------------------
\* Stopping.

LEMMA InvInit == Init => LifecycleInv
  BY DEF Init, LifecycleInv, StoppedForCause, StartedByMain, ShutdownDone, CloseDone,
     StorageInUse

LEMMA InvStep == LifecycleTypeOK /\ LifecycleInv /\ [Next]_vars => LifecycleInv'
  <1> SUFFICES ASSUME LifecycleTypeOK, LifecycleInv, [Next]_vars PROVE LifecycleInv'
    OBVIOUS
  <1>0. /\ stop \in [Actors -> {"idle", "server", "drain", "consumer", "closing", "done"}]
        /\ requests \in Nat
    BY LifecycleConstants DEF LifecycleTypeOK
  <1> USE <1>0 DEF LifecycleInv, StoppedForCause, Cause, StartedByMain, ShutdownDone, CloseDone,
      StorageInUse, ServerStarted, ServerInstance, ConsumerInstance,
      consumerSide, serverSide, stopping
  <1>1. CASE PrepareDB  BY <1>1 DEF PrepareDB
  <1>2. CASE MainStops  BY <1>2 DEF MainStops
  <1>3. CASE MainExits  BY <1>3 DEF MainExits
  <1>4. CASE ReceiveSignal  BY <1>4 DEF ReceiveSignal
  <1>5. CASE SignalExits  BY <1>5 DEF SignalExits
  <1>6. CASE SendSignal  BY <1>6 DEF SendSignal
  <1>7. CASE CreateConsumer  BY <1>7 DEF CreateConsumer
  <1>8. CASE Serve  BY <1>8 DEF Serve
  <1>9. CASE ConsumerReady  BY <1>9 DEF ConsumerReady
  <1>10. CASE ConsumerReturns  BY <1>10 DEF ConsumerReturns
  <1>11. CASE CallConsume  BY <1>11 DEF CallConsume, Fatal
  <1>12. CASE JoinGroup  BY <1>12 DEF JoinGroup, Fatal
  <1>13. CASE Fetch  BY <1>13 DEF Fetch
  <1>14. CASE TakeMessage  BY <1>14 DEF TakeMessage
  <1>15. CASE FinishMessage  BY <1>15 DEF FinishMessage
  <1>16. CASE EndSession  BY <1>16 DEF EndSession
  <1>17. CASE CreateServer  BY <1>17 DEF CreateServer
  <1>18. CASE Listen  BY <1>18 DEF Listen
  <1>19. CASE ServerReturns  BY <1>19 DEF ServerReturns
  <1>20. CASE Accept  BY <1>20 DEF Accept
  <1>21. CASE Respond  BY <1>21 DEF Respond
  <1>22. ASSUME NEW a \in Actors, StopServer(a) PROVE LifecycleInv'
    BY <1>22 DEF StopServer
  <1>23. ASSUME NEW a \in Actors, ServerDrained(a) PROVE LifecycleInv'
    BY <1>23 DEF ServerDrained
  <1>24. ASSUME NEW a \in Actors, StopConsumer(a) PROVE LifecycleInv'
    BY <1>24 DEF StopConsumer, ConsumerStarted, BrokerEnabled
  <1>25. ASSUME NEW a \in Actors, GroupClosed(a) PROVE LifecycleInv'
    BY <1>25 DEF GroupClosed
  <1>26. CASE UNCHANGED vars  BY <1>26 DEF vars
  <1> QED
    BY <1>1, <1>2, <1>3, <1>4, <1>5, <1>6, <1>7, <1>8, <1>9, <1>10, <1>11, <1>12,
       <1>13, <1>14, <1>15, <1>16, <1>17, <1>18, <1>19, <1>20, <1>21, <1>22, <1>23,
       <1>24, <1>25, <1>26
       DEF Next, Main, Signal, Consumer, Loop, Claim, Server, Handler, Stops, StopService,
           Environment

IInv == LifecycleTypeOK /\ LifecycleInv

LEMMA InitIInv == Init => IInv
  BY TypeInit, InvInit DEF IInv

LEMMA NextIInv == IInv /\ [Next]_vars => IInv'
  BY TypeStep, InvStep DEF IInv, LifecycleInv

\* Code 0 is the exit code of main only, when stopService has succeeded and both
\* functions of the error group have returned nil.
LEMMA CleanExitStep == IInv /\ CleanExit /\ [Next]_vars => CleanExit'
  <1> SUFFICES ASSUME IInv, CleanExit, [Next]_vars, exitCode' = ExitStatusOK
               PROVE  CleanExit'
    BY DEF CleanExit
  <1> USE DEF ExitStatusOK, ExitStatusError, ExitStatusPrepareDbError, Running
  <1>1. CASE UNCHANGED vars
    BY <1>1 DEF vars, consumerSide, serverSide, CleanExit
  <1>2. CASE MainExits
    <2>1. /\ main = "stopping" /\ stop["main"] = "done"
          /\ ConsumerEnded /\ ServerEnded
          /\ consumer # "failed" /\ server \notin {"failed", "broken"}
          /\ UNCHANGED <<consumerSide, serverSide, signalled>>
      BY <1>2 DEF MainExits
    <2>2. /\ consumer \in {"off", "returned"} /\ server = "returned"
      BY <2>1 DEF ConsumerEnded, ServerEnded, BrokerEnabled
    <2>3. signalled
      BY <2>1 DEF IInv, LifecycleInv, StoppedForCause, Cause
    <2>4. requests = 0
      BY <2>1 DEF IInv, LifecycleInv, ShutdownDone, Actors
    <2>5. loop # "session"
      BY <2>1, <2>2 DEF IInv, LifecycleInv, CloseDone, StartedByMain, Actors
    <2>6. claim = "idle" /\ buffered = 0
      BY <2>5, LifecycleConstants DEF IInv, LifecycleTypeOK
    <2>7. ~consumerDB /\ ~serverDB
      BY <2>2 DEF IInv, LifecycleInv, StorageInUse
    <2> QED
      BY <2>1, <2>3, <2>4, <2>6, <2>7 DEF CleanExit, consumerSide, serverSide
  <1>3. exitCode = Running /\ exitCode' # exitCode => MainExits
    BY DEF Next, vars, Main, Signal, Consumer, Loop, Claim, Server, Handler, Stops, StopService,
       Environment, PrepareDB, MainStops, ReceiveSignal, SignalExits, SendSignal,
       CreateConsumer, Serve, ConsumerReady, ConsumerReturns, CallConsume, JoinGroup, Fatal,
       Fetch, TakeMessage, FinishMessage, EndSession, CreateServer, Listen, ServerReturns,
       Accept, Respond, StopServer, ServerDrained, StopConsumer, GroupClosed
  <1>4. exitCode = Running \/ UNCHANGED vars
    BY DEF Next, Main, Signal, Consumer, Loop, Claim, Server, Handler, Stops, Environment
  <1> QED  BY <1>1, <1>2, <1>3, <1>4

\* Every reachable state is well typed; a claim works for a session only, because
\* Serve starts the loop that opens sessions once.
THEOREM LifecycleTypeCorrect == Spec => []LifecycleTypeOK
  <1>1. Spec => []IInv  BY InitIInv, NextIInv, PTL DEF Spec
  <1>2. IInv => LifecycleTypeOK  BY DEF IInv
  <1> QED  BY <1>1, <1>2, PTL

\* Whatever order the two callers of stopService, the failures and the goroutines
\* they stop take their steps in, each of them waits for the work in progress.
THEOREM StoppingIsOrderly == Spec => []LifecycleInv
  <1>1. Spec => []IInv  BY InitIInv, NextIInv, PTL DEF Spec
  <1>2. IInv => LifecycleInv  BY DEF IInv
  <1> QED  BY <1>1, <1>2, PTL

\* The process exits with code 0 only after a signal, without any failure, with no
\* request and no message left half way and both storages closed.
THEOREM ExitIsClean == Spec => []CleanExit
  <1>1. Init => CleanExit  BY DEF Init, CleanExit, Running, ExitStatusOK
  <1> QED  BY <1>1, InitIInv, NextIInv, CleanExitStep, PTL DEF Spec
=============================================================================
