------------------------ MODULE DriverProcessProofs ------------------------
(***************************************************************************)
(* Proofs of the safety properties of DriverProcess, for any set of calls, *)
(* any exporter and any number of faults and signals.                      *)
(***************************************************************************)
EXTENDS DriverProcess, TLAPS

\* A counted fault stays within its bound.
LEMMA FaultTyped ==
  ASSUME TypeOK, Fault
  PROVE  faults' \in 0..MaxFaults /\ signals' = signals
BY ProcessAssumption DEF TypeOK, Fault

\* The end of the process leaves the variables it resets well typed.
LEMMA EndTyped ==
  ASSUME TypeOK, NEW how \in {"graceful", "error", "forced", "killed", "none"},
         End(how)
  PROVE  /\ main' = "down" /\ exit' = how
         /\ watcher' = "first" /\ srv' = "none" /\ sigs' \in {0, 1}
         /\ cancelled' \in BOOLEAN /\ errChan' \in BOOLEAN /\ lis' \in BOOLEAN
         /\ calls' \subseteq Call /\ cut' \subseteq Call /\ asked' \in BOOLEAN
BY Zenon DEF TypeOK, End

(***************************************************************************)
(* Every variable has its type, at every step of the process.              *)
(***************************************************************************)
LEMMA NextTypeOK == TypeOK /\ [Next]_vars => TypeOK'
<1> SUFFICES ASSUME TypeOK, [Next]_vars PROVE TypeOK'
  OBVIOUS
<1> USE ProcessAssumption DEF TypeOK, StartUp, Deferred
<1>1. CASE Start
  BY <1>1 DEF Start, goroutines, counters
<1>2. CASE Kill
  BY <1>2, FaultTyped, EndTyped, Zenon DEF Kill
<1>3. CASE PodReplaced
  BY <1>3 DEF PodReplaced, goroutines, counters
<1>4. CASE Signal
  BY <1>4 DEF Signal, history
<1>5. CASE FirstSignal
  BY <1>5 DEF FirstSignal, history, counters
<1>6. CASE ForcedExit
  BY <1>6, EndTyped, Zenon DEF ForcedExit, counters
<1>7. CASE StartMetricsServer
  <2>1. CASE Advance("metrics", "otel")
    BY <2>1 DEF Advance, goroutines, history, counters
  <2>2. CASE End("error") /\ Fault /\ UNCHANGED <<sock, unclean>>
    BY <2>2, FaultTyped, EndTyped, Zenon
  <2> QED  BY <1>7, <2>1, <2>2 DEF StartMetricsServer
<1>8. CASE initOpenTelemetry
  BY <1>8 DEF initOpenTelemetry, Advance, FailTo, Fault, goroutines, history, counters
<1>9. CASE CreateDriver
  BY <1>9 DEF CreateDriver, InitProvisionerServerFails, Advance, FailTo, Fault, AfterServer, goroutines, history, counters
<1>10. CASE Listen
  <2>1. CASE FailTo("listen", AfterServer) /\ (UNCHANGED counters \/ Fault)
    BY <2>1 DEF FailTo, Fault, AfterServer, goroutines, history, counters
  <2>2. CASE ~FailTo("listen", AfterServer)
    BY <1>10, <2>2, Zenon DEF Listen, history, counters
  <2> QED  BY <1>10, <2>1, <2>2 DEF Listen
<1>11. CASE GracefulStop
  BY <1>11 DEF GracefulStop, CloseListener, history, counters
<1>12. CASE Drained
  BY <1>12 DEF Drained, history, counters
<1>13. CASE ServeErrorReturned
  BY <1>13 DEF ServeErrorReturned, history, counters
<1>14. CASE DeferredClose
  <2>1. main' \in {"flush", "unmetrics"} /\ lis' = FALSE /\ sock' \in BOOLEAN
    BY <1>14 DEF DeferredClose, AfterServer, CloseListener
  <2>2. UNCHANGED <<watcher, sigs, cancelled, srv, errChan, calls, exit, asked, cut,
                    unclean, faults, signals>>
    BY <1>14 DEF DeferredClose, goroutines, history, counters
  <2>3. main' \in {"down", "serve", "draining"} \union StartUp \union Deferred
    BY <2>1
  <2> QED  BY <2>1, <2>2, <2>3, Zenon
<1>15. CASE TracerShutdown
  BY <1>15 DEF TracerShutdown, Advance, goroutines, history, counters
<1>16. CASE MetricsShutdown
  BY <1>16, EndTyped, Zenon DEF MetricsShutdown, counters
<1>17. CASE ServeStarts
  BY <1>17 DEF ServeStarts, history, counters
<1>18. CASE ServeStopped
  BY <1>18 DEF ServeStopped, CloseListener, history, counters
<1>19. CASE ServeFails
  <2>1. faults' \in 0..MaxFaults /\ UNCHANGED signals
    BY <1>19, FaultTyped DEF ServeFails
  <2>2. /\ srv' = "failed" /\ errChan' \in BOOLEAN
        /\ lis' \in BOOLEAN /\ sock' \in BOOLEAN
    BY <1>19, Zenon DEF ServeFails, CloseListener
  <2>3. UNCHANGED <<main, watcher, sigs, cancelled, calls, exit, asked, cut, unclean>>
    BY <1>19 DEF ServeFails, history
  <2> QED  BY <2>1, <2>2, <2>3, Zenon
<1>20. ASSUME NEW c \in Call, CallArrives(c) \/ CallReturns(c) PROVE TypeOK'
  BY <1>20 DEF CallArrives, CallReturns, goroutines, history, counters
<1>21. CASE UNCHANGED vars
  BY <1>21 DEF vars, goroutines, history, counters
<1> QED
  BY <1>1, <1>2, <1>3, <1>4, <1>5, <1>6, <1>7, <1>8, <1>9, <1>10, <1>11,
     <1>12, <1>13, <1>14, <1>15, <1>16, <1>17, <1>18, <1>19, <1>20, <1>21
     DEF Next, MainStep, ServeStep, SecondSignal, ShutdownTimeout

(***************************************************************************)
(* Whoever closes the listener first removes the file, and nobody returns  *)
(* from main with it open.                                                 *)
(***************************************************************************)
LEMMA NextSocketInv == ProcessInv /\ [Next]_vars => SocketInv'
<1> SUFFICES ASSUME TypeOK, SocketInv, [Next]_vars PROVE SocketInv'
  BY DEF ProcessInv
<1> USE DEF TypeOK, SocketInv, StartUp, Deferred, Connected
<1>1. CASE Start
  BY <1>1 DEF Start, goroutines, counters
<1>2. CASE Kill
  BY <1>2 DEF Kill, End, Fault
<1>3. CASE PodReplaced
  BY <1>3 DEF PodReplaced, goroutines, counters
<1>4. CASE Signal
  BY <1>4 DEF Signal, history
<1>5. CASE FirstSignal
  BY <1>5 DEF FirstSignal, history, counters
<1>6. CASE ForcedExit
  BY <1>6 DEF ForcedExit, End, counters
<1>7. CASE StartMetricsServer
  BY <1>7 DEF StartMetricsServer, Advance, End, Fault, goroutines, history, counters
<1>8. CASE initOpenTelemetry
  BY <1>8 DEF initOpenTelemetry, Advance, FailTo, goroutines, history
<1>9. CASE CreateDriver
  BY <1>9 DEF CreateDriver, InitProvisionerServerFails, Advance, FailTo, AfterServer, goroutines, history
<1>10. CASE Listen
  BY <1>10 DEF Listen, FailTo, AfterServer, goroutines, history
<1>11. CASE GracefulStop
  BY <1>11 DEF GracefulStop, CloseListener, history
<1>12. CASE Drained
  BY <1>12 DEF Drained, history
<1>13. CASE ServeErrorReturned
  BY <1>13 DEF ServeErrorReturned, history
<1>14. CASE DeferredClose
  BY <1>14 DEF DeferredClose, AfterServer, CloseListener, goroutines, history
<1>15. CASE TracerShutdown
  BY <1>15 DEF TracerShutdown, Advance, goroutines, history
<1>16. CASE MetricsShutdown
  BY <1>16 DEF MetricsShutdown, End
<1>17. CASE ServeStarts
  BY <1>17 DEF ServeStarts, history
<1>18. CASE ServeStopped
  BY <1>18 DEF ServeStopped, CloseListener, history
<1>19. CASE ServeFails
  BY <1>19 DEF ServeFails, CloseListener, history
<1>20. ASSUME NEW c \in Call, CallArrives(c) \/ CallReturns(c) PROVE SocketInv'
  BY <1>20 DEF CallArrives, CallReturns, goroutines, history
<1>21. CASE UNCHANGED vars
  BY <1>21 DEF vars, goroutines, history
<1> QED
  BY <1>1, <1>2, <1>3, <1>4, <1>5, <1>6, <1>7, <1>8, <1>9, <1>10, <1>11,
     <1>12, <1>13, <1>14, <1>15, <1>16, <1>17, <1>18, <1>19, <1>20,
     <1>21
     DEF Next, MainStep, ServeStep, SecondSignal, ShutdownTimeout

(***************************************************************************)
(* Calls come in only between Listen and the end of GracefulStop.          *)
(***************************************************************************)
LEMMA NextDrainInv == ProcessInv /\ [Next]_vars => DrainInv'
<1> SUFFICES ASSUME TypeOK, DrainInv, [Next]_vars PROVE DrainInv'
  BY DEF ProcessInv
<1> USE DEF TypeOK, DrainInv, StartUp, Deferred, Connected, GracefulCutsNoCall
<1>1. CASE Start
  BY <1>1 DEF Start, goroutines, counters
<1>2. CASE Kill
  BY <1>2 DEF Kill, End, Fault
<1>3. CASE PodReplaced
  BY <1>3 DEF PodReplaced, goroutines, counters
<1>4. CASE Signal
  BY <1>4 DEF Signal, history
<1>5. CASE FirstSignal
  BY <1>5 DEF FirstSignal, history, counters
<1>6. CASE ForcedExit
  BY <1>6 DEF ForcedExit, End, counters
<1>7. CASE StartMetricsServer
  BY <1>7 DEF StartMetricsServer, Advance, End, Fault, goroutines, history, counters
<1>8. CASE initOpenTelemetry
  BY <1>8 DEF initOpenTelemetry, Advance, FailTo, goroutines, history
<1>9. CASE CreateDriver
  BY <1>9 DEF CreateDriver, InitProvisionerServerFails, Advance, FailTo, AfterServer, goroutines, history
<1>10. CASE Listen
  BY <1>10 DEF Listen, FailTo, AfterServer, goroutines, history
<1>11. CASE GracefulStop
  BY <1>11 DEF GracefulStop, CloseListener, history
<1>12. CASE Drained
  BY <1>12 DEF Drained, history
<1>13. CASE ServeErrorReturned
  BY <1>13 DEF ServeErrorReturned, history
<1>14. CASE DeferredClose
  BY <1>14 DEF DeferredClose, AfterServer, CloseListener, goroutines, history
<1>15. CASE TracerShutdown
  BY <1>15 DEF TracerShutdown, Advance, goroutines, history
<1>16. CASE MetricsShutdown
  BY <1>16 DEF MetricsShutdown, End
<1>17. CASE ServeStarts
  BY <1>17 DEF ServeStarts, history
<1>18. CASE ServeStopped
  BY <1>18 DEF ServeStopped, CloseListener, history
<1>19. CASE ServeFails
  BY <1>19 DEF ServeFails, CloseListener, history
<1>20. ASSUME NEW c \in Call, CallArrives(c) \/ CallReturns(c) PROVE DrainInv'
  BY <1>20 DEF CallArrives, CallReturns, goroutines, history
<1>21. CASE UNCHANGED vars
  BY <1>21 DEF vars, goroutines, history
<1> QED
  BY <1>1, <1>2, <1>3, <1>4, <1>5, <1>6, <1>7, <1>8, <1>9, <1>10, <1>11,
     <1>12, <1>13, <1>14, <1>15, <1>16, <1>17, <1>18, <1>19, <1>20,
     <1>21
     DEF Next, MainStep, ServeStep, SecondSignal, ShutdownTimeout

(***************************************************************************)
(* A signal is taken or stays in the channel, and the goroutine that took  *)
(* the first one never waits for a first one again.                        *)
(***************************************************************************)
LEMMA NextSignalInv ==
  ASSUME TypeOK, SignalInv, [Next]_vars
  PROVE  /\ SignalInv'
         /\ main # "down" /\ cancelled /\ main' # "down"
            => cancelled' /\ watcher' = "second"
<1>1. ASSUME UNCHANGED <<watcher, cancelled, sigs, asked>>,
             main' = "down" => main = "down"
      PROVE  /\ SignalInv'
             /\ cancelled => cancelled' /\ watcher' = "second"
  BY <1>1 DEF SignalInv
<1>2. CASE FirstSignal
  BY <1>2 DEF FirstSignal, SignalInv, history
<1>3. CASE Signal
  BY <1>3 DEF Signal, SignalInv
<1>4. ASSUME NEW how, End(how)
      PROVE  main' = "down" /\ SignalInv'
  BY <1>4 DEF End, SignalInv
<1>5. CASE Kill \/ ForcedExit \/ MetricsShutdown
  BY <1>4, <1>5 DEF Kill, ForcedExit, MetricsShutdown
<1>6. CASE StartMetricsServer
  BY <1>1, <1>4, <1>6 DEF StartMetricsServer, Advance, goroutines, history
<1>7. CASE Start \/ PodReplaced \/ (\E c \in Call : CallArrives(c) \/ CallReturns(c))
  BY <1>1, <1>7 DEF Start, PodReplaced, CallArrives, CallReturns, goroutines, history
<1>8. CASE initOpenTelemetry \/ CreateDriver \/ Listen
  BY <1>1, <1>8 DEF initOpenTelemetry, CreateDriver, InitProvisionerServerFails, Listen,
                    Advance, FailTo, AfterServer, goroutines, history
<1>9. CASE GracefulStop \/ Drained \/ ServeErrorReturned \/ DeferredClose \/ TracerShutdown
  BY <1>1, <1>9 DEF GracefulStop, Drained, ServeErrorReturned, DeferredClose,
                    TracerShutdown, Advance, AfterServer, goroutines, history
<1>10. CASE ServeStep \/ ServeFails \/ UNCHANGED vars
  BY <1>1, <1>10 DEF ServeStep, ServeStarts, ServeStopped, ServeFails, vars, goroutines,
                     history
<1> QED
  BY <1>2, <1>3, <1>5, <1>6, <1>7, <1>8, <1>9, <1>10
     DEF Next, MainStep, SecondSignal, ShutdownTimeout

(***************************************************************************)
(* The inductive invariant holds of every behaviour of the process.        *)
(***************************************************************************)
THEOREM ProcessInvariance == Spec => []ProcessInv
<1>1. Init => ProcessInv
  <2>1. 0 \in 0..MaxFaults /\ 0 \in 0..MaxSignals
    BY ProcessAssumption
  <2>2. Init => TypeOK
    BY <2>1, Zenon DEF Init, TypeOK
  <2>3. Init => SocketInv /\ DrainInv /\ SignalInv
    BY DEF Init, SocketInv, DrainInv, SignalInv, StartUp, Deferred, GracefulCutsNoCall
  <2> QED  BY <2>2, <2>3 DEF ProcessInv
<1>2. ProcessInv /\ [Next]_vars => ProcessInv'
  BY NextTypeOK, NextSocketInv, NextDrainInv, NextSignalInv DEF ProcessInv
<1> QED  BY <1>1, <1>2, PTL DEF Spec

(***************************************************************************)
(* A process that returns from main leaves no socket file, for the next one *)
(* to fail on.                                                             *)
(***************************************************************************)
THEOREM NoStaleSocket == Spec => []StaleSocketOnlyAfterKill
<1>1. ProcessInv => StaleSocketOnlyAfterKill
  BY DEF ProcessInv, SocketInv, StaleSocketOnlyAfterKill
<1> QED  BY <1>1, ProcessInvariance, PTL

(***************************************************************************)
(* A graceful shutdown answers every call it took in.                      *)
(***************************************************************************)
THEOREM GracefulShutdown == Spec => []GracefulCutsNoCall
<1>1. ProcessInv => GracefulCutsNoCall
  BY DEF ProcessInv, DrainInv
<1> QED  BY <1>1, ProcessInvariance, PTL

---------------------------------------------------------------------------

\* The steps after the server's end are the last ones.
LEMMA AfterServerLeft == MainLeft(AfterServer) \in 1..2
BY DEF MainLeft, AfterServer

\* There is no fewer than none left.
LEMMA MainLeftTyped ==
  ASSUME TypeOK
  PROVE  /\ MainLeft(main) \in 0..9 /\ MainLeft("down") = 0
         /\ main # "down" => MainLeft(main) > 0
<1>1. main \in {"down", "serve", "draining", "metrics", "otel", "driver", "listen",
                "closing", "flush", "unmetrics"}
  BY DEF TypeOK, StartUp, Deferred
<1>2. \A m \in {"serve", "draining", "metrics", "otel", "driver", "listen",
                "closing", "flush", "unmetrics"} : MainLeft(m) \in 1..9
  BY DEF MainLeft
<1>3. MainLeft("down") = 0
  BY DEF MainLeft
<1> QED  BY <1>1, <1>2, <1>3

\* Every step of the main goroutine leads on, whether it succeeds or fails.
LEMMA MainStepLeft ==
  ASSUME TypeOK, MainStep
  PROVE  MainLeft(main') < MainLeft(main)
<1>1. ASSUME NEW how, End(how) PROVE MainLeft(main') < MainLeft(main)
  BY <1>1, MainLeftTyped DEF End
<1>2. CASE StartMetricsServer
  <2>1. CASE Advance("metrics", "otel")
    BY <2>1 DEF Advance, MainLeft
  <2> QED  BY <1>1, <1>2, <2>1 DEF StartMetricsServer
<1>3. CASE initOpenTelemetry
  BY <1>3 DEF initOpenTelemetry, Advance, FailTo, MainLeft
<1>4. CASE CreateDriver
  <2>1. CASE Advance("driver", "listen")
    BY <2>1 DEF Advance, MainLeft
  <2>2. CASE FailTo("driver", AfterServer)
    <3>1. MainLeft("driver") = 7
      BY DEF MainLeft
    <3> QED  BY <2>2, <3>1, AfterServerLeft DEF FailTo
  <2> QED  BY <1>4, <2>1, <2>2 DEF CreateDriver, InitProvisionerServerFails
<1>5. CASE Listen
  <2>1. CASE main = "listen" /\ main' = "serve"
    BY <2>1 DEF MainLeft
  <2>2. CASE FailTo("listen", AfterServer)
    <3>1. MainLeft("listen") = 6
      BY DEF MainLeft
    <3> QED  BY <2>2, <3>1, AfterServerLeft DEF FailTo
  <2> QED  BY <1>5, <2>1, <2>2 DEF Listen
<1>6. CASE GracefulStop \/ Drained \/ ServeErrorReturned
  BY <1>6 DEF GracefulStop, Drained, ServeErrorReturned, MainLeft
<1>7. CASE DeferredClose
  <2>1. MainLeft("closing") = 3
    BY DEF MainLeft
  <2> QED  BY <1>7, <2>1, AfterServerLeft DEF DeferredClose
<1>8. CASE TracerShutdown
  BY <1>8 DEF TracerShutdown, Advance, MainLeft
<1>9. CASE MetricsShutdown
  BY <1>1, <1>9 DEF MetricsShutdown
<1> QED
  BY <1>2, <1>3, <1>4, <1>5, <1>6, <1>7, <1>8, <1>9 DEF MainStep

\* Signals, the server's goroutine, the calls and a kill never set main back.
LEMMA NextLeft ==
  ASSUME TypeOK, [Next]_vars, main # "down"
  PROVE  MainLeft(main') <= MainLeft(main)
<1> USE MainLeftTyped
<1>1. CASE main' = main
  BY <1>1
<1>2. CASE main' = "down"
  BY <1>2
<1>3. CASE MainStep
  <2>1. MainLeft(main') < MainLeft(main)
    BY <1>3, MainStepLeft
  <2>2. MainLeft(main') \in 0..9
    BY NextTypeOK DEF TypeOK, MainLeft, StartUp, Deferred
  <2> QED  BY <2>1, <2>2
<1>4. CASE Kill \/ ForcedExit
  BY <1>2, <1>4 DEF Kill, ForcedExit, End
<1>5. CASE Start \/ PodReplaced \/ Signal \/ FirstSignal \/ UNCHANGED vars
  BY <1>1, <1>5 DEF Start, PodReplaced, Signal, FirstSignal, vars
<1>6. CASE \/ ServeStep \/ ServeFails
           \/ \E c \in Call : CallArrives(c) \/ CallReturns(c)
  BY <1>1, <1>6 DEF ServeStep, ServeStarts, ServeStopped, ServeFails, CallArrives,
                    CallReturns
<1> QED
  BY <1>3, <1>4, <1>5, <1>6 DEF Next, SecondSignal, ShutdownTimeout

(***************************************************************************)
(* A process only ever moves towards its end, every step of main taking it *)
(* there, and once cancelled nothing takes the forced exit away.           *)
(***************************************************************************)
THEOREM ShutdownNeverStalls == Spec => ShutdownProceeds
<1>1. ProcessInv /\ [Next]_vars => NoWayBack
  <2> SUFFICES ASSUME TypeOK, SignalInv, [Next]_vars PROVE NoWayBack
    BY DEF ProcessInv
  <2>1. main # "down" => MainLeft(main') <= MainLeft(main)
    BY NextLeft
  <2>2. MainStep => MainLeft(main') < MainLeft(main)
    BY MainStepLeft
  <2>3. main # "down" /\ cancelled /\ main' # "down"
        => cancelled' /\ watcher' = "second"
    BY NextSignalInv
  <2> QED  BY <2>1, <2>2, <2>3, Zenon DEF NoWayBack
<1> QED  BY <1>1, ProcessInvariance, PTL DEF Spec, ShutdownProceeds

============================================================================
