--------------------------- MODULE DriverProcess ---------------------------
(***************************************************************************)
(* The driver process: main with its signal goroutine, run, and the gRPC   *)
(* server of pkg/grpcfactory with the goroutine that serves its listener,  *)
(* from one start of the container to the next.  The socket file lives in  *)
(* a volume that outlasts the process.                                     *)
(*                                                                         *)
(* main is the blocking step the main goroutine has come to; once it has   *)
(* left "serve" it runs the deferred calls of Run and run in their order.  *)
(***************************************************************************)
EXTENDS Naturals

CONSTANTS Call,        \* COSI calls that clients make
          Exporter,    \* tracing: "none", "stdout" or "otlp"
          MaxFaults,   \* bound: failed steps and kills
          MaxSignals   \* bound: SIGINT and SIGTERM sent

ASSUME ProcessAssumption ==
  /\ Exporter \in {"none", "stdout", "otlp"}
  /\ MaxFaults \in Nat /\ MaxSignals \in Nat

VARIABLES
  main,      \* step of the main goroutine, "down" when there is no process
  watcher,   \* the signal goroutine waits for its "first" or "second" signal
  sigs,      \* signals buffered in channel sigs, of capacity 1
  cancelled, \* ctx is cancelled
  srv,       \* what server.Serve and the connections it accepted are doing
  errChan,   \* the result of Serve is in errChan
  lis,       \* this process's listener is open
  sock,      \* the socket file exists
  calls,     \* calls being handled
  exit,      \* how the process ends, or ended: "none" until that is settled
  asked,     \* history: this process was sent SIGINT or SIGTERM
  cut,       \* history: calls in progress when the last process ended
  unclean,   \* history: a process died abruptly since the volume was new
  faults, signals

goroutines == <<watcher, sigs, cancelled, srv, errChan>>
history == <<asked, cut, unclean>>
counters == <<faults, signals>>
vars == <<main, goroutines, lis, sock, calls, exit, history, counters>>

StartUp  == {"metrics", "otel", "driver", "listen"}
Deferred == {"closing", "flush", "unmetrics"}

\* The gRPC server may have open connections on which calls come in.
Connected == srv \in {"accepting", "failed", "draining"}

Init ==
  /\ main = "down" /\ exit = "none"
  /\ watcher = "first" /\ sigs = 0 /\ cancelled = FALSE
  /\ srv = "none" /\ errChan = FALSE /\ lis = FALSE /\ sock = FALSE
  /\ calls = {} /\ asked = FALSE /\ cut = {} /\ unclean = FALSE
  /\ faults = 0 /\ signals = 0

Fault == faults < MaxFaults /\ faults' = faults + 1 /\ UNCHANGED signals

---------------------------------------------------------------------------

\* The container is started, for the first time or again.
Start ==
  /\ main = "down"
  /\ main' = "metrics" /\ exit' = "none" /\ cut' = {}
  /\ UNCHANGED <<goroutines, lis, sock, calls, asked, unclean, counters>>

\* The process is gone: its goroutines, its descriptors and its calls.
End(how) ==
  /\ main # "down"
  /\ main' = "down" /\ exit' = how /\ cut' = calls /\ calls' = {}
  /\ watcher' = "first" /\ sigs' = 0 /\ cancelled' = FALSE
  /\ srv' = "none" /\ errChan' = FALSE /\ lis' = FALSE /\ asked' = FALSE

\* SIGKILL, or a panic in any goroutine.
Kill ==
  /\ End("killed") /\ Fault
  /\ unclean' = TRUE
  /\ UNCHANGED sock

\* The pod is replaced: a new volume.
PodReplaced ==
  /\ main = "down" /\ sock
  /\ sock' = FALSE /\ unclean' = FALSE
  /\ UNCHANGED <<main, goroutines, lis, calls, exit, asked, cut, counters>>

---------------------------------------------------------------------------

(***************************************************************************)
(* The signal goroutine.  signal.Notify drops a signal when sigs is full.  *)
(***************************************************************************)
Signal ==
  /\ main # "down"
  /\ signals < MaxSignals /\ signals' = signals + 1
  /\ sigs' = 1 /\ asked' = TRUE
  /\ UNCHANGED <<main, watcher, cancelled, srv, errChan, lis, sock, calls,
                 exit, cut, unclean, faults>>

\* Mutant: the goroutine goes back to waiting for its first signal.
MutFirstSignal ==
  /\ main # "down" /\ watcher = "first" /\ sigs = 1
  /\ sigs' = 0 /\ cancelled' = TRUE
  /\ UNCHANGED <<main, watcher, srv, errChan, lis, sock, calls, exit, history,
                 counters>>

FirstSignal ==
  /\ main # "down" /\ watcher = "first" /\ sigs = 1
  /\ sigs' = 0 /\ cancelled' = TRUE /\ watcher' = "second"
  /\ UNCHANGED <<main, srv, errChan, lis, sock, calls, exit, history, counters>>

\* os.Exit(1): no deferred call runs.
ForcedExit ==
  /\ watcher = "second"
  /\ End("forced")
  /\ unclean' = TRUE
  /\ UNCHANGED <<sock, counters>>

\* A second signal, unless it came so early that the channel dropped it.
SecondSignal == sigs = 1 /\ ForcedExit

\* Mutant: the limit is for the deferred calls and not for the drain.
MutShutdownTimeout == main \in Deferred /\ ForcedExit

\* The 30 s since the first signal are over.
ShutdownTimeout == ForcedExit

---------------------------------------------------------------------------

(***************************************************************************)
(* run: each step leads to the next, or fails and leads to the deferred    *)
(* calls registered so far.                                                *)
(***************************************************************************)
AfterServer == IF Exporter = "none" THEN "unmetrics" ELSE "flush"

Advance(from, to) ==
  /\ main = from /\ main' = to
  /\ UNCHANGED <<goroutines, lis, sock, calls, exit, history, counters>>

FailTo(from, to) ==
  /\ main = from /\ main' = to /\ exit' = "error"
  /\ UNCHANGED <<goroutines, lis, sock, calls, history>>

\* Without a metrics server run returns at once.
StartMetricsServer ==
  \/ Advance("metrics", "otel")
  \/ main = "metrics" /\ End("error") /\ Fault /\ UNCHANGED <<sock, unclean>>

\* The OTLP exporter refuses to start with a cancelled context.
initOpenTelemetry ==
  LET hopeless == Exporter = "otlp" /\ cancelled IN
  \/ ~hopeless /\ Advance("otel", "driver")
  \/ FailTo("otel", "unmetrics")
       /\ IF hopeless THEN UNCHANGED counters ELSE Fault

\* No driver name, no in-cluster configuration or no clientset.
InitProvisionerServerFails == FailTo("driver", AfterServer) /\ Fault

CreateDriver == Advance("driver", "listen") \/ InitProvisionerServerFails

(***************************************************************************)
(* COSIProvisionerServer.Run up to its select.  Listening on a path that   *)
(* exists fails; metrics or the address may be refused before that.        *)
(***************************************************************************)
Listen ==
  \/ /\ main = "listen" /\ ~sock
     /\ main' = "serve" /\ srv' = "starting"
     /\ lis' = TRUE /\ sock' = TRUE
     /\ UNCHANGED <<watcher, sigs, cancelled, errChan, calls, exit, history,
                    counters>>
  \/ FailTo("listen", AfterServer)
       /\ IF sock THEN UNCHANGED counters ELSE Fault

\* Mutant: the file stays when the listener is closed.
MutCloseListener == lis' = FALSE /\ UNCHANGED sock

\* Closing a unix listener removes the file it made; closing it again does not.
CloseListener == lis' = FALSE /\ sock' = (sock /\ ~lis)

---------------------------------------------------------------------------

(***************************************************************************)
(* The goroutine in server.Serve.  If the server was stopped before it got *)
(* to run, it closes the listener and returns.                             *)
(***************************************************************************)
ServeStarts ==
  /\ srv = "starting" /\ main = "serve"
  /\ srv' = "accepting"
  /\ UNCHANGED <<main, watcher, sigs, cancelled, errChan, lis, sock, calls,
                 exit, history, counters>>

ServeStopped ==
  /\ srv = "starting" /\ main \in {"draining"} \union Deferred
  /\ srv' = "stopped" /\ errChan' = TRUE
  /\ CloseListener
  /\ UNCHANGED <<main, watcher, sigs, cancelled, calls, exit, history, counters>>

\* Accept fails for good; connections that are open stay.
ServeFails ==
  /\ srv = "accepting"
  /\ srv' = "failed" /\ errChan' = TRUE
  /\ CloseListener /\ Fault
  /\ UNCHANGED <<main, watcher, sigs, cancelled, calls, exit, history>>

CallArrives(c) ==
  /\ Connected /\ c \notin calls
  /\ calls' = calls \union {c}
  /\ UNCHANGED <<main, goroutines, lis, sock, exit, history, counters>>

CallReturns(c) ==
  /\ c \in calls
  /\ calls' = calls \ {c}
  /\ UNCHANGED <<main, goroutines, lis, sock, exit, history, counters>>

---------------------------------------------------------------------------

(***************************************************************************)
(* The select of Run.  GracefulStop closes the listener only if Serve has  *)
(* taken it over, and returns when the last connection is done.            *)
(***************************************************************************)
GracefulStop ==
  /\ main = "serve" /\ cancelled
  /\ main' = "draining" /\ exit' = "graceful"
  /\ IF Connected THEN srv' = "draining" /\ CloseListener
                  ELSE UNCHANGED <<srv, lis, sock>>
  /\ UNCHANGED <<watcher, sigs, cancelled, errChan, calls, history, counters>>

\* Mutant: Stop instead of GracefulStop, which does not wait for handlers.
MutDrained ==
  /\ main = "draining"
  /\ main' = "closing"
  /\ srv' = IF srv = "draining" THEN "stopped" ELSE srv
  /\ UNCHANGED <<watcher, sigs, cancelled, errChan, lis, sock, calls, exit,
                 history, counters>>

Drained ==
  /\ main = "draining" /\ calls = {}
  /\ main' = "closing"
  /\ srv' = IF srv = "draining" THEN "stopped" ELSE srv
  /\ UNCHANGED <<watcher, sigs, cancelled, errChan, lis, sock, calls, exit,
                 history, counters>>

\* Mutant: the result of Serve is logged and Run waits on.
MutServeErrorReturned ==
  /\ main = "serve" /\ errChan
  /\ errChan' = FALSE
  /\ UNCHANGED <<main, watcher, sigs, cancelled, srv, lis, sock, calls, exit,
                 history, counters>>

ServeErrorReturned ==
  /\ main = "serve" /\ errChan
  /\ main' = "closing" /\ exit' = "error"
  /\ errChan' = FALSE
  /\ UNCHANGED <<watcher, sigs, cancelled, srv, lis, sock, calls, history,
                 counters>>

\* Mutant: Run does not close its listener itself.
MutDeferredClose ==
  /\ main = "closing"
  /\ main' = AfterServer
  /\ UNCHANGED <<goroutines, lis, sock, calls, exit, history, counters>>

DeferredClose ==
  /\ main = "closing"
  /\ main' = AfterServer
  /\ CloseListener
  /\ UNCHANGED <<goroutines, calls, exit, history, counters>>

\* tp.Shutdown returns at once if ctx is cancelled, else after the last export.
TracerShutdown == Advance("flush", "unmetrics")

\* metricsServer.Shutdown takes 5 s at most; then main returns.
MetricsShutdown ==
  /\ main = "unmetrics"
  /\ End(exit)
  /\ UNCHANGED <<sock, unclean, counters>>

---------------------------------------------------------------------------

MainStep ==
  \/ StartMetricsServer \/ initOpenTelemetry \/ CreateDriver \/ Listen
  \/ GracefulStop \/ Drained \/ ServeErrorReturned
  \/ DeferredClose \/ TracerShutdown \/ MetricsShutdown

ServeStep == ServeStarts \/ ServeStopped

Next ==
  \/ Start \/ Kill \/ PodReplaced
  \/ Signal \/ FirstSignal \/ SecondSignal \/ ShutdownTimeout
  \/ MainStep \/ ServeStep \/ ServeFails
  \/ \E c \in Call : CallArrives(c) \/ CallReturns(c)

Spec == Init /\ [][Next]_vars

(***************************************************************************)
(* The container is restarted whatever its exit code, goroutines run, and  *)
(* timers go off.  No fairness for CallReturns: a handler may take longer  *)
(* than anyone waits.                                                      *)
(***************************************************************************)
FairSpec ==
  /\ Spec
  /\ WF_vars(Start) /\ WF_vars(MainStep) /\ WF_vars(ServeStep)
  /\ WF_vars(FirstSignal) /\ WF_vars(SecondSignal) /\ WF_vars(ShutdownTimeout)

---------------------------------------------------------------------------
(***************************************************************************)
(* Correctness.                                                            *)
(***************************************************************************)

\* Every variable has its type.
TypeOK ==
  /\ main \in {"down", "serve", "draining"} \union StartUp \union Deferred
  /\ watcher \in {"first", "second"}
  /\ sigs \in {0, 1}
  /\ srv \in {"none", "starting", "accepting", "failed", "draining", "stopped"}
  /\ cancelled \in BOOLEAN /\ errChan \in BOOLEAN /\ lis \in BOOLEAN
  /\ sock \in BOOLEAN /\ unclean \in BOOLEAN /\ asked \in BOOLEAN
  /\ calls \subseteq Call /\ cut \subseteq Call
  /\ exit \in {"none", "graceful", "error", "forced", "killed"}
  /\ faults \in 0..MaxFaults /\ signals \in 0..MaxSignals

(***************************************************************************)
(* A process that ends by returning from main has removed its socket file, *)
(* whichever goroutine got to the listener first and wherever in start-up  *)
(* a signal or an error met it: only an abrupt death leaves one behind.    *)
(***************************************************************************)
StaleSocketOnlyAfterKill == main = "down" /\ sock => unclean

(***************************************************************************)
(* A graceful shutdown cuts no call short: when run returns ctx.Err(), the *)
(* calls taken in before and during the drain have all been answered.      *)
(***************************************************************************)
GracefulCutsNoCall == main = "down" /\ exit = "graceful" => cut = {}

(***************************************************************************)
(* The inductive invariant behind the two: an open listener has its file   *)
(* and is closed before the last deferred calls; without one, a file was   *)
(* left by a process that died.  Nothing is served before Listen, nor once *)
(* GracefulStop has returned.  And however many signals the full channel   *)
(* drops, a process that was sent one still has it before it or is         *)
(* shutting down, with the signal goroutine ready to force the exit.       *)
(***************************************************************************)
SocketInv ==
  /\ lis => sock /\ main \in {"serve", "draining", "closing"}
  /\ sock => lis \/ unclean

DrainInv ==
  /\ main \in {"down"} \union StartUp => srv = "none" /\ calls = {}
  /\ main \in {"serve"} \union StartUp => exit = "none"
  /\ main = "serve" => srv \in {"starting", "accepting", "failed"}
  /\ main = "draining" => srv \in {"starting", "draining", "stopped"}
  /\ main \in Deferred /\ exit = "graceful" => ~Connected /\ calls = {}
  /\ GracefulCutsNoCall

SignalInv ==
  /\ asked => main # "down" /\ (sigs = 1 \/ cancelled)
  /\ cancelled => watcher = "second"

ProcessInv == TypeOK /\ SocketInv /\ DrainInv /\ SignalInv

(***************************************************************************)
(* A process that is sent a signal ends, at whatever step the signal meets *)
(* it, even if handlers never return and further signals are dropped: the  *)
(* limit of the signal goroutine depends neither on GracefulStop nor on a  *)
(* second signal.                                                          *)
(***************************************************************************)
ShutdownEnds == asked ~> main = "down"

\* Steps the main goroutine has before it, at most.
MainLeft(step) ==
  CASE step = "metrics"   -> 9
    [] step = "otel"      -> 8
    [] step = "driver"    -> 7
    [] step = "listen"    -> 6
    [] step = "serve"     -> 5
    [] step = "draining"  -> 4
    [] step = "closing"   -> 3
    [] step = "flush"     -> 2
    [] step = "unmetrics" -> 1
    [] step = "down"      -> 0

\* No step of a running process leads back, and each one of main leads on.
NoWayBack ==
  main # "down" =>
    /\ MainLeft(main') <= MainLeft(main)
    /\ MainStep => MainLeft(main') < MainLeft(main)
    /\ cancelled /\ main' # "down" => cancelled' /\ watcher' = "second"

(***************************************************************************)
(* Why it ends: whatever fails, is signalled or comes in, a process never  *)
(* goes back to an earlier step, so it serves at most once; and from the   *)
(* moment ctx is cancelled until the end, it stays cancelled and the       *)
(* signal goroutine stays ready to force the exit.                         *)
(***************************************************************************)
ShutdownProceeds == [][NoWayBack]_vars

(***************************************************************************)
(* After start-up errors, failures of Serve and graceful shutdowns, a      *)
(* restarted process gets to accept calls again, unless one died abruptly. *)
(***************************************************************************)
ServesAgain == ~unclean ~> (srv = "accepting" \/ unclean)

(***************************************************************************)
(* grpcfactory/server.go: "Run starts the gRPC server and handles incoming *)
(* requests".  When the container is restarted, the driver serves again.   *)
(***************************************************************************)
RestartServes == main = "down" ~> srv = "accepting"

============================================================================
