----------------------------- MODULE Components -----------------------------
(***************************************************************************)
(* Starting and stopping the program: control.Components                   *)
(* (internal/control/components.go), the HTTP server                       *)
(* (internal/server/server.go) and the database connection, around the     *)
(* worker watcher, whose actions are WorkerWatcher's.                      *)
(*                                                                         *)
(* A borrower is the goroutine of an HTTP request (Handler) or of a task of*)
(* the broker scheduler, whose ESB record has a mapper script.  The        *)
(* scheduler appears by what TaskScheduler shows of it: Stop lets no task  *)
(* start, and returns when the running ones are done, unless one reports an*)
(* error, which panics.                                                    *)
(*                                                                         *)
(* The server listens before the other components are initialised.  A      *)
(* request or task that uses the watcher before its Init has made the      *)
(* channels panics (the handler is recovered) or waits in vain; neither    *)
(* changes anything, and neither is an action here.                        *)
(***************************************************************************)
EXTENDS WorkerWatcher

CONSTANTS Handler,
          Configs  \* the configurations that are looked at, ComponentsConfig

ASSUME ComponentsAssumption == /\ Handler \subseteq Borrower
                               /\ Configs \subseteq SUBSET {"server", "brokers", "coderun"}

VARIABLES cfg,   \* the components that are switched on
          main,  \* where the main goroutine is, in Start, Wait and Stop
          busy,  \* the requests and tasks under way
          exit   \* how the process ended

watcherVars == vars
cvars == <<watcherVars, cfg, main, busy, exit>>

Task == Borrower \ Handler

Starting == {"initDB", "server", "brokers", "coderun"}
Stopping == {"shutdown", "closeBrokers", "joinBrokers", "stopCoderun", "joinCoderun",
             "disconnect"}

ComponentsTypeOK ==
  /\ TypeOK
  /\ cfg \in Configs
  /\ main \in Starting \cup {"wait"} \cup Stopping
  /\ busy \subseteq Borrower
  /\ exit \in {"no", "clean", "panic", "fatal"}
  /\ main \in Stopping => cancelled
  /\ "coderun" \notin cfg => rpc = "build" /\ stopPc = "no"
  /\ \A b \in Borrower : bpc[b] # "idle" => b \in busy
  /\ main \in {"stopCoderun", "shutdown", "closeBrokers", "joinBrokers"} => stopPc = "no"

CInit == /\ Init
         /\ cfg \in Configs
         /\ main = "initDB" /\ busy = {} /\ exit = "no"

GoTo(from, to) == main = from /\ main' = to /\ UNCHANGED <<cfg, exit>>

Exit(how) == exit' = how /\ UNCHANGED <<cfg, main, busy>>

-----------------------------------------------------------------------------
(* Start.  A component that cannot start panics, and since Stop is deferred*)
(* only after Start returned, nothing is stopped then.                     *)

\* database.InitDB, and createRoutes and the like
InitDB == GoTo("initDB", "server") /\ UNCHANGED <<watcherVars, busy>>

\* server.Init and Start
StartServer == GoTo("server", "brokers") /\ UNCHANGED <<watcherVars, busy>>

\* MPTaskScheduler.Init and Start
StartBrokers == GoTo("brokers", "coderun") /\ UNCHANGED <<watcherVars, busy>>

\* No database; no storage directory; the goroutine of Start does not get the
\* address.
StartPanics == /\ main \in {"initDB", "server"}
               /\ main = "server" => "server" \in cfg
               /\ Exit("panic")
               /\ UNCHANGED watcherVars

\* coderun.Init returns: it did not build the image, or it called Stop itself.
CoderunFails == /\ main = "coderun" /\ "coderun" \in cfg
                /\ rpc = "build" \/ stopPc = "stopped"
                /\ Exit("panic")
                /\ UNCHANGED watcherVars

Started == /\ GoTo("coderun", "wait")
           /\ "coderun" \in cfg => rpc \notin {"build", "boot"} /\ stopPc = "no"
           /\ UNCHANGED <<watcherVars, busy>>

-----------------------------------------------------------------------------
(* Requests and tasks *)

\* Shutdown closes the listener first.
accepting == "server" \in cfg /\ main \notin {"initDB", "server"} \cup Stopping

scheduling == "brokers" \in cfg /\ main \in {"coderun", "wait", "shutdown", "closeBrokers"}

\* A worker of the scheduler takes a task; a request comes in.
Begin(b) == /\ b \notin busy
            /\ IF b \in Handler THEN accepting ELSE scheduling
            /\ busy' = busy \cup {b}
            /\ UNCHANGED <<watcherVars, cfg, main, exit>>

\* Mutant: the answer is sent, and the handler over, before worker.Return().
End_Early(b) == /\ b \in busy
                /\ busy' = busy \ {b}
                /\ UNCHANGED <<watcherVars, cfg, main, exit>>

End(b) == /\ b \in busy /\ bpc[b] = "idle"
          /\ busy' = busy \ {b}
          /\ UNCHANGED <<watcherVars, cfg, main, exit>>

UseWorker(b) == /\ b \in busy
                /\ BorrowCall(b) \/ borrower(b)
                /\ UNCHANGED <<cfg, main, busy, exit>>

-----------------------------------------------------------------------------
(* Stop *)

\* The signal, or c.cancel(); Wait returns.
Signal == /\ Cancel /\ UNCHANGED <<cfg, main, busy, exit>>

BeginStop == cancelled /\ GoTo("wait", "shutdown") /\ UNCHANGED <<watcherVars, busy>>

\* server.Stop, http.Server.Shutdown within 5 seconds
Shutdown == /\ busy \cap Handler = {}
            /\ GoTo("shutdown", "closeBrokers")
            /\ UNCHANGED <<watcherVars, busy>>

\* zlog.Fatal, which exits the process.
ShutdownTimeout == /\ main = "shutdown" /\ busy \cap Handler # {}
                   /\ Exit("fatal")
                   /\ UNCHANGED watcherVars

CloseBrokers == GoTo("closeBrokers", "joinBrokers") /\ UNCHANGED <<watcherVars, busy>>

\* Mutant: no wg.Wait().
JoinBrokers_NoWait == GoTo("joinBrokers", "stopCoderun") /\ UNCHANGED <<watcherVars, busy>>

JoinBrokers == /\ busy \cap Task = {}
               /\ GoTo("joinBrokers", "stopCoderun")
               /\ UNCHANGED <<watcherVars, busy>>

BrokersPanic == /\ main = "joinBrokers" /\ busy \cap Task # {}
                /\ Exit("panic")
                /\ UNCHANGED watcherVars

StopCoderun == /\ GoTo("stopCoderun", "joinCoderun")
               /\ IF "coderun" \in cfg THEN StopBegins ELSE UNCHANGED watcherVars
               /\ UNCHANGED busy

JoinCoderun == /\ "coderun" \in cfg => stopPc = "stopped"
               /\ GoTo("joinCoderun", "disconnect")
               /\ UNCHANGED <<watcherVars, busy>>

\* database.Disconnect under the cancelled context, whose error panics.  The
\* server that it stops afterwards is not the one that InitDB started, which
\* is in a local variable (database.go:16).
Disconnect == /\ main = "disconnect"
              /\ Exit("clean") \/ Exit("panic")
              /\ UNCHANGED watcherVars

Start == \/ InitDB \/ StartServer \/ StartBrokers \/ StartPanics
         \/ CoderunFails \/ Started
Stop == \/ BeginStop \/ Shutdown \/ ShutdownTimeout \/ CloseBrokers \/ JoinBrokers
        \/ BrokersPanic \/ StopCoderun \/ JoinCoderun \/ Disconnect

\* The goroutines of the watcher: Init is called by Start.
Watcher == /\ \/ main = "coderun" /\ "coderun" \in cfg /\ boot
              \/ repairLoop \/ StopClose \/ StopRemove
           /\ UNCHANGED <<cfg, main, busy, exit>>

ContainerFails == /\ \E c \in Container, f \in Faults : Fault(c, f)
                  /\ UNCHANGED <<cfg, main, busy, exit>>

CNext == /\ exit = "no"
         /\ \/ Start \/ Signal \/ Stop \/ Watcher \/ ContainerFails
            \/ \E b \in Borrower : Begin(b) \/ End(b) \/ UseWorker(b)

(***************************************************************************)
(* Fairness: goroutines run; Start goes on; a task ends since its context  *)
(* has a deadline, and a borrower since BorrowWorker and RunScript have    *)
(* one.  A request that is no script, but forwarded to another service, may*)
(* take for ever: only Shutdown's five seconds are sure to pass.           *)
(***************************************************************************)
Fairness ==
  /\ WF_cvars(exit = "no" /\ (Start \/ Stop))
  /\ WF_cvars(exit = "no" /\ Watcher)
  /\ \A b \in Borrower : WF_cvars(exit = "no" /\ borrower(b) /\ UNCHANGED <<cfg, main, busy, exit>>)
  /\ \A b \in Task : WF_cvars(exit = "no" /\ End(b))

CSpec == CInit /\ [][CNext]_cvars /\ Fairness

-----------------------------------------------------------------------------
(* The program keeps the promise that WorkerWatcher rests on: coderun.Stop *)
(* closes the channels only when no handler and no mapper can still send on*)
(* them (components.go:73 to 86: server, brokers, coderun, in this order). *)
ImplementsWatcher == Spec

(* The database is disconnected last, when nobody uses it any more; a      *)
(* program that ends in an orderly way has stopped the watcher and left no *)
(* request or task behind; and nobody sends on the watcher's closed        *)
(* channels, unless it could not be started, when Init closes them while   *)
(* requests may have borrowed (watcher.go:215).                            *)
StopIsOrderly ==
  /\ main = "disconnect" => /\ busy = {}
                            /\ "coderun" \in cfg => stopPc = "stopped"
  /\ panicked => main = "coderun"

(* A signal ends the process, wherever Start, requests, tasks and repairs  *)
(* are when it comes: no wait of Stop lasts for ever.                      *)
SignalEndsProcess == cancelled ~> exit # "no"
=============================================================================
