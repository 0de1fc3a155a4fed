---------------------------- MODULE WorkerWatcher ----------------------------
(***************************************************************************)
(* coderun.WorkerWatcher (internal/coderun/watcher.go): a pool of docker   *)
(* containers that run Python scripts.  A worker is a token that travels   *)
(* between the buffered channels workers and repair, the requests that     *)
(* borrowed it and the goroutine repairLoop; both channels have room for   *)
(* cfg.WorkerCnt tokens.  Containers fail on their own, docker may refuse a*)
(* call, and it answers none that is made under the cancelled context.     *)
(*                                                                         *)
(* The HTTP server listens before Init is called, so requests borrow while *)
(* the workers are being started.  That Stop is called only when nobody    *)
(* holds a worker any more (StopCall) is the promise of the rest of the    *)
(* program; Components shows that it is kept.                              *)
(***************************************************************************)
EXTENDS Integers, Sequences, FiniteSets

CONSTANTS Container,  \* containers ever created: bounds the runs
          Port,       \* TCP ports of the host
          WorkerCnt,  \* cfg.WorkerCnt, the capacity of both channels
          Borrower,   \* goroutines of handlers and of ESB mappers
          Faults,     \* what happens to running containers, and "refused":
                      \* of FaultKinds
          MaxFaults,  \* how often it happens: bounds the runs
          None        \* no worker

FaultKinds == {"exited", "killed", "dead", "paused", "removed", "refused"}

ASSUME WatcherAssumption == /\ WorkerCnt \in Nat \ {0}
                            /\ MaxFaults \in Nat
                            /\ None \notin Container \cup Port
                            /\ Faults \subseteq FaultKinds

VARIABLES workers,    \* w.workers, a channel of tokens
          repair,     \* w.repair
          status,     \* status[c]: what docker knows of container c
          port,       \* port[c]: the port it was created with
          faults,     \* how many faults have happened
          byPort,     \* the workers in w.workerByPort, at most one of each port
          bpc, bw,    \* where each borrower is, and the token it holds
          rpc, rw,    \* where repairLoop is, and the token it holds
          info,       \* the status repairLoop got from its last inspection
          cancelled,  \* w.ctx is done
          stopPc,     \* where Stop is
          panicked,   \* a borrower sent on a closed channel
          orphans     \* containers docker has and the watcher has lost: those
                      \* given to Lose.  History.

loopVars == <<rpc, rw, info>>
containers == <<status, port, orphans>>
dockerVars == <<containers, faults>>
ctlVars == <<cancelled, stopPc, panicked>>
vars == <<workers, repair, dockerVars, byPort, bpc, bw, loopVars, ctlVars>>

\* The State flags of docker's answer: a paused container is running as well,
\* and "killed" is OOMKilled.
Running(s) == s \in {"running", "paused"}
Broken(s) == s \in {"paused", "killed", "dead"}

Status == {"none", "created", "running", "paused", "exited", "killed", "dead", "removed"}

TypeOK == /\ workers \in Seq(Container) /\ Len(workers) <= WorkerCnt
          /\ repair \in Seq(Container) /\ Len(repair) <= WorkerCnt
          /\ status \in [Container -> Status]
          /\ port \in [Container -> Port \cup {None}]
          /\ faults \in 0 .. MaxFaults
          /\ byPort \subseteq Container /\ orphans \subseteq Container
          /\ bpc \in [Borrower -> {"idle", "wait", "inspect", "sendRepair", "using"}]
          /\ bw \in [Borrower -> Container \cup {None}]
          /\ rpc \in {"build", "boot", "select", "inspect", "process", "restart",
                      "sendRepair", "start", "sendNew", "register", "done"}
          /\ rw \in Container \cup {None}
          /\ info \in Status
          /\ cancelled \in BOOLEAN /\ panicked \in BOOLEAN
          /\ stopPc \in {"no", "wait", "remove", "stopped"}
          /\ \A b \in Borrower : bw[b] = None <=> bpc[b] \in {"idle", "wait"}
          /\ rw = None <=> rpc \in {"build", "boot", "select", "start", "done"}
          /\ \A c, d \in byPort : port[c] = port[d] => c = d

Init == /\ workers = <<>> /\ repair = <<>> /\ byPort = {} /\ orphans = {}
        /\ status = [c \in Container |-> "none"] /\ faults = 0
        /\ port = [c \in Container |-> None]
        /\ bpc = [b \in Borrower |-> "idle"] /\ bw = [b \in Borrower |-> None]
        /\ rpc = "build" /\ rw = None /\ info = "none"
        /\ cancelled = FALSE /\ stopPc = "no" /\ panicked = FALSE

closed == stopPc \in {"remove", "stopped"}  \* close(w.repair); close(w.workers)

\* The context of the docker provider is done; Stop gives it a new one.
ctxDone == cancelled /\ ~closed

-----------------------------------------------------------------------------
(* The provider (docker_adapter.go): what its calls do to the containers.  *)

\* A call fails: its context is done, or docker refuses it.
Refused == \/ ctxDone /\ UNCHANGED faults
           \/ "refused" \in Faults /\ faults < MaxFaults /\ faults' = faults + 1

InspectWorkerContainer(c) == /\ ~ctxDone /\ status[c] # "removed"
                             /\ UNCHANGED faults

InspectFails(c) == \/ Refused
                   \/ status[c] = "removed" /\ UNCHANGED faults

\* A port is taken while a container runs that is bound to it.
Free(p) == \A c \in Container : port[c] = p => ~Running(status[c])

\* The watcher does not know these containers, or not any more.
Lose(S) == orphans' = orphans \cup {c \in S : status'[c] # "removed"}

\* A port that is free: of those that were never used any one will do.
getFreePort ==
  LET unused == Port \ {port[c] : c \in Container} IN
    {p \in Port \ unused : Free(p)} \cup {CHOOSE p \in unused : TRUE : q \in unused}

\* The same is true of the id that docker gives a new container.
NextId == CHOOSE c \in Container : status[c] = "none"

\* CreateWorkerContainer, and what the container becomes.
Create(c, s) == /\ ~ctxDone /\ status[c] = "none" /\ c = NextId
                /\ \E p \in getFreePort : port' = [port EXCEPT ![c] = p]
                /\ status' = [status EXCEPT ![c] = s]

\* StartWorkerContainer succeeds.
StartContainer(c) == Create(c, "running") /\ UNCHANGED <<faults, orphans>>

\* One of the three fails, and startNewWorker forgets what was created.  docker
\* may have started the container and the answer be lost, or cut off by the end
\* of the context.
StartContainerFails ==
  /\ \/ UNCHANGED containers
     \/ \E c \in Container, s \in {"created", "running"} : Create(c, s) /\ Lose({c})
  /\ UNCHANGED faults

\* docker restarts a container unless it is gone, or dead, or its port is taken.
Restartable(c) == /\ status[c] \notin {"removed", "dead"}
                  /\ Running(status[c]) \/ Free(port[c])

RestartWorkerContainer(c) ==
  \/ /\ ~ctxDone /\ Restartable(c)
     /\ status' = [status EXCEPT ![c] = "running"]
     /\ UNCHANGED faults
  \/ /\ Refused \/ (~Restartable(c) /\ UNCHANGED faults)
     /\ UNCHANGED status

\* With force; the error is ignored.
RemoveWorkerContainer(c) ==
  \/ ~ctxDone /\ status' = [status EXCEPT ![c] = "removed"]
  \/ UNCHANGED status

-----------------------------------------------------------------------------
(* w.workerByPort: an entry is set, or deleted, by its port, whose last    *)
(* worker may be another one: the port of a container that does not run is *)
(* given out again.                                                        *)
Entry(p) == {c \in byPort : port[c] = p}

-----------------------------------------------------------------------------
(* Init: the image, startNewWorker cfg.WorkerCnt times, then go repairLoop.*)
(* If a start fails Init calls Stop itself, whoever has borrowed by then.  *)
BuildImage == /\ rpc = "build" /\ ~cancelled
              /\ rpc' = "boot"
              /\ UNCHANGED <<workers, repair, dockerVars, byPort, bpc, bw, rw, info, ctlVars>>

started == {c \in Container : status[c] # "none"}

BootWorker(c) ==
  /\ rpc = "boot" /\ Cardinality(started) < WorkerCnt
  /\ Create(c, "running")
  /\ workers' = Append(workers, c)
  /\ byPort' = (byPort \ Entry(port'[c])) \cup {c}
  /\ Lose(Entry(port'[c]))
  /\ UNCHANGED <<repair, faults, bpc, bw, loopVars, ctlVars>>

BootFails ==
  /\ rpc = "boot" /\ Cardinality(started) < WorkerCnt
  /\ StartContainerFails
  /\ rpc' = "done"
  /\ stopPc' = "wait"
  /\ UNCHANGED <<workers, repair, byPort, bpc, bw, rw, info, cancelled, panicked>>

BootDone == /\ rpc = "boot" /\ Cardinality(started) = WorkerCnt
            /\ rpc' = "select"
            /\ UNCHANGED <<workers, repair, dockerVars, byPort, bpc, bw, rw, info, ctlVars>>

-----------------------------------------------------------------------------
(* BorrowWorker.  After Stop its channels are closed: a send panics, and a *)
(* receive from the drained channel yields nil, which is dereferenced.     *)
BorrowCall(b) ==
  /\ bpc[b] = "idle" /\ rpc # "build" /\ stopPc = "no"
  /\ bpc' = [bpc EXCEPT ![b] = "wait"]
  /\ UNCHANGED <<workers, repair, dockerVars, byPort, bw, loopVars, ctlVars>>

\* case <-ctx.Done(), at HandleTimeout or when w.ctx is cancelled
BorrowTimeout(b) ==
  /\ bpc[b] = "wait"
  /\ bpc' = [bpc EXCEPT ![b] = "idle"]
  /\ UNCHANGED <<workers, repair, dockerVars, byPort, bw, loopVars, ctlVars>>

BorrowPanics(b) ==
  /\ closed
  /\ \/ bpc[b] \in {"sendRepair", "using"}
     \/ bpc[b] = "wait" /\ workers = <<>>
  /\ bpc' = [bpc EXCEPT ![b] = "idle"]
  /\ bw' = [bw EXCEPT ![b] = None]
  /\ panicked' = TRUE
  /\ UNCHANGED <<workers, repair, dockerVars, byPort, loopVars, cancelled, stopPc>>

\* case worker := <-w.workers
BorrowReceive(b) ==
  /\ bpc[b] = "wait" /\ workers # <<>>
  /\ bw' = [bw EXCEPT ![b] = Head(workers)]
  /\ workers' = Tail(workers)
  /\ bpc' = [bpc EXCEPT ![b] = "inspect"]
  /\ UNCHANGED <<repair, dockerVars, byPort, loopVars, ctlVars>>

\* Mutant: the worker goes to repair and to the caller.
BorrowInspect_Both(b) ==
  /\ bpc[b] = "inspect" /\ InspectWorkerContainer(bw[b])
  /\ bpc' = [bpc EXCEPT ![b] = "using"]
  /\ repair' = IF Running(status[bw[b]]) THEN repair ELSE Append(repair, bw[b])
  /\ UNCHANGED <<workers, bw, containers, byPort, loopVars, ctlVars>>

BorrowInspect(b) ==
  /\ bpc[b] = "inspect" /\ InspectWorkerContainer(bw[b])
  /\ bpc' = [bpc EXCEPT ![b] = IF Running(status[bw[b]]) THEN "using" ELSE "sendRepair"]
  /\ UNCHANGED <<workers, repair, bw, containers, byPort, loopVars, ctlVars>>

\* An inspection that fails ends the call; the worker goes nowhere.
BorrowInspectFails(b) ==
  /\ bpc[b] = "inspect" /\ InspectFails(bw[b])
  /\ bpc' = [bpc EXCEPT ![b] = "idle"]
  /\ bw' = [bw EXCEPT ![b] = None]
  /\ UNCHANGED <<workers, repair, containers, byPort, loopVars, ctlVars>>

\* Mutant: the borrower keeps the worker it sent.
BorrowSendRepair_Keeps(b) ==
  /\ bpc[b] = "sendRepair" /\ Len(repair) < WorkerCnt /\ ~closed
  /\ repair' = Append(repair, bw[b])
  /\ bpc' = [bpc EXCEPT ![b] = "wait"]
  /\ UNCHANGED <<workers, bw, dockerVars, byPort, loopVars, ctlVars>>

BorrowSendRepair(b) ==
  /\ bpc[b] = "sendRepair" /\ Len(repair) < WorkerCnt /\ ~closed
  /\ repair' = Append(repair, bw[b])
  /\ bpc' = [bpc EXCEPT ![b] = "wait"]
  /\ bw' = [bw EXCEPT ![b] = None]
  /\ UNCHANGED <<workers, dockerVars, byPort, loopVars, ctlVars>>

\* RunScript has returned, with a result or an error: worker.Return()
Return(b) ==
  /\ bpc[b] = "using" /\ Len(workers) < WorkerCnt /\ ~closed
  /\ workers' = Append(workers, bw[b])
  /\ bpc' = [bpc EXCEPT ![b] = "idle"]
  /\ bw' = [bw EXCEPT ![b] = None]
  /\ UNCHANGED <<repair, dockerVars, byPort, loopVars, ctlVars>>

-----------------------------------------------------------------------------
(* repairLoop.  With a token in the channel and the context done, select   *)
(* takes either case.                                                      *)
\* Mutant: the loop has no case for ctx.Done().
LoopDone_Missing == FALSE /\ UNCHANGED vars

LoopDone == /\ rpc = "select" /\ cancelled
            /\ rpc' = "done"
            /\ UNCHANGED <<workers, repair, dockerVars, byPort, bpc, bw, rw, info, ctlVars>>

LoopReceive == /\ rpc = "select" /\ repair # <<>>
               /\ rw' = Head(repair)
               /\ repair' = Tail(repair)
               /\ rpc' = "inspect"
               /\ UNCHANGED <<workers, dockerVars, byPort, bpc, bw, info, ctlVars>>

\* The inspection fails: forget the worker and start another one.
LoopReplace ==
  /\ rpc = "inspect" /\ InspectFails(rw)
  /\ RemoveWorkerContainer(rw)
  /\ byPort' = byPort \ Entry(port[rw])
  /\ Lose({rw} \cup Entry(port[rw]))
  /\ rw' = None
  /\ rpc' = "start"
  /\ UNCHANGED <<port, workers, repair, bpc, bw, info, ctlVars>>

LoopInspect == /\ rpc = "inspect" /\ InspectWorkerContainer(rw)
               /\ info' = status[rw]
               /\ rpc' = "process"
               /\ UNCHANGED <<workers, repair, containers, byPort, bpc, bw, rw, ctlVars>>

\* startNewWorker, its error ignored.
LoopStartFails ==
  /\ rpc = "start"
  /\ StartContainerFails
  /\ rpc' = "select"
  /\ UNCHANGED <<workers, repair, byPort, bpc, bw, rw, info, ctlVars>>

LoopStart(c) ==
  /\ rpc = "start"
  /\ StartContainer(c)
  /\ rw' = c
  /\ rpc' = "sendNew"
  /\ UNCHANGED <<workers, repair, byPort, bpc, bw, info, ctlVars>>

LoopSendNew ==
  /\ rpc = "sendNew" /\ Len(workers) < WorkerCnt
  /\ workers' = Append(workers, rw)
  /\ rpc' = "register"
  /\ UNCHANGED <<repair, dockerVars, byPort, bpc, bw, rw, info, ctlVars>>

\* Mutant: the new worker is not entered in the map.
LoopRegister_Missing ==
  /\ rpc = "register"
  /\ rw' = None
  /\ rpc' = "select"
  /\ UNCHANGED <<workers, repair, dockerVars, byPort, bpc, bw, info, ctlVars>>

LoopRegister ==
  /\ rpc = "register"
  /\ byPort' = (byPort \ Entry(port[rw])) \cup {rw}
  /\ UNCHANGED <<status, port, faults>> /\ Lose(Entry(port[rw]))
  /\ rw' = None
  /\ rpc' = "select"
  /\ UNCHANGED <<workers, repair, bpc, bw, info, ctlVars>>

\* processWorkerInfo.  Its two ifs do not exclude each other, and a worker
\* that is in neither state is dropped.
ProcessRunning ==
  /\ rpc = "process" /\ Running(info) /\ Len(workers) < WorkerCnt
  /\ workers' = Append(workers, rw)
  /\ IF Broken(info) THEN rpc' = "restart" /\ UNCHANGED rw
                     ELSE rpc' = "select" /\ rw' = None
  /\ UNCHANGED <<repair, dockerVars, byPort, bpc, bw, info, ctlVars>>

ProcessStopped ==
  /\ rpc = "process" /\ ~Running(info)
  /\ IF Broken(info) THEN rpc' = "restart" /\ UNCHANGED rw
                     ELSE rpc' = "select" /\ rw' = None
  /\ UNCHANGED <<workers, repair, dockerVars, byPort, bpc, bw, info, ctlVars>>

\* Mutant: the worker is restarted and not inspected again.
ProcessRestart_NoRepair ==
  /\ rpc = "restart"
  /\ RestartWorkerContainer(rw)
  /\ rpc' = "select" /\ rw' = None
  /\ UNCHANGED <<workers, repair, port, orphans, byPort, bpc, bw, info, ctlVars>>

\* RestartWorkerContainer, its error ignored.
ProcessRestart ==
  /\ rpc = "restart"
  /\ RestartWorkerContainer(rw)
  /\ rpc' = "sendRepair"
  /\ UNCHANGED <<workers, repair, port, orphans, byPort, bpc, bw, rw, info, ctlVars>>

ProcessSendRepair ==
  /\ rpc = "sendRepair" /\ Len(repair) < WorkerCnt
  /\ repair' = Append(repair, rw)
  /\ rpc' = "select" /\ rw' = None
  /\ UNCHANGED <<workers, dockerVars, byPort, bpc, bw, info, ctlVars>>

repairLoop == \/ LoopDone \/ LoopReceive \/ LoopReplace \/ LoopInspect
              \/ LoopStartFails \/ \E c \in Container : LoopStart(c)
              \/ LoopSendNew \/ LoopRegister
              \/ ProcessRunning \/ ProcessStopped \/ ProcessRestart \/ ProcessSendRepair

-----------------------------------------------------------------------------
(* A container fails, is paused or is removed behind the watcher's back.   *)
Fault(c, f) == /\ faults < MaxFaults /\ f # "refused"
               /\ status[c] = "running"
               /\ status' = [status EXCEPT ![c] = f]
               /\ faults' = faults + 1
               /\ UNCHANGED <<workers, repair, port, orphans, byPort, bpc, bw, loopVars, ctlVars>>

\* The application's context is cancelled, first thing in a shutdown.
Cancel == /\ ~cancelled
          /\ cancelled' = TRUE
          /\ UNCHANGED <<workers, repair, dockerVars, byPort, bpc, bw, loopVars, stopPc, panicked>>

\* Stop, first wg.Wait for repairLoop.
StopBegins == /\ cancelled /\ stopPc = "no"
              /\ stopPc' = "wait"
              /\ UNCHANGED <<workers, repair, dockerVars, byPort, bpc, bw, loopVars,
                             cancelled, panicked>>

StopCall == /\ rpc \notin {"build", "boot"}
            /\ \A b \in Borrower : bpc[b] = "idle"
            /\ StopBegins

StopClose == /\ stopPc = "wait" /\ rpc = "done"
             /\ stopPc' = "remove"
             /\ UNCHANGED <<workers, repair, dockerVars, byPort, bpc, bw, loopVars,
                            cancelled, panicked>>

\* The containers in the map are removed, under the new context, errors ignored.
StopRemove ==
  /\ stopPc = "remove"
  /\ \E kept \in SUBSET byPort :
       status' = [c \in Container |-> IF c \in byPort \ kept THEN "removed" ELSE status[c]]
  /\ Lose(byPort)
  /\ stopPc' = "stopped"
  /\ UNCHANGED <<workers, repair, port, faults, byPort, bpc, bw, loopVars, cancelled, panicked>>

borrower(b) == \/ BorrowTimeout(b) \/ BorrowReceive(b) \/ BorrowInspect(b)
               \/ BorrowInspectFails(b) \/ BorrowSendRepair(b) \/ Return(b) \/ BorrowPanics(b)

boot == BuildImage \/ (\E c \in Container : BootWorker(c)) \/ BootFails \/ BootDone

Next == \/ boot
        \/ \E b \in Borrower : BorrowCall(b) \/ borrower(b)
        \/ repairLoop
        \/ \E c \in Container, f \in Faults : Fault(c, f)
        \/ Cancel \/ StopCall \/ StopClose \/ StopRemove

Spec == Init /\ [][Next]_vars

-----------------------------------------------------------------------------
InChannel(c, ch) == \E i \in DOMAIN ch : ch[i] = c

Places(c) == {<<"workers", i>> : i \in {j \in DOMAIN workers : workers[j] = c}}
             \cup {<<"repair", i>> : i \in {j \in DOMAIN repair : repair[j] = c}}
             \cup {<<"borrower", b>> : b \in {x \in Borrower : bw[x] = c}}
             \cup {<<"repairLoop", 1>> : i \in {x \in {1} : rw = c /\ rpc # "register"}}

(* A worker is never lent to two requests at a time: its token is in one   *)
(* place, whatever Borrow, Return and repairLoop do to it and whenever its *)
(* container fails.                                                        *)
OneTokenPerWorker == \A c \in Container : Cardinality(Places(c)) <= 1

(* worker.Return, BorrowWorker and repairLoop send on their channels       *)
(* outside any select; none of these sends can block.                      *)
SendsNeverBlock ==
  /\ rpc = "sendNew" \/ (rpc = "process" /\ Running(info)) => Len(workers) < WorkerCnt
  /\ rpc = "sendRepair" => Len(repair) < WorkerCnt
  /\ \A b \in Borrower : /\ bpc[b] = "using" => Len(workers) < WorkerCnt
                         /\ bpc[b] = "sendRepair" => Len(repair) < WorkerCnt

(* When Stop has walked its map, no container is left but those the watcher*)
(* lost: docker was asked to remove them and did not (watcher.go:179 and   *)
(* 266 ignore it), starting them was reported to have failed (line 142), or*)
(* their entry in the map went with their port (lines 153 and 180).  A     *)
(* worker that repairLoop starts while the shutdown begins is in the map in*)
(* time.                                                                   *)
NothingElseSurvivesStop ==
  stopPc = "stopped" =>
    \A c \in Container \ orphans : status[c] \in {"none", "removed"}

(* A worker sent to repair is restarted and handed back, however often it  *)
(* is killed meanwhile and although docker refuses some of the calls (it   *)
(* refuses MaxFaults at most), unless it exits, is dead or removed, another*)
(* container runs on its port, or the program shuts down.  A container that*)
(* cannot be restarted goes round in repairLoop for ever (lines 163 to 165)*)
(* and keeps no other worker waiting.                                      *)
PortTaken(c) == \E d \in Container \ {c} : port[d] = port[c] /\ Running(status[d])

RepairRestores ==
  \A c \in Container :
    InChannel(c, repair) ~>
      \/ InChannel(c, workers) \/ cancelled
      \/ status[c] \in {"exited", "dead", "removed"} \/ PortTaken(c) \/ c \in orphans
=============================================================================
