---------------------------- MODULE TaskScheduler ----------------------------
(***************************************************************************)
(* brokers.MPTaskScheduler (internal/brokers/mp_task_scheduler.go): two    *)
(* queues of tasks, the set running_read_tasks that keeps a message queue  *)
(* from being read by two tasks, fixed numbers of read and write workers,  *)
(* and the channel of task errors.                                         *)
(*                                                                         *)
(* HTTP handlers submit tasks, a read worker forwards what it read to the  *)
(* ESB by submitting write tasks, and Stop runs while the workers do.  The *)
(* two queues are unbounded, so a Put never parks: they are instances of   *)
(* ClosableQueue, which BlockingQueue implements.  What a task does between*)
(* its start and its return is in BrokerTasks.                             *)
(***************************************************************************)
EXTENDS Integers, Sequences, FiniteSets

CONSTANTS ReadTask,   \* ids of read tasks, one per message pool
          WriteTask,  \* write tasks ever submitted: bounds the runs
          RWorker,    \* cfg.R_workers goroutines
          WWorker,    \* cfg.W_workers goroutines
          MaxErrors,  \* MAX_ERRORS, the capacity of mps.errors
          None        \* no task

ASSUME SchedulerAssumption == /\ None \notin ReadTask \cup WriteTask
                              /\ MaxErrors \in Nat

VARIABLES readQ, readClosed,    \* mps.read_tasks
          writeQ, writeClosed,  \* mps.write_tasks
          running,              \* mps.running_read_tasks
          pending,    \* ids inserted in running whose Put is yet to come
          submitted,  \* write tasks already submitted
          rpc, rtask, \* where each read worker is, and the task it holds
          wpc, wtask, \* the same for the write workers
          errors,     \* number of errors in the channel mps.errors
          errClosed,  \* close(mps.errors) was executed
          stopPc,     \* where Stop is
          panicked    \* a goroutine panicked, which ends the process

readVars == <<readQ, readClosed, running, pending, rpc, rtask>>
writeVars == <<writeQ, writeClosed, submitted, wpc, wtask>>
errVars == <<errors, errClosed, panicked>>
vars == <<readQ, readClosed, running, pending, rpc, rtask,
          writeQ, writeClosed, submitted, wpc, wtask,
          errors, errClosed, panicked, stopPc>>

ReadQ == INSTANCE ClosableQueue
           WITH elems <- readQ, closed <- readClosed, Elem <- ReadTask
WriteQ == INSTANCE ClosableQueue
           WITH elems <- writeQ, closed <- writeClosed, Elem <- WriteTask

TypeOK == /\ readQ \in Seq(ReadTask) /\ readClosed \in BOOLEAN
          /\ writeQ \in Seq(WriteTask) /\ writeClosed \in BOOLEAN
          /\ running \subseteq ReadTask
          /\ pending \subseteq ReadTask
          /\ submitted \subseteq WriteTask
          /\ rpc \in [RWorker -> {"get", "run", "report", "remove", "done"}]
          /\ rtask \in [RWorker -> ReadTask \cup {None}]
          /\ wpc \in [WWorker -> {"get", "run", "report", "done"}]
          /\ wtask \in [WWorker -> WriteTask \cup {None}]
          /\ errors \in 0 .. MaxErrors
          /\ errClosed \in BOOLEAN /\ panicked \in BOOLEAN
          /\ stopPc \in {"no", "closeWrite", "closeErrors", "wait", "stopped"}
          /\ \A w \in RWorker : rtask[w] # None <=> rpc[w] \in {"run", "report", "remove"}
          /\ \A w \in WWorker : wtask[w] # None <=> wpc[w] \in {"run", "report"}

\* Init and Start
Init == /\ ReadQ!Init /\ WriteQ!Init
        /\ running = {} /\ pending = {} /\ submitted = {}
        /\ rpc = [w \in RWorker |-> "get"] /\ rtask = [w \in RWorker |-> None]
        /\ wpc = [w \in WWorker |-> "get"] /\ wtask = [w \in WWorker |-> None]
        /\ errors = 0 /\ errClosed = FALSE /\ panicked = FALSE
        /\ stopPc = "no"

-----------------------------------------------------------------------------
(* Submitting.  Insert and Put are two critical sections, and the result of*)
(* Put is ignored in both functions.                                       *)

\* Mutant: the result of Insert is ignored.
InsertReadTask_Twice(id) ==
  /\ running' = running \cup {id}
  /\ pending' = pending \cup {id}
  /\ UNCHANGED <<readQ, readClosed, rpc, rtask, writeVars, errVars, stopPc>>

\* submitReadTask, up to the Insert.  An id already in the set ends the call.
InsertReadTask(id) ==
  /\ id \notin running
  /\ running' = running \cup {id}
  /\ pending' = pending \cup {id}
  /\ UNCHANGED <<readQ, readClosed, rpc, rtask, writeVars, errVars, stopPc>>

\* submitReadTask, the Put after a successful Insert.
PutReadTask(id) ==
  /\ id \in pending
  /\ ReadQ!Put(id) \/ ReadQ!PutRefused
  /\ pending' = pending \ {id}
  /\ UNCHANGED <<running, rpc, rtask, writeVars, errVars, stopPc>>

\* Called by an HTTP handler, or by the read worker that feeds an ESB record.
submitWriteTask(t) ==
  /\ t \notin submitted
  /\ WriteQ!Put(t) \/ WriteQ!PutRefused
  /\ submitted' = submitted \cup {t}
  /\ UNCHANGED <<readVars, wpc, wtask, errVars, stopPc>>

-----------------------------------------------------------------------------
(* submitError: a select with a default branch.  A full channel drops the  *)
(* error; the send on a closed channel panics, default branch or not.      *)

\* Mutant: the capacity of the channel is not looked at.
submitError_Unbounded ==
  \/ errClosed /\ panicked' = TRUE /\ UNCHANGED <<errors, errClosed>>
  \/ ~errClosed /\ errors' = errors + 1 /\ UNCHANGED <<errClosed, panicked>>

submitError ==
  \/ errClosed /\ panicked' = TRUE /\ UNCHANGED <<errors, errClosed>>
  \/ /\ ~errClosed
     /\ errors' = IF errors < MaxErrors THEN errors + 1 ELSE errors
     /\ UNCHANGED <<errClosed, panicked>>

\* A reader of Errors() takes one.
ReceiveError == /\ errors > 0
                /\ errors' = errors - 1
                /\ UNCHANGED <<readVars, writeVars, errClosed, panicked, stopPc>>

(* rWorkerRoutine *)
RGet(w) == /\ rpc[w] = "get"
           /\ \E id \in ReadTask : /\ ReadQ!Get(id)
                                   /\ rtask' = [rtask EXCEPT ![w] = id]
           /\ rpc' = [rpc EXCEPT ![w] = "run"]
           /\ UNCHANGED <<running, pending, writeVars, errVars, stopPc>>

RDone(w) == /\ rpc[w] = "get"
            /\ ReadQ!GetNone
            /\ rpc' = [rpc EXCEPT ![w] = "done"]
            /\ UNCHANGED <<running, pending, rtask, writeVars, errVars, stopPc>>

\* qread returns, at the read deadline or earlier; with an error that is to
\* be reported unless it is nil, Canceled or DeadlineExceeded itself.
RReturn(w) == /\ rpc[w] = "run"
              /\ \E next \in {"report", "remove"} : rpc' = [rpc EXCEPT ![w] = next]
              /\ UNCHANGED <<readQ, readClosed, running, pending, rtask,
                             writeVars, errVars, stopPc>>

\* Mutant: an early return after the report, without the Remove.
RReport_NoRemove(w) ==
  /\ rpc[w] = "report"
  /\ submitError
  /\ rpc' = [rpc EXCEPT ![w] = "get"]
  /\ rtask' = [rtask EXCEPT ![w] = None]
  /\ UNCHANGED <<readQ, readClosed, running, pending, writeVars, stopPc>>

RReport(w) == /\ rpc[w] = "report"
              /\ submitError
              /\ rpc' = [rpc EXCEPT ![w] = "remove"]
              /\ UNCHANGED <<readQ, readClosed, running, pending, rtask,
                             writeVars, stopPc>>

RRemove(w) == /\ rpc[w] = "remove"
              /\ running' = running \ {rtask[w]}
              /\ rpc' = [rpc EXCEPT ![w] = "get"]
              /\ rtask' = [rtask EXCEPT ![w] = None]
              /\ UNCHANGED <<readQ, readClosed, pending, writeVars, errVars, stopPc>>

(* wWorkerRoutine *)

\* Mutant: the task is looked at and not popped.
WGet_Peeks(w) == /\ wpc[w] = "get" /\ writeQ # <<>>
                 /\ wtask' = [wtask EXCEPT ![w] = Head(writeQ)]
                 /\ wpc' = [wpc EXCEPT ![w] = "run"]
                 /\ UNCHANGED <<readVars, writeQ, writeClosed, submitted, errVars, stopPc>>

WGet(w) == /\ wpc[w] = "get"
           /\ \E t \in WriteTask : /\ WriteQ!Get(t)
                                   /\ wtask' = [wtask EXCEPT ![w] = t]
           /\ wpc' = [wpc EXCEPT ![w] = "run"]
           /\ UNCHANGED <<readVars, submitted, errVars, stopPc>>

\* Mutant: the worker leaves on an empty queue, closed or not.
WDone_OnEmpty(w) == /\ wpc[w] = "get" /\ writeQ = <<>>
                    /\ wpc' = [wpc EXCEPT ![w] = "done"]
                    /\ UNCHANGED <<readVars, writeQ, writeClosed, submitted, wtask, errVars, stopPc>>

WDone(w) == /\ wpc[w] = "get"
            /\ WriteQ!GetNone
            /\ wpc' = [wpc EXCEPT ![w] = "done"]
            /\ UNCHANGED <<readVars, submitted, wtask, errVars, stopPc>>

WReturn(w) == /\ wpc[w] = "run"
              /\ \/ /\ wpc' = [wpc EXCEPT ![w] = "report"]
                    /\ UNCHANGED wtask
                 \/ /\ wpc' = [wpc EXCEPT ![w] = "get"]
                    /\ wtask' = [wtask EXCEPT ![w] = None]
              /\ UNCHANGED <<readVars, writeQ, writeClosed, submitted, errVars, stopPc>>

WReport(w) == /\ wpc[w] = "report"
              /\ submitError
              /\ wpc' = [wpc EXCEPT ![w] = "get"]
              /\ wtask' = [wtask EXCEPT ![w] = None]
              /\ UNCHANGED <<readVars, writeQ, writeClosed, submitted, stopPc>>

-----------------------------------------------------------------------------
(* Stop, statement by statement *)

\* Mutant: write_tasks is not closed.
StopCloseWrite_Missing ==
  /\ stopPc = "closeWrite"
  /\ stopPc' = "closeErrors"
  /\ UNCHANGED <<readVars, writeVars, errVars>>

StopCloseRead == /\ stopPc = "no"
                 /\ ReadQ!Close(TRUE)
                 /\ stopPc' = "closeWrite"
                 /\ UNCHANGED <<running, pending, rpc, rtask, writeVars, errVars>>

StopCloseWrite == /\ stopPc = "closeWrite"
                  /\ WriteQ!Close(TRUE)
                  /\ stopPc' = "closeErrors"
                  /\ UNCHANGED <<readVars, submitted, wpc, wtask, errVars>>

StopCloseErrors == /\ stopPc = "closeErrors"
                   /\ errClosed' = TRUE
                   /\ stopPc' = "wait"
                   /\ UNCHANGED <<readVars, writeVars, errors, panicked>>

\* wg.Wait
StopJoin == /\ stopPc = "wait"
            /\ \A w \in RWorker : rpc[w] = "done"
            /\ \A w \in WWorker : wpc[w] = "done"
            /\ stopPc' = "stopped"
            /\ UNCHANGED <<readVars, writeVars, errVars>>

Stop == StopCloseRead \/ StopCloseWrite \/ StopCloseErrors \/ StopJoin

rWorkerRoutine(w) == RGet(w) \/ RDone(w) \/ RReturn(w) \/ RReport(w) \/ RRemove(w)
wWorkerRoutine(w) == WGet(w) \/ WDone(w) \/ WReturn(w) \/ WReport(w)

Next == /\ ~panicked
        /\ \/ \E id \in ReadTask : InsertReadTask(id) \/ PutReadTask(id)
           \/ \E t \in WriteTask : submitWriteTask(t)
           \/ \E w \in RWorker : rWorkerRoutine(w)
           \/ \E w \in WWorker : wWorkerRoutine(w)
           \/ ReceiveError
           \/ Stop

Spec == Init /\ [][Next]_vars

(***************************************************************************)
(* Fairness: goroutines are scheduled, a handler that inserted an id goes  *)
(* on to the Put, qread and qwrite run under a context with a timeout, and *)
(* Stop, once called, runs on.  Nobody has to submit, to read Errors() or  *)
(* to call Stop.                                                           *)
(***************************************************************************)
Fairness ==
  /\ \A id \in ReadTask : WF_vars(~panicked /\ PutReadTask(id))
  /\ \A w \in RWorker : WF_vars(~panicked /\ rWorkerRoutine(w))
  /\ \A w \in WWorker : WF_vars(~panicked /\ wWorkerRoutine(w))
  /\ WF_vars(~panicked /\ (StopCloseWrite \/ StopCloseErrors \/ StopJoin))

FairSpec == Spec /\ Fairness

-----------------------------------------------------------------------------
Queued(id) == \E i \in DOMAIN readQ : readQ[i] = id
HeldBy(w, id) == rtask[w] = id
Held(id) == \E w \in RWorker : HeldBy(w, id)

(* One reader per message queue: however submissions, workers and the late *)
(* Remove of a task past its deadline interleave, two read workers never   *)
(* hold the same task id.                                                  *)
SingleReader ==
  \A v, w \in RWorker : rtask[v] # None /\ rtask[v] = rtask[w] => v = w

(* Until Stop, an id is marked as running exactly while a submission is    *)
(* about to queue it, it is queued, or a worker holds it: a mark without a *)
(* task would make every later read request a silent no-op.                *)
RunningIsExact ==
  ~readClosed => \A id \in ReadTask :
                   id \in running <=> id \in pending \/ Queued(id) \/ Held(id)

(* A write task is held by at most one worker and not queued as well, so   *)
(* a batch of messages is written once.                                    *)
WrittenOnce ==
  /\ \A v, w \in WWorker : wtask[v] # None /\ wtask[v] = wtask[w] => v = w
  /\ \A i, j \in DOMAIN writeQ : writeQ[i] = writeQ[j] => i = j
  /\ \A w \in WWorker, i \in DOMAIN writeQ : wtask[w] # writeQ[i]

(* Every task that was accepted is taken by a worker, unless Stop clears   *)
(* it; and a message pool can be read again: the mark of its read task goes*)
(* away, errors or not, unless the scheduler is stopped.                   *)
TasksAreServed ==
  /\ \A id \in ReadTask : id \in running ~> id \notin running \/ readClosed \/ panicked
  /\ \A t \in WriteTask :
       (\E i \in DOMAIN writeQ : writeQ[i] = t) ~> (\A i \in DOMAIN writeQ : writeQ[i] # t)

(* Stop returns, whatever the workers were doing when it was called, or a  *)
(* worker has panicked.                                                    *)
StopReturns == stopPc # "no" ~> stopPc = "stopped" \/ panicked

(* components.go:78 announces an orderly shutdown, "wait for brokers       *)
(* shutdown": no goroutine of the scheduler panics on the way.             *)
ShutdownWithoutPanic == ~panicked
=============================================================================
