----------------------------- MODULE ScriptRunner -----------------------------
(***************************************************************************)
(* Running a Python script: RunScript (internal/coderun/watcher.go) on the *)
(* side of the server, called by the handler of a dynamic route and, for a *)
(* mapper, by submitToESB; and in the container of the borrowed worker the *)
(* HTTP server of worker/main.go with scripts/runner.go, which leaves the  *)
(* arguments in the file data.json and starts python.                      *)
(*                                                                         *)
(* The pool lends a worker to one caller at a time (OneTokenPerWorker of   *)
(* WorkerWatcher).  A caller that runs into its deadline returns the worker*)
(* at once, whatever is still going on in the container: the handler there *)
(* has a context of its own, which stops the script but not the writing of *)
(* data.json.  What it stops is the python process; a child that the script*)
(* left behind with its output still open is nobody's to stop, and the     *)
(* handler waits for it.                                                   *)
(***************************************************************************)
EXTENDS FiniteSets

CONSTANTS Request,    \* requests to dynamic routes, and batches to be mapped
          Mapper,     \* the latter
          Worker,     \* the workers, each a container with its data.json
          None, Broken

ASSUME RunnerAssumption == /\ Mapper \subseteq Request
                           /\ None \notin Request \cup Worker
                           /\ Broken \notin Request /\ None # Broken

VARIABLES free,    \* the workers in the pool
          caller,  \* caller[r]: where the caller is, the worker it holds, and
                   \* what it makes of the outcome: "ok", "failed" (400), "error"
          job,     \* job[r]: the handler in the container, the arguments its
                   \* script loaded, and the status of its response
          data,    \* data[w]: whose arguments data.json holds; Broken, if cut short
          late,    \* late[r]: HandleTimeout has passed, or the server shuts down
          children \* the requests whose script has a child process that holds
                   \* the pipes of python's output

vars == <<free, caller, job, data, late, children>>

NoJob == [pc |-> "none", worker |-> None, args |-> None, status |-> "none"]

Holds(r, w) == caller[r].worker = w

TypeOK ==
  /\ caller \in [Request -> [pc : {"new", "borrow", "send", "await", "done"},
                             worker : Worker \cup {None},
                             answer : {"none", "ok", "failed", "error"}]]
  /\ job \in [Request -> [pc : {"none", "parse", "open", "write", "exec", "load", "script",
                                "exited", "aborted", "over"},
                          worker : Worker \cup {None},
                          args : Request \cup {None},
                          status : {"none", "200", "400"}]]
  /\ data \in [Worker -> Request \cup {None, Broken}]
  /\ late \in [Request -> BOOLEAN]
  /\ children \subseteq Request
  /\ free = {w \in Worker : \A r \in Request : ~Holds(r, w)}
  /\ \A w \in Worker, q, r \in Request : Holds(q, w) /\ Holds(r, w) => q = r
  /\ \A r \in Request : /\ caller[r].worker # None <=> caller[r].pc \in {"send", "await"}
                        /\ caller[r].pc = "await" => Holds(r, job[r].worker)

Init == /\ free = Worker
        /\ caller = [r \in Request |-> [pc |-> "new", worker |-> None, answer |-> "none"]]
        /\ job = [r \in Request |-> NoJob]
        /\ data = [w \in Worker |-> None]
        /\ late = [r \in Request |-> FALSE]
        /\ children = {}

-----------------------------------------------------------------------------
(* The caller *)

\* The route is found, or a task has messages to forward: BorrowWorker.
Call(r) == /\ caller[r].pc = "new"
           /\ caller' = [caller EXCEPT ![r].pc = "borrow"]
           /\ UNCHANGED <<free, job, data, late, children>>

Borrow(r, w) == /\ caller[r].pc = "borrow" /\ w \in free
                /\ free' = free \ {w}
                /\ caller' = [caller EXCEPT ![r] = [pc |-> "send", worker |-> w, answer |-> "none"]]
                /\ UNCHANGED <<job, data, late, children>>

\* The call is over: the worker, if there is one, returns to the pool.
Finish(r, answer) ==
  /\ caller' = [caller EXCEPT ![r] = [pc |-> "done", worker |-> None, answer |-> answer]]
  /\ free' = free \cup ({caller[r].worker} \ {None})

BorrowFails(r) == /\ caller[r].pc = "borrow"
                  /\ Finish(r, "error")
                  /\ UNCHANGED <<job, data, late, children>>

\* Headers or body of the request cannot be read.
ArgsFail(r) == /\ caller[r].pc = "send" /\ r \notin Mapper
               /\ Finish(r, "failed")
               /\ UNCHANGED <<job, data, late, children>>

\* POST /run of the container.
Send(r) == /\ caller[r].pc = "send"
           /\ job' = [job EXCEPT ![r] = [NoJob EXCEPT !.pc = "parse", !.worker = caller[r].worker]]
           /\ caller' = [caller EXCEPT ![r].pc = "await"]
           /\ UNCHANGED <<free, data, late, children>>

\* The deadline of RunScript, or the watcher's context; the handler in the
\* container learns of it from the closed connection, or by its own deadline.
Deadline(r) == /\ caller[r].pc = "await" /\ ~late[r]
               /\ late' = [late EXCEPT ![r] = TRUE]
               /\ UNCHANGED <<free, caller, job, data, children>>

Died(r) == job[r].pc = "over" /\ job[r].status = "none"

\* Mutant: the worker is returned only after a response.
RunFails_Keeps(r) ==
  /\ \/ caller[r].pc = "send"
     \/ caller[r].pc = "await" /\ (late[r] \/ Died(r))
  /\ caller' = [caller EXCEPT ![r] = [pc |-> "done", worker |-> None, answer |-> "error"]]
  /\ UNCHANGED <<free, job, data, late, children>>

\* http.Client.Do, or reading the response, fails: no connection, the
\* deadline, or the container is gone.
RunFails(r) ==
  /\ \/ caller[r].pc = "send"
     \/ caller[r].pc = "await" /\ (late[r] \/ Died(r))
  /\ Finish(r, "error")
  /\ UNCHANGED <<job, data, late, children>>

\* The response.  A mapper's output must be a list of strings, and everything
\* else is an error for submitToESB.
Receive(r) ==
  /\ caller[r].pc = "await" /\ job[r].status # "none"
  /\ \/ job[r].status = "200" /\ Finish(r, "ok")
     \/ job[r].status = "400" /\ r \notin Mapper /\ Finish(r, "failed")
     \/ r \in Mapper /\ Finish(r, "error")
  /\ UNCHANGED <<job, data, late, children>>

-----------------------------------------------------------------------------
(* The handler in the container *)
At(r, pc) == job[r].pc = pc

Goto(r, pc) == job' = [job EXCEPT ![r].pc = pc]

Respond(r, status) == job' = [job EXCEPT ![r].pc = "over", ![r].status = status]

\* parseRequest, and the script's file exists; or one of the two fails.
Parse(r) == /\ At(r, "parse")
            /\ Goto(r, "open") \/ Respond(r, "400")
            /\ UNCHANGED <<free, caller, data, late, children>>

\* Mutant: a request without arguments leaves the file as it is.
OpenData_IfArgs(r) ==
  LET w == job[r].worker IN
  /\ At(r, "open")
  /\ \/ data' = [data EXCEPT ![w] = Broken] /\ Goto(r, "write")
     \/ UNCHANGED data /\ Goto(r, "exec")
     \/ UNCHANGED data /\ Respond(r, "400")
  /\ UNCHANGED <<free, caller, late, children>>

\* os.WriteFile truncates the file,
OpenData(r) ==
  /\ At(r, "open")
  /\ \/ data' = [data EXCEPT ![job[r].worker] = Broken] /\ Goto(r, "write")
     \/ UNCHANGED data /\ Respond(r, "400")
  /\ UNCHANGED <<free, caller, late, children>>

\* and writes it from the beginning, which another handler may have filled.
WriteData(r) ==
  LET w == job[r].worker IN
  /\ At(r, "write")
  /\ \/ data' = [data EXCEPT ![w] = r] /\ Goto(r, "exec")
     \/ data[w] # Broken /\ data' = [data EXCEPT ![w] = Broken] /\ Goto(r, "exec")
     \/ data' = [data EXCEPT ![w] = Broken] /\ Respond(r, "400")
  /\ UNCHANGED <<free, caller, late, children>>

\* exec.CommandContext starts nothing when its context is done.
Exec(r) == /\ At(r, "exec")
           /\ Goto(r, "load") \/ (late[r] /\ Respond(r, "400"))
           /\ UNCHANGED <<free, caller, data, late, children>>

\* The script's first lines (LOAD_ARGS): json.load, which may raise.
Load(r) ==
  LET args == data[job[r].worker] IN
  /\ At(r, "load")
  /\ \/ args \in Request /\ job' = [job EXCEPT ![r].pc = "script", ![r].args = args]
     \/ Respond(r, "400")
  /\ UNCHANGED <<free, caller, data, late, children>>

\* A process that the script started has inherited its stdout and stderr, and
\* outlives it.
MayLeaveChild(r) == UNCHANGED children \/ children' = children \cup {r}

ChildExits(r) == /\ r \in children
                 /\ children' = children \ {r}
                 /\ UNCHANGED <<free, caller, job, data, late>>

\* python exits, with status 0 or not.
ScriptExits(r) == /\ At(r, "script")
                  /\ Goto(r, "exited") \/ Goto(r, "aborted")
                  /\ MayLeaveChild(r)
                  /\ UNCHANGED <<free, caller, data, late>>

\* Mutant: exec.Command, without the context.
Kill_Missing(r) == FALSE /\ UNCHANGED vars

\* The context kills the python process, and no other.
Kill(r) == /\ \/ At(r, "load") /\ UNCHANGED children
              \/ At(r, "script") /\ MayLeaveChild(r)
           /\ late[r]
           /\ Goto(r, "aborted")
           /\ UNCHANGED <<free, caller, data, late>>

\* cmd.Run copies the output into the two buffers until nobody has the pipes
\* open any more, however long that takes.
RunReturns(r) == /\ r \notin children
                 /\ \/ At(r, "exited") /\ Respond(r, "200")
                    \/ At(r, "aborted") /\ Respond(r, "400")
                 /\ UNCHANGED <<free, caller, data, late, children>>

\* The container is killed, with everything in it, and restarted with the
\* files it had.
ContainerDies(w) ==
  LET dead == {r \in Request : job[r].worker = w /\ ~At(r, "over")} IN
  /\ dead # {}
  /\ job' = [r \in Request |-> IF r \in dead THEN [job[r] EXCEPT !.pc = "over"] ELSE job[r]]
  /\ children' = children \ dead
  /\ UNCHANGED <<free, caller, data, late>>

-----------------------------------------------------------------------------
call(r) == \/ BorrowFails(r) \/ \E w \in Worker : Borrow(r, w)
           \/ ArgsFail(r) \/ Send(r) \/ RunFails(r) \/ Receive(r)

runHandle(r) == Parse(r) \/ OpenData(r) \/ WriteData(r) \/ Exec(r) \/ Load(r) \/ RunReturns(r)

script(r) == ScriptExits(r) \/ ChildExits(r)

Next == \/ \E r \in Request : \/ Call(r) \/ call(r) \/ Deadline(r)
                              \/ runHandle(r) \/ script(r) \/ Kill(r)
        \/ \E w \in Worker : ContainerDies(w)

(* Goroutines and python run, timers fire.  Neither a script nor its child *)
(* need end.                                                               *)
Fairness == \A r \in Request :
              /\ WF_vars(call(r)) /\ WF_vars(Deadline(r))
              /\ WF_vars(runHandle(r)) /\ WF_vars(Kill(r))

Spec == Init /\ [][Next]_vars /\ Fairness

-----------------------------------------------------------------------------
(* The script of a request that is answered with its output was launched   *)
(* with this request's arguments (README.md:10), unless the container was  *)
(* still busy with a request that had run into its deadline and that wrote *)
(* its own late into the shared data.json (runner.go:54).                  *)
RunsOnOwnArgs ==
  \A r \in Request :
    caller[r].answer = "ok" /\ job[r].args # r =>
      LET q == job[r].args IN late[q] /\ job[q].worker = job[r].worker

(* Whatever its script does, a request is answered and its worker returns  *)
(* to the pool.  In the container python does not outlive the deadline, and*)
(* the handler only waits on for a child process of the script that has not*)
(* closed its output: exec.CommandContext kills python and nothing else    *)
(* (runner.go:58).                                                         *)
Lingers(r) == (At(r, "exited") \/ At(r, "aborted")) /\ r \in children

EveryCallEnds ==
  \A r \in Request :
    caller[r].pc = "borrow" ~>
      [](caller[r].pc = "done" /\ (At(r, "none") \/ At(r, "over") \/ Lingers(r)))
=============================================================================
