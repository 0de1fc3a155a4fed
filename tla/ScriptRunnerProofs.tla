-------------------------- MODULE ScriptRunnerProofs --------------------------
(***************************************************************************)
(* Proofs about ScriptRunner: a worker is in the pool or with one caller,  *)
(* and a script whose output is answered ran on the arguments of its own   *)
(* request or of one that had run into its deadline, for any number of     *)
(* requests and workers, whatever fails.                                   *)
(***************************************************************************)
EXTENDS ScriptRunner, TLAPS

Job == [pc : {"none", "parse", "open", "write", "exec", "load", "script",
              "exited", "aborted", "over"},
        worker : Worker \cup {None},
        args : Request \cup {None},
        status : {"none", "200", "400"}]

Jobs == [Request -> Job]

\* TypeOK in two parts: what the variables range over, and where the workers are.
Types ==
  /\ caller \in [Request -> [pc : {"new", "borrow", "send", "await", "done"},
                             worker : Worker \cup {None},
                             answer : {"none", "ok", "failed", "error"}]]
  /\ job \in Jobs
  /\ data \in [Worker -> Request \cup {None, Broken}]
  /\ late \in [Request -> BOOLEAN]
  /\ children \subseteq Request

Tokens ==
  /\ free = {w \in Worker : \A r \in Request : ~Holds(r, w)}
  /\ \A w \in Worker, q, r \in Request : Holds(q, w) /\ Holds(r, w) => q = r
  /\ \A r \in Request : /\ caller[r].worker # None <=> caller[r].pc \in {"send", "await"}
                        /\ caller[r].pc = "await" => Holds(r, job[r].worker)

\* Arguments that a script of r may load: its own, or those a late handler
\* left in the same container.
Own(r, x) == x \in Request /\ x # r => late[x] /\ job[x].worker = job[r].worker

\* A handler runs for a caller that waits for it or that has given up.
Progress ==
  \A r \in Request :
    /\ caller[r].pc \in {"new", "borrow", "send"} => job[r] = NoJob /\ ~late[r]
    /\ job[r].pc \notin {"none", "over"} => caller[r].pc = "await" \/ late[r]
    /\ job[r].pc # "none" => job[r].worker \in Worker
    /\ job[r].status # "none" => job[r].pc = "over"
    /\ caller[r].pc # "done" => caller[r].answer = "none"
    /\ caller[r].answer = "ok" => job[r].pc = "over"

\* While r holds the worker only a late handler can overwrite what it wrote.
Loads ==
  \A r \in Request :
    /\ caller[r].pc = "await" /\ job[r].pc \in {"exec", "load"} => Own(r, data[job[r].worker])
    /\ caller[r].pc = "await" \/ caller[r].answer = "ok" => Own(r, job[r].args)

\* A script that runs, or ran to its end, has loaded somebody's arguments.
Loaded ==
  \A r \in Request :
    /\ job[r].pc \in {"script", "exited"} \/ job[r].status = "200" => job[r].args \in Request
    /\ caller[r].answer = "ok" => job[r].status = "200"

IInv == Types /\ Tokens /\ Progress /\ Loads /\ Loaded

USE RunnerAssumption DEF Holds

-----------------------------------------------------------------------------
(* What the handler in a container changes: its own job and the data of    *)
(* its container.                                                          *)
HandlerStep(r) == runHandle(r) \/ ScriptExits(r) \/ Kill(r)

\* One job goes from a point where it runs to another, or ends.
Moves(r) == /\ job' \in Jobs
            /\ \A q \in Request : q # r => job'[q] = job[q]
            /\ job'[r].worker = job[r].worker
            /\ job[r].pc \notin {"none", "over"}
            /\ job'[r].pc # "none"
            /\ job'[r].status # job[r].status => job'[r].pc = "over"

LEMMA GotoMoves ==
  ASSUME job \in Jobs, NEW r \in Request, job[r].pc \notin {"none", "over"},
         NEW pc \in {"open", "write", "exec", "load", "exited", "aborted"}, Goto(r, pc)
  PROVE  Moves(r) /\ job'[r].pc = pc /\ job'[r].args = job[r].args
<1> DEFINE j == [job[r] EXCEPT !.pc = pc]
<1>1. job' = [job EXCEPT ![r] = j]
  BY DEF Goto, Jobs
<1>2. /\ j \in Job
      /\ j.worker = job[r].worker /\ j.status = job[r].status /\ j.pc = pc /\ j.args = job[r].args
  BY DEF Jobs, Job
<1> HIDE DEF j
<1> QED BY <1>1, <1>2 DEF Jobs, Moves

LEMMA RespondMoves ==
  ASSUME job \in Jobs, NEW r \in Request, job[r].pc \notin {"none", "over"},
         NEW status \in {"200", "400"}, Respond(r, status)
  PROVE  Moves(r) /\ job'[r].pc = "over" /\ job'[r].args = job[r].args
<1> DEFINE j == [job[r] EXCEPT !.pc = "over", !.status = status]
<1>1. job' = [job EXCEPT ![r] = j]
  BY DEF Respond, Jobs
<1>2. /\ j \in Job
      /\ j.worker = job[r].worker /\ j.pc = "over" /\ j.args = job[r].args
  BY DEF Jobs, Job
<1> HIDE DEF j
<1> QED BY <1>1, <1>2 DEF Jobs, Moves

LEMMA HandlerMoves ==
  ASSUME Types, NEW r \in Request, HandlerStep(r)
  PROVE  Types' /\ Moves(r) /\ UNCHANGED <<free, caller, late>>
<1> USE GotoMoves, RespondMoves DEF Types
<1>1. CASE Parse(r)
  BY <1>1 DEF Parse, At, Moves
<1>2. CASE OpenData(r)
  <2>1. UNCHANGED <<free, caller, late, children>> /\ job[r].pc = "open"
    BY <1>2 DEF OpenData, At
  <2>2. data' \in [Worker -> Request \cup {None, Broken}]
    BY <1>2 DEF OpenData
  <2>3. Moves(r)
    BY <1>2, <2>1 DEF OpenData
  <2> QED BY <2>1, <2>2, <2>3 DEF Moves
<1>3. CASE WriteData(r)
  <2>1. UNCHANGED <<free, caller, late, children>> /\ job[r].pc = "write"
    BY <1>3 DEF WriteData, At
  <2>2. data' \in [Worker -> Request \cup {None, Broken}]
    BY <1>3 DEF WriteData
  <2>3. Moves(r)
    BY <1>3, <2>1 DEF WriteData
  <2> QED BY <2>1, <2>2, <2>3 DEF Moves
<1>4. CASE Exec(r)
  BY <1>4 DEF Exec, At, Moves
<1>5. CASE Load(r)
  <2>1. UNCHANGED <<free, caller, late, data, children>> /\ job[r].pc = "load"
    BY <1>5 DEF Load, At
  <2>2. CASE Respond(r, "400")
    BY <2>1, <2>2 DEF Moves
  <2>3. ASSUME NEW args \in Request, job' = [job EXCEPT ![r].pc = "script", ![r].args = args]
        PROVE  Moves(r)
    <3> DEFINE j == [job[r] EXCEPT !.pc = "script", !.args = args]
    <3>0. job[r] \in Job
      BY DEF Jobs
    <3>1. job' = [job EXCEPT ![r] = j]
      BY <2>3 DEF Jobs
    <3>2. /\ j \in Job
          /\ j.worker = job[r].worker /\ j.status = job[r].status /\ j.pc = "script"
      BY <3>0 DEF Job
    <3> HIDE DEF j
    <3> QED BY <2>1, <3>1, <3>2 DEF Jobs, Moves
  <2>4. Moves(r)
    BY <1>5, <2>2, <2>3 DEF Load
  <2> QED BY <2>1, <2>4 DEF Moves
<1>6. CASE ScriptExits(r)
  <2>1. Moves(r)
    BY <1>6 DEF ScriptExits, At
  <2> QED BY <1>6, <2>1 DEF ScriptExits, MayLeaveChild, Moves
<1>7. CASE Kill(r)
  <2>1. Moves(r)
    BY <1>7 DEF Kill, At
  <2> QED BY <1>7, <2>1 DEF Kill, MayLeaveChild, Moves
<1>8. CASE RunReturns(r)
  BY <1>8 DEF RunReturns, At, Moves
<1> QED BY <1>1, <1>2, <1>3, <1>4, <1>5, <1>6, <1>7, <1>8 DEF HandlerStep, runHandle

(* A call that is over holds nothing, and what it held is in the pool.     *)
LEMMA FinishReturns ==
  ASSUME Types, Tokens, NEW r \in Request, NEW answer \in {"ok", "failed", "error"},
         Finish(r, answer), UNCHANGED <<job, data, late, children>>
  PROVE  Types' /\ Tokens'
<1>1. Types'
  BY DEF Types, Finish
<1>2. /\ caller'[r] = [pc |-> "done", worker |-> None, answer |-> answer]
      /\ \A q \in Request : q # r => caller'[q] = caller[q]
  BY DEF Types, Finish
<1>3. free' = {w \in Worker : \A q \in Request : ~Holds(q, w)}'
  <2>1. ASSUME NEW w \in Worker, w \in free' PROVE \A q \in Request : caller'[q].worker # w
    BY <1>2, <2>1 DEF Tokens, Finish
  <2>2. ASSUME NEW w \in Worker, \A q \in Request : caller'[q].worker # w PROVE w \in free'
    BY <1>2, <2>2 DEF Tokens, Finish
  <2>3. free' \subseteq Worker
    BY DEF Types, Tokens, Finish
  <2> QED BY <2>1, <2>2, <2>3
<1>4. \A w \in Worker, p, q \in Request : caller'[p].worker = w /\ caller'[q].worker = w => p = q
  BY <1>2 DEF Tokens
<1>5. \A q \in Request : /\ caller'[q].worker # None <=> caller'[q].pc \in {"send", "await"}
                         /\ caller'[q].pc = "await" => caller'[q].worker = job'[q].worker
  BY <1>2 DEF Tokens
<1> QED BY <1>1, <1>3, <1>4, <1>5 DEF Tokens

LEMMA TokensAreKept ==
  ASSUME Types, Tokens, [Next]_vars
  PROVE  Types' /\ Tokens'
<1>1. ASSUME NEW r \in Request, Call(r) PROVE Types' /\ Tokens'
  BY <1>1 DEF Call, Types, Tokens
<1>2. ASSUME NEW r \in Request, BorrowFails(r) \/ ArgsFail(r) \/ RunFails(r) \/ Receive(r)
      PROVE  Types' /\ Tokens'
  <2>1. PICK answer \in {"ok", "failed", "error"} : Finish(r, answer) /\ UNCHANGED <<job, data, late, children>>
    BY <1>2 DEF BorrowFails, ArgsFail, RunFails, Receive
  <2> QED BY <2>1, FinishReturns
<1>3. ASSUME NEW r \in Request, NEW w \in Worker, Borrow(r, w) PROVE Types' /\ Tokens'
  <2>1. Types'
    BY <1>3 DEF Borrow, Types
  <2>2. /\ caller'[r].worker = w /\ caller'[r].pc = "send"
        /\ \A q \in Request : q # r => caller'[q] = caller[q]
        /\ job' = job
    BY <1>3 DEF Borrow, Types
  <2>3. \A q \in Request : caller[q].worker # w
    BY <1>3 DEF Borrow, Tokens
  <2>4. caller[r].worker = None
    BY <1>3 DEF Borrow, Tokens
  <2>5. free' = {v \in Worker : \A q \in Request : caller'[q].worker # v}
    <3>1. free' = free \ {w}
      BY <1>3 DEF Borrow
    <3>2. \A v \in Worker : v \in free' => \A q \in Request : caller'[q].worker # v
      BY <3>1, <2>2 DEF Tokens
    <3>3. \A v \in Worker : (\A q \in Request : caller'[q].worker # v) => v \in free'
      BY <3>1, <2>2, <2>4 DEF Tokens
    <3> QED BY <3>1, <3>2, <3>3 DEF Tokens
  <2>6. \A v \in Worker, p, q \in Request : caller'[p].worker = v /\ caller'[q].worker = v => p = q
    BY <2>2, <2>3 DEF Tokens
  <2>7. \A q \in Request : /\ caller'[q].worker # None <=> caller'[q].pc \in {"send", "await"}
                           /\ caller'[q].pc = "await" => caller'[q].worker = job'[q].worker
    BY <2>2 DEF Tokens
  <2> QED BY <2>1, <2>5, <2>6, <2>7 DEF Tokens
<1>4. ASSUME NEW r \in Request, Send(r) PROVE Types' /\ Tokens'
  <2>1. /\ job'[r] = [pc |-> "parse", worker |-> caller[r].worker, args |-> None, status |-> "none"]
        /\ \A q \in Request : q # r => job'[q] = job[q]
    BY <1>4 DEF Send, NoJob, Types, Jobs, Job
  <2>2. \A q \in Request : /\ caller'[q].worker = caller[q].worker
                           /\ caller'[q].pc = IF q = r THEN "await" ELSE caller[q].pc
    BY <1>4 DEF Send, Types
  <2>3. job' \in Jobs
    BY <1>4 DEF Send, NoJob, Types, Jobs, Job
  <2>4. Types'
    BY <1>4, <2>3 DEF Send, Types
  <2> QED BY <1>4, <2>1, <2>2, <2>4 DEF Send, Tokens
<1>5. ASSUME NEW r \in Request, Deadline(r) PROVE Types' /\ Tokens'
  BY <1>5 DEF Deadline, Types, Tokens
<1>6. ASSUME NEW r \in Request, HandlerStep(r) PROVE Types' /\ Tokens'
  <2>1. \A q \in Request : job'[q].worker = job[q].worker
    BY <1>6, HandlerMoves DEF Moves
  <2> QED BY <1>6, <2>1, HandlerMoves DEF Moves, Tokens
<1>7. ASSUME NEW w \in Worker, ContainerDies(w) PROVE Types' /\ Tokens'
  <2>1. \A q \in Request : job'[q] = job[q] \/ job'[q] = [job[q] EXCEPT !.pc = "over"]
    BY <1>7 DEF ContainerDies
  <2>2. \A q \in Request : job'[q].worker = job[q].worker
    <3> TAKE q \in Request
    <3>1. job[q] \in Job
      BY DEF Types, Jobs
    <3>2. [job[q] EXCEPT !.pc = "over"].worker = job[q].worker
      BY <3>1 DEF Job
    <3> QED BY <2>1, <3>2
  <2>3. \A q \in Request : job'[q] \in Job
    <3> TAKE q \in Request
    <3>1. job[q] \in Job
      BY DEF Types, Jobs
    <3>2. [job[q] EXCEPT !.pc = "over"] \in Job
      BY ONLY <3>1 DEF Job
    <3> QED BY <2>1, <3>1, <3>2
  <2>4. Types'
    BY <1>7, <2>3 DEF ContainerDies, Types, Jobs
  <2> QED BY <1>7, <2>2, <2>4 DEF ContainerDies, Tokens
<1>8. CASE UNCHANGED vars
  BY <1>8 DEF vars, Types, Tokens
<1>9. ASSUME NEW r \in Request, ChildExits(r) PROVE Types' /\ Tokens'
  BY <1>9 DEF ChildExits, Types, Tokens
<1> QED BY <1>1, <1>2, <1>3, <1>4, <1>5, <1>6, <1>7, <1>8, <1>9 DEF Next, call, script, HandlerStep

(* The token of a worker is in one place and no call loses it, whatever    *)
(* fails: Finish stands for the deferred worker.Return() on every path.    *)
THEOREM TypeCorrect == Spec => []TypeOK
<1>1. Init => Types /\ Tokens
  BY DEF Init, NoJob, Types, Tokens, Jobs, Job
<1>2. Types /\ Tokens /\ [Next]_vars => (Types /\ Tokens)'
  BY TokensAreKept
<1>3. Types /\ Tokens => TypeOK
  BY DEF Types, Tokens, TypeOK, Jobs, Job
<1> QED BY <1>1, <1>2, <1>3, PTL DEF Spec

-----------------------------------------------------------------------------
\* The end of a call, for every caller and every handler.
LEMMA CallsEnd ==
  ASSUME Types, NEW r \in Request, BorrowFails(r) \/ ArgsFail(r) \/ RunFails(r) \/ Receive(r)
  PROVE  /\ UNCHANGED <<job, data, late>>
         /\ caller'[r].pc = "done" /\ caller[r].pc \in {"borrow", "send", "await"}
         /\ \A q \in Request : q # r => caller'[q] = caller[q]
         /\ caller'[r].answer = "ok" => caller[r].pc = "await" /\ job[r].status = "200"
         /\ caller[r].pc = "await" => late[r] \/ job[r].pc = "over" \/ job[r].status # "none"
<1>1. /\ UNCHANGED <<job, data, late>>
      /\ caller[r].pc \in {"borrow", "send", "await"}
      /\ caller[r].pc = "await" => late[r] \/ job[r].pc = "over" \/ job[r].status # "none"
  BY DEF BorrowFails, ArgsFail, RunFails, Receive, Died
<1>2. PICK answer \in {"ok", "failed", "error"} :
        /\ Finish(r, answer)
        /\ answer = "ok" => caller[r].pc = "await" /\ job[r].status = "200"
  BY DEF BorrowFails, ArgsFail, RunFails, Receive
<1>3. /\ caller'[r] = [pc |-> "done", worker |-> None, answer |-> answer]
      /\ \A q \in Request : q # r => caller'[q] = caller[q]
  BY <1>2 DEF Finish, Types
<1> QED BY <1>1, <1>2, <1>3

LEMMA SendDoes ==
  ASSUME Types, NEW r \in Request, Send(r)
  PROVE  /\ UNCHANGED <<free, data, late>> /\ caller[r].pc = "send"
         /\ job'[r] = [pc |-> "parse", worker |-> caller[r].worker, args |-> None, status |-> "none"]
         /\ \A q \in Request : q # r => job'[q] = job[q] /\ caller'[q] = caller[q]
         /\ caller'[r].pc = "await" /\ caller'[r].answer = caller[r].answer
<1>1. UNCHANGED <<free, data, late>> /\ caller[r].pc = "send"
  BY DEF Send
<1>2. /\ job'[r] = [pc |-> "parse", worker |-> caller[r].worker, args |-> None, status |-> "none"]
      /\ \A q \in Request : q # r => job'[q] = job[q]
  BY DEF Send, NoJob, Types, Jobs, Job
<1>3. /\ \A q \in Request : q # r => caller'[q] = caller[q]
      /\ caller'[r].pc = "await" /\ caller'[r].answer = caller[r].answer
  BY DEF Send, Types
<1> QED BY <1>1, <1>2, <1>3

LEMMA DeathDoes ==
  ASSUME Types, NEW w \in Worker, ContainerDies(w)
  PROVE  /\ UNCHANGED <<free, caller, data, late>>
         /\ \A q \in Request :
              /\ job[q].pc = "over" \/ job[q].worker # w => job'[q] = job[q]
              /\ job'[q].pc = "over" \/ job'[q] = job[q]
              /\ job'[q].worker = job[q].worker /\ job'[q].args = job[q].args
              /\ job'[q].status = job[q].status
<1>1. UNCHANGED <<free, caller, data, late>>
  BY DEF ContainerDies
<1>2. \A q \in Request : [job[q] EXCEPT !.pc = "over"] =
        [pc |-> "over", worker |-> job[q].worker, args |-> job[q].args, status |-> job[q].status]
  BY DEF Types, Jobs, Job
<1>3. \A q \in Request :
        job'[q] = IF job[q].worker = w /\ ~At(q, "over")
                  THEN [job[q] EXCEPT !.pc = "over"] ELSE job[q]
  BY DEF ContainerDies
<1> QED BY <1>1, <1>2, <1>3 DEF At

LEMMA ProgressIsKept ==
  ASSUME Types, Tokens, Progress, [Next]_vars
  PROVE  Progress'
<1>1. ASSUME NEW r \in Request, Call(r) PROVE Progress'
  <2>1. \A q \in Request : /\ caller'[q].answer = caller[q].answer
                           /\ q # r => caller'[q].pc = caller[q].pc
    BY <1>1 DEF Call, Types
  <2>2. caller[r].pc = "new" /\ caller'[r].pc = "borrow" /\ UNCHANGED <<job, late>>
    BY <1>1 DEF Call, Types
  <2> QED BY <2>1, <2>2 DEF Progress
<1>2. ASSUME NEW r \in Request, BorrowFails(r) \/ ArgsFail(r) \/ RunFails(r) \/ Receive(r)
      PROVE  Progress'
  <2>1. job[r].pc \notin {"none", "over"} => late[r]
    BY <1>2, CallsEnd DEF Progress, NoJob
  <2> QED BY <1>2, <2>1, CallsEnd DEF Progress
<1>3. ASSUME NEW r \in Request, NEW w \in Worker, Borrow(r, w) PROVE Progress'
  BY <1>3 DEF Borrow, Types, Progress
<1>4. ASSUME NEW r \in Request, Send(r) PROVE Progress'
  <2>1. caller[r].worker \in Worker
    BY <1>4, SendDoes DEF Types, Tokens
  <2>2. /\ job'[r].pc = "parse" /\ job'[r].status = "none" /\ job'[r].worker \in Worker
        /\ caller'[r].pc = "await" /\ caller'[r].answer = "none"
    <3>1. job'[r] = [pc |-> "parse", worker |-> caller[r].worker, args |-> None, status |-> "none"]
      BY <1>4, SendDoes
    <3>2. caller[r].pc = "send" /\ caller'[r].pc = "await" /\ caller'[r].answer = caller[r].answer
      BY <1>4, SendDoes
    <3>3. caller[r].answer = "none"
      BY <3>2 DEF Progress
    <3> QED BY <2>1, <3>1, <3>2, <3>3
  <2>3. \A q \in Request : q # r => job'[q] = job[q] /\ caller'[q] = caller[q] /\ late'[q] = late[q]
    BY <1>4, SendDoes
  <2> HIDE RunnerAssumption
  <2> QED BY <2>2, <2>3 DEF Progress
<1>5. ASSUME NEW r \in Request, Deadline(r) PROVE Progress'
  BY <1>5 DEF Deadline, Types, Progress
<1>6. ASSUME NEW r \in Request, HandlerStep(r) PROVE Progress'
  <2>1. /\ Moves(r) /\ UNCHANGED <<free, caller, late>>
    BY <1>6, HandlerMoves
  <2>2. caller[r].pc \notin {"new", "borrow", "send"}
    BY <2>1 DEF Moves, Progress, NoJob
  <2>3. caller[r].answer # "ok"
    BY <2>1 DEF Moves, Progress
  <2> QED BY <2>1, <2>2, <2>3 DEF Moves, Progress
<1>7. ASSUME NEW w \in Worker, ContainerDies(w) PROVE Progress'
  BY <1>7, DeathDoes DEF Progress, NoJob
<1>8. CASE UNCHANGED vars
  BY <1>8 DEF vars, Progress
<1>9. ASSUME NEW r \in Request, ChildExits(r) PROVE Progress'
  BY <1>9 DEF ChildExits, Progress
<1> QED BY <1>1, <1>2, <1>3, <1>4, <1>5, <1>6, <1>7, <1>8, <1>9 DEF Next, call, script, HandlerStep

-----------------------------------------------------------------------------
\* A handler writes its own arguments or spoils the file, and its script loads
\* what the file holds.
LEMMA HandlerWrites ==
  ASSUME Types, Progress, NEW r \in Request, HandlerStep(r)
  PROVE  /\ \A w \in Worker : data'[w] = data[w] \/ data'[w] = Broken
                              \/ (w = job[r].worker /\ data'[w] = r)
         /\ job'[r].pc \in {"exec", "load"} =>
              data'[job[r].worker] \in {r, Broken} \/ (job[r].pc = "exec" /\ data' = data)
         /\ job'[r].args # job[r].args =>
              job[r].pc = "load" /\ job'[r].args = data[job[r].worker]
<1>1. job \in Jobs /\ data \in [Worker -> Request \cup {None, Broken}]
  BY DEF Types
<1>2. Moves(r)
  BY HandlerMoves
<1>3. job[r].pc \notin {"none", "over"} /\ job[r].worker \in Worker
  BY <1>2 DEF Moves, Progress
<1>4. CASE Parse(r)
  BY <1>1, <1>3, <1>4, GotoMoves, RespondMoves DEF Parse
<1>5. CASE OpenData(r)
  BY <1>1, <1>3, <1>5, GotoMoves, RespondMoves DEF OpenData
<1>6. CASE WriteData(r)
  <2>1. \A w \in Worker : data'[w] = data[w] \/ data'[w] = Broken
                         \/ (w = job[r].worker /\ data'[w] = r)
    BY <1>1, <1>3, <1>6 DEF WriteData
  <2>2. data'[job[r].worker] \in {r, Broken}
    BY <1>1, <1>3, <1>6 DEF WriteData
  <2>3. job'[r].args = job[r].args
    BY <1>1, <1>3, <1>6, GotoMoves, RespondMoves DEF WriteData
  <2> QED BY <2>1, <2>2, <2>3
<1>7. CASE Exec(r)
  BY <1>1, <1>3, <1>7, GotoMoves, RespondMoves DEF Exec, At
<1>8. CASE Load(r)
  <2>1. data' = data /\ job[r].pc = "load"
    BY <1>8 DEF Load, At
  <2>2. CASE Respond(r, "400")
    BY <1>1, <1>3, <2>1, <2>2, RespondMoves
  <2>3. ASSUME NEW args \in Request, args = data[job[r].worker],
               job' = [job EXCEPT ![r].pc = "script", ![r].args = args]
        PROVE  job'[r].pc = "script" /\ job'[r].args = args
    BY <1>1, <2>3 DEF Jobs, Job
  <2> QED BY <1>8, <2>1, <2>2, <2>3 DEF Load
<1>9. CASE ScriptExits(r)
  BY <1>1, <1>3, <1>9, GotoMoves, RespondMoves DEF ScriptExits
<1>10. CASE Kill(r)
  BY <1>1, <1>3, <1>10, GotoMoves, RespondMoves DEF Kill
<1>11. CASE RunReturns(r)
  BY <1>1, <1>3, <1>11, GotoMoves, RespondMoves DEF RunReturns
<1> QED BY <1>4, <1>5, <1>6, <1>7, <1>8, <1>9, <1>10, <1>11 DEF HandlerStep, runHandle

LEMMA LoadsIsKept ==
  ASSUME Types, Tokens, Progress, Loads, [Next]_vars
  PROVE  Loads'
<1>1. ASSUME NEW r \in Request, Call(r) PROVE Loads'
  <2>1. \A q \in Request : /\ caller'[q].answer = caller[q].answer
                           /\ q # r => caller'[q].pc = caller[q].pc
    BY <1>1 DEF Call, Types
  <2>2. caller'[r].pc = "borrow" /\ UNCHANGED <<job, data, late>>
    BY <1>1 DEF Call, Types
  <2> QED BY <2>1, <2>2 DEF Loads, Own
<1>2. ASSUME NEW r \in Request, BorrowFails(r) \/ ArgsFail(r) \/ RunFails(r) \/ Receive(r)
      PROVE  Loads'
  BY <1>2, CallsEnd DEF Loads, Own
<1>3. ASSUME NEW r \in Request, NEW w \in Worker, Borrow(r, w) PROVE Loads'
  BY <1>3 DEF Borrow, Types, Loads, Own
<1>4. ASSUME NEW r \in Request, Send(r) PROVE Loads'
  <2>1. /\ UNCHANGED <<data, late>> /\ ~late[r]
        /\ \A q \in Request : q # r => job'[q] = job[q] /\ caller'[q] = caller[q]
    BY <1>4, SendDoes DEF Progress
  <2>2. job'[r].pc = "parse" /\ job'[r].args = None
    <3>1. job'[r] = [pc |-> "parse", worker |-> caller[r].worker, args |-> None, status |-> "none"]
      BY <1>4, SendDoes
    <3> QED BY <3>1
  <2>3. \A q \in Request : \A x : q # r /\ Own(q, x) => Own(q, x)'
    BY <2>1 DEF Own
  <2> QED BY <2>1, <2>2, <2>3 DEF Loads, Own
<1>5. ASSUME NEW r \in Request, Deadline(r) PROVE Loads'
  <2>1. UNCHANGED <<caller, job, data>> /\ \A q \in Request : late[q] => late'[q]
    BY <1>5 DEF Deadline, Types
  <2> QED BY <2>1 DEF Loads, Own
<1>6. ASSUME NEW r \in Request, HandlerStep(r) PROVE Loads'
  <2>1. /\ UNCHANGED <<caller, late>>
        /\ job[r].pc \notin {"none", "over"}
        /\ \A q \in Request : /\ q # r => job'[q] = job[q]
                              /\ job'[q].worker = job[q].worker
    BY <1>6, HandlerMoves DEF Moves
  <2>2. job[r].worker \in Worker /\ (caller[r].pc = "await" \/ late[r])
        /\ caller[r].answer # "ok"
    BY <2>1 DEF Progress
  <2>3. \A q \in Request : \A x : Own(q, x) => Own(q, x)'
    BY <2>1 DEF Own
  <2>4. ASSUME NEW q \in Request, caller'[q].pc = "await", job'[q].pc \in {"exec", "load"}
        PROVE  Own(q, data[job[q].worker])'
    <3>1. CASE q = r
      BY <1>6, <2>1, <2>2, <2>3, <2>4, <3>1, HandlerWrites DEF Loads, Own
    <3>2. CASE q # r
      <4>1. caller[q].pc = "await" /\ Own(q, data[job[q].worker]) /\ job[q].worker \in Worker
        BY <2>1, <2>4, <3>2 DEF Loads, Progress
      <4>2. CASE data'[job[q].worker] = data[job[q].worker]
        BY <2>1, <2>3, <4>1, <4>2 DEF Own
      <4>3. CASE data'[job[q].worker] = Broken
        BY <2>1, <4>3 DEF Own
      <4>4. CASE job[q].worker = job[r].worker /\ data'[job[q].worker] = r
        <5>1. caller[r].pc # "await"
          BY <2>2, <3>2, <4>1, <4>4 DEF Tokens
        <5> QED BY <2>1, <2>2, <4>4, <5>1 DEF Own
      <4> QED BY <1>6, <4>1, <4>2, <4>3, <4>4, HandlerWrites
    <3> QED BY <3>1, <3>2
  <2>5. ASSUME NEW q \in Request, caller'[q].pc = "await" \/ caller'[q].answer = "ok"
        PROVE  Own(q, job[q].args)'
    <3>1. CASE job'[q].args = job[q].args
      BY <2>1, <2>3, <2>5, <3>1 DEF Loads, Own
    <3>2. CASE job'[q].args # job[q].args
      <4>1. q = r
        BY <2>1, <3>2
      <4>2. caller[r].pc = "await" /\ job[r].pc = "load" /\ job'[r].args = data[job[r].worker]
        BY <1>6, <2>1, <2>2, <2>5, <3>2, <4>1, HandlerWrites
      <4> QED BY <2>1, <2>3, <4>1, <4>2 DEF Loads, Own
    <3> QED BY <3>1, <3>2
  <2> QED BY <2>4, <2>5 DEF Loads
<1>7. ASSUME NEW w \in Worker, ContainerDies(w) PROVE Loads'
  <2>1. /\ UNCHANGED <<caller, data, late>>
        /\ \A q \in Request : /\ job'[q].pc = "over" \/ job'[q] = job[q]
                              /\ job'[q].worker = job[q].worker /\ job'[q].args = job[q].args
    BY <1>7, DeathDoes
  <2> QED BY <2>1 DEF Loads, Own
<1>8. CASE UNCHANGED vars
  BY <1>8 DEF vars, Loads, Own
<1>9. ASSUME NEW r \in Request, ChildExits(r) PROVE Loads'
  BY <1>9 DEF ChildExits, Loads, Own
<1> QED BY <1>1, <1>2, <1>3, <1>4, <1>5, <1>6, <1>7, <1>8, <1>9 DEF Next, call, script, HandlerStep

LEMMA HandlerLoads ==
  ASSUME Types, Progress, Loaded, NEW r \in Request, HandlerStep(r)
  PROVE  job'[r].pc \in {"script", "exited"} \/ job'[r].status = "200" => job'[r].args \in Request
<1>1. job \in Jobs /\ job[r].pc \notin {"none", "over"} /\ job[r].status = "none"
  BY HandlerMoves DEF Moves, Types, Progress, Jobs, Job
<1>2. ASSUME NEW pc \in {"open", "write", "exec", "load", "exited", "aborted"}, Goto(r, pc)
      PROVE  /\ job'[r].pc = pc /\ job'[r].status = "none"
             /\ job'[r].args = job[r].args
  BY <1>1, <1>2, GotoMoves DEF Moves
<1>3. ASSUME NEW status \in {"200", "400"}, Respond(r, status)
      PROVE  /\ job'[r].pc = "over" /\ job'[r].args = job[r].args
             /\ job'[r].status = status
  <2>1. job'[r].pc = "over" /\ job'[r].args = job[r].args
    BY <1>1, <1>3, RespondMoves
  <2>2. job'[r].status = status
    BY <1>1, <1>3 DEF Respond, Jobs, Job
  <2> QED BY <2>1, <2>2
<1>4. CASE Parse(r)
  BY <1>2, <1>3, <1>4 DEF Parse
<1>5. CASE OpenData(r)
  BY <1>2, <1>3, <1>5 DEF OpenData
<1>6. CASE WriteData(r)
  BY <1>2, <1>3, <1>6 DEF WriteData
<1>7. CASE Exec(r)
  BY <1>2, <1>3, <1>7 DEF Exec
<1>8. CASE Load(r)
  <2>1. ASSUME NEW args \in Request,
               job' = [job EXCEPT ![r].pc = "script", ![r].args = args]
        PROVE  job'[r].args \in Request
    BY <1>1, <2>1 DEF Jobs, Job
  <2> QED BY <1>3, <1>8, <2>1 DEF Load
<1>9. CASE ScriptExits(r)
  <2>1. job[r].args \in Request
    BY <1>9 DEF ScriptExits, At, Loaded
  <2> QED BY <1>2, <1>9, <2>1 DEF ScriptExits
<1>10. CASE Kill(r)
  BY <1>2, <1>10 DEF Kill
<1>11. CASE RunReturns(r)
  <2>1. job[r].pc = "exited" => job[r].args \in Request
    BY DEF Loaded
  <2> QED BY <1>3, <1>11, <2>1 DEF RunReturns, At
<1> QED BY <1>4, <1>5, <1>6, <1>7, <1>8, <1>9, <1>10, <1>11 DEF HandlerStep, runHandle

LEMMA LoadedIsKept ==
  ASSUME Types, Progress, Loaded, [Next]_vars
  PROVE  Loaded'
<1>1. ASSUME NEW r \in Request, Call(r) PROVE Loaded'
  BY <1>1 DEF Call, Types, Loaded
<1>2. ASSUME NEW r \in Request, BorrowFails(r) \/ ArgsFail(r) \/ RunFails(r) \/ Receive(r)
      PROVE  Loaded'
  BY <1>2, CallsEnd DEF Loaded
<1>3. ASSUME NEW r \in Request, NEW w \in Worker, Borrow(r, w) PROVE Loaded'
  BY <1>3 DEF Borrow, Types, Loaded
<1>4. ASSUME NEW r \in Request, Send(r) PROVE Loaded'
  <2>1. /\ job'[r] = [pc |-> "parse", worker |-> caller[r].worker, args |-> None, status |-> "none"]
        /\ \A q \in Request : q # r => job'[q] = job[q] /\ caller'[q] = caller[q]
        /\ caller'[r].answer = caller[r].answer /\ caller[r].pc = "send"
    BY <1>4, SendDoes
  <2>2. job'[r].pc = "parse" /\ job'[r].status = "none"
    BY <2>1
  <2>3. caller'[r].answer = "none"
    BY <2>1 DEF Progress
  <2> QED BY <2>1, <2>2, <2>3 DEF Loaded
<1>5. ASSUME NEW r \in Request, Deadline(r) PROVE Loaded'
  BY <1>5 DEF Deadline, Loaded
<1>6. ASSUME NEW r \in Request, HandlerStep(r) PROVE Loaded'
  <2>1. /\ UNCHANGED caller /\ job[r].pc \notin {"none", "over"}
        /\ \A q \in Request : q # r => job'[q] = job[q]
    BY <1>6, HandlerMoves DEF Moves
  <2>2. caller[r].answer # "ok"
    BY <2>1 DEF Progress
  <2> QED BY <1>6, <2>1, <2>2, HandlerLoads DEF Loaded
<1>7. ASSUME NEW w \in Worker, ContainerDies(w) PROVE Loaded'
  BY <1>7, DeathDoes DEF Loaded
<1>8. CASE UNCHANGED vars
  BY <1>8 DEF vars, Loaded
<1>9. ASSUME NEW r \in Request, ChildExits(r) PROVE Loaded'
  BY <1>9 DEF ChildExits, Loaded
<1> QED BY <1>1, <1>2, <1>3, <1>4, <1>5, <1>6, <1>7, <1>8, <1>9 DEF Next, call, script, HandlerStep

LEMMA InvariantHolds == Spec => []IInv
<1>1. Init => IInv
  <2>1. Init => Types /\ Tokens
    BY DEF Init, NoJob, Types, Tokens, Jobs, Job
  <2>2. Init => Progress /\ Loads /\ Loaded
    BY DEF Init, NoJob, Progress, Loads, Loaded, Own
  <2> QED BY <2>1, <2>2 DEF IInv
<1>2. IInv /\ [Next]_vars => IInv'
  BY TokensAreKept, ProgressIsKept, LoadsIsKept, LoadedIsKept DEF IInv
<1> QED BY <1>1, <1>2, PTL DEF Spec

(* An answered script ran on its own arguments, or on those of a request   *)
(* whose deadline had passed and whose handler was still at work in the    *)
(* same container: the pool alone is not enough, the shared data.json      *)
(* outlives the loan of the worker.                                        *)
THEOREM OwnArguments == Spec => []RunsOnOwnArgs
<1>1. IInv => RunsOnOwnArgs
  <2> SUFFICES ASSUME IInv, NEW r \in Request, caller[r].answer = "ok", job[r].args # r
               PROVE  LET q == job[r].args IN late[q] /\ job[q].worker = job[r].worker
    BY DEF RunsOnOwnArgs
  <2>1. Own(r, job[r].args)
    BY DEF IInv, Loads
  <2>2. job[r].args \in Request
    BY DEF IInv, Loaded
  <2> QED BY <2>1, <2>2 DEF Own
<1> QED BY <1>1, InvariantHolds, PTL
=============================================================================
