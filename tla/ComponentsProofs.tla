---------------------------- MODULE ComponentsProofs ----------------------------
(***************************************************************************)
(* First WorkerWatcher for any number of workers, containers and borrowers:*)
(* a worker's token is in one place, the sends on the two channels never   *)
(* block, and no container outlives Stop but those the watcher has lost.   *)
(* Nothing pauses a container: with "paused" processWorkerInfo puts the    *)
(* worker both into the pool and into repair (watcher.go:162 and 165).     *)
(*                                                                         *)
(* Then the program keeps the promises that WorkerWatcher rests on, for    *)
(* every number of requests, tasks, containers and faults: each of its     *)
(* steps is a step of WorkerWatcher or leaves the watcher alone.  What is  *)
(* shown of the watcher's Spec holds of CSpec with it.                     *)
(***************************************************************************)
EXTENDS Components, FiniteSetTheorems, TLAPS

\* The elements of a channel, and that none is in it twice.
Elems(ch) == {ch[i] : i \in 1 .. Len(ch)}
Single(ch) == \A i, j \in 1 .. Len(ch) : ch[i] = ch[j] => i = j

\* The tokens that borrowers hold, and the one of repairLoop: between its send
\* and the registration it still knows the worker, but has given it away.
Held == {bw[b] : b \in Borrower} \ {None}
Loop == IF rpc = "register" THEN {} ELSE {rw} \ {None}

Tokens == Elems(workers) \cup Elems(repair) \cup Held \cup Loop

Types ==
  /\ workers \in Seq(Container) /\ repair \in Seq(Container)
  /\ status \in [Container -> Status]
  /\ port \in [Container -> Port \cup {None}]
  /\ faults \in 0 .. MaxFaults
  /\ byPort \subseteq Container /\ orphans \subseteq Container
  /\ bpc \in [Borrower -> {"idle", "wait", "inspect", "sendRepair", "using"}]
  /\ bw \in [Borrower -> Container \cup {None}]
  /\ rpc \in {"build", "boot", "select", "inspect", "process", "restart",
              "sendRepair", "start", "sendNew", "register", "done"}
  /\ rw \in Container \cup {None}
  /\ info \in Status
  /\ cancelled \in BOOLEAN /\ panicked \in BOOLEAN
  /\ stopPc \in {"no", "wait", "remove", "stopped"}
  /\ \A b \in Borrower : bw[b] = None <=> bpc[b] \in {"idle", "wait"}
  /\ rw = None <=> rpc \in {"build", "boot", "select", "start", "done"}

\* A token is in one place.
Unique == \A a, b \in Borrower : bw[a] = bw[b] /\ bw[a] # None => a = b

Apart ==
  /\ Single(workers) /\ Single(repair)
  /\ Elems(workers) \cap Elems(repair) = {}
  /\ Loop \cap (Elems(workers) \cup Elems(repair) \cup Held) = {}
  /\ Held \cap (Elems(workers) \cup Elems(repair)) = {}
  /\ Unique

\* A token belongs to a container that was started, as does an entry of the
\* map, and none is paused.
Ran(s) == s \notin {"none", "created"}

Alive ==
  /\ \A c \in Tokens \cup byPort \cup ({rw} \ {None}) : Ran(status[c])
  /\ info # "paused" /\ \A c \in Container : status[c] # "paused"

\* There are never more than cfg.WorkerCnt tokens.  A worker that is being
\* replaced counts; during Init every container that was created has one.
Counted ==
  /\ IsFiniteSet(Tokens)
  /\ rpc \in {"build", "boot"} => IsFiniteSet(started) /\ Cardinality(started) <= WorkerCnt
  /\ Cardinality(Tokens) <= IF rpc = "start" THEN WorkerCnt - 1 ELSE WorkerCnt

IInv == Types /\ Apart /\ Alive /\ Counted

-----------------------------------------------------------------------------
(* Channels *)

LEMMA AppendFacts ==
  ASSUME NEW S, NEW ch \in Seq(S), NEW x \in S
  PROVE  /\ Append(ch, x) \in Seq(S)
         /\ Elems(Append(ch, x)) = Elems(ch) \cup {x}
         /\ Single(ch) /\ x \notin Elems(ch) => Single(Append(ch, x))
<1>1. /\ Append(ch, x) \in Seq(S) /\ Len(Append(ch, x)) = Len(ch) + 1 /\ Len(ch) \in Nat
      /\ Append(ch, x)[Len(ch) + 1] = x
      /\ \A i \in 1 .. Len(ch) : Append(ch, x)[i] = ch[i]
  OBVIOUS
<1>2. Elems(Append(ch, x)) = Elems(ch) \cup {x}
  BY <1>1 DEF Elems
<1>3. ASSUME Single(ch), x \notin Elems(ch) PROVE Single(Append(ch, x))
  BY <1>1, <1>3 DEF Single, Elems
<1> QED BY <1>1, <1>2, <1>3

LEMMA TakeFacts ==
  ASSUME NEW S, NEW ch \in Seq(S), ch # <<>>
  PROVE  /\ Head(ch) \in S /\ Tail(ch) \in Seq(S)
         /\ Elems(ch) = Elems(Tail(ch)) \cup {Head(ch)}
         /\ Single(ch) => Single(Tail(ch)) /\ Head(ch) \notin Elems(Tail(ch))
<1>1. /\ Head(ch) = ch[1] /\ Len(ch) \in Nat \ {0} /\ Tail(ch) \in Seq(S)
      /\ Len(Tail(ch)) = Len(ch) - 1
      /\ \A i \in 1 .. Len(ch) - 1 : Tail(ch)[i] = ch[i + 1]
  OBVIOUS
<1>2. Head(ch) \in S
  BY <1>1
<1>3. Elems(ch) \subseteq Elems(Tail(ch)) \cup {Head(ch)}
  <2> SUFFICES ASSUME NEW i \in 1 .. Len(ch), i # 1 PROVE ch[i] \in Elems(Tail(ch))
    BY <1>1 DEF Elems
  <2>1. i - 1 \in 1 .. Len(ch) - 1 /\ Tail(ch)[i - 1] = ch[i]
    BY <1>1
  <2> QED BY <1>1, <2>1 DEF Elems
<1>4. Elems(Tail(ch)) \cup {Head(ch)} \subseteq Elems(ch)
  BY <1>1 DEF Elems
<1>5. ASSUME Single(ch) PROVE Single(Tail(ch)) /\ Head(ch) \notin Elems(Tail(ch))
  <2>1. Single(Tail(ch))
    BY <1>1, <1>5 DEF Single
  <2>2. Head(ch) \notin Elems(Tail(ch))
    BY <1>1, <1>5 DEF Single, Elems
  <2> QED BY <2>1, <2>2
<1> QED BY <1>1, <1>2, <1>3, <1>4, <1>5

LEMMA CountElems ==
  ASSUME NEW S, NEW ch \in Seq(S), Single(ch)
  PROVE  IsFiniteSet(Elems(ch)) /\ Cardinality(Elems(ch)) = Len(ch)
<1> DEFINE f == [i \in 1 .. Len(ch) |-> ch[i]]
<1>1. Len(ch) \in Nat
  OBVIOUS
<1>2. f \in [1 .. Len(ch) -> Elems(ch)]
  BY DEF Elems
<1>3. \A y \in Elems(ch) : \E i \in 1 .. Len(ch) : f[i] = y
  BY DEF Elems
<1>4. \A i, j \in 1 .. Len(ch) : f[i] = f[j] => i = j
  BY DEF Single
<1> HIDE DEF f
<1>5. f \in Bijection(1 .. Len(ch), Elems(ch))
  BY <1>2, <1>3, <1>4 DEF Bijection, Injection, Surjection, IsInjective
<1>6. ExistsBijection(1 .. Len(ch), Elems(ch))
  BY <1>5 DEF ExistsBijection
<1> QED BY <1>1, <1>6, FS_CountingElements, FS_NatBijection

-----------------------------------------------------------------------------
(* Tokens change hands *)
LEMMA HandsOut ==
  ASSUME Types, Unique, NEW b \in Borrower, bw' = [bw EXCEPT ![b] = None]
  PROVE  Unique' /\ Held' = Held \ {bw[b]}
<1>1. \A a \in Borrower : bw'[a] = IF a = b THEN None ELSE bw[a]
  BY DEF Types
<1>2. Held' \subseteq Held \ {bw[b]}
  BY <1>1 DEF Held, Unique
<1>3. Held \ {bw[b]} \subseteq Held'
  BY <1>1 DEF Held
<1> QED BY <1>1, <1>2, <1>3 DEF Unique

LEMMA TakesIn ==
  ASSUME Types, Unique, NEW b \in Borrower, NEW x \in Container, x \notin Held,
         bw[b] = None, bw' = [bw EXCEPT ![b] = x]
  PROVE  Unique' /\ Held' = Held \cup {x}
<1>1. \A a \in Borrower : bw'[a] = IF a = b THEN x ELSE bw[a]
  BY DEF Types
<1>2. x # None
  BY WatcherAssumption
<1>3. \A a \in Borrower : bw[a] # x
  BY <1>2 DEF Held
<1>4. Held' = Held \cup {x}
  BY <1>1, <1>2 DEF Held
<1> QED BY <1>1, <1>3, <1>4 DEF Unique

\* No new token.
LEMMA CountKept ==
  ASSUME Counted, Tokens' \subseteq Tokens,
         rpc' = "start" => rpc = "start",
         rpc' \in {"build", "boot"} => rpc \in {"build", "boot"} /\ started' \subseteq started
  PROVE  Counted'
<1>1. /\ IsFiniteSet(Tokens') /\ Cardinality(Tokens') <= Cardinality(Tokens)
      /\ Cardinality(Tokens') \in Nat /\ Cardinality(Tokens) \in Nat
  BY FS_Subset, FS_CardinalityType DEF Counted
<1>2. Cardinality(Tokens') <= IF rpc' = "start" THEN WorkerCnt - 1 ELSE WorkerCnt
  BY <1>1, WatcherAssumption DEF Counted
<1>3. rpc' \in {"build", "boot"} => IsFiniteSet(started') /\ Cardinality(started') <= WorkerCnt
  <2> SUFFICES ASSUME rpc' \in {"build", "boot"}
               PROVE  IsFiniteSet(started') /\ Cardinality(started') <= WorkerCnt
    OBVIOUS
  <2>1. IsFiniteSet(started) /\ Cardinality(started) <= WorkerCnt /\ started' \subseteq started
    BY DEF Counted
  <2>2. /\ IsFiniteSet(started') /\ Cardinality(started') <= Cardinality(started)
        /\ Cardinality(started') \in Nat /\ Cardinality(started) \in Nat
    BY <2>1, FS_Subset, FS_CardinalityType
  <2> QED BY <2>1, <2>2, WatcherAssumption
<1> QED BY <1>1, <1>2, <1>3 DEF Counted

\* Nothing is passed on; at most repairLoop lets go of its token.
LEMMA QuietStep ==
  ASSUME IInv, UNCHANGED <<workers, repair, bw>>, byPort' \subseteq byPort,
         Loop' \subseteq Loop, rw' \in {rw, None},
         \A c \in Container : status'[c] # "paused" /\ (Ran(status[c]) => Ran(status'[c])),
         info' # "paused",
         rpc' = "start" => rpc = "start",
         rpc' \in {"build", "boot"} => rpc \in {"build", "boot"} /\ started' \subseteq started
  PROVE  Apart' /\ Alive' /\ Counted'
<1>1. UNCHANGED <<Elems(workers), Elems(repair), Single(workers), Single(repair), Held, Unique>>
  BY DEF Elems, Single, Held, Unique
<1>2. Tokens' \subseteq Tokens
  BY <1>1 DEF Tokens
<1>3. Apart'
  BY <1>1 DEF IInv, Apart
<1>4. Tokens \subseteq Container
  BY DEF IInv, Types, Tokens, Elems, Held, Loop
<1>5. Alive'
  BY <1>2, <1>4 DEF IInv, Alive, Types
<1> QED BY <1>2, <1>3, <1>5, CountKept DEF IInv

-----------------------------------------------------------------------------
(* Borrowers *)

\* A token is never in a place that another leaves it for: what is below is
\* the same in every action that passes one on.
Kept == /\ UNCHANGED <<byPort, status, info>>
        /\ rpc' = "start" => rpc = "start"
        /\ rpc' \in {"build", "boot"} => rpc \in {"build", "boot"}

LEMMA Passed ==
  ASSUME IInv, Kept, Apart', Tokens' \subseteq Tokens, rw' \in Tokens \cup {rw, None}
  PROVE  Apart' /\ Alive' /\ Counted'
<1>1. Counted'
  <2>1. started' = started
    BY DEF Kept, started
  <2> QED BY <2>1, CountKept DEF Kept, IInv
<1>2. Alive'
  BY DEF Kept, IInv, Alive
<1> QED BY <1>1, <1>2

LEMMA BorrowerTypes ==
  ASSUME Types, NEW b \in Borrower, BorrowCall(b) \/ borrower(b)
  PROVE  Types'
<1> USE WatcherAssumption DEF Types, dockerVars, containers, loopVars, ctlVars
<1>1. CASE BorrowCall(b)
  BY <1>1 DEF BorrowCall
<1>2. CASE BorrowTimeout(b)
  BY <1>2 DEF BorrowTimeout
<1>3. CASE BorrowReceive(b)
  <2>1. Head(workers) \in Container /\ Tail(workers) \in Seq(Container)
    BY <1>3, TakeFacts DEF BorrowReceive
  <2> QED BY <1>3, <2>1 DEF BorrowReceive
<1>4. CASE BorrowInspect(b)
  BY <1>4 DEF BorrowInspect, InspectWorkerContainer
<1>5. CASE BorrowInspectFails(b)
  BY <1>5 DEF BorrowInspectFails, InspectFails, Refused
<1>6. CASE BorrowSendRepair(b)
  <2>1. bw[b] \in Container
    BY <1>6 DEF BorrowSendRepair
  <2>2. Append(repair, bw[b]) \in Seq(Container)
    BY <2>1, AppendFacts
  <2> QED BY <1>6, <2>2 DEF BorrowSendRepair
<1>7. CASE Return(b)
  <2>1. bw[b] \in Container
    BY <1>7 DEF Return
  <2>2. Append(workers, bw[b]) \in Seq(Container)
    BY <2>1, AppendFacts
  <2> QED BY <1>7, <2>2 DEF Return
<1>8. CASE BorrowPanics(b)
  BY <1>8 DEF BorrowPanics
<1> QED BY <1>1, <1>2, <1>3, <1>4, <1>5, <1>6, <1>7, <1>8 DEF borrower

LEMMA BorrowerStep ==
  ASSUME IInv, NEW b \in Borrower, BorrowCall(b) \/ borrower(b)
  PROVE  IInv'
<1> USE DEF dockerVars, containers, loopVars, ctlVars
<1>0. Types /\ Apart /\ Unique /\ Types'
  BY BorrowerTypes DEF IInv, Apart
<1>1. CASE BorrowCall(b) \/ BorrowTimeout(b) \/ BorrowInspect(b)
  <2>1. UNCHANGED <<workers, repair, bw, byPort, status, info, rpc, rw>>
    BY <1>1 DEF BorrowCall, BorrowTimeout, BorrowInspect
  <2>2. Loop' = Loop /\ started' = started
    BY <2>1 DEF Loop, started
  <2> QED BY <1>0, <2>1, <2>2, QuietStep DEF IInv, Alive
<1>2. CASE BorrowReceive(b)
  <2> DEFINE x == Head(workers)
  <2>1. /\ workers # <<>> /\ workers' = Tail(workers) /\ bw' = [bw EXCEPT ![b] = x]
        /\ UNCHANGED <<repair, rpc, rw>> /\ Kept /\ bw[b] = None
    BY <1>0, <1>2 DEF BorrowReceive, Kept, Types
  <2>2. /\ x \in Container /\ Elems(workers) = Elems(workers') \cup {x}
        /\ Single(workers') /\ x \notin Elems(workers')
    BY <1>0, <2>1, TakeFacts DEF Types, Apart
  <2>3. x \notin Held /\ x \notin Elems(repair) /\ x \notin Loop
    BY <1>0, <2>2 DEF Apart
  <2>4. Unique' /\ Held' = Held \cup {x}
    BY <1>0, <2>1, <2>2, <2>3, TakesIn
  <2>5. UNCHANGED <<Elems(repair), Single(repair), Loop>> /\ Elems(workers)' = Elems(workers')
        /\ Single(workers)'
    BY <2>1, <2>2 DEF Elems, Single, Loop
  <2> HIDE DEF x
  <2>6. Apart' /\ Tokens' = Tokens
    BY <1>0, <2>2, <2>3, <2>4, <2>5 DEF Apart, Tokens
  <2> QED BY <1>0, <2>1, <2>6, Passed DEF IInv
<1>3. CASE BorrowInspectFails(b) \/ BorrowPanics(b)
  <2>1. bw' = [bw EXCEPT ![b] = None] /\ UNCHANGED <<workers, repair, rpc, rw>> /\ Kept
    BY <1>3 DEF BorrowInspectFails, BorrowPanics, Kept
  <2>2. Unique' /\ Held' \subseteq Held
    BY <1>0, <2>1, HandsOut
  <2>3. UNCHANGED <<Elems(workers), Single(workers), Elems(repair), Single(repair), Loop>>
    BY <2>1 DEF Elems, Single, Loop
  <2>4. Apart' /\ Tokens' \subseteq Tokens
    BY <1>0, <2>2, <2>3 DEF Apart, Tokens
  <2> QED BY <1>0, <2>1, <2>4, Passed DEF IInv
<1>4. CASE BorrowSendRepair(b)
  <2> DEFINE x == bw[b]
  <2>1. /\ bw' = [bw EXCEPT ![b] = None] /\ repair' = Append(repair, x)
        /\ UNCHANGED <<workers, rpc, rw>> /\ Kept /\ x \in Container /\ x \in Held
    BY <1>0, <1>4 DEF BorrowSendRepair, Kept, Types, Held
  <2>2. Unique' /\ Held' = Held \ {x}
    BY <1>0, <2>1, HandsOut
  <2>3. x \notin Elems(workers) /\ x \notin Elems(repair) /\ x \notin Loop
    BY <1>0, <2>1 DEF Apart
  <2>4. Elems(repair') = Elems(repair) \cup {x} /\ Single(repair')
    BY <1>0, <2>1, <2>3, AppendFacts DEF Types, Apart
  <2>5. UNCHANGED <<Elems(workers), Single(workers), Loop>> /\ Elems(repair)' = Elems(repair')
        /\ Single(repair)'
    BY <2>1, <2>4 DEF Elems, Single, Loop
  <2> HIDE DEF x
  <2>6. Apart' /\ Tokens' = Tokens
    BY <1>0, <2>1, <2>2, <2>3, <2>4, <2>5 DEF Apart, Tokens
  <2> QED BY <1>0, <2>1, <2>6, Passed DEF IInv
<1>5. CASE Return(b)
  <2> DEFINE x == bw[b]
  <2>1. /\ bw' = [bw EXCEPT ![b] = None] /\ workers' = Append(workers, x)
        /\ UNCHANGED <<repair, rpc, rw>> /\ Kept /\ x \in Container /\ x \in Held
    BY <1>0, <1>5 DEF Return, Kept, Types, Held
  <2>2. Unique' /\ Held' = Held \ {x}
    BY <1>0, <2>1, HandsOut
  <2>3. x \notin Elems(workers) /\ x \notin Elems(repair) /\ x \notin Loop
    BY <1>0, <2>1 DEF Apart
  <2>4. Elems(workers') = Elems(workers) \cup {x} /\ Single(workers')
    BY <1>0, <2>1, <2>3, AppendFacts DEF Types, Apart
  <2>5. UNCHANGED <<Elems(repair), Single(repair), Loop>> /\ Elems(workers)' = Elems(workers')
        /\ Single(workers)'
    BY <2>1, <2>4 DEF Elems, Single, Loop
  <2> HIDE DEF x
  <2>6. Apart' /\ Tokens' = Tokens
    BY <1>0, <2>1, <2>2, <2>3, <2>4, <2>5 DEF Apart, Tokens
  <2> QED BY <1>0, <2>1, <2>6, Passed DEF IInv
<1> QED BY <1>1, <1>2, <1>3, <1>4, <1>5 DEF borrower

-----------------------------------------------------------------------------
(* New containers *)

\* What Create does, and that it keeps the types.
CreateTypes == /\ status' \in [Container -> Status]
               /\ port' \in [Container -> Port \cup {None}]

DockerTypes == CreateTypes /\ orphans' \subseteq Container

LEMMA Created ==
  ASSUME Types, NEW c \in Container, NEW s \in Status, Create(c, s)
  PROVE  /\ CreateTypes
         /\ status[c] = "none" /\ status' = [status EXCEPT ![c] = s]
         /\ \A d \in Container : d # c => status'[d] = status[d] /\ port'[d] = port[d]
         /\ status'[c] = s
<1>1. status[c] = "none" /\ status' = [status EXCEPT ![c] = s]
  BY DEF Create
<1>2. PICK p \in Port : port' = [port EXCEPT ![c] = p]
  <2>1. \A p \in getFreePort : p \in Port
    BY DEF getFreePort
  <2> QED BY <2>1 DEF Create
<1> QED BY <1>1, <1>2 DEF Types, CreateTypes

LEMMA FailedStart ==
  ASSUME Types, StartContainerFails
  PROVE  /\ DockerTypes /\ UNCHANGED faults
         /\ \A d \in Container :
              \/ UNCHANGED <<status[d], port[d]>>
              \/ status[d] = "none" /\ status'[d] \in {"created", "running"} /\ d \in orphans'
         /\ orphans \subseteq orphans'
<1>1. UNCHANGED faults
  BY DEF StartContainerFails
<1>2. CASE UNCHANGED containers
  BY <1>1, <1>2 DEF containers, Types, DockerTypes, CreateTypes
<1>3. ASSUME NEW c \in Container, NEW s \in {"created", "running"}, Create(c, s), Lose({c})
      PROVE  /\ DockerTypes
             /\ \A d \in Container :
                  \/ UNCHANGED <<status[d], port[d]>>
                  \/ status[d] = "none" /\ status'[d] \in {"created", "running"} /\ d \in orphans'
             /\ orphans \subseteq orphans'
  <2>1. s \in Status
    BY DEF Status
  <2>2. /\ CreateTypes
        /\ \A d \in Container : d # c => status'[d] = status[d] /\ port'[d] = port[d]
        /\ status[c] = "none" /\ status'[c] = s
    BY <1>3, <2>1, Created
  <2>3. orphans' = orphans \cup {c}
    BY <1>3, <2>2 DEF Lose
  <2> QED BY <2>2, <2>3 DEF DockerTypes, Types
<1> QED BY <1>1, <1>2, <1>3 DEF StartContainerFails

-----------------------------------------------------------------------------
(* repairLoop *)

LEMMA LoopTypes ==
  ASSUME Types, repairLoop
  PROVE  Types'
<1> USE WatcherAssumption DEF Types, dockerVars, containers, loopVars, ctlVars
<1>1. CASE LoopDone
  BY <1>1 DEF LoopDone
<1>2. CASE LoopReceive
  <2>1. Head(repair) \in Container /\ Tail(repair) \in Seq(Container)
    BY <1>2, TakeFacts DEF LoopReceive
  <2> QED BY <1>2, <2>1 DEF LoopReceive
<1>3. CASE LoopReplace
  <2>1. status' \in [Container -> Status] /\ faults' \in 0 .. MaxFaults /\ orphans' \subseteq Container
    BY <1>3 DEF LoopReplace, RemoveWorkerContainer, InspectFails, Refused, Lose, Entry, Status
  <2> QED BY <1>3, <2>1 DEF LoopReplace
<1>4. CASE LoopInspect
  BY <1>4 DEF LoopInspect, InspectWorkerContainer
<1>5. CASE LoopStartFails
  <2>1. DockerTypes /\ UNCHANGED faults
    BY <1>5, FailedStart DEF LoopStartFails
  <2> QED BY <1>5, <2>1 DEF LoopStartFails, DockerTypes, CreateTypes
<1>6. ASSUME NEW c \in Container, LoopStart(c) PROVE Types'
  <2>1. CreateTypes
    BY <1>6, Created DEF LoopStart, StartContainer, Status
  <2> QED BY <1>6, <2>1 DEF LoopStart, StartContainer, CreateTypes
<1>7. CASE LoopSendNew
  <2>1. Append(workers, rw) \in Seq(Container)
    BY <1>7, AppendFacts DEF LoopSendNew
  <2> QED BY <1>7, <2>1 DEF LoopSendNew
<1>8. CASE LoopRegister
  BY <1>8 DEF LoopRegister, Lose, Entry
<1>9. CASE ProcessRunning
  <2>1. Append(workers, rw) \in Seq(Container)
    BY <1>9, AppendFacts DEF ProcessRunning
  <2> QED BY <1>9, <2>1 DEF ProcessRunning
<1>10. CASE ProcessStopped
  BY <1>10 DEF ProcessStopped
<1>11. CASE ProcessRestart
  <2>1. status' = status \/ status' = [status EXCEPT ![rw] = "running"]
    BY <1>11 DEF ProcessRestart, RestartWorkerContainer
  <2>2. status' \in [Container -> Status]
    BY <2>1 DEF Status
  <2>3. faults' \in 0 .. MaxFaults
    BY <1>11 DEF ProcessRestart, RestartWorkerContainer, Refused
  <2> QED BY <1>11, <2>2, <2>3 DEF ProcessRestart
<1>12. CASE ProcessSendRepair
  <2>1. Append(repair, rw) \in Seq(Container)
    BY <1>12, AppendFacts DEF ProcessSendRepair
  <2> QED BY <1>12, <2>1 DEF ProcessSendRepair
<1> QED BY <1>1, <1>2, <1>3, <1>4, <1>5, <1>6, <1>7, <1>8, <1>9, <1>10, <1>11, <1>12 DEF repairLoop

\* The loop gives its token to a channel.
LEMMA LoopGives ==
  ASSUME IInv, Kept, rw # None, rpc # "register", Loop' = {}, UNCHANGED bw, rw' \in {rw, None},
         \/ workers' = Append(workers, rw) /\ UNCHANGED repair
         \/ repair' = Append(repair, rw) /\ UNCHANGED workers
  PROVE  Apart' /\ Alive' /\ Counted'
<1>0. Types /\ Apart /\ rw \in Container /\ Loop = {rw}
  BY DEF IInv, Types, Loop
<1>1. rw \notin Elems(workers) /\ rw \notin Elems(repair) /\ rw \notin Held
  BY <1>0 DEF Apart
<1>2. UNCHANGED <<Held, Unique>>
  BY DEF Held, Unique
<1>3. CASE workers' = Append(workers, rw) /\ UNCHANGED repair
  <2>1. Elems(workers') = Elems(workers) \cup {rw} /\ Single(workers')
    BY <1>0, <1>1, <1>3, AppendFacts DEF Types, Apart
  <2>2. UNCHANGED <<Elems(repair), Single(repair)>> /\ Elems(workers)' = Elems(workers')
        /\ Single(workers)'
    BY <1>3, <2>1 DEF Elems, Single
  <2>3. Apart' /\ Tokens' = Tokens
    BY <1>0, <1>1, <1>2, <2>1, <2>2 DEF Apart, Tokens
  <2> QED BY <2>3, Passed
<1>4. CASE repair' = Append(repair, rw) /\ UNCHANGED workers
  <2>1. Elems(repair') = Elems(repair) \cup {rw} /\ Single(repair')
    BY <1>0, <1>1, <1>4, AppendFacts DEF Types, Apart
  <2>2. UNCHANGED <<Elems(workers), Single(workers)>> /\ Elems(repair)' = Elems(repair')
        /\ Single(repair)'
    BY <1>4, <2>1 DEF Elems, Single
  <2>3. Apart' /\ Tokens' = Tokens
    BY <1>0, <1>1, <1>2, <2>1, <2>2 DEF Apart, Tokens
  <2> QED BY <2>3, Passed
<1> QED BY <1>3, <1>4

LEMMA LoopStep ==
  ASSUME IInv, repairLoop
  PROVE  IInv'
<1> USE DEF dockerVars, containers, loopVars, ctlVars
<1>0. Types /\ Apart /\ Unique /\ Types'
  BY LoopTypes DEF IInv, Apart
<1>1. CASE LoopDone \/ LoopInspect \/ LoopStartFails \/ ProcessStopped \/ ProcessRestart
  <2>1. UNCHANGED <<workers, repair, bw, byPort>>
    BY <1>1 DEF LoopDone, LoopInspect, LoopStartFails, ProcessStopped, ProcessRestart
  <2>2. /\ rpc' \notin {"register", "start", "build", "boot"} /\ rpc # "register"
        /\ rw' \in {rw, None}
    BY <1>1 DEF LoopDone, LoopInspect, LoopStartFails, ProcessStopped, ProcessRestart
  <2>3. info' # "paused"
    BY <1>0, <1>1 DEF LoopDone, LoopInspect, LoopStartFails, ProcessStopped, ProcessRestart,
                      IInv, Alive, Types
  <2>4. \A c \in Container : status'[c] # "paused" /\ (Ran(status[c]) => Ran(status'[c]))
    <3>1. CASE LoopStartFails
      BY <1>0, <3>1, FailedStart DEF LoopStartFails, IInv, Alive, Ran, Types
    <3>2. CASE ProcessRestart
      BY <1>0, <3>2 DEF ProcessRestart, RestartWorkerContainer, IInv, Alive, Ran, Types
    <3> QED BY <1>0, <1>1, <3>1, <3>2 DEF LoopDone, LoopInspect, ProcessStopped, IInv, Alive
  <2>5. Loop' \subseteq Loop
    BY <2>2 DEF Loop
  <2> QED BY <1>0, <2>1, <2>2, <2>3, <2>4, <2>5, QuietStep DEF IInv
<1>2. CASE LoopReceive
  <2> DEFINE x == Head(repair)
  <2>1. /\ repair # <<>> /\ repair' = Tail(repair) /\ rw' = x /\ rpc' = "inspect"
        /\ UNCHANGED <<workers, bw>> /\ Kept /\ rw = None
    BY <1>0, <1>2 DEF LoopReceive, Kept, Types
  <2>2. /\ x \in Container /\ Elems(repair) = Elems(repair') \cup {x}
        /\ Single(repair') /\ x \notin Elems(repair')
    BY <1>0, <2>1, TakeFacts DEF Types, Apart
  <2>3. x \notin Held /\ x \notin Elems(workers)
    BY <1>0, <2>2 DEF Apart
  <2>4. UNCHANGED <<Elems(workers), Single(workers), Held, Unique>> /\ Elems(repair)' = Elems(repair')
        /\ Single(repair)' /\ rw' = x
    BY <2>1, <2>2 DEF Elems, Single, Held, Unique
  <2>5. Loop = {} /\ Loop' = {x}
    BY <2>1, <2>2, WatcherAssumption DEF Loop
  <2> HIDE DEF x
  <2>6. Apart' /\ Tokens' = Tokens
    BY <1>0, <2>2, <2>3, <2>4, <2>5 DEF Apart, Tokens
  <2>7. rw' \in Tokens
    BY <2>2, <2>4 DEF Tokens
  <2> QED BY <1>0, <2>1, <2>6, <2>7, Passed DEF IInv
<1>3. CASE LoopReplace
  <2>1. /\ rw \in Container /\ Loop = {rw} /\ Loop' = {} /\ rpc' = "start"
        /\ UNCHANGED <<workers, repair, bw, info>> /\ rpc = "inspect"
    BY <1>0, <1>3 DEF LoopReplace, Types, Loop
  <2>2. UNCHANGED <<Elems(workers), Elems(repair), Single(workers), Single(repair), Held, Unique>>
    BY <2>1 DEF Elems, Single, Held, Unique
  <2>3. Tokens' = Tokens \ {rw} /\ rw \in Tokens
    BY <1>0, <2>1, <2>2 DEF Apart, Tokens
  <2>4. Apart'
    BY <1>0, <2>1, <2>2 DEF Apart
  <2>5. \A c \in Container : status'[c] # "paused" /\ (Ran(status[c]) => Ran(status'[c]))
    BY <1>0, <1>3 DEF LoopReplace, RemoveWorkerContainer, IInv, Alive, Ran, Types
  <2>6. Tokens \subseteq Container
    BY <1>0 DEF Types, Tokens, Elems, Held, Loop
  <2>7. Alive'
    <3>1. byPort' \subseteq byPort /\ byPort \subseteq Container /\ rw' = None
      BY <1>0, <1>3 DEF LoopReplace, Types
    <3> QED BY <2>1, <2>3, <2>5, <2>6, <3>1 DEF IInv, Alive
  <2>8. Counted'
    <3>1. IsFiniteSet(Tokens') /\ Cardinality(Tokens') = Cardinality(Tokens) - 1
      BY <2>3, FS_RemoveElement DEF IInv, Counted
    <3>2. Cardinality(Tokens) \in Nat /\ Cardinality(Tokens) <= WorkerCnt
      BY <2>1, FS_CardinalityType DEF IInv, Counted
    <3> QED BY <2>1, <3>1, <3>2, WatcherAssumption DEF Counted
  <2> QED BY <1>0, <2>4, <2>7, <2>8 DEF IInv
<1>4. ASSUME NEW c \in Container, LoopStart(c) PROVE IInv'
  <2>1. /\ status[c] = "none" /\ status' = [status EXCEPT ![c] = "running"]
        /\ rw = None /\ rw' = c /\ rpc = "start" /\ rpc' = "sendNew"
        /\ UNCHANGED <<workers, repair, bw, info, byPort>>
    BY <1>0, <1>4, Created DEF LoopStart, StartContainer, Types, Status
  <2>2. UNCHANGED <<Elems(workers), Elems(repair), Single(workers), Single(repair), Held, Unique>>
    BY <2>1 DEF Elems, Single, Held, Unique
  <2>3. Loop = {} /\ Loop' = {c}
    BY <2>1, WatcherAssumption DEF Loop
  <2>4. c \notin Tokens /\ Tokens' = Tokens \cup {c}
    BY <2>1, <2>2, <2>3 DEF IInv, Alive, Ran, Tokens
  <2>5. Apart'
    BY <1>0, <2>2, <2>3, <2>4 DEF Apart, Tokens
  <2>6. Alive'
    BY <1>0, <2>1, <2>4 DEF IInv, Alive, Ran, Types
  <2>7. Counted'
    <3>1. IsFiniteSet(Tokens') /\ Cardinality(Tokens') = Cardinality(Tokens) + 1
      BY <2>4, FS_AddElement DEF IInv, Counted
    <3>2. Cardinality(Tokens) \in Nat /\ Cardinality(Tokens) <= WorkerCnt - 1
      BY <2>1, FS_CardinalityType DEF IInv, Counted
    <3> QED BY <2>1, <3>1, <3>2, WatcherAssumption DEF IInv, Counted
  <2> QED BY <1>0, <2>5, <2>6, <2>7 DEF IInv
<1>5. CASE LoopSendNew
  <2>1. /\ rw # None /\ rpc # "register" /\ Loop' = {} /\ workers' = Append(workers, rw)
        /\ UNCHANGED <<repair, bw>> /\ Kept /\ rw' \in {rw, None}
    BY <1>0, <1>5 DEF LoopSendNew, Types, Loop, Kept
  <2> QED BY <1>0, <2>1, LoopGives DEF IInv
<1>6. CASE LoopRegister
  <2>1. /\ rpc = "register" /\ rpc' = "select" /\ UNCHANGED <<workers, repair, bw, status, info>>
        /\ rw' = None
    BY <1>6 DEF LoopRegister
  <2>2. UNCHANGED <<Elems(workers), Elems(repair), Single(workers), Single(repair), Held, Unique, Loop>>
    BY <2>1 DEF Elems, Single, Held, Unique, Loop
  <2>3. Apart' /\ Tokens' = Tokens
    BY <1>0, <2>2 DEF Apart, Tokens
  <2>4. Alive'
    <3>1. byPort' \subseteq byPort \cup {rw} /\ rw # None
      BY <1>0, <1>6 DEF LoopRegister, Types
    <3> QED BY <2>1, <2>3, <3>1 DEF IInv, Alive
  <2>5. Counted'
    BY <2>1, <2>3 DEF IInv, Counted
  <2> QED BY <1>0, <2>3, <2>4, <2>5 DEF IInv
<1>7. CASE ProcessRunning
  <2>1. ~Broken(info)
    BY <1>7 DEF ProcessRunning, Running, Broken, IInv, Alive
  <2>2. /\ rw # None /\ rpc # "register" /\ Loop' = {} /\ workers' = Append(workers, rw)
        /\ UNCHANGED <<repair, bw>> /\ Kept /\ rw' \in {rw, None}
    BY <1>0, <1>7, <2>1 DEF ProcessRunning, Types, Loop, Kept
  <2> QED BY <1>0, <2>2, LoopGives DEF IInv
<1>8. CASE ProcessSendRepair
  <2>1. /\ rw # None /\ rpc # "register" /\ Loop' = {} /\ repair' = Append(repair, rw)
        /\ UNCHANGED <<workers, bw>> /\ Kept /\ rw' \in {rw, None}
    BY <1>0, <1>8 DEF ProcessSendRepair, Types, Loop, Kept
  <2> QED BY <1>0, <2>1, LoopGives DEF IInv
<1> QED BY <1>1, <1>2, <1>3, <1>4, <1>5, <1>6, <1>7, <1>8 DEF repairLoop

-----------------------------------------------------------------------------
(* Init, and everything that moves no token *)
LEMMA BootStep ==
  ASSUME IInv, boot
  PROVE  IInv'
<1> USE DEF dockerVars, containers, loopVars, ctlVars
<1>0. Types /\ Apart
  BY DEF IInv
<1>1. CASE BuildImage \/ BootFails \/ BootDone
  <2>1. UNCHANGED <<workers, repair, bw, rw, info>>
    BY <1>1 DEF BuildImage, BootFails, BootDone
  <2>2. /\ rpc \in {"build", "boot"} /\ rpc' \in {"boot", "done", "select"}
        /\ bpc' = bpc /\ cancelled' = cancelled /\ panicked' = panicked
        /\ stopPc' \in {stopPc, "wait"}
    BY <1>1 DEF BuildImage, BootFails, BootDone
  <2>3. /\ DockerTypes /\ UNCHANGED faults /\ byPort' = byPort
        /\ \A c \in Container : status'[c] # "paused" /\ (Ran(status[c]) => Ran(status'[c]))
    <3>1. CASE BootFails
      BY <1>0, <3>1, FailedStart DEF BootFails, IInv, Alive, Ran, Types
    <3>2. CASE BuildImage \/ BootDone
      BY <1>0, <3>2 DEF BuildImage, BootDone, IInv, Alive, Types, DockerTypes, CreateTypes
    <3> QED BY <1>1, <3>1, <3>2
  <2>4. rpc' \in {"build", "boot"} => started' = started
    BY <1>1 DEF BuildImage, BootFails, BootDone, started
  <2>5. rw = None /\ Types'
    BY <1>0, <2>1, <2>2, <2>3 DEF Types, DockerTypes, CreateTypes
  <2>6. Loop' \subseteq Loop
    BY <2>1, <2>2 DEF Loop
  <2>7. info' # "paused"
    BY <2>1 DEF IInv, Alive
  <2> QED BY <2>1, <2>2, <2>3, <2>4, <2>5, <2>6, <2>7, QuietStep DEF IInv
<1>2. ASSUME NEW c \in Container, BootWorker(c) PROVE IInv'
  <2>1. /\ status[c] = "none" /\ status' = [status EXCEPT ![c] = "running"]
        /\ workers' = Append(workers, c) /\ rpc = "boot" /\ CreateTypes
        /\ UNCHANGED <<repair, bw, rpc, rw, info, faults, bpc, cancelled, stopPc, panicked>>
        /\ Cardinality(started) < WorkerCnt
        /\ byPort' \subseteq byPort \cup {c} /\ orphans' \subseteq orphans \cup byPort
    <3>1. "running" \in Status
      BY DEF Status
    <3> QED BY <1>0, <1>2, <3>1, Created DEF BootWorker, Lose, Entry
  <2>2. c \notin Tokens
    BY <2>1 DEF IInv, Alive, Ran
  <2>3. /\ workers' \in Seq(Container) /\ Elems(workers') = Elems(workers) \cup {c}
        /\ Single(workers')
    BY <1>0, <2>1, <2>2, AppendFacts DEF Types, Apart, Tokens
  <2>4. UNCHANGED <<Elems(repair), Single(repair), Held, Unique, Loop>>
        /\ Elems(workers)' = Elems(workers') /\ Single(workers)'
    BY <2>1, <2>3 DEF Elems, Single, Held, Unique, Loop
  <2>5. Types'
    BY <1>0, <2>1, <2>3 DEF Types, CreateTypes
  <2>6. Tokens' = Tokens \cup {c}
    BY <2>3, <2>4 DEF Tokens
  <2>7. Apart'
    BY <1>0, <2>2, <2>3, <2>4 DEF Apart, Tokens
  <2>8. Alive'
    BY <1>0, <2>1, <2>6 DEF IInv, Alive, Ran, Types
  <2>9. Counted'
    <3>1. IsFiniteSet(started) /\ Cardinality(started) \in Nat
      BY <2>1, FS_CardinalityType DEF IInv, Counted
    <3>2. /\ IsFiniteSet(started') /\ Cardinality(started') \in Nat
          /\ Cardinality(started') <= Cardinality(started) + 1
      <4>1. started' = started \cup {c}
        BY <1>0, <2>1 DEF started, Types
      <4>2. /\ IsFiniteSet(started')
            /\ Cardinality(started') \in {Cardinality(started), Cardinality(started) + 1}
        BY <3>1, <4>1, FS_AddElement
      <4> QED BY <3>1, <4>2
    <3>3. Tokens' \subseteq started'
      BY <2>5, <2>8 DEF Alive, Ran, started, Types, Tokens, Elems, Held, Loop
    <3>4. IsFiniteSet(Tokens') /\ Cardinality(Tokens') <= Cardinality(started') /\ Cardinality(Tokens') \in Nat
      BY <3>2, <3>3, FS_Subset, FS_CardinalityType
    <3> QED BY <2>1, <3>1, <3>2, <3>4, WatcherAssumption DEF Counted
  <2> QED BY <2>5, <2>7, <2>8, <2>9 DEF IInv
<1> QED BY <1>1, <1>2 DEF boot

\* Faults, the cancellation and Stop.
Control == \/ \E c \in Container, f \in Faults : Fault(c, f)
           \/ Cancel \/ StopCall \/ StopClose \/ StopRemove

LEMMA ControlStep ==
  ASSUME "paused" \notin Faults, IInv, Control
  PROVE  IInv'
<1> USE DEF dockerVars, containers, loopVars, ctlVars
<1>0. Types /\ Alive
  BY DEF IInv
<1> DEFINE DockerKnows ==
      /\ status' \in [Container -> Status] /\ faults' \in 0 .. MaxFaults /\ orphans' \subseteq Container
      /\ \A c \in Container : status'[c] # "paused" /\ (Ran(status[c]) => Ran(status'[c]))
      /\ \A c \in Container : status[c] = "none" => status'[c] = "none"
<1>1. DockerKnows
  <2>1. ASSUME NEW c \in Container, NEW f \in Faults, Fault(c, f) PROVE DockerKnows
    BY <1>0, <2>1, WatcherAssumption DEF Fault, FaultKinds, Types, Alive, Ran, Status
  <2>2. CASE Cancel \/ StopCall \/ StopClose
    BY <1>0, <2>2 DEF Cancel, StopCall, StopBegins, StopClose, Types, Alive
  <2>3. CASE StopRemove
    BY <1>0, <2>3 DEF StopRemove, Lose, Types, Alive, Ran, Status
  <2> QED BY <2>1, <2>2, <2>3 DEF Control
<1>2. /\ UNCHANGED <<workers, repair, port, byPort, bpc, bw, rpc, rw, info, panicked>>
      /\ cancelled' \in {cancelled, TRUE} /\ stopPc' \in {stopPc, "wait", "remove", "stopped"}
  BY DEF Control, Fault, Cancel, StopCall, StopBegins, StopClose, StopRemove
<1>3. Types'
  BY <1>0, <1>1, <1>2 DEF Types
<1>4. Loop' \subseteq Loop /\ info' # "paused" /\ started' \subseteq started
  BY <1>0, <1>1, <1>2 DEF Loop, Alive, started
<1> QED BY <1>1, <1>2, <1>3, <1>4, QuietStep DEF IInv

LEMMA InitEstablishes == Init => IInv
<1> SUFFICES ASSUME Init PROVE IInv
  OBVIOUS
<1> USE WatcherAssumption
<1>1. Elems(workers) = {} /\ Elems(repair) = {} /\ Single(workers) /\ Single(repair)
  BY DEF Init, Elems, Single
<1>2. Held = {} /\ Loop = {} /\ Unique
  BY DEF Init, Held, Loop, Unique
<1>3. Tokens = {}
  BY <1>1, <1>2 DEF Tokens
<1>4. Types
  <2>1. workers \in Seq(Container) /\ repair \in Seq(Container)
    BY DEF Init
  <2>2. status \in [Container -> Status] /\ info \in Status /\ faults \in 0 .. MaxFaults
    BY DEF Init, Status
  <2> QED BY <2>1, <2>2 DEF Init, Types
<1>5. Apart
  BY <1>1, <1>2 DEF Apart
<1>6. Alive
  BY <1>3 DEF Init, Alive
<1>7. Counted
  <2>1. started = {}
    BY DEF Init, started
  <2> QED BY <1>3, <2>1, FS_EmptySet DEF Init, Counted
<1> QED BY <1>4, <1>5, <1>6, <1>7 DEF IInv

LEMMA NextPreserves ==
  ASSUME "paused" \notin Faults, IInv, [Next]_vars
  PROVE  IInv'
<1>1. CASE boot
  BY <1>1, BootStep
<1>2. CASE \E b \in Borrower : BorrowCall(b) \/ borrower(b)
  BY <1>2, BorrowerStep
<1>3. CASE repairLoop
  BY <1>3, LoopStep
<1>4. CASE Control
  BY <1>4, ControlStep
<1>5. CASE UNCHANGED vars
  <2> USE DEF vars, dockerVars, containers, loopVars, ctlVars
  <2>1. Types'
    BY <1>5 DEF IInv, Types
  <2>2. Loop' \subseteq Loop /\ info' # "paused"
    BY <1>5 DEF IInv, Alive, Loop
  <2>3. /\ \A c \in Container : status'[c] # "paused" /\ (Ran(status[c]) => Ran(status'[c]))
        /\ started' = started
    BY <1>5 DEF IInv, Alive, started
  <2> QED BY <1>5, <2>1, <2>2, <2>3, QuietStep DEF IInv
<1> QED BY <1>1, <1>2, <1>3, <1>4, <1>5 DEF Next, Control

LEMMA InvariantHolds ==
  ASSUME "paused" \notin Faults
  PROVE  Spec => []IInv
BY InitEstablishes, NextPreserves, PTL DEF Spec

-----------------------------------------------------------------------------
\* What follows from the invariant.
LEMMA OnePlace ==
  ASSUME IInv
  PROVE  OneTokenPerWorker
<1> SUFFICES ASSUME NEW c \in Container PROVE Cardinality(Places(c)) <= 1
  BY DEF OneTokenPerWorker
<1>0. Types /\ Apart /\ c # None
  BY WatcherAssumption DEF IInv
<1> DEFINE A == {<<"workers", i>> : i \in {j \in DOMAIN workers : workers[j] = c}}
           B == {<<"repair", i>> : i \in {j \in DOMAIN repair : repair[j] = c}}
           C == {<<"borrower", b>> : b \in {x \in Borrower : bw[x] = c}}
           D == {<<"repairLoop", 1>> : i \in {x \in {1} : rw = c /\ rpc # "register"}}
<1>1. DOMAIN workers = 1 .. Len(workers) /\ DOMAIN repair = 1 .. Len(repair)
  BY <1>0 DEF Types
<1>2. (A # {} => c \in Elems(workers)) /\ \A p, q \in A : p = q
  BY <1>0, <1>1 DEF Elems, Single, Apart
<1>3. (B # {} => c \in Elems(repair)) /\ \A p, q \in B : p = q
  BY <1>0, <1>1 DEF Elems, Single, Apart
<1>4. (C # {} => c \in Held) /\ \A p, q \in C : p = q
  BY <1>0 DEF Held, Unique, Apart
<1>5. (D # {} => c \in Loop) /\ \A p, q \in D : p = q
  BY <1>0 DEF Loop
<1>6. Places(c) = A \cup B \cup C \cup D
  BY DEF Places
<1> HIDE DEF A, B, C, D
<1>7. \A p, q \in Places(c) : p = q
  BY <1>0, <1>2, <1>3, <1>4, <1>5, <1>6 DEF Apart
<1>8. CASE Places(c) = {}
  BY <1>8, FS_EmptySet
<1>9. CASE Places(c) # {}
  <2>1. PICK p \in Places(c) : Places(c) = {p}
    BY <1>7, <1>9
  <2> QED BY <2>1, FS_Singleton
<1> QED BY <1>8, <1>9

LEMMA Room ==
  ASSUME IInv, NEW ch, ch = workers \/ ch = repair
  PROVE  /\ Len(ch) \in Nat /\ Len(ch) <= WorkerCnt
         /\ (\E c \in Tokens : c \notin Elems(ch)) => Len(ch) < WorkerCnt
<1>1. ch \in Seq(Container) /\ Single(ch) /\ Elems(ch) \subseteq Tokens
  BY DEF IInv, Types, Apart, Tokens
<1>2. /\ IsFiniteSet(Elems(ch)) /\ Cardinality(Elems(ch)) = Len(ch) /\ Len(ch) \in Nat
  BY <1>1, CountElems
<1>3. /\ IsFiniteSet(Tokens) /\ Cardinality(Tokens) \in Nat /\ Cardinality(Tokens) <= WorkerCnt
  BY FS_CardinalityType, WatcherAssumption DEF IInv, Counted
<1>4. Len(ch) <= Cardinality(Tokens)
  BY <1>1, <1>2, <1>3, FS_Subset
<1>5. ASSUME NEW c \in Tokens, c \notin Elems(ch) PROVE Len(ch) < WorkerCnt
  <2>1. Elems(ch) # Tokens
    BY <1>5
  <2>2. Cardinality(Elems(ch)) # Cardinality(Tokens)
    BY <1>1, <1>3, <2>1, FS_Subset
  <2> QED BY <1>2, <1>3, <1>4, <2>2, WatcherAssumption
<1> QED BY <1>2, <1>3, <1>4, <1>5, WatcherAssumption

LEMMA RoomToSend ==
  ASSUME IInv
  PROVE  SendsNeverBlock
<1>0. Types /\ Apart
  BY DEF IInv
<1>1. ASSUME NEW c \in Tokens, c \notin Elems(workers) PROVE Len(workers) < WorkerCnt
  BY <1>1, Room
<1>2. ASSUME NEW c \in Tokens, c \notin Elems(repair) PROVE Len(repair) < WorkerCnt
  BY <1>2, Room
<1>3. ASSUME rpc \in {"sendNew", "process", "sendRepair"}
      PROVE  rw \in Tokens /\ rw \notin Elems(workers) /\ rw \notin Elems(repair)
  <2>1. rw \in Loop
    BY <1>0, <1>3 DEF Types, Loop
  <2> QED BY <1>0, <2>1 DEF Apart, Tokens
<1>4. ASSUME NEW b \in Borrower, bpc[b] \in {"using", "sendRepair"}
      PROVE  bw[b] \in Tokens /\ bw[b] \notin Elems(workers) /\ bw[b] \notin Elems(repair)
  <2>1. bw[b] \in Held
    BY <1>0, <1>4 DEF Types, Held
  <2> QED BY <1>0, <2>1 DEF Apart, Tokens
<1> QED BY <1>1, <1>2, <1>3, <1>4 DEF SendsNeverBlock

-----------------------------------------------------------------------------
(* Every container that docker has is in the map, is about to be entered in*)
(* it, or was lost.                                                        *)
Exists(s) == s \notin {"none", "removed"}
Entering(c) == rpc \in {"sendNew", "register"} /\ rw = c

Mapped ==
  /\ \A c \in Container \ orphans : Exists(status[c]) => c \in byPort \/ Entering(c)
  /\ closed => rpc = "done"
  /\ NothingElseSurvivesStop

\* The map and repairLoop keep what they know, or lose it; so does docker.
LEMMA MappedKept ==
  ASSUME IInv, Mapped, UNCHANGED byPort, orphans \subseteq orphans',
         \A c \in Container : Exists(status'[c]) => Exists(status[c]) \/ c \in orphans',
         rpc \in {"sendNew", "register"} => rpc' \in {"sendNew", "register"} /\ rw' = rw,
         rpc = "done" => rpc' = "done",
         \/ UNCHANGED stopPc
         \/ stopPc' = "wait"
         \/ stopPc' = "remove" /\ rpc = "done"
  PROVE  Mapped'
<1>1. \A c \in Container \ orphans' : Exists(status'[c]) => c \in byPort \/ Entering(c)'
  BY DEF Mapped, Entering
<1> QED BY <1>1 DEF Mapped, Exists, closed, NothingElseSurvivesStop

\* What the map or repairLoop gives up is lost, and what it takes up new.
LEMMA MappedMoves ==
  ASSUME IInv, Mapped, rpc # "done", UNCHANGED stopPc, orphans \subseteq orphans',
         \A c \in Container \ orphans' : Exists(status'[c]) =>
           c \in byPort' \/ Entering(c)' \/ (Exists(status[c]) /\ c \notin byPort /\ ~Entering(c))
  PROVE  Mapped'
<1>1. ~closed /\ ~closed'
  BY DEF Mapped, closed
<1>2. \A c \in Container \ orphans' : Exists(status'[c]) => c \in byPort' \/ Entering(c)'
  BY DEF Mapped
<1> QED BY <1>1, <1>2 DEF Mapped, closed, NothingElseSurvivesStop

LEMMA MappedStep ==
  ASSUME IInv, Mapped, [Next]_vars
  PROVE  Mapped'
<1> USE DEF dockerVars, containers, loopVars, ctlVars
<1>0. Types
  BY DEF IInv
<1>a. "running" \in Status
  BY DEF Status
<1>1. CASE UNCHANGED vars
  BY <1>1, MappedKept DEF vars
<1>2. CASE \E b \in Borrower : BorrowCall(b) \/ borrower(b)
  BY <1>2, MappedKept DEF BorrowCall, borrower, BorrowTimeout, BorrowReceive, BorrowInspect,
        BorrowInspectFails, BorrowSendRepair, Return, BorrowPanics
<1>3. CASE \/ LoopDone \/ LoopReceive \/ LoopInspect \/ LoopSendNew
           \/ ProcessRunning \/ ProcessStopped \/ ProcessSendRepair
  BY <1>3, MappedKept DEF LoopDone, LoopReceive, LoopInspect, LoopSendNew, ProcessRunning,
        ProcessStopped, ProcessSendRepair
<1>4. CASE BuildImage \/ BootDone \/ Cancel \/ StopCall \/ StopClose
  BY <1>4, MappedKept DEF BuildImage, BootDone, Cancel, StopCall, StopBegins, StopClose
<1>5. ASSUME NEW c \in Container, BootWorker(c) PROVE Mapped'
  <2>1. /\ \A d \in Container \ {c} : status'[d] = status[d]
        /\ rpc = "boot" /\ UNCHANGED <<rpc, rw, stopPc>>
        /\ byPort' = (byPort \ Entry(port'[c])) \cup {c} /\ Lose(Entry(port'[c]))
    BY <1>0, <1>a, <1>5, Created DEF BootWorker
  <2>2. \A d \in byPort : d \in byPort' \/ d \in orphans' \/ ~Exists(status'[d])
    BY <1>0, <2>1 DEF Lose, Exists, Types, Entry
  <2>3. \A d \in Container : ~Entering(d)
    BY <2>1 DEF Entering
  <2>4. orphans \subseteq orphans' /\ c \in byPort'
    BY <2>1 DEF Lose
  <2> QED BY <2>1, <2>2, <2>3, <2>4, MappedMoves
<1>6. CASE BootFails \/ LoopStartFails
  <2>1. StartContainerFails /\ UNCHANGED byPort
    BY <1>6 DEF BootFails, LoopStartFails
  <2>2. /\ orphans \subseteq orphans'
        /\ \A c \in Container : Exists(status'[c]) => Exists(status[c]) \/ c \in orphans'
    BY <1>0, <2>1, FailedStart
  <2>3. /\ rpc \notin {"sendNew", "register", "done"}
        /\ UNCHANGED stopPc \/ stopPc' = "wait"
    BY <1>6 DEF BootFails, LoopStartFails
  <2> QED BY <2>1, <2>2, <2>3, MappedKept
<1>7. CASE LoopReplace
  <2>1. /\ rpc = "inspect" /\ rpc' = "start" /\ UNCHANGED stopPc
        /\ byPort' = byPort \ Entry(port[rw]) /\ Lose({rw} \cup Entry(port[rw]))
        /\ \A d \in Container : status'[d] \in {status[d], "removed"}
    BY <1>0, <1>7 DEF LoopReplace, RemoveWorkerContainer, Types
  <2>2. \A d \in byPort : d \in byPort' \/ d \in orphans' \/ ~Exists(status'[d])
    BY <1>0, <2>1 DEF Lose, Exists, Types, Entry
  <2>3. /\ \A d \in Container : ~Entering(d)
        /\ \A d \in Container : Exists(status'[d]) => Exists(status[d])
    BY <2>1 DEF Entering, Exists
  <2>4. orphans \subseteq orphans'
    BY <2>1 DEF Lose
  <2> QED BY <2>1, <2>2, <2>3, <2>4, MappedMoves
<1>8. ASSUME NEW c \in Container, LoopStart(c) PROVE Mapped'
  <2>1. /\ \A d \in Container \ {c} : status'[d] = status[d]
        /\ rpc = "start" /\ rpc' = "sendNew" /\ rw' = c /\ UNCHANGED <<stopPc, byPort, orphans>>
    BY <1>0, <1>a, <1>8, Created DEF LoopStart, StartContainer
  <2>2. Entering(c)' /\ \A d \in Container : ~Entering(d)
    BY <2>1 DEF Entering
  <2> QED BY <2>1, <2>2, MappedMoves
<1>9. CASE LoopRegister
  <2>1. /\ rpc = "register" /\ UNCHANGED <<status, stopPc>>
        /\ byPort' = (byPort \ Entry(port[rw])) \cup {rw} /\ Lose(Entry(port[rw]))
    BY <1>9 DEF LoopRegister
  <2>2. \A d \in byPort : d \in byPort' \/ d \in orphans' \/ ~Exists(status'[d])
    BY <1>0, <2>1 DEF Lose, Exists, Types, Entry
  <2>3. \A d \in Container : Entering(d) => d \in byPort'
    BY <2>1 DEF Entering
  <2>4. orphans \subseteq orphans'
    BY <2>1 DEF Lose
  <2> QED BY <2>1, <2>2, <2>3, <2>4, MappedMoves
<1>10. CASE ProcessRestart
  <2>1. /\ \A d \in Container \ {rw} : status'[d] = status[d]
        /\ UNCHANGED <<orphans, byPort, stopPc>> /\ rpc = "restart"
    BY <1>0, <1>10 DEF ProcessRestart, RestartWorkerContainer, Types
  <2>2. rw \in Container /\ Exists(status'[rw]) => Exists(status[rw])
    BY <1>0, <1>10 DEF ProcessRestart, RestartWorkerContainer, Restartable, Exists, IInv,
                       Alive, Ran, Types
  <2> QED BY <2>1, <2>2, MappedKept
<1>11. ASSUME NEW c \in Container, NEW f \in Faults, Fault(c, f) PROVE Mapped'
  <2>1. status[c] = "running" /\ status' = [status EXCEPT ![c] = f]
        /\ UNCHANGED <<orphans, byPort, rpc, rw, stopPc>>
    BY <1>11 DEF Fault
  <2>2. \A d \in Container : Exists(status'[d]) => Exists(status[d])
    BY <1>0, <2>1 DEF Exists, Types
  <2> QED BY <2>1, <2>2, MappedKept
<1>12. CASE StopRemove
  <2>1. /\ stopPc = "remove" /\ stopPc' = "stopped" /\ rpc = "done"
        /\ UNCHANGED <<byPort, rpc, rw>> /\ Lose(byPort)
    BY <1>12 DEF StopRemove, Mapped, closed
  <2>2. \A c \in Container \ byPort : status'[c] = status[c]
    BY <1>0, <1>12 DEF StopRemove, Types
  <2>3. \A c \in Container \ orphans' : ~Exists(status'[c])
    BY <1>0, <2>1, <2>2 DEF Mapped, Lose, Exists, Entering, Types
  <2> QED BY <2>1, <2>3 DEF Mapped, Exists, closed, NothingElseSurvivesStop
<1> QED BY <1>1, <1>2, <1>3, <1>4, <1>5, <1>6, <1>7, <1>8, <1>9, <1>10, <1>11, <1>12
        DEF Next, boot, repairLoop

(* No container outlives Stop but those that the watcher has lost: docker  *)
(* did not remove them, starting them was reported to have failed, or their*)
(* entry went with their port.  A worker that repairLoop starts is in the  *)
(* map before the loop can end, and Stop waits for the loop (watcher.go:255*)
(* ) before it walks the map.                                              *)
THEOREM NothingSurvives ==
  ASSUME "paused" \notin Faults
  PROVE  Spec => []NothingElseSurvivesStop
<1>1. Init => Mapped
  BY DEF Init, Mapped, Exists, closed, NothingElseSurvivesStop
<1>2. Mapped => NothingElseSurvivesStop
  BY DEF Mapped
<1> QED BY <1>1, <1>2, MappedStep, InvariantHolds, PTL DEF Spec

(* Unless something pauses a container, the watcher never hands one worker *)
(* to two requests, nor to a request and to repairLoop, whatever the number*)
(* of workers, of borrowers and of containers that fail.                   *)
THEOREM OneToken ==
  ASSUME "paused" \notin Faults
  PROVE  Spec => []OneTokenPerWorker
BY InvariantHolds, OnePlace, PTL

(* Neither Return nor BorrowWorker nor repairLoop blocks on a full channel:*)
(* there are at most cfg.WorkerCnt tokens and a sender holds one of them.  *)
THEOREM SendersHaveRoom ==
  ASSUME "paused" \notin Faults
  PROVE  Spec => []SendsNeverBlock
BY InvariantHolds, RoomToSend, PTL

\* The map has one entry of each port.
OnePerPort == \A c, d \in byPort : port[c] = port[d] => c = d

LEMMA OnePerPortStep ==
  ASSUME IInv, OnePerPort, [Next]_vars
  PROVE  OnePerPort'
<1> USE DEF dockerVars, containers, loopVars, ctlVars
<1>0. Types /\ \A c \in byPort : status[c] # "none"
  BY DEF IInv, Alive, Ran
<1>1. ASSUME NEW c \in Container, NEW s \in Status, Create(c, s)
      PROVE  c \notin byPort /\ \A d \in byPort : port'[d] = port[d]
  BY <1>0, <1>1, Created DEF Types
<1>2. ASSUME NEW c \in Container, BootWorker(c) PROVE OnePerPort'
  <2>1. /\ \A d \in byPort : port'[d] = port[d]
        /\ byPort' = {d \in byPort : port[d] # port'[c]} \cup {c}
    BY <1>1, <1>2 DEF BootWorker, Entry, Status
  <2> QED BY <2>1 DEF OnePerPort
<1>3. CASE LoopRegister
  <2>1. byPort' = {d \in byPort : port[d] # port[rw]} \cup {rw} /\ UNCHANGED port
    BY <1>3 DEF LoopRegister, Entry
  <2> QED BY <2>1 DEF OnePerPort
<1>4. CASE LoopReplace
  BY <1>4 DEF LoopReplace, OnePerPort
<1>5. CASE BootFails \/ LoopStartFails
  <2>1. StartContainerFails /\ UNCHANGED byPort
    BY <1>5 DEF BootFails, LoopStartFails
  <2>2. \A d \in byPort : port'[d] = port[d]
    BY <1>1, <2>1 DEF StartContainerFails, Status
  <2> QED BY <2>1, <2>2 DEF OnePerPort
<1>6. ASSUME NEW c \in Container, LoopStart(c) PROVE OnePerPort'
  <2>1. UNCHANGED byPort /\ \A d \in byPort : port'[d] = port[d]
    BY <1>1, <1>6 DEF LoopStart, StartContainer, Status
  <2> QED BY <2>1 DEF OnePerPort
<1>7. CASE \/ LoopDone \/ LoopReceive \/ LoopInspect \/ LoopSendNew \/ ProcessRunning
           \/ ProcessStopped \/ ProcessRestart \/ ProcessSendRepair
  BY <1>7 DEF OnePerPort, LoopDone, LoopReceive, LoopInspect, LoopSendNew, ProcessRunning,
        ProcessStopped, ProcessRestart, ProcessSendRepair
<1>8. CASE BuildImage \/ BootDone \/ Control \/ UNCHANGED vars
  BY <1>8 DEF OnePerPort, BuildImage, BootDone, Control, Fault, Cancel, StopCall, StopBegins,
        StopClose, StopRemove, vars
<1>9. CASE \E b \in Borrower : BorrowCall(b) \/ borrower(b)
  BY <1>9 DEF OnePerPort, BorrowCall, borrower, BorrowTimeout, BorrowReceive, BorrowInspect,
        BorrowInspectFails, BorrowSendRepair, Return, BorrowPanics
<1> QED BY <1>2, <1>3, <1>4, <1>5, <1>6, <1>7, <1>8, <1>9 DEF Next, boot, repairLoop, Control

(* The variables have their types, neither channel exceeds its buffer, and *)
(* the map has one entry of each port.                                     *)
THEOREM WatcherTypeCorrect ==
  ASSUME "paused" \notin Faults
  PROVE  Spec => []TypeOK
<1>1. IInv /\ OnePerPort => TypeOK
  <2> SUFFICES ASSUME IInv, OnePerPort PROVE TypeOK
    OBVIOUS
  <2>1. Len(workers) <= WorkerCnt /\ Len(repair) <= WorkerCnt
    BY Room
  <2> QED BY <2>1 DEF IInv, Types, OnePerPort, TypeOK
<1>2. Init => OnePerPort
  BY DEF Init, OnePerPort
<1> QED BY <1>1, <1>2, OnePerPortStep, InvariantHolds, PTL DEF Spec

-----------------------------------------------------------------------------
(* The program *)

Pcs == bpc \in [Borrower -> {"idle", "wait", "inspect", "sendRepair", "using"}]

\* Who uses a worker is under way, and each stage of Stop has waited for one
\* kind of user.
Users ==
  /\ \A b \in Borrower : bpc[b] # "idle" => b \in busy
  /\ busy \subseteq Borrower
  /\ main \in {"closeBrokers", "joinBrokers"} => busy \cap Handler = {}
  /\ main \in {"stopCoderun", "joinCoderun", "disconnect"} => busy = {}

\* What has become of the watcher at each stage of main.
Stages ==
  /\ main \in Stopping => cancelled
  /\ "coderun" \notin cfg => rpc = "build" /\ stopPc = "no"
  /\ main \in {"wait"} \cup Stopping /\ "coderun" \in cfg => rpc \notin {"build", "boot"}
  /\ main \notin {"coderun", "joinCoderun", "disconnect"} => stopPc = "no"
  /\ rpc \in {"build", "boot"} => stopPc = "no"
  /\ main = "disconnect" /\ "coderun" \in cfg => stopPc = "stopped"
  /\ panicked => main = "coderun" /\ closed

CInv == Pcs /\ Users /\ Stages

-----------------------------------------------------------------------------
\* main goes on, and neither the watcher nor the set of users changes.
LEMMA MainStep ==
  ASSUME CInv, UNCHANGED <<watcherVars, cfg, busy>>,
         \/ InitDB \/ StartServer \/ StartBrokers \/ Started
         \/ BeginStop \/ Shutdown \/ CloseBrokers \/ JoinBrokers \/ JoinCoderun
  PROVE  CInv'
<1> USE DEF watcherVars, vars, dockerVars, containers, loopVars, ctlVars, GoTo
<1>1. Pcs'
  BY DEF CInv, Pcs
<1>2. Users'
  <2>1. CASE InitDB \/ StartServer \/ StartBrokers \/ Started \/ BeginStop
    BY <2>1 DEF CInv, Users, InitDB, StartServer, StartBrokers, Started, BeginStop
  <2>2. CASE Shutdown \/ CloseBrokers
    BY <2>2 DEF CInv, Users, Shutdown, CloseBrokers
  <2>3. CASE JoinBrokers
    BY <2>3, ComponentsAssumption DEF CInv, Users, JoinBrokers, Task
  <2>4. CASE JoinCoderun
    BY <2>4 DEF CInv, Users, JoinCoderun
  <2> QED BY <2>1, <2>2, <2>3, <2>4
<1>3. Stages'
  <2>1. CASE InitDB \/ StartServer \/ StartBrokers
    BY <2>1 DEF CInv, Stages, Stopping, closed, InitDB, StartServer, StartBrokers
  <2>2. CASE Started
    BY <2>2 DEF CInv, Stages, Stopping, closed, Started
  <2>3. CASE BeginStop \/ Shutdown \/ CloseBrokers \/ JoinBrokers
    BY <2>3 DEF CInv, Stages, Stopping, closed, BeginStop, Shutdown, CloseBrokers, JoinBrokers
  <2>4. CASE JoinCoderun
    BY <2>4 DEF CInv, Stages, Stopping, closed, JoinCoderun
  <2> QED BY <2>1, <2>2, <2>3, <2>4
<1> QED BY <1>1, <1>2, <1>3 DEF CInv

\* The process ends, or nothing happens.
LEMMA ExitStep ==
  ASSUME CInv, UNCHANGED <<watcherVars, cfg, main, busy>>
  PROVE  CInv'
BY DEF CInv, Pcs, Users, Stages, closed, watcherVars, vars, dockerVars, containers, loopVars, ctlVars

LEMMA StopCoderunStep ==
  ASSUME CInv, StopCoderun
  PROVE  CInv' /\ [Next]_vars
<1> USE DEF vars, dockerVars, containers, loopVars, ctlVars
<1>1. /\ main = "stopCoderun" /\ main' = "joinCoderun" /\ UNCHANGED <<cfg, busy, bpc, rpc, cancelled, panicked>>
      /\ "coderun" \in cfg => StopBegins
      /\ "coderun" \notin cfg => UNCHANGED watcherVars
  BY DEF StopCoderun, GoTo, StopBegins, watcherVars
<1>2. CInv'
  BY <1>1 DEF CInv, Pcs, Users, Stages, Stopping, closed, watcherVars
<1>3. "coderun" \in cfg => StopCall
  BY <1>1 DEF StopCall, CInv, Users, Stages, Stopping
<1> QED BY <1>1, <1>2, <1>3 DEF Next, watcherVars

LEMMA UsersStep ==
  ASSUME CInv, NEW b \in Borrower, Begin(b) \/ End(b)
  PROVE  CInv' /\ UNCHANGED vars
<1> USE DEF watcherVars, vars, dockerVars, containers, loopVars, ctlVars
<1>1. UNCHANGED <<watcherVars, cfg, main>>
  BY DEF Begin, End
<1>2. Users'
  <2>1. CASE Begin(b)
    BY <2>1 DEF CInv, Users, Begin, accepting, scheduling, Stopping
  <2>2. CASE End(b)
    BY <2>2 DEF CInv, Users, End
  <2> QED BY <2>1, <2>2
<1> QED BY <1>1, <1>2 DEF CInv, Pcs, Stages, closed

\* A borrower that is under way.  It finds the channels closed only while main
\* is still in coderun.Init.
LEMMA UseStep ==
  ASSUME CInv, NEW b \in Borrower, UseWorker(b)
  PROVE  CInv' /\ Next
<1> USE DEF dockerVars, containers, loopVars, ctlVars
<1>1. b \in busy /\ UNCHANGED <<cfg, main, busy>> /\ (BorrowCall(b) \/ borrower(b))
  BY DEF UseWorker
<1>2. /\ UNCHANGED <<rpc, cancelled, stopPc>>
      /\ \E pc \in {"idle", "wait", "inspect", "sendRepair", "using"} : bpc' = [bpc EXCEPT ![b] = pc]
      /\ panicked' # panicked => closed
  <2>1. CASE BorrowCall(b) \/ BorrowTimeout(b) \/ BorrowReceive(b)
    BY <2>1 DEF BorrowCall, BorrowTimeout, BorrowReceive
  <2>2. CASE BorrowInspect(b)
    BY <2>2 DEF BorrowInspect
  <2>3. CASE BorrowInspectFails(b) \/ BorrowSendRepair(b) \/ Return(b)
    BY <2>3 DEF BorrowInspectFails, BorrowSendRepair, Return
  <2>4. CASE BorrowPanics(b)
    BY <2>4 DEF BorrowPanics
  <2> QED BY <1>1, <2>1, <2>2, <2>3, <2>4 DEF borrower
<1>3. Pcs'
  BY <1>2 DEF CInv, Pcs
<1>4. Users'
  BY <1>1, <1>2 DEF CInv, Users, Pcs
<1>5. closed => main = "coderun"
  BY <1>1 DEF CInv, Users, Stages, closed
<1>6. Stages'
  BY <1>1, <1>2, <1>5 DEF CInv, Stages, closed
<1> QED BY <1>1, <1>3, <1>4, <1>6 DEF CInv, Next

LEMMA WatcherStep ==
  ASSUME CInv, Watcher
  PROVE  CInv' /\ Next
<1> USE DEF dockerVars, containers, loopVars, ctlVars
<1>1. UNCHANGED <<cfg, main, busy>>
  BY DEF Watcher
<1>2. CASE main = "coderun" /\ "coderun" \in cfg /\ boot
  <2>1. UNCHANGED <<bpc, cancelled, panicked>>
    BY <1>2 DEF boot, BuildImage, BootWorker, BootFails, BootDone
  <2>2. /\ rpc \in {"build", "boot"}
        /\ UNCHANGED stopPc \/ (stopPc' = "wait" /\ rpc' = "done")
    BY <1>2 DEF boot, BuildImage, BootWorker, BootFails, BootDone
  <2>3. ~ panicked
    BY <1>1, <2>2 DEF CInv, Stages, closed
  <2>4. Pcs' /\ Users' /\ Stages'
    BY <1>1, <1>2, <2>1, <2>2, <2>3 DEF CInv, Pcs, Users, Stages, Stopping, closed
  <2> QED BY <1>2, <2>4 DEF CInv, Next
<1>3. CASE repairLoop
  <2>1. UNCHANGED <<bpc, cancelled, panicked, stopPc>>
    BY <1>3 DEF repairLoop, LoopDone, LoopReceive, LoopReplace, LoopInspect, LoopStartFails,
                LoopStart, LoopSendNew, LoopRegister, ProcessRunning, ProcessStopped,
                ProcessRestart, ProcessSendRepair
  <2>2. rpc \notin {"build", "boot"} /\ rpc' \notin {"build", "boot"}
    BY <1>3 DEF repairLoop, LoopDone, LoopReceive, LoopReplace, LoopInspect, LoopStartFails,
                LoopStart, LoopSendNew, LoopRegister, ProcessRunning, ProcessStopped,
                ProcessRestart, ProcessSendRepair
  <2>3. Pcs' /\ Users' /\ Stages'
    BY <1>1, <2>1, <2>2 DEF CInv, Pcs, Users, Stages, closed
  <2> QED BY <1>3, <2>3 DEF CInv, Next
<1>4. CASE StopClose \/ StopRemove
  <2>1. /\ UNCHANGED <<bpc, rpc, cancelled, panicked>>
        /\ \/ stopPc = "wait" /\ stopPc' = "remove"
           \/ stopPc = "remove" /\ stopPc' = "stopped"
    BY <1>4 DEF StopClose, StopRemove
  <2>2. Pcs' /\ Users' /\ Stages'
    BY <1>1, <2>1 DEF CInv, Pcs, Users, Stages, closed
  <2> QED BY <1>4, <2>2 DEF CInv, Next
<1> QED BY <1>2, <1>3, <1>4 DEF Watcher

\* The signal, and what docker does.
LEMMA OutsideStep ==
  ASSUME CInv, Signal \/ ContainerFails
  PROVE  CInv' /\ Next
<1>1. /\ UNCHANGED <<cfg, main, busy, bpc, rpc, stopPc, panicked>> /\ (cancelled => cancelled')
      /\ Next
  BY DEF Signal, ContainerFails, Cancel, Fault, Next, dockerVars, containers, loopVars, ctlVars
<1> QED BY <1>1 DEF CInv, Pcs, Users, Stages, closed

-----------------------------------------------------------------------------
LEMMA CInitEstablishes == CInit => CInv
BY DEF CInit, Init, CInv, Pcs, Users, Stages, Stopping, closed

LEMMA CNextPreserves ==
  ASSUME CInv, [CNext]_cvars
  PROVE  CInv' /\ [Next]_vars
<1> USE DEF watcherVars
<1>1. CASE UNCHANGED cvars
  BY <1>1, ExitStep DEF cvars
<1>2. CASE \/ InitDB \/ StartServer \/ StartBrokers \/ Started
           \/ BeginStop \/ Shutdown \/ CloseBrokers \/ JoinBrokers \/ JoinCoderun
  <2>1. UNCHANGED <<watcherVars, cfg, busy>>
    BY <1>2 DEF InitDB, StartServer, StartBrokers, Started, BeginStop, Shutdown, CloseBrokers,
                JoinBrokers, JoinCoderun, GoTo
  <2> QED BY <1>2, <2>1, MainStep
<1>3. CASE StartPanics \/ CoderunFails \/ ShutdownTimeout \/ BrokersPanic \/ Disconnect
  BY <1>3, ExitStep DEF StartPanics, CoderunFails, ShutdownTimeout, BrokersPanic, Disconnect, Exit
<1>4. CASE StopCoderun
  BY <1>4, StopCoderunStep
<1>5. CASE Signal \/ ContainerFails
  BY <1>5, OutsideStep
<1>6. CASE Watcher
  BY <1>6, WatcherStep
<1>7. ASSUME NEW b \in Borrower, Begin(b) \/ End(b) \/ UseWorker(b) PROVE CInv' /\ [Next]_vars
  BY <1>7, UsersStep, UseStep
<1> QED BY <1>1, <1>2, <1>3, <1>4, <1>5, <1>6, <1>7 DEF CNext, Start, Stop

Positions == /\ cfg \in Configs
             /\ main \in Starting \cup {"wait"} \cup Stopping
             /\ exit \in {"no", "clean", "panic", "fatal"}

LEMMA PositionsHold == CSpec => []Positions
<1>1. CInit => Positions
  BY DEF CInit, Positions, Starting
<1>2. ASSUME Positions, [CNext]_cvars PROVE Positions'
  <2> USE DEF Positions, Starting, Stopping, GoTo, Exit
  <2>1. CASE Start
    BY <1>2, <2>1 DEF Start, InitDB, StartServer, StartBrokers, StartPanics, CoderunFails, Started
  <2>2. CASE Stop
    BY <1>2, <2>2 DEF Stop, BeginStop, Shutdown, ShutdownTimeout, CloseBrokers, JoinBrokers,
                BrokersPanic, StopCoderun, JoinCoderun, Disconnect
  <2>3. CASE Signal \/ Watcher \/ ContainerFails
    BY <1>2, <2>3 DEF Signal, Watcher, ContainerFails
  <2>4. ASSUME NEW b \in Borrower, Begin(b) \/ End(b) \/ UseWorker(b) PROVE Positions'
    BY <1>2, <2>4 DEF Begin, End, UseWorker
  <2>5. CASE UNCHANGED cvars
    BY <1>2, <2>5 DEF cvars
  <2> QED BY <1>2, <2>1, <2>2, <2>3, <2>4, <2>5 DEF CNext
<1> QED BY <1>1, <1>2, PTL DEF CSpec

(* The order of components.go:73 to 86 is enough for the watcher: whatever *)
(* the configuration and whenever the signal comes, coderun.Stop closes the*)
(* channels only when no handler and no mapper is left to send on them.    *)
THEOREM ImplementsTheWatcher == CSpec => ImplementsWatcher
<1>1. CInit => Init
  BY DEF CInit
<1> QED BY <1>1, CInitEstablishes, CNextPreserves, PTL DEF CSpec, ImplementsWatcher, Spec

(* The database is disconnected last, when the watcher has stopped and no  *)
(* request or task is left, and a send on the watcher's closed channels can*)
(* happen only while its Init fails.                                       *)
THEOREM OrderlyStop == CSpec => []StopIsOrderly
<1>1. CInv => StopIsOrderly
  BY DEF CInv, Users, Stages, StopIsOrderly
<1> QED BY <1>1, CInitEstablishes, CNextPreserves, PTL DEF CSpec

(* In the whole program, too, no two requests run scripts in one container *)
(* at a time.                                                              *)
THEOREM OneTokenInProgram ==
  ASSUME "paused" \notin Faults
  PROVE  CSpec => []OneTokenPerWorker
BY ImplementsTheWatcher, OneToken, PTL DEF ImplementsWatcher

(* Nor does the program leave a container behind when it ends, but those   *)
(* that docker did not remove, whose start was reported to have failed or  *)
(* whose port was given out again; nor does a request or repairLoop hang on*)
(* a full channel and keep Stop waiting.                                   *)
THEOREM WatcherIsSafeInProgram ==
  ASSUME "paused" \notin Faults
  PROVE  CSpec => [](SendsNeverBlock /\ NothingElseSurvivesStop)
BY ImplementsTheWatcher, SendersHaveRoom, NothingSurvives, PTL DEF ImplementsWatcher

(* The types, and where the watcher and its users are at each stage of     *)
(* Start and Stop.                                                         *)
THEOREM ComponentsTypeCorrect ==
  ASSUME "paused" \notin Faults
  PROVE  CSpec => []ComponentsTypeOK
<1>1. CSpec => []TypeOK
  BY ImplementsTheWatcher, WatcherTypeCorrect, PTL DEF ImplementsWatcher
<1>2. CSpec => []CInv
  BY CInitEstablishes, CNextPreserves, PTL DEF CSpec
<1>3. TypeOK /\ CInv /\ Positions => ComponentsTypeOK
  BY DEF CInv, Users, Stages, Positions, Starting, Stopping, ComponentsTypeOK
<1> QED BY <1>1, <1>2, <1>3, PositionsHold, PTL
=============================================================================
