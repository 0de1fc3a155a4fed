------------------------- MODULE TaskSchedulerProofs -------------------------
(***************************************************************************)
(* TaskScheduler for any number of workers, tasks and pools.  The two      *)
(* properties about read tasks follow from one inductive invariant: an id  *)
(* is in at most one place (about to be queued, queued once, held by one   *)
(* worker), and a place it is in is marked in running_read_tasks.          *)
(***************************************************************************)
EXTENDS TaskScheduler, TLAPS

LEMMA TypeInit == Init => TypeOK
<1> SUFFICES ASSUME Init PROVE TypeOK
  OBVIOUS
<1> USE SchedulerAssumption DEF Init
<1>1. readQ \in Seq(ReadTask) /\ writeQ \in Seq(WriteTask)
  BY DEF ReadQ!Init, WriteQ!Init
<1>2. readClosed \in BOOLEAN /\ writeClosed \in BOOLEAN
  BY DEF ReadQ!Init, WriteQ!Init
<1>3. errClosed \in BOOLEAN /\ panicked \in BOOLEAN
  OBVIOUS
<1>4. \A w \in RWorker : rtask[w] # None <=> rpc[w] \in {"run", "report", "remove"}
  OBVIOUS
<1>5. \A w \in WWorker : wtask[w] # None <=> wpc[w] \in {"run", "report"}
  OBVIOUS
<1> QED BY <1>1, <1>2, <1>3, <1>4, <1>5 DEF TypeOK

LEMMA TypeStep == TypeOK /\ [Next]_vars => TypeOK'
<1> SUFFICES ASSUME TypeOK, [Next]_vars PROVE TypeOK'
  OBVIOUS
<1> USE SchedulerAssumption DEF TypeOK, readVars, writeVars, errVars
<1>0. ASSUME submitError
      PROVE  errors' \in 0 .. MaxErrors /\ errClosed' \in BOOLEAN /\ panicked' \in BOOLEAN
  <2>1. errors \in 0 .. MaxErrors /\ MaxErrors \in Nat /\ errClosed \in BOOLEAN /\ panicked \in BOOLEAN
    OBVIOUS
  <2>2. CASE errClosed
    BY <1>0, <2>1, <2>2 DEF submitError
  <2>3. CASE ~errClosed
    BY ONLY <1>0, <2>1, <2>3 DEF submitError
  <2> QED BY <2>2, <2>3
<1>1. ASSUME NEW id \in ReadTask, InsertReadTask(id) PROVE TypeOK'
  BY <1>1 DEF InsertReadTask
<1>2. ASSUME NEW id \in ReadTask, PutReadTask(id) PROVE TypeOK'
  <2>0. readQ \in Seq(ReadTask) /\ id \in ReadTask
    OBVIOUS
  <2>1. readQ' \in Seq(ReadTask) /\ readClosed' = readClosed
    BY ONLY <1>2, <2>0 DEF PutReadTask, ReadQ!Put, ReadQ!PutRefused, ReadQ!qvars
  <2> QED BY <1>2, <2>1 DEF PutReadTask
<1>3. ASSUME NEW t \in WriteTask, submitWriteTask(t) PROVE TypeOK'
  <2>0. writeQ \in Seq(WriteTask) /\ t \in WriteTask
    OBVIOUS
  <2>1. writeQ' \in Seq(WriteTask) /\ writeClosed' = writeClosed
    BY ONLY <1>3, <2>0 DEF submitWriteTask, WriteQ!Put, WriteQ!PutRefused, WriteQ!qvars
  <2> QED BY <1>3, <2>1 DEF submitWriteTask
<1>4. ASSUME NEW w \in RWorker, RGet(w) PROVE TypeOK'
  BY <1>4 DEF RGet, ReadQ!Get
<1>5. ASSUME NEW w \in RWorker, RDone(w) PROVE TypeOK'
  BY <1>5 DEF RDone, ReadQ!GetNone, ReadQ!qvars
<1>6. ASSUME NEW w \in RWorker, RReturn(w) PROVE TypeOK'
  BY <1>6 DEF RReturn
<1>7. ASSUME NEW w \in RWorker, RReport(w) PROVE TypeOK'
  BY <1>0, <1>7 DEF RReport
<1>8. ASSUME NEW w \in RWorker, RRemove(w) PROVE TypeOK'
  BY <1>8 DEF RRemove
<1>9. ASSUME NEW w \in WWorker, WGet(w) PROVE TypeOK'
  BY <1>9 DEF WGet, WriteQ!Get
<1>10. ASSUME NEW w \in WWorker, WDone(w) PROVE TypeOK'
  BY <1>10 DEF WDone, WriteQ!GetNone, WriteQ!qvars
<1>11. ASSUME NEW w \in WWorker, WReturn(w) PROVE TypeOK'
  BY <1>11 DEF WReturn
<1>12. ASSUME NEW w \in WWorker, WReport(w) PROVE TypeOK'
  BY <1>0, <1>12 DEF WReport
<1>13. CASE ReceiveError
  BY <1>13 DEF ReceiveError
<1>14. CASE Stop
  <2>1. CASE StopCloseRead
    BY <2>1 DEF StopCloseRead, ReadQ!Close
  <2>2. CASE StopCloseWrite
    BY <2>2 DEF StopCloseWrite, WriteQ!Close
  <2>3. CASE StopCloseErrors
    BY <2>3 DEF StopCloseErrors
  <2>4. CASE StopJoin
    BY <2>4 DEF StopJoin
  <2> QED BY <1>14, <2>1, <2>2, <2>3, <2>4 DEF Stop
<1>15. CASE UNCHANGED vars
  BY <1>15 DEF vars
<1> QED BY <1>1, <1>2, <1>3, <1>4, <1>5, <1>6, <1>7, <1>8, <1>9, <1>10, <1>11, <1>12,
           <1>13, <1>14, <1>15 DEF Next, rWorkerRoutine, wWorkerRoutine

(* Types, and a worker holds a task exactly between Get and the end of the *)
(* loop body.                                                              *)
THEOREM TypeCorrect == Spec => []TypeOK
BY TypeInit, TypeStep, PTL DEF Spec

-----------------------------------------------------------------------------
(* Where a read task can be.  Each id is in one place at most, and only a  *)
(* marked id is in a place; while the queue is open the marks are exact.   *)
OnePlace == /\ \A i, j \in DOMAIN readQ : readQ[i] = readQ[j] => i = j
            /\ \A id \in pending : ~Queued(id) /\ ~Held(id)
            /\ \A id \in ReadTask : Queued(id) => ~Held(id)

Marked == \A id \in ReadTask : id \in pending \/ Queued(id) \/ Held(id) => id \in running

Exact == ~readClosed =>
           \A id \in running : id \in pending \/ Queued(id) \/ Held(id)

IInv == TypeOK /\ OnePlace /\ Marked /\ Exact /\ SingleReader

(* The queue of read tasks after Put, Get and Close, in terms of Queued.   *)
LEMMA QueuedAfterPut ==
  ASSUME TypeOK, NEW id \in ReadTask, ~Queued(id), OnePlace, ReadQ!Put(id)
  PROVE  /\ \A x : Queued(x)' <=> Queued(x) \/ x = id
         /\ \A i, j \in DOMAIN readQ' : readQ'[i] = readQ'[j] => i = j
<1>1. /\ readQ \in Seq(ReadTask) /\ readQ' = Append(readQ, id)
      /\ DOMAIN readQ = 1 .. Len(readQ) /\ Len(readQ) \in Nat
  BY DEF TypeOK, ReadQ!Put
<1>2. /\ DOMAIN readQ' = 1 .. Len(readQ) + 1
      /\ \A i \in 1 .. Len(readQ) : readQ'[i] = readQ[i]
      /\ readQ'[Len(readQ) + 1] = id
  BY <1>1
<1>3. ASSUME NEW x PROVE Queued(x)' <=> Queued(x) \/ x = id
  BY <1>1, <1>2 DEF Queued
<1>4. ASSUME NEW i \in DOMAIN readQ', NEW j \in DOMAIN readQ', readQ'[i] = readQ'[j]
      PROVE  i = j
  BY <1>1, <1>2, <1>4 DEF Queued, OnePlace
<1> QED BY <1>3, <1>4

LEMMA QueuedAfterGet ==
  ASSUME TypeOK, NEW id \in ReadTask, OnePlace, ReadQ!Get(id)
  PROVE  /\ Queued(id)
         /\ \A x : Queued(x)' <=> Queued(x) /\ x # id
         /\ \A i, j \in DOMAIN readQ' : readQ'[i] = readQ'[j] => i = j
<1>1. /\ readQ \in Seq(ReadTask) /\ readQ' = Tail(readQ) /\ id = readQ[1]
      /\ DOMAIN readQ = 1 .. Len(readQ) /\ Len(readQ) \in Nat \ {0}
  BY DEF TypeOK, ReadQ!Get
<1>2. /\ DOMAIN readQ' = 1 .. Len(readQ) - 1
      /\ \A i \in 1 .. Len(readQ) - 1 : readQ'[i] = readQ[i + 1]
  BY <1>1
<1>3. ASSUME NEW x, Queued(x)' PROVE Queued(x) /\ x # id
  <2>1. PICK i \in 1 .. Len(readQ) - 1 : readQ[i + 1] = x
    BY <1>2, <1>3 DEF Queued
  <2>2. i + 1 \in DOMAIN readQ /\ 1 \in DOMAIN readQ /\ i + 1 # 1
    BY <1>1
  <2> QED BY <1>1, <2>1, <2>2 DEF Queued, OnePlace
<1>4. ASSUME NEW x, Queued(x), x # id PROVE Queued(x)'
  <2>1. PICK i \in 1 .. Len(readQ) : readQ[i] = x
    BY <1>1, <1>4 DEF Queued
  <2>2. i - 1 \in 1 .. Len(readQ) - 1 /\ readQ'[i - 1] = x
    BY <1>1, <1>2, <1>4, <2>1
  <2> QED BY <1>2, <2>2 DEF Queued
<1>5. ASSUME NEW i \in DOMAIN readQ', NEW j \in DOMAIN readQ', readQ'[i] = readQ'[j]
      PROVE  i = j
  <2>1. i \in 1 .. Len(readQ) - 1 /\ j \in 1 .. Len(readQ) - 1
    BY <1>2
  <2>2. i + 1 \in DOMAIN readQ /\ j + 1 \in DOMAIN readQ /\ readQ[i + 1] = readQ[j + 1]
    BY <1>1, <1>2, <1>5, <2>1
  <2> QED BY <2>1, <2>2 DEF OnePlace
<1>6. Queued(id)
  BY <1>1 DEF Queued
<1> QED BY <1>3, <1>4, <1>5, <1>6

LEMMA QueuedAfterClose ==
  ASSUME ReadQ!Close(TRUE)
  PROVE  readClosed' /\ DOMAIN readQ' = {} /\ \A x : ~Queued(x)'
BY DEF ReadQ!Close, Queued

(* The invariant is inductive.  Only the steps that move a read task       *)
(* matter; the places of the others are unchanged.                         *)
LEMMA Inductive == IInv /\ [Next]_vars => IInv'
<1> SUFFICES ASSUME IInv, [Next]_vars, TypeOK' PROVE OnePlace' /\ Marked' /\ Exact' /\ SingleReader'
  BY TypeStep DEF IInv
<1> USE SchedulerAssumption DEF IInv, readVars, writeVars, errVars
<1>0. /\ None \notin ReadTask /\ running \subseteq ReadTask /\ pending \subseteq ReadTask
      /\ rtask \in [RWorker -> ReadTask \cup {None}]
  BY DEF TypeOK
<1>1. ASSUME NEW id \in ReadTask, InsertReadTask(id)
      PROVE  OnePlace' /\ Marked' /\ Exact' /\ SingleReader'
  <2>1. /\ id \notin running /\ running' = running \cup {id} /\ pending' = pending \cup {id}
        /\ readQ' = readQ /\ readClosed' = readClosed /\ rtask' = rtask
    BY <1>1 DEF InsertReadTask
  <2>2. ~Queued(id) /\ ~Held(id)
    BY <2>1 DEF Marked
  <2>3. \A x : (Queued(x)' <=> Queued(x)) /\ (Held(x)' <=> Held(x))
    BY <2>1 DEF Queued, Held, HeldBy
  <2> QED BY <1>0, <2>1, <2>2, <2>3 DEF OnePlace, Marked, Exact, SingleReader
<1>2. ASSUME NEW id \in ReadTask, PutReadTask(id)
      PROVE  OnePlace' /\ Marked' /\ Exact' /\ SingleReader'
  <2>1. /\ id \in pending /\ pending' = pending \ {id} /\ running' = running
        /\ rtask' = rtask /\ readClosed' = readClosed
    BY <1>2 DEF PutReadTask, ReadQ!Put, ReadQ!PutRefused, ReadQ!qvars
  <2>2. ~Queued(id) /\ ~Held(id)
    BY <2>1 DEF OnePlace
  <2>3. \A x : Held(x)' <=> Held(x)
    BY <2>1 DEF Held, HeldBy
  <2>4. CASE ReadQ!Put(id)
    BY <1>0, <2>1, <2>2, <2>3, <2>4, QueuedAfterPut DEF OnePlace, Marked, Exact, SingleReader
  <2>5. CASE ReadQ!PutRefused
    <3>1. readClosed /\ readQ' = readQ
      BY <2>5 DEF ReadQ!PutRefused, ReadQ!qvars
    <3>2. \A x : Queued(x)' <=> Queued(x)
      BY <3>1 DEF Queued
    <3> QED BY <1>0, <2>1, <2>3, <3>1, <3>2 DEF OnePlace, Marked, Exact, SingleReader
  <2> QED BY <1>2, <2>4, <2>5 DEF PutReadTask
<1>3. ASSUME NEW w \in RWorker, RGet(w)
      PROVE  OnePlace' /\ Marked' /\ Exact' /\ SingleReader'
  <2>1. PICK id \in ReadTask : ReadQ!Get(id) /\ rtask' = [rtask EXCEPT ![w] = id]
    BY <1>3 DEF RGet
  <2>2. rtask[w] = None /\ pending' = pending /\ running' = running /\ readClosed' = readClosed
    BY <1>3, <2>1 DEF RGet, ReadQ!Get, TypeOK
  <2>3. Queued(id) /\ ~Held(id) /\ id \notin pending /\ id \in running
    BY <2>1, QueuedAfterGet DEF OnePlace, Marked
  <2>4. \A x \in ReadTask : Held(x)' <=> Held(x) \/ x = id
    BY <1>0, <2>1, <2>2 DEF Held, HeldBy
  <2>5. SingleReader'
    BY <1>0, <2>1, <2>3 DEF SingleReader, Held, HeldBy
  <2> QED BY <1>0, <2>1, <2>2, <2>3, <2>4, <2>5, QueuedAfterGet DEF OnePlace, Marked, Exact
<1>4. ASSUME NEW w \in RWorker, RRemove(w)
      PROVE  OnePlace' /\ Marked' /\ Exact' /\ SingleReader'
  <2>1. /\ rtask[w] \in ReadTask /\ rtask' = [rtask EXCEPT ![w] = None]
        /\ running' = running \ {rtask[w]} /\ pending' = pending
        /\ readQ' = readQ /\ readClosed' = readClosed
    BY <1>0, <1>4 DEF RRemove, TypeOK
  <2>2. Held(rtask[w])
    BY DEF Held, HeldBy
  <2>3. ~Queued(rtask[w]) /\ rtask[w] \notin pending
    BY <2>1, <2>2 DEF OnePlace
  <2>4. \A x \in ReadTask : Held(x)' <=> Held(x) /\ x # rtask[w]
    BY <1>0, <2>1 DEF Held, HeldBy, SingleReader
  <2>5. \A x : Queued(x)' <=> Queued(x)
    BY <2>1 DEF Queued
  <2>6. SingleReader'
    BY <1>0, <2>1 DEF SingleReader
  <2> QED BY <1>0, <2>1, <2>3, <2>4, <2>5, <2>6 DEF OnePlace, Marked, Exact
<1>5. ASSUME StopCloseRead
      PROVE  OnePlace' /\ Marked' /\ Exact' /\ SingleReader'
  <2>1. /\ readClosed' /\ DOMAIN readQ' = {} /\ \A x : ~Queued(x)'
        /\ running' = running /\ pending' = pending /\ rtask' = rtask
    BY <1>5, QueuedAfterClose DEF StopCloseRead
  <2>2. \A x : Held(x)' <=> Held(x)
    BY <2>1 DEF Held, HeldBy
  <2> QED BY <1>0, <2>1, <2>2 DEF OnePlace, Marked, Exact, SingleReader
<1>6. ASSUME UNCHANGED <<readQ, readClosed, running, pending, rtask>>
      PROVE  OnePlace' /\ Marked' /\ Exact' /\ SingleReader'
  BY <1>6 DEF OnePlace, Marked, Exact, SingleReader, Queued, Held, HeldBy
<1>7. ASSUME NEW w \in RWorker, RDone(w) \/ RReturn(w) \/ RReport(w)
      PROVE  UNCHANGED <<readQ, readClosed, running, pending, rtask>>
  BY <1>7 DEF RDone, RReturn, RReport, ReadQ!GetNone, ReadQ!qvars
<1>8. ASSUME NEW w \in WWorker, wWorkerRoutine(w)
      PROVE  UNCHANGED <<readQ, readClosed, running, pending, rtask>>
  BY <1>8 DEF wWorkerRoutine, WGet, WDone, WReturn, WReport
<1>9. ASSUME NEW t \in WriteTask, submitWriteTask(t)
      PROVE  UNCHANGED <<readQ, readClosed, running, pending, rtask>>
  BY <1>9 DEF submitWriteTask
<1>10. ASSUME ReceiveError \/ StopCloseWrite \/ StopCloseErrors \/ StopJoin \/ UNCHANGED vars
       PROVE  UNCHANGED <<readQ, readClosed, running, pending, rtask>>
  BY <1>10 DEF ReceiveError, StopCloseWrite, StopCloseErrors, StopJoin, vars
<1> QED BY <1>1, <1>2, <1>3, <1>4, <1>5, <1>6, <1>7, <1>8, <1>9, <1>10
        DEF Next, rWorkerRoutine, Stop

LEMMA Invariance == Spec => []IInv
<1>1. Init => IInv
  <2> SUFFICES ASSUME Init PROVE IInv
    OBVIOUS
  <2>1. readQ = <<>> /\ running = {} /\ pending = {} /\ \A w \in RWorker : rtask[w] = None
    BY DEF Init, ReadQ!Init
  <2>2. \A id \in ReadTask : ~Queued(id) /\ ~Held(id)
    BY <2>1, SchedulerAssumption DEF Queued, Held, HeldBy
  <2> QED BY <2>1, <2>2, TypeInit DEF IInv, OnePlace, Marked, Exact, SingleReader
<1> QED BY <1>1, Inductive, PTL DEF Spec

(* No message queue is ever read by two workers, for any number of pools,  *)
(* workers and submissions.                                                *)
THEOREM ReadersExclude == Spec => []SingleReader
BY Invariance, PTL DEF IInv

(* The set running_read_tasks is exact until Stop.                         *)
THEOREM MarksAreExact == Spec => []RunningIsExact
<1>1. IInv => RunningIsExact
  BY DEF IInv, TypeOK, Marked, Exact, RunningIsExact
<1> QED BY <1>1, Invariance, PTL

-----------------------------------------------------------------------------
(* Write tasks: one that is queued or held was submitted, so a submission  *)
(* brings in a new one.                                                    *)
Seen == /\ \A i \in DOMAIN writeQ : writeQ[i] \in submitted
        /\ \A w \in WWorker : wtask[w] # None => wtask[w] \in submitted

WInv == TypeOK /\ Seen /\ WrittenOnce

LEMMA SubmitStep ==
  ASSUME WInv, NEW t \in WriteTask, submitWriteTask(t)
  PROVE  Seen' /\ WrittenOnce'
<1>1. /\ t \notin submitted /\ submitted' = submitted \cup {t} /\ UNCHANGED wtask
      /\ writeQ' = Append(writeQ, t) \/ writeQ' = writeQ
  BY DEF submitWriteTask, WriteQ!Put, WriteQ!PutRefused, WriteQ!qvars
<1>2. /\ writeQ \in Seq(WriteTask) /\ wtask \in [WWorker -> WriteTask \cup {None}]
      /\ t # None /\ \A i \in DOMAIN writeQ : writeQ[i] # t /\ writeQ[i] # None
  BY <1>1, SchedulerAssumption DEF WInv, Seen, TypeOK
<1>3. CASE writeQ' = writeQ
  BY <1>1, <1>3 DEF WInv, Seen, WrittenOnce
<1>4. CASE writeQ' = Append(writeQ, t)
  <2>1. /\ DOMAIN writeQ = 1 .. Len(writeQ) /\ Len(writeQ) \in Nat
        /\ DOMAIN writeQ' = 1 .. Len(writeQ) + 1 /\ writeQ'[Len(writeQ) + 1] = t
        /\ \A i \in DOMAIN writeQ : writeQ'[i] = writeQ[i]
    BY <1>2, <1>4
  <2>2. \A i \in DOMAIN writeQ' : i \in DOMAIN writeQ \/ i = Len(writeQ) + 1
    BY <2>1
  <2>3. Seen'
    BY <1>1, <2>1, <2>2 DEF WInv, Seen
  <2>4. \A w \in WWorker : wtask[w] # t
    BY <1>1, <1>2 DEF WInv, Seen
  <2>5. WrittenOnce'
    BY <1>1, <1>2, <2>1, <2>2, <2>4 DEF WInv, WrittenOnce
  <2> QED BY <2>3, <2>5
<1> QED BY <1>1, <1>3, <1>4

LEMMA TakeStep ==
  ASSUME WInv, NEW w \in WWorker, WGet(w)
  PROVE  Seen' /\ WrittenOnce'
<1>1. PICK t \in WriteTask : WriteQ!Get(t) /\ wtask' = [wtask EXCEPT ![w] = t]
  BY DEF WGet
<1>2. /\ writeQ \in Seq(WriteTask) /\ writeQ # <<>> /\ writeQ' = Tail(writeQ) /\ t = writeQ[1]
      /\ UNCHANGED submitted
  BY <1>1 DEF WGet, WriteQ!Get, WInv, TypeOK, readVars
<1>3. /\ DOMAIN writeQ = 1 .. Len(writeQ) /\ Len(writeQ) \in Nat \ {0}
      /\ DOMAIN writeQ' = 1 .. Len(writeQ) - 1
      /\ \A i \in 1 .. Len(writeQ) - 1 : writeQ'[i] = writeQ[i + 1]
  BY <1>2
<1>4. \A i \in DOMAIN writeQ' : i + 1 \in DOMAIN writeQ /\ i + 1 # 1 /\ writeQ'[i] = writeQ[i + 1]
  BY <1>3
<1>5. \A v \in WWorker : wtask'[v] = IF v = w THEN t ELSE wtask[v]
  BY <1>1 DEF WInv, TypeOK
<1>6. 1 \in DOMAIN writeQ /\ t \in submitted
  BY <1>2, <1>3 DEF WInv, Seen
<1>7. Seen'
  BY <1>2, <1>4, <1>5, <1>6 DEF WInv, Seen
<1>8. \A v \in WWorker : wtask[v] # t
  BY <1>2, <1>6 DEF WInv, WrittenOnce
<1>9. \A i \in DOMAIN writeQ' : writeQ'[i] # t
  BY <1>2, <1>4, <1>6 DEF WInv, WrittenOnce
<1>10. \A i, j \in DOMAIN writeQ' : writeQ'[i] = writeQ'[j] => i = j
  <2> SUFFICES ASSUME NEW i \in DOMAIN writeQ', NEW j \in DOMAIN writeQ', writeQ'[i] = writeQ'[j]
               PROVE  i = j
    OBVIOUS
  <2>1. i + 1 = j + 1
    BY <1>4 DEF WInv, WrittenOnce
  <2> QED BY <1>3, <2>1
<1>11. \A v \in WWorker, i \in DOMAIN writeQ' : wtask'[v] # writeQ'[i]
  BY <1>4, <1>5, <1>9 DEF WInv, WrittenOnce
<1>12. \A u, v \in WWorker : wtask'[u] # None /\ wtask'[u] = wtask'[v] => u = v
  BY <1>5, <1>8 DEF WInv, WrittenOnce
<1> QED BY <1>7, <1>10, <1>11, <1>12 DEF WrittenOnce

LEMMA WInductive == WInv /\ [Next]_vars => WInv'
<1> SUFFICES ASSUME WInv, [Next]_vars PROVE Seen' /\ WrittenOnce'
  BY TypeStep DEF WInv
<1> USE DEF readVars, writeVars, errVars
<1>1. ASSUME NEW t \in WriteTask, submitWriteTask(t) PROVE Seen' /\ WrittenOnce'
  BY <1>1, SubmitStep
<1>2. ASSUME NEW w \in WWorker, WGet(w) PROVE Seen' /\ WrittenOnce'
  BY <1>2, TakeStep
<1>3. ASSUME NEW w \in WWorker, WDone(w) \/ WReturn(w) \/ WReport(w) PROVE Seen' /\ WrittenOnce'
  <2>1. /\ UNCHANGED <<writeQ, submitted>>
        /\ UNCHANGED wtask \/ wtask' = [wtask EXCEPT ![w] = None]
    BY <1>3 DEF WDone, WReturn, WReport, WriteQ!GetNone, WriteQ!qvars
  <2>2. /\ \A v \in WWorker : wtask'[v] \in {wtask[v], None}
        /\ \A i \in DOMAIN writeQ : writeQ[i] # None
    BY <2>1, SchedulerAssumption DEF WInv, TypeOK
  <2> QED BY <2>1, <2>2 DEF WInv, Seen, WrittenOnce
<1>4. CASE StopCloseWrite
  BY <1>4 DEF StopCloseWrite, WriteQ!Close, WInv, Seen, WrittenOnce
<1>5. CASE \/ \E id \in ReadTask : InsertReadTask(id) \/ PutReadTask(id)
           \/ \E w \in RWorker : rWorkerRoutine(w)
           \/ ReceiveError \/ StopCloseRead \/ StopCloseErrors \/ StopJoin \/ UNCHANGED vars
  <2>1. UNCHANGED <<writeQ, submitted, wtask>>
    BY <1>5 DEF InsertReadTask, PutReadTask, rWorkerRoutine, RGet, RDone, RReturn, RReport, RRemove,
                ReceiveError, StopCloseRead, StopCloseErrors, StopJoin, vars
  <2> QED BY <2>1 DEF WInv, Seen, WrittenOnce
<1> QED BY <1>1, <1>2, <1>3, <1>4, <1>5 DEF Next, wWorkerRoutine, Stop

(* A write task is taken by one worker, for any number of workers and      *)
(* submissions, also those that come while Stop runs.                      *)
THEOREM TakenOnce == Spec => []WrittenOnce
<1>1. Init => WInv
  BY TypeInit, SchedulerAssumption DEF Init, WriteQ!Init, WInv, Seen, WrittenOnce
<1>2. WInv => WrittenOnce
  BY DEF WInv
<1> QED BY <1>1, <1>2, WInductive, PTL DEF Spec
=============================================================================
