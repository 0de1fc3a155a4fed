--------------------------- MODULE BrokerTasksProofs ---------------------------
(***************************************************************************)
(* BrokerTasks for any number of pools, messages and write workers, and    *)
(* whatever fails: its types, its invariants, and that it implements       *)
(* Delivery.                                                               *)
(*                                                                         *)
(* The code moves messages between six kinds of box: the batches of the    *)
(* scheduler, a worker's task, what a failed task has still under way, the *)
(* queue of a broker, the consumer of rabbitmq and t.msgs of a read task.  *)
(* A step is described by a function f, its flow, that takes the spots of  *)
(* the boxes after the step to the spots their messages were at before.  A *)
(* flow that is one to one loses messages and never makes a second copy.   *)
(* One that also never swaps two regular messages keeps these in the order *)
(* clients sent them, which is why the lists of task messages, which a step*)
(* extends with the first message of the box that is furthest along, have  *)
(* them in that order.  Messages come in by two doors: the batches that    *)
(* clients write, behind all others, and the head of a topic, where Kafka  *)
(* gives out again what was not committed.                                 *)
(***************************************************************************)
EXTENDS BrokerTasks, FiniteSetTheorems, TLAPS

\* The elements of a sequence.
Ran(s) == {s[i] : i \in DOMAIN s}

\* What a box can hold: messages and the empty ones of a closed channel.
M == Message

\* The records of TypeOK.
ReadTask == [pc : {"off", "connect", "esb", "read", "poll", "stopped"},
             msgs : Seq(M), target : Pool \cup {None}, expired : BOOLEAN,
             run : BOOLEAN, uncommitted : Seq(M), buffer : Seq(M), open : BOOLEAN]
Batch == [pool : Pool, msgs : Seq(M)]
WriteTask == [pool : Pool \cup {None}, todo : Seq(M), sent : Seq(M)]

\* What TypeOK says of a pool's read task and of a worker's write task.
ReadOK(p, r) == /\ r \in ReadTask /\ (r.pc = "off" => r = NoRead)
                /\ p \in Kafka => r.buffer = <<>>
                /\ p \notin Kafka => r.uncommitted = <<>>
                /\ r.pc \in {"poll", "stopped"} => p \in Kafka
WriteOK(x) == x \in WriteTask /\ (x.pool = None => x = NoWrite)

\* TypeOK, with its parts named.
Typed ==
  /\ scenario \in Scenarios /\ posted \in 0..scenario.msgs
  /\ again \in Seq(0..NumMsgs) /\ Len(again) <= scenario.again
  /\ esb \in [Pool -> Pool \cup {None}]
  /\ queue \in [Pool -> Seq(M)]
  /\ rd \in [Pool -> ReadTask] /\ \A p \in Pool : ReadOK(p, rd[p])
  /\ writes \in Seq(Batch)
  /\ wr \in [WWorker -> WriteTask] /\ \A w \in WWorker : WriteOK(wr[w])
  /\ late \in Seq(Batch) /\ \A i \in DOMAIN late : late[i].pool \in Kafka
  /\ failed \in [Pool -> SUBSET (0..NumMsgs)]
  /\ readLog \in [Pool -> Seq(M)] /\ writeLog \in [Pool -> Seq(M)]

\* Links are those of the constant.
Linked == \A p \in Pool : esb[p] \in {None, Link[p]} /\ rd[p].target \in {None, Link[p]}

\* What is still under way comes from write tasks that failed.
Failures == \A i \in DOMAIN late : \A m \in Ran(late[i].msgs) : m[1] \in failed[late[i].pool]

Sound == Typed /\ Linked /\ Failures

\* The invariant that is proved says all that TypeOK says.
LEMMA Types == Typed => TypeOK
BY DEF TypeOK, Typed, M, ReadTask, Batch, WriteTask, ReadOK, WriteOK

\* A message is a pair of numbers; the empty one is none of Msg.
LEMMA Messages ==
  /\ NumMsgs \in Nat /\ NumAgain \in Nat
  /\ \A m \in M : m = <<m[1], m[2]>> /\ m[1] \in 0..NumMsgs /\ m[2] \in 0..NumAgain
  /\ \A n \in 0..NumMsgs, k \in 0..NumAgain : <<n, k>> \in M /\ <<n, k>>[1] = n /\ <<n, k>>[2] = k
  /\ Msg = {m \in M : m[1] # 0}
  /\ Empty \in M /\ Empty \notin Msg /\ Empty[1] = 0 /\ Empty[2] = 0
BY BrokerAssumption DEF M, Msg, Message, Empty

-----------------------------------------------------------------------------
(* Sequences *)
LEMMA AppendFacts ==
  ASSUME NEW S, NEW s \in Seq(S), NEW x \in S
  PROVE  /\ Append(s, x) \in Seq(S)
         /\ Ran(Append(s, x)) = Ran(s) \cup {x}
         /\ Contains(Append(s, x), x)
         /\ \A m : Contains(s, m) => Contains(Append(s, x), m)
<1>1. /\ Append(s, x) \in Seq(S) /\ Len(Append(s, x)) = Len(s) + 1 /\ Len(s) \in Nat
      /\ DOMAIN s = 1 .. Len(s) /\ DOMAIN Append(s, x) = 1 .. Len(s) + 1
      /\ Append(s, x)[Len(s) + 1] = x
      /\ \A i \in 1 .. Len(s) : Append(s, x)[i] = s[i]
  OBVIOUS
<1>2. Ran(Append(s, x)) = Ran(s) \cup {x}
  BY <1>1 DEF Ran
<1>3. Contains(Append(s, x), x) /\ \A m : Contains(s, m) => Contains(Append(s, x), m)
  BY <1>1 DEF Contains
<1> QED BY <1>1, <1>2, <1>3

\* The head and the tail of a sequence.
LEMMA TakeFacts ==
  ASSUME NEW S, NEW s \in Seq(S), s # <<>>
  PROVE  /\ Head(s) \in S /\ Head(s) \in Ran(s)
         /\ Tail(s) \in Seq(S) /\ Ran(Tail(s)) \subseteq Ran(s)
<1>1. /\ Head(s) = s[1] /\ Len(s) \in Nat \ {0} /\ Tail(s) \in Seq(S)
      /\ DOMAIN s = 1 .. Len(s) /\ DOMAIN Tail(s) = 1 .. Len(s) - 1
      /\ \A i \in 1 .. Len(s) - 1 : Tail(s)[i] = s[i + 1]
  OBVIOUS
<1>2. \A i \in 1 .. Len(s) - 1 : i + 1 \in 1 .. Len(s)
  BY <1>1
<1> QED BY <1>1, <1>2 DEF Ran

\* Two sequences, one after the other.
LEMMA JoinFacts ==
  ASSUME NEW S, NEW s \in Seq(S), NEW u \in Seq(S)
  PROVE  /\ s \o u \in Seq(S) /\ Len(s) \in Nat /\ Len(u) \in Nat /\ Len(s \o u) = Len(s) + Len(u)
         /\ DOMAIN s = 1 .. Len(s) /\ DOMAIN u = 1 .. Len(u)
         /\ DOMAIN (s \o u) = 1 .. Len(s) + Len(u)
         /\ \A i \in 1 .. Len(s) : (s \o u)[i] = s[i]
         /\ \A i \in 1 .. Len(s) + Len(u) : i > Len(s) => (s \o u)[i] = u[i - Len(s)]
         /\ \A i \in 1 .. Len(s) + Len(u) : (s \o u)[i] \in S
<1>1. s \o u \in Seq(S) /\ Len(s) \in Nat /\ Len(u) \in Nat /\ Len(s \o u) = Len(s) + Len(u)
  OBVIOUS
<1>2. /\ DOMAIN s = 1 .. Len(s) /\ DOMAIN u = 1 .. Len(u)
      /\ DOMAIN (s \o u) = 1 .. Len(s) + Len(u)
  BY <1>1
<1>3. \A i \in 1 .. Len(s) + Len(u) : (s \o u)[i] = IF i <= Len(s) THEN s[i] ELSE u[i - Len(s)]
  OBVIOUS
<1>4. \A i \in 1 .. Len(s) + Len(u) : (s \o u)[i] \in S
  BY <1>1, <1>2
<1> QED BY <1>1, <1>2, <1>3, <1>4

LEMMA NoneRan == \A s \in Seq(M) : Len(s) = 0 => Ran(s) = {}
<1>1. \A s \in Seq(M) : Len(s) = 0 => DOMAIN s = {}
  OBVIOUS
<1>2. \A s : DOMAIN s = {} => Ran(s) = {}
  BY DEF Ran
<1> QED BY <1>1, <1>2

-----------------------------------------------------------------------------
(* What a step of a read task does to the messages it has.                 *)

\* The task of p becomes r.
Becomes(p, r) == /\ rd' = [rd EXCEPT ![p] = r] /\ ReadOK(p, r) /\ r.target \in {None, Link[p]}
                 /\ Ran(r.uncommitted) \subseteq Ran(rd[p].uncommitted) \cup Ran(queue[p])
                 /\ UNCHANGED <<scenario, posted, esb, wrVars>>

\* It keeps them or drops them,
Keeps(p, r) == /\ r.msgs = rd[p].msgs \/ Len(r.msgs) = 0
               /\ r.buffer = rd[p].buffer \/ Len(r.buffer) = 0
               /\ UNCHANGED <<queue, readLog, writes, again>>

\* hands msgs to the scheduler,
Submits(p, r) == /\ Len(r.msgs) = 0 /\ r.buffer = rd[p].buffer
                 /\ rd[p].target # None /\ rd[p].msgs # <<>>
                 /\ writes' = Append(writes, [pool |-> rd[p].target, msgs |-> rd[p].msgs])
                 /\ UNCHANGED <<queue, readLog, again>>

\* is given one by the broker,
Delivered(p, r) == /\ p \notin Kafka /\ queue[p] # <<>>
                   /\ r.msgs = rd[p].msgs /\ r.buffer = Append(rd[p].buffer, Head(queue[p]))
                   /\ queue' = [queue EXCEPT ![p] = Tail(queue[p])]
                   /\ UNCHANGED <<readLog, writes, again>>

\* takes one from its consumer and records it,
Receives(p, r) == /\ p \notin Kafka /\ rd[p].buffer # <<>>
                  /\ r.msgs = Append(rd[p].msgs, Head(rd[p].buffer)) /\ r.buffer = Tail(rd[p].buffer)
                  /\ Recorded(p, Head(rd[p].buffer))
                  /\ UNCHANGED <<queue, writes, again>>

\* ends although that one is recorded,
Refused(p, r) == /\ p \notin Kafka /\ rd[p].buffer # <<>>
                 /\ Len(r.msgs) = 0 /\ Len(r.buffer) = 0
                 /\ Recorded(p, Head(rd[p].buffer))
                 /\ UNCHANGED <<queue, writes, again>>

\* takes and records an empty one,
Blank(p, r) == /\ p \notin Kafka
               /\ r.msgs = Append(rd[p].msgs, Empty) /\ r.buffer = rd[p].buffer
               /\ Recorded(p, Empty)
               /\ UNCHANGED <<queue, writes, again>>

\* or polls one, which may be recorded.
Polls(p, r) == /\ p \in Kafka /\ queue[p] # <<>>
               /\ r.msgs = Append(rd[p].msgs, Head(queue[p])) /\ r.buffer = rd[p].buffer
               /\ queue' = [queue EXCEPT ![p] = Tail(queue[p])]
               /\ Recorded(p, Head(queue[p])) \/ UNCHANGED readLog
               /\ UNCHANGED <<writes, again>>

\* What was not committed, as the messages that it becomes.
Renewed(p) == [i \in DOMAIN rd[p].uncommitted |-> <<rd[p].uncommitted[i][1], Len(again) + i>>]

\* The topic gives out again what was not committed; what the task has it
\* keeps or drops.
Repeats(p, r) == /\ p \in Kafka
                 /\ r.msgs = rd[p].msgs \/ Len(r.msgs) = 0
                 /\ r.buffer = rd[p].buffer
                 /\ Len(again) + Len(rd[p].uncommitted) <= scenario.again
                 /\ again' = again \o [i \in DOMAIN rd[p].uncommitted |-> rd[p].uncommitted[i][1]]
                 /\ queue' = [queue EXCEPT ![p] = Renewed(p) \o queue[p]]
                 /\ UNCHANGED <<readLog, writes>>
Again(p) == \E r \in ReadTask : Becomes(p, r) /\ Repeats(p, r)

\* Whatever other step the read task of p takes, its record becomes r in one
\* of these ways.
Works(p, r) == /\ Becomes(p, r)
               /\ \/ Keeps(p, r) \/ Submits(p, r) \/ Delivered(p, r) \/ Receives(p, r)
                  \/ Refused(p, r) \/ Blank(p, r) \/ Polls(p, r)
ReadWorks(p) == \E r \in ReadTask : Works(p, r)

\* Nothing comes in and nothing is recorded.
LEMMA Dropping ==
  ASSUME NEW p \in Pool, NEW r, rd' = [rd EXCEPT ![p] = r],
         ReadOK(p, r), r.target \in {None, Link[p]},
         r.msgs = rd[p].msgs \/ Len(r.msgs) = 0,
         r.buffer = rd[p].buffer \/ Len(r.buffer) = 0,
         Ran(r.uncommitted) \subseteq Ran(rd[p].uncommitted),
         UNCHANGED <<queue, readLog, sendVars>>
  PROVE  ReadWorks(p)
BY DEF ReadWorks, Works, Becomes, Keeps, ReadOK, sendVars

\* t.msgs goes to the scheduler as one batch.
LEMMA Submitting ==
  ASSUME NEW p \in Pool, NEW r, rd' = [rd EXCEPT ![p] = r],
         ReadOK(p, r), r.target \in {None, Link[p]}, submitToESB(p),
         Len(r.msgs) = 0, r.buffer = rd[p].buffer, r.uncommitted = rd[p].uncommitted,
         UNCHANGED <<queue, readLog>>
  PROVE  ReadWorks(p)
BY DEF ReadWorks, Works, Becomes, Submits, ReadOK, submitToESB

\* What a task that returns still had is dropped.
LEMMA Ending ==
  ASSUME NEW p \in Pool, EndRead(p),
         UNCHANGED <<queue, readLog, sendVars>>
  PROVE  ReadWorks(p)
<1>1. ReadOK(p, NoRead) /\ NoRead.target = None
      /\ Len(NoRead.msgs) = 0 /\ Len(NoRead.buffer) = 0 /\ Ran(NoRead.uncommitted) = {}
  BY DEF NoRead, ReadOK, ReadTask, Ran
<1> HIDE DEF NoRead
<1> QED BY <1>1, Dropping DEF EndRead

(* Every step of a read task that records nothing keeps what it has, hands *)
(* it to the scheduler or drops it.                                        *)
Quiet(p) == \/ PostRead(p) \/ ReadDeadline(p) \/ Connect(p) \/ GetESBRecord(p)
            \/ ConnectionLost(p) \/ RabbitDone(p) \/ RabbitTick(p) \/ KafkaLoop(p)
            \/ KafkaError(p) \/ KafkaTimeout(p) \/ KafkaCancel(p) \/ AutoCommit(p)

LEMMA QuietWork ==
  ASSUME Sound, NEW p \in Pool, Quiet(p)
  PROVE  ReadWorks(p)
<1>0. /\ rd \in [Pool -> ReadTask] /\ rd[p] \in ReadTask /\ ReadOK(p, rd[p])
      /\ rd[p].target \in {None, Link[p]} /\ esb[p] \in {None, Link[p]}
  BY DEF Sound, Typed, Linked
<1> USE <1>0 DEF ReadOK, ReadTask, sendVars, Happens
<1>1. CASE PostRead(p)
  <2> DEFINE r == [rd[p] EXCEPT !.pc = "connect"]
  <2>1. rd' = [rd EXCEPT ![p] = r] /\ ReadOK(p, r)
        /\ r.target = rd[p].target /\ r.msgs = rd[p].msgs /\ r.buffer = rd[p].buffer
          /\ r.uncommitted = rd[p].uncommitted
    BY <1>1 DEF PostRead
  <2> HIDE DEF r
  <2> QED BY <1>1, <2>1, Dropping DEF PostRead
<1>2. CASE ReadDeadline(p)
  <2> DEFINE r == [rd[p] EXCEPT !.expired = TRUE]
  <2>1. rd' = [rd EXCEPT ![p] = r] /\ ReadOK(p, r)
        /\ r.target = rd[p].target /\ r.msgs = rd[p].msgs /\ r.buffer = rd[p].buffer
          /\ r.uncommitted = rd[p].uncommitted
    BY <1>2 DEF ReadDeadline
  <2> HIDE DEF r
  <2> QED BY <1>2, <2>1, Dropping DEF ReadDeadline
<1>3. CASE Connect(p)
  <2>1. CASE EndRead(p)
    BY <1>3, <2>1, Ending DEF Connect
  <2>2. CASE ~EndRead(p)
    <3> DEFINE r == [rd[p] EXCEPT !.pc = "esb", !.open = TRUE]
    <3>1. rd' = [rd EXCEPT ![p] = r] /\ ReadOK(p, r)
          /\ r.target = rd[p].target /\ r.msgs = rd[p].msgs /\ r.buffer = rd[p].buffer
          /\ r.uncommitted = rd[p].uncommitted
      BY <1>3, <2>2 DEF Connect
    <3> HIDE DEF r
    <3> QED BY <1>3, <3>1, Dropping DEF Connect
  <2> QED BY <2>1, <2>2
<1>4. CASE GetESBRecord(p)
  <2>1. CASE EndRead(p)
    BY <1>4, <2>1, Ending DEF GetESBRecord
  <2>2. CASE ~EndRead(p)
    <3> DEFINE r == [rd[p] EXCEPT !.pc = "read", !.target = esb[p], !.run = p \in Kafka]
    <3>1. rd' = [rd EXCEPT ![p] = r] /\ ReadOK(p, r)
          /\ r.target = esb[p] /\ r.msgs = rd[p].msgs /\ r.buffer = rd[p].buffer
          /\ r.uncommitted = rd[p].uncommitted
      <4>1. esb[p] \in Pool \cup {None}
        BY DEF Sound, Typed
      <4>2. r \in ReadTask /\ r.pc = "read"
            /\ r.target = esb[p] /\ r.msgs = rd[p].msgs /\ r.buffer = rd[p].buffer
          /\ r.uncommitted = rd[p].uncommitted
        <5> DEFINE set(k) == [rd[p] EXCEPT !.pc = "read", !.target = esb[p], !.run = k]
        <5>1. ASSUME NEW k \in BOOLEAN
              PROVE  /\ set(k) \in ReadTask /\ set(k).pc = "read" /\ set(k).target = esb[p]
                     /\ set(k).msgs = rd[p].msgs /\ set(k).buffer = rd[p].buffer
                     /\ set(k).uncommitted = rd[p].uncommitted
          BY <4>1
        <5>2. r = set(p \in Kafka) /\ (p \in Kafka) \in BOOLEAN
          OBVIOUS
        <5> HIDE DEF set, r, ReadTask
        <5> QED BY <5>1, <5>2, Zenon
      <4>3. rd' = [rd EXCEPT ![p] = r]
        BY <1>4, <2>2 DEF GetESBRecord
      <4> HIDE DEF r
      <4> QED BY <4>2, <4>3
    <3> HIDE DEF r
    <3> QED BY <1>4, <3>1, Dropping DEF GetESBRecord
  <2> QED BY <2>1, <2>2
<1>5. CASE ConnectionLost(p)
  <2> DEFINE r == [rd[p] EXCEPT !.buffer = <<>>, !.open = FALSE]
  <2>1. rd' = [rd EXCEPT ![p] = r] /\ ReadOK(p, r)
        /\ r.target = rd[p].target /\ r.msgs = rd[p].msgs /\ Len(r.buffer) = 0
        /\ r.uncommitted = rd[p].uncommitted
    <3>1. rd' = [rd EXCEPT ![p] = r] /\ rd[p] \in ReadTask
      BY <1>5 DEF ConnectionLost
    <3>2. /\ r.target = rd[p].target /\ r.msgs = rd[p].msgs /\ r.buffer = <<>>
          /\ r.uncommitted = rd[p].uncommitted /\ r.pc = rd[p].pc
          /\ r \in ReadTask
      BY <3>1
    <3>3. rd[p].pc # "off"
      BY <1>5 DEF ConnectionLost, NoRead
    <3> HIDE DEF r
    <3> QED BY <3>1, <3>2, <3>3
  <2> HIDE DEF r
  <2> QED BY <1>5, <2>1, Dropping DEF ConnectionLost
<1>6. CASE RabbitDone(p)
  BY <1>6, Ending DEF RabbitDone
<1>7. CASE RabbitTick(p)
  <2>1. CASE EndRead(p) /\ UNCHANGED sendVars
    BY <1>7, <2>1, Ending DEF RabbitTick
  <2>2. CASE submitToESB(p) /\ rd' = [rd EXCEPT ![p].msgs = <<>>]
    <3> DEFINE r == [rd[p] EXCEPT !.msgs = <<>>]
    <3>1. rd' = [rd EXCEPT ![p] = r] /\ ReadOK(p, r)
          /\ r.target = rd[p].target /\ Len(r.msgs) = 0 /\ r.buffer = rd[p].buffer
          /\ r.uncommitted = rd[p].uncommitted
      <4>1. rd[p].pc = "read" /\ <<>> \in Seq(M)
        BY <1>7 DEF RabbitTick
      <4> QED BY <2>2, <4>1
    <3> HIDE DEF r
    <3>2. UNCHANGED <<queue, readLog>>
      BY ONLY <1>7 DEF RabbitTick
    <3> QED BY <2>2, <3>1, <3>2, Submitting
  <2> QED BY <1>7, <2>1, <2>2 DEF RabbitTick
<1>8. CASE KafkaLoop(p)
  <2> DEFINE r == [rd[p] EXCEPT !.pc = IF rd[p].run THEN "poll" ELSE "stopped"]
  <2>1. rd' = [rd EXCEPT ![p] = r] /\ ReadOK(p, r)
        /\ r.target = rd[p].target /\ r.msgs = rd[p].msgs /\ r.buffer = rd[p].buffer
          /\ r.uncommitted = rd[p].uncommitted
    BY <1>8 DEF KafkaLoop
  <2> HIDE DEF r
  <2> QED BY <1>8, <2>1, Dropping DEF KafkaLoop
<1>9. CASE KafkaError(p)
  <2> DEFINE r == [rd[p] EXCEPT !.pc = "read", !.run = FALSE]
  <2>1. rd' = [rd EXCEPT ![p] = r] /\ ReadOK(p, r)
        /\ r.target = rd[p].target /\ r.msgs = rd[p].msgs /\ r.buffer = rd[p].buffer
          /\ r.uncommitted = rd[p].uncommitted
    BY <1>9 DEF KafkaError
  <2>2. UNCHANGED <<queue, readLog, sendVars>>
    BY ONLY <1>9 DEF KafkaError
  <2> HIDE DEF r, ReadOK, ReadTask
  <2> QED BY <2>1, <2>2, Dropping
<1>10. CASE KafkaTimeout(p)
  <2>1. CASE rd' = [rd EXCEPT ![p].pc = "read"] /\ UNCHANGED sendVars
    <3> DEFINE r == [rd[p] EXCEPT !.pc = "read"]
    <3>1. rd' = [rd EXCEPT ![p] = r] /\ ReadOK(p, r)
          /\ r.target = rd[p].target /\ r.msgs = rd[p].msgs /\ r.buffer = rd[p].buffer
          /\ r.uncommitted = rd[p].uncommitted
      BY <1>10, <2>1 DEF KafkaTimeout
    <3>2. UNCHANGED <<queue, readLog, sendVars>>
      BY ONLY <1>10, <2>1 DEF KafkaTimeout
    <3> HIDE DEF r, ReadOK, ReadTask
    <3> QED BY <3>1, <3>2, Dropping
  <2>2. CASE submitToESB(p) /\ rd' = [rd EXCEPT ![p].pc = "read", ![p].msgs = <<>>]
    <3> DEFINE r == [rd[p] EXCEPT !.pc = "read", !.msgs = <<>>]
    <3>1. rd' = [rd EXCEPT ![p] = r] /\ ReadOK(p, r)
          /\ r.target = rd[p].target /\ Len(r.msgs) = 0 /\ r.buffer = rd[p].buffer
          /\ r.uncommitted = rd[p].uncommitted
      BY <1>10, <2>2 DEF KafkaTimeout
    <3> HIDE DEF r
    <3>2. UNCHANGED <<queue, readLog>>
      BY ONLY <1>10 DEF KafkaTimeout
    <3> QED BY <2>2, <3>1, <3>2, Submitting
  <2>3. CASE rd' = [rd EXCEPT ![p].pc = "read", ![p].msgs = <<>>, ![p].run = FALSE]
             /\ UNCHANGED sendVars
    <3> DEFINE r == [rd[p] EXCEPT !.pc = "read", !.msgs = <<>>, !.run = FALSE]
    <3>1. rd' = [rd EXCEPT ![p] = r] /\ ReadOK(p, r)
          /\ r.target = rd[p].target /\ Len(r.msgs) = 0 /\ r.buffer = rd[p].buffer
          /\ r.uncommitted = rd[p].uncommitted
      BY <1>10, <2>3 DEF KafkaTimeout
    <3>2. UNCHANGED <<queue, readLog, sendVars>>
      BY ONLY <1>10, <2>3 DEF KafkaTimeout
    <3> HIDE DEF r, ReadOK, ReadTask
    <3> QED BY <3>1, <3>2, Dropping
  <2> QED BY <1>10, <2>1, <2>2, <2>3 DEF KafkaTimeout
<1>11. CASE KafkaCancel(p)
  <2> DEFINE r == [rd[p] EXCEPT !.run = FALSE]
  <2>1. rd' = [rd EXCEPT ![p] = r] /\ ReadOK(p, r)
        /\ r.target = rd[p].target /\ r.msgs = rd[p].msgs /\ r.buffer = rd[p].buffer
          /\ r.uncommitted = rd[p].uncommitted
    <3>1. rd[p].pc # "off"
      BY <1>11 DEF KafkaCancel, NoRead
    <3> QED BY <1>11, <3>1 DEF KafkaCancel
  <2>2. UNCHANGED <<queue, readLog, sendVars>>
    BY ONLY <1>11 DEF KafkaCancel
  <2> HIDE DEF r, ReadOK, ReadTask
  <2> QED BY <2>1, <2>2, Dropping
<1>12. CASE AutoCommit(p)
  <2>1. PICK n \in DOMAIN rd[p].uncommitted :
          rd' = [rd EXCEPT ![p].uncommitted = SubSeq(@, n + 1, Len(@))]
    BY <1>12 DEF AutoCommit
  <2> DEFINE u == SubSeq(rd[p].uncommitted, n + 1, Len(rd[p].uncommitted))
             r == [rd[p] EXCEPT !.uncommitted = u]
  <2>2. u \in Seq(M) /\ Ran(u) \subseteq Ran(rd[p].uncommitted) /\ rd[p].uncommitted # <<>>
    <3>1. rd[p].uncommitted \in Seq(M)
      OBVIOUS
    <3>2. n \in 1 .. Len(rd[p].uncommitted)
      BY <3>1
    <3> HIDE DEF ReadOK, ReadTask
    <3>3. u \in Seq(M) /\ Len(u) = Len(rd[p].uncommitted) - n
          /\ \A i \in 1 .. Len(u) : u[i] = rd[p].uncommitted[n + i]
      BY <3>1, <3>2
    <3>4. \A i \in 1 .. Len(u) : n + i \in DOMAIN rd[p].uncommitted
      BY <3>1, <3>2, <3>3
    <3>5. DOMAIN u = 1 .. Len(u)
      BY <3>3
    <3> HIDE DEF u
    <3> QED BY <1>12, <3>3, <3>4, <3>5 DEF Ran, AutoCommit
  <2> HIDE DEF u
  <2>3. rd' = [rd EXCEPT ![p] = r] /\ ReadOK(p, r)
        /\ r.target = rd[p].target /\ r.msgs = rd[p].msgs /\ r.buffer = rd[p].buffer
        /\ r.uncommitted = u
    <3>1. rd[p].pc # "off" /\ p \in Kafka
      BY <2>2 DEF NoRead
    <3>2. rd' = [rd EXCEPT ![p] = r]
      BY <2>1 DEF u
    <3> QED BY <2>2, <3>1, <3>2
  <2>4. UNCHANGED <<queue, readLog, sendVars>>
    BY ONLY <1>12 DEF AutoCommit
  <2> HIDE DEF r, ReadOK, ReadTask
  <2> QED BY <2>2, <2>3, <2>4, Dropping
<1> HIDE DEF ReadOK, ReadTask, sendVars, Happens
<1> QED BY <1>1, <1>2, <1>3, <1>4, <1>5, <1>6, <1>7, <1>8, <1>9, <1>10, <1>11, <1>12 DEF Quiet

(* The steps by which a message reaches the consumer or msgs.              *)
Takes(p) == Deliver(p) \/ RabbitMessage(p) \/ RabbitEmpty(p) \/ KafkaMessage(p)

LEMMA TakingWork ==
  ASSUME Sound, NEW p \in Pool, Takes(p)
  PROVE  ReadWorks(p)
<1>0. /\ rd \in [Pool -> ReadTask] /\ rd[p] \in ReadTask /\ ReadOK(p, rd[p])
      /\ rd[p].target \in {None, Link[p]}
      /\ rd[p].msgs \in Seq(M) /\ rd[p].buffer \in Seq(M)
      /\ queue \in [Pool -> Seq(M)] /\ queue[p] \in Seq(M)
      /\ readLog \in [Pool -> Seq(M)] /\ readLog[p] \in Seq(M)
      /\ Empty \in M
  BY Messages DEF Sound, Typed, Linked, ReadTask
<1>1. CASE Deliver(p)
  <2> DEFINE m == Head(queue[p])
             r == [rd[p] EXCEPT !.buffer = Append(rd[p].buffer, m)]
  <2>1. m \in M
    BY <1>0, <1>1, TakeFacts DEF Deliver
  <2>2. Append(rd[p].buffer, m) \in Seq(M)
    BY <1>0, <2>1, AppendFacts
  <2> HIDE DEF m
  <2>3. /\ r \in ReadTask /\ r.pc = rd[p].pc /\ r.target = rd[p].target
        /\ r.msgs = rd[p].msgs /\ r.buffer = Append(rd[p].buffer, m)
        /\ r.uncommitted = rd[p].uncommitted
    BY <1>0, <2>2 DEF ReadTask
  <2>4. rd' = [rd EXCEPT ![p] = r] /\ queue' = [queue EXCEPT ![p] = Tail(queue[p])]
        /\ UNCHANGED <<sendVars, readLog>> /\ p \notin Kafka /\ rd[p].open /\ queue[p] # <<>>
    BY <1>0, <1>1 DEF Deliver, m
  <2>5. ReadOK(p, r)
    BY <1>0, <2>3, <2>4 DEF ReadOK, NoRead
  <2> HIDE DEF r
  <2>6. Becomes(p, r) /\ Delivered(p, r)
    BY <1>0, <2>3, <2>4, <2>5 DEF Becomes, Delivered, sendVars, m
  <2> QED BY <2>3, <2>6 DEF ReadWorks, Works
<1>2. CASE RabbitMessage(p)
  <2> DEFINE m == Head(rd[p].buffer)
             r == [rd[p] EXCEPT !.msgs = Append(rd[p].msgs, m), !.buffer = Tail(rd[p].buffer)]
  <2>1. m \in M /\ Tail(rd[p].buffer) \in Seq(M)
    BY <1>0, <1>2, TakeFacts DEF RabbitMessage
  <2>2. Append(rd[p].msgs, m) \in Seq(M)
    BY <1>0, <2>1, AppendFacts
  <2>3. p \notin Kafka /\ rd[p].pc = "read" /\ rd[p].buffer # <<>> /\ UNCHANGED <<sendVars, queue>>
    BY <1>2 DEF RabbitMessage
  <2>4. CASE rd' = [rd EXCEPT ![p].msgs = Append(@, m), ![p].buffer = Tail(@)] /\ Recorded(p, m)
    <3>0. Recorded(p, Head(rd[p].buffer))
      BY <2>4
    <3> HIDE DEF m
    <3>1. /\ r \in ReadTask /\ r.pc = rd[p].pc /\ r.target = rd[p].target
          /\ r.msgs = Append(rd[p].msgs, m) /\ r.buffer = Tail(rd[p].buffer)
          /\ r.uncommitted = rd[p].uncommitted
      BY <1>0, <2>1, <2>2 DEF ReadTask
    <3>2. rd' = [rd EXCEPT ![p] = r]
      BY <1>0, <2>4
    <3>3. ReadOK(p, r)
      BY <1>0, <2>3, <3>1 DEF ReadOK
    <3> HIDE DEF r
    <3>4. Becomes(p, r)
      BY <1>0, <2>3, <3>1, <3>2, <3>3 DEF Becomes, sendVars
    <3>5. Receives(p, r)
      BY <2>3, <3>0, <3>1 DEF Receives, sendVars, m
    <3> QED BY <3>1, <3>4, <3>5 DEF ReadWorks, Works
  <2>5. CASE EndRead(p) /\ UNCHANGED readLog
    BY <2>3, <2>5, Ending
  <2>6. CASE EndRead(p) /\ Recorded(p, m)
    <3>1. ReadOK(p, NoRead) /\ NoRead.target = None /\ NoRead \in ReadTask
          /\ Len(NoRead.msgs) = 0 /\ Len(NoRead.buffer) = 0 /\ Ran(NoRead.uncommitted) = {}
      BY DEF NoRead, ReadOK, ReadTask, Ran
    <3> HIDE DEF NoRead
    <3>2. Becomes(p, NoRead)
      BY <2>3, <2>6, <3>1 DEF Becomes, EndRead, sendVars
    <3>3. Refused(p, NoRead)
      BY <2>3, <2>6, <3>1 DEF Refused, sendVars
    <3> QED BY <3>1, <3>2, <3>3 DEF ReadWorks, Works
  <2> QED BY <1>2, <2>4, <2>5, <2>6 DEF RabbitMessage
<1>3. CASE RabbitEmpty(p)
  <2> DEFINE r == [rd[p] EXCEPT !.msgs = Append(rd[p].msgs, Empty)]
  <2>1. Append(rd[p].msgs, Empty) \in Seq(M)
    BY <1>0, AppendFacts
  <2>2. p \notin Kafka /\ rd[p].pc = "read" /\ UNCHANGED <<sendVars, queue>>
        /\ rd' = [rd EXCEPT ![p] = r] /\ Recorded(p, Empty)
    BY <1>0, <1>3 DEF RabbitEmpty
  <2>3. /\ r \in ReadTask /\ r.pc = rd[p].pc /\ r.target = rd[p].target
        /\ r.msgs = Append(rd[p].msgs, Empty) /\ r.buffer = rd[p].buffer
        /\ r.uncommitted = rd[p].uncommitted
    BY <1>0, <2>1 DEF ReadTask
  <2>4. ReadOK(p, r)
    BY <1>0, <2>2, <2>3 DEF ReadOK
  <2> HIDE DEF r
  <2>5. Becomes(p, r) /\ Blank(p, r)
    BY <1>0, <2>2, <2>3, <2>4 DEF Becomes, Blank, sendVars
  <2> QED BY <2>3, <2>5 DEF ReadWorks, Works
<1>4. CASE KafkaMessage(p)
  <2> DEFINE m == Head(queue[p])
             r == [rd[p] EXCEPT !.pc = "read", !.msgs = Append(rd[p].msgs, m),
                                !.uncommitted = Append(rd[p].uncommitted, m)]
  <2>1. m \in M /\ m \in Ran(queue[p])
    BY <1>0, <1>4, TakeFacts DEF KafkaMessage
  <2>2. Append(rd[p].msgs, m) \in Seq(M)
    BY <1>0, <2>1, AppendFacts
  <2>20. rd[p].uncommitted \in Seq(M)
    BY <1>0 DEF ReadTask
  <2>21. Append(rd[p].uncommitted, m) \in Seq(M)
         /\ Ran(Append(rd[p].uncommitted, m)) \subseteq Ran(rd[p].uncommitted) \cup Ran(queue[p])
    BY <2>1, <2>20, AppendFacts
  <2>3. p \in Kafka
    BY <1>0, <1>4 DEF KafkaMessage, ReadOK
  <2> HIDE DEF m
  <2>4. /\ r \in ReadTask /\ r.pc = "read" /\ r.target = rd[p].target
        /\ r.msgs = Append(rd[p].msgs, m) /\ r.buffer = rd[p].buffer
        /\ r.uncommitted = Append(rd[p].uncommitted, m)
    BY <1>0, <2>2, <2>21 DEF ReadTask
  <2>5. /\ rd' = [rd EXCEPT ![p] = r] /\ queue' = [queue EXCEPT ![p] = Tail(queue[p])]
        /\ queue[p] # <<>> /\ UNCHANGED sendVars
        /\ Recorded(p, m) \/ UNCHANGED readLog
    BY <1>0, <1>4 DEF KafkaMessage, m
  <2>6. ReadOK(p, r)
    BY <1>0, <2>3, <2>4 DEF ReadOK
  <2> HIDE DEF r
  <2>7. Becomes(p, r)
    BY <1>0, <2>4, <2>5, <2>6, <2>21 DEF Becomes, sendVars
  <2>8. Polls(p, r)
    BY <2>3, <2>4, <2>5 DEF Polls, sendVars, m
  <2> QED BY <2>4, <2>7, <2>8 DEF ReadWorks, Works
<1> QED BY <1>1, <1>2, <1>3, <1>4 DEF Takes

\* After a rebalance, or a last commit that fails.
LEMMA AgainWork ==
  ASSUME Sound, NEW p \in Pool, Rebalance(p) \/ KafkaJoin(p)
  PROVE  ReadWorks(p) \/ Again(p)
<1>0. rd \in [Pool -> ReadTask] /\ rd[p] \in ReadTask /\ ReadOK(p, rd[p])
      /\ rd[p].target \in {None, Link[p]}
  BY DEF Sound, Typed, Linked
<1>1. ASSUME GiveOutAgain(p), NEW r, rd' = [rd EXCEPT ![p] = r], ReadOK(p, r),
             r.target \in {None, Link[p]}, r.msgs = rd[p].msgs \/ Len(r.msgs) = 0,
             r.buffer = rd[p].buffer, Ran(r.uncommitted) = {}
      PROVE  Again(p)
  <2>1. p \in Kafka
    BY <1>0, <1>1 DEF GiveOutAgain, ReadOK
  <2>2. /\ again' = again \o [i \in DOMAIN rd[p].uncommitted |-> rd[p].uncommitted[i][1]]
        /\ queue' = [queue EXCEPT ![p] = Renewed(p) \o queue[p]]
        /\ Len(again) + Len(rd[p].uncommitted) <= scenario.again
        /\ UNCHANGED <<scenario, posted, esb, writes, wrVars, readLog>>
    BY <1>1 DEF GiveOutAgain, Renewed
  <2>3. Becomes(p, r)
    BY <1>1, <2>2 DEF Becomes
  <2>4. Repeats(p, r)
    BY <1>1, <2>1, <2>2 DEF Repeats
  <2> QED BY <1>1, <2>3, <2>4 DEF Again, ReadOK
<1>2. CASE Rebalance(p)
  <2> DEFINE r == [rd[p] EXCEPT !.uncommitted = <<>>]
  <2>1. <<>> \in Seq(M) /\ Ran(<<>>) = {}
    BY DEF Ran
  <2>2. /\ r \in ReadTask /\ r.pc = rd[p].pc /\ r.target = rd[p].target /\ r.msgs = rd[p].msgs
        /\ r.buffer = rd[p].buffer /\ r.uncommitted = <<>>
    BY <1>0, <2>1 DEF ReadTask
  <2>3. rd' = [rd EXCEPT ![p] = r] /\ GiveOutAgain(p)
    BY <1>0, <1>2 DEF Rebalance
  <2>4. rd[p].pc # "off"
    BY <1>0, <2>3 DEF GiveOutAgain, ReadOK, NoRead
  <2> HIDE DEF r
  <2>5. ReadOK(p, r)
    BY <1>0, <2>2, <2>4 DEF ReadOK
  <2> QED BY <1>0, <1>1, <2>1, <2>2, <2>3, <2>5
<1>3. CASE KafkaJoin(p)
  <2>1. ReadOK(p, NoRead) /\ NoRead.target = None /\ NoRead.buffer = <<>>
        /\ Len(NoRead.msgs) = 0 /\ Ran(NoRead.uncommitted) = {}
    BY DEF NoRead, ReadOK, ReadTask, Ran
  <2>2. EndRead(p) /\ (GiveOutAgain(p) \/ UNCHANGED <<sendVars, queue, readLog>>)
        /\ rd[p].buffer = <<>>
    BY <1>0, <1>3 DEF KafkaJoin, ReadOK
  <2> HIDE DEF NoRead
  <2>3. CASE GiveOutAgain(p)
    BY <1>1, <2>1, <2>2, <2>3 DEF EndRead
  <2>4. CASE UNCHANGED <<sendVars, queue, readLog>>
    BY <2>2, <2>4, Ending
  <2> QED BY <2>2, <2>3, <2>4
<1> QED BY <1>2, <1>3

\* Every step of a read task is one of those.
LEMMA ReadWork ==
  ASSUME Sound, NEW p \in Pool, read(p)
  PROVE  ReadWorks(p) \/ Again(p)
<1>1. Quiet(p) \/ Takes(p) \/ Rebalance(p) \/ KafkaJoin(p)
  BY DEF read, routine, KafkaPoll, RabbitRead, Quiet, Takes
<1> QED BY <1>1, QuietWork, TakingWork, AgainWork

-----------------------------------------------------------------------------
(* What a step of a write task does to the messages it has: the worker     *)
(* takes a task, sends a message, records one, or fails and drops or leaves*)
(* what it had.                                                            *)
Turns(w, x) == /\ wr' = [wr EXCEPT ![w] = x] /\ WriteOK(x)
               /\ failed' \in [Pool -> SUBSET (0..NumMsgs)]
               /\ \A p \in Pool : failed[p] \subseteq failed'[p]
               /\ UNCHANGED <<scenario, posted, again, esb, rd, readLog>>

\* The worker takes the first batch,
Taken(w, x) == /\ writes # <<>> /\ wr[w].pool = None
               /\ x.pool = Head(writes).pool /\ x.todo = Head(writes).msgs /\ Len(x.sent) = 0
               /\ writes' = Tail(writes)
               /\ UNCHANGED <<queue, late, writeLog>>

\* gives the broker a message,
Sent(w, x) == /\ wr[w].pool \in Pool /\ wr[w].todo # <<>>
              /\ x.pool = wr[w].pool /\ x.todo = Tail(wr[w].todo)
              /\ x.sent = Append(wr[w].sent, Head(wr[w].todo))
              /\ queue' = [queue EXCEPT ![wr[w].pool] = Append(queue[wr[w].pool], Head(wr[w].todo))]
              /\ UNCHANGED <<writes, late, writeLog>>

\* records one as written,
Listed(w, x) ==
  /\ wr[w].pool \in Pool /\ wr[w].sent # <<>>
  /\ x.pool = wr[w].pool /\ x.todo = wr[w].todo /\ x.sent = Tail(wr[w].sent)
  /\ writeLog' = [writeLog EXCEPT ![wr[w].pool] = Append(writeLog[wr[w].pool], Head(wr[w].sent))]
  /\ UNCHANGED <<queue, writes, late>>

\* drops what is left,
Dropped(w, x) == /\ Len(x.todo) = 0 /\ Len(x.sent) = 0
                 /\ UNCHANGED <<queue, writes, late, writeLog>>

\* or leaves it under way to a topic.
Leaves(w, x) ==
  /\ wr[w].pool \in Kafka /\ wr[w].pool \in Pool /\ Len(x.todo) = 0 /\ Len(x.sent) = 0
  /\ late' = Append(late, [pool |-> wr[w].pool, msgs |-> wr[w].todo])
  /\ \A m \in Ran(wr[w].todo) : m[1] \in failed'[wr[w].pool]
  /\ UNCHANGED <<queue, writes, writeLog>>

WriteWorks(w) == \E x \in WriteTask :
  Turns(w, x) /\ (Taken(w, x) \/ Sent(w, x) \/ Listed(w, x) \/ Dropped(w, x) \/ Leaves(w, x))

\* Every step of a write task is one of those.
LEMMA WriteWork ==
  ASSUME Sound, NEW w \in WWorker, write(w)
  PROVE  WriteWorks(w)
<1>0. /\ wr \in [WWorker -> WriteTask] /\ wr[w] \in WriteTask /\ WriteOK(wr[w])
      /\ wr[w].pool \in Pool \cup {None} /\ wr[w].todo \in Seq(M) /\ wr[w].sent \in Seq(M)
      /\ queue \in [Pool -> Seq(M)] /\ writeLog \in [Pool -> Seq(M)]
      /\ failed \in [Pool -> SUBSET (0..NumMsgs)]
  BY DEF Sound, Typed, WriteTask
<1>00. ASSUME EndWrite(w), failed' \in [Pool -> SUBSET (0..NumMsgs)],
              \A p \in Pool : failed[p] \subseteq failed'[p],
              UNCHANGED <<scenario, posted, again, esb, queue, rd, writes, readLog, writeLog>>,
              \/ UNCHANGED late
              \/ /\ wr[w].pool \in Kafka /\ wr[w].pool \in Pool
                 /\ late' = Append(late, [pool |-> wr[w].pool, msgs |-> wr[w].todo])
                 /\ \A m \in Ran(wr[w].todo) : m[1] \in failed'[wr[w].pool]
       PROVE  WriteWorks(w)
  <2>1. NoWrite \in WriteTask /\ WriteOK(NoWrite) /\ Len(NoWrite.todo) = 0 /\ Len(NoWrite.sent) = 0
    BY DEF WriteOK, WriteTask, NoWrite
  <2> HIDE DEF NoWrite
  <2> QED BY <1>00, <2>1 DEF EndWrite, WriteWorks, Turns, Dropped, Leaves
<1>01. ASSUME wr[w].pool # None, NEW rest \in {<<>>, UnderWay(w)}, FailWrite(w, rest),
              UNCHANGED <<scenario, posted, again, esb, queue, rd, writes, readLog, writeLog>>
       PROVE  WriteWorks(w)
  <2> DEFINE s == wr[w].todo \o wr[w].sent
  <2>1. wr[w].pool \in Pool
    BY <1>0, <1>01
  <2>2. /\ s \in Seq(M) /\ DOMAIN wr[w].todo \subseteq DOMAIN s
        /\ \A i \in DOMAIN wr[w].todo : s[i] = wr[w].todo[i]
        /\ \A i \in DOMAIN s : s[i] \in M
    <3>1. \A a, b \in Seq(M) : /\ a \o b \in Seq(M) /\ DOMAIN a \subseteq DOMAIN (a \o b)
                               /\ \A i \in DOMAIN a : (a \o b)[i] = a[i]
                               /\ \A i \in DOMAIN (a \o b) : (a \o b)[i] \in M
      BY JoinFacts
    <3> DEFINE a == wr[w].todo
               b == wr[w].sent
    <3>2. a \in Seq(M) /\ b \in Seq(M) /\ s = a \o b
      BY <1>0
    <3> HIDE DEF a, b, s
    <3>3. /\ s \in Seq(M) /\ DOMAIN a \subseteq DOMAIN s /\ \A i \in DOMAIN a : s[i] = a[i]
          /\ \A i \in DOMAIN s : s[i] \in M
      BY <3>1, <3>2, Zenon
    <3> QED BY <3>3 DEF a
  <2>4. failed' = [failed EXCEPT ![wr[w].pool] = failed[wr[w].pool] \cup Numbers(s)]
    BY <1>01 DEF FailWrite
  <2>5. \A i \in DOMAIN wr[w].todo : wr[w].todo[i][1] \in Numbers(s)
    BY <2>2 DEF Numbers
  <2> HIDE DEF s
  <2>6. Numbers(s) \subseteq 0..NumMsgs
    BY <2>2, Messages DEF Numbers
  <2>7. failed' \in [Pool -> SUBSET (0..NumMsgs)] /\ (\A p \in Pool : failed[p] \subseteq failed'[p])
        /\ Numbers(s) \subseteq failed'[wr[w].pool]
    BY <1>0, <2>1, <2>4, <2>6
  <2>8. \A m \in Ran(wr[w].todo) : m[1] \in failed'[wr[w].pool]
    BY <2>5, <2>7 DEF Ran
  <2>9. \/ UNCHANGED late
        \/ /\ wr[w].pool \in Kafka
           /\ late' = Append(late, [pool |-> wr[w].pool, msgs |-> wr[w].todo])
    BY <1>01 DEF FailWrite, UnderWay
  <2> QED BY <1>00, <1>01, <2>1, <2>7, <2>8, <2>9 DEF FailWrite
<1>1. CASE TakeWrite(w)
  <2> DEFINE b == Head(writes)
             x == [pool |-> b.pool, todo |-> b.msgs, sent |-> <<>>]
  <2>1. b \in Batch
    BY <1>1, TakeFacts DEF TakeWrite, Sound, Typed
  <2> HIDE DEF b
  <2>2. x.pool = b.pool /\ x.todo = b.msgs /\ Len(x.sent) = 0
        /\ x \in WriteTask /\ x.pool # None
    BY <2>1, BrokerAssumption DEF Batch, WriteTask
  <2>3. wr' = [wr EXCEPT ![w] = x] /\ writes # <<>> /\ writes' = Tail(writes) /\ wr[w].pool = None
        /\ UNCHANGED <<scenario, posted, again, esb, queue, rd, late, failed, readLog, writeLog>>
    BY <1>1 DEF TakeWrite, b
  <2> HIDE DEF x
  <2>4. Turns(w, x) /\ Taken(w, x)
    BY <1>0, <2>2, <2>3 DEF Turns, Taken, WriteOK, b
  <2> QED BY <2>2, <2>4 DEF WriteWorks
<1>2. CASE Send(w)
  <2> DEFINE m == Head(wr[w].todo)
             x == [wr[w] EXCEPT !.todo = Tail(wr[w].todo), !.sent = Append(wr[w].sent, m)]
  <2>1. wr[w].pool \in Pool /\ wr[w].todo # <<>>
    BY <1>0, <1>2 DEF Send, WriteOK, NoWrite
  <2>2. m \in M /\ Tail(wr[w].todo) \in Seq(M)
    BY <1>0, <2>1, TakeFacts
  <2>3. Append(wr[w].sent, m) \in Seq(M)
    BY <1>0, <2>2, AppendFacts
  <2> HIDE DEF m
  <2>4. /\ x \in WriteTask /\ x.pool = wr[w].pool /\ x.todo = Tail(wr[w].todo)
        /\ x.sent = Append(wr[w].sent, m)
    BY <1>0, <2>2, <2>3 DEF WriteTask
  <2>5. /\ wr' = [wr EXCEPT ![w] = x]
        /\ queue' = [queue EXCEPT ![wr[w].pool] = Append(queue[wr[w].pool], m)]
        /\ UNCHANGED <<scenario, posted, again, esb, rd, writes, late, failed, readLog, writeLog>>
    BY <1>0, <1>2 DEF Send, m
  <2> HIDE DEF x
  <2>6. x.pool # None
    BY <2>1, <2>4, BrokerAssumption
  <2>7. Turns(w, x)
    BY <1>0, <2>4, <2>5, <2>6 DEF Turns, WriteOK
  <2>8. Sent(w, x)
    BY <2>1, <2>4, <2>5 DEF Sent, m
  <2> QED BY <2>4, <2>7, <2>8 DEF WriteWorks
<1>3. CASE RecordWritten(w)
  <2> DEFINE x == [wr[w] EXCEPT !.sent = Tail(wr[w].sent)]
  <2>1. wr[w].pool \in Pool /\ wr[w].sent # <<>>
    BY <1>0, <1>3 DEF RecordWritten, WriteOK, NoWrite
  <2>2. Tail(wr[w].sent) \in Seq(M)
    BY <1>0, <2>1, TakeFacts
  <2>3. CASE FailWrite(w, UnderWay(w)) /\ UNCHANGED writeLog
    <3>1. wr[w].pool # None
      BY <2>1, BrokerAssumption
    <3> QED BY <1>3, <1>01, <2>3, <3>1 DEF RecordWritten
  <2>4. CASE /\ writeLog' = [writeLog EXCEPT ![wr[w].pool] = Append(@, Head(wr[w].sent))]
             /\ wr' = [wr EXCEPT ![w].sent = Tail(@)]
             /\ UNCHANGED <<late, failed>>
    <3>1. /\ x \in WriteTask /\ x.pool = wr[w].pool /\ x.todo = wr[w].todo
          /\ x.sent = Tail(wr[w].sent)
      BY <1>0, <2>2 DEF WriteTask
    <3>2. wr' = [wr EXCEPT ![w] = x]
          /\ UNCHANGED <<scenario, posted, again, esb, queue, rd, writes, late, failed, readLog>>
      BY <1>0, <1>3, <2>4 DEF RecordWritten
    <3>3. writeLog' = [writeLog EXCEPT ![wr[w].pool] = Append(writeLog[wr[w].pool], Head(wr[w].sent))]
      BY <2>4
    <3> HIDE DEF x
    <3>4. x.pool # None
      BY <2>1, <3>1, BrokerAssumption
    <3>5. Turns(w, x)
      BY <1>0, <3>1, <3>2, <3>4 DEF Turns, WriteOK
    <3>6. Listed(w, x)
      BY <2>1, <3>1, <3>2, <3>3 DEF Listed
    <3> QED BY <3>1, <3>5, <3>6 DEF WriteWorks
  <2> QED BY <1>3, <2>3, <2>4 DEF RecordWritten
<1>4. CASE WriteFails(w)
  BY <1>4, <1>01 DEF WriteFails
<1>5. CASE WriteDone(w)
  BY <1>0, <1>5, <1>00 DEF WriteDone
<1> QED BY <1>1, <1>2, <1>3, <1>4, <1>5 DEF write

-----------------------------------------------------------------------------
(* The steps keep the types and the links.                                 *)
LEMMA ReadSound ==
  ASSUME Sound, NEW p \in Pool, ReadWorks(p)
  PROVE  Sound'
<1>1. PICK r \in ReadTask : Works(p, r)
  BY DEF ReadWorks
<1>2. Becomes(p, r)
  BY <1>1 DEF Works
<1>3. /\ rd[p].msgs \in Seq(M) /\ rd[p].buffer \in Seq(M) /\ rd[p].target \in Pool \cup {None}
      /\ queue[p] \in Seq(M) /\ readLog[p] \in Seq(M)
  BY DEF Sound, Typed, ReadTask
<1>4. queue' \in [Pool -> Seq(M)]
  <2>1. UNCHANGED queue \/ (queue[p] # <<>> /\ queue' = [queue EXCEPT ![p] = Tail(queue[p])])
    BY <1>1 DEF Works, Keeps, Submits, Delivered, Receives, Refused, Blank, Polls
  <2>2. queue[p] # <<>> => Tail(queue[p]) \in Seq(M)
    BY <1>3, TakeFacts
  <2> QED BY <2>1, <2>2 DEF Sound, Typed
<1>5. readLog' \in [Pool -> Seq(M)]
  <2>1. UNCHANGED readLog \/ \E m \in M : Recorded(p, m)
    <3>1. rd[p].buffer # <<>> => Head(rd[p].buffer) \in M
      BY <1>3, TakeFacts
    <3>2. queue[p] # <<>> => Head(queue[p]) \in M
      BY <1>3, TakeFacts
    <3>3. Empty \in M
      BY Messages
    <3> QED BY <1>1, <3>1, <3>2, <3>3
            DEF Works, Keeps, Submits, Delivered, Receives, Refused, Blank, Polls
  <2>2. \A m \in M : Append(readLog[p], m) \in Seq(M)
    BY <1>3, AppendFacts
  <2> QED BY <2>1, <2>2 DEF Sound, Typed, Recorded
<1>6. writes' \in Seq(Batch)
  <2>1. \/ UNCHANGED writes
        \/ /\ rd[p].target # None
           /\ writes' = Append(writes, [pool |-> rd[p].target, msgs |-> rd[p].msgs])
    BY <1>1 DEF Works, Keeps, Submits, Delivered, Receives, Refused, Blank, Polls
  <2>2. rd[p].target # None => [pool |-> rd[p].target, msgs |-> rd[p].msgs] \in Batch
    BY <1>3 DEF Batch
  <2>3. writes \in Seq(Batch)
    BY DEF Sound, Typed
  <2> QED BY <2>1, <2>2, <2>3, AppendFacts
<1>7. \A x \in Pool : rd'[x] = IF x = p THEN r ELSE rd[x]
  BY <1>2 DEF Becomes, Sound, Typed
<1>8. /\ rd' \in [Pool -> ReadTask]
      /\ \A x \in Pool : ReadOK(x, rd'[x]) /\ rd'[x].target \in {None, Link[x]}
  BY <1>2, <1>7 DEF Becomes, Sound, Typed, Linked
<1>9. UNCHANGED <<scenario, posted, again, esb, wr, late, failed, writeLog>>
  BY <1>1, <1>2 DEF Becomes, wrVars, Works, Keeps, Submits, Delivered, Receives, Refused, Blank, Polls
<1> QED BY <1>4, <1>5, <1>6, <1>8, <1>9 DEF Sound, Typed, Linked, Failures, ReadOK, Kafka

\* The messages that are given out again, and their numbers.
LEMMA RenewedFacts ==
  ASSUME Sound, NEW p \in Pool, NEW r, Repeats(p, r)
  PROVE  LET u == rd[p].uncommitted IN
         /\ u \in Seq(M) /\ DOMAIN u = 1 .. Len(u) /\ Len(u) \in Nat
         /\ Renewed(p) \in Seq(M) /\ Len(Renewed(p)) = Len(u)
         /\ \A i \in 1 .. Len(u) : Renewed(p)[i] = <<u[i][1], Len(again) + i>>
         /\ again' \in Seq(0..NumMsgs) /\ Len(again) \in Nat /\ Len(again') = Len(again) + Len(u)
         /\ Len(again') <= scenario.again
         /\ \A i \in 1 .. Len(again) : again'[i] = again[i]
         /\ \A i \in 1 .. Len(u) : again'[Len(again) + i] = u[i][1]
<1> DEFINE u == rd[p].uncommitted
           g == [i \in DOMAIN u |-> u[i][1]]
<1>1. /\ u \in Seq(M) /\ again \in Seq(0..NumMsgs) /\ Len(again) \in Nat
      /\ Len(again) + Len(u) <= scenario.again /\ scenario.again \in 0..NumAgain
      /\ again' = again \o g /\ Renewed(p) = [i \in DOMAIN u |-> <<u[i][1], Len(again) + i>>]
  BY BrokerAssumption DEF Sound, Typed, ReadTask, Repeats, Renewed
<1> HIDE DEF u
<1>2. /\ DOMAIN u = 1 .. Len(u) /\ Len(u) \in Nat
      /\ \A i \in 1 .. Len(u) : u[i] \in M
  BY <1>1
<1>3. \A i \in 1 .. Len(u) : u[i][1] \in 0..NumMsgs /\ Len(again) + i \in 0..NumAgain
  BY <1>1, <1>2, Messages
<1>4. \A i \in 1 .. Len(u) : <<u[i][1], Len(again) + i>> \in M
  BY <1>3, Messages
<1>5. Renewed(p) \in Seq(M) /\ Len(Renewed(p)) = Len(u)
      /\ \A i \in 1 .. Len(u) : Renewed(p)[i] = <<u[i][1], Len(again) + i>>
  BY <1>1, <1>2, <1>4
<1>6. g \in Seq(0..NumMsgs) /\ Len(g) = Len(u) /\ \A i \in 1 .. Len(u) : g[i] = u[i][1]
  BY <1>2, <1>3
<1> HIDE DEF g
<1>7. /\ again' \in Seq(0..NumMsgs) /\ Len(again') = Len(again) + Len(u)
      /\ \A i \in 1 .. Len(again) : again'[i] = again[i]
      /\ \A i \in 1 .. Len(again) + Len(u) : i > Len(again) => again'[i] = g[i - Len(again)]
  <2>1. again \o g = again' /\ g \in Seq(0..NumMsgs) /\ again \in Seq(0..NumMsgs) /\ Len(g) = Len(u)
    BY <1>1, <1>6
  <2>2. \A v \in Seq(0..NumMsgs) : \A j : j = again \o v =>
          /\ j \in Seq(0..NumMsgs) /\ Len(j) = Len(again) + Len(v)
          /\ \A i \in 1 .. Len(again) : j[i] = again[i]
          /\ \A i \in 1 .. Len(again) + Len(v) : i > Len(again) => j[i] = v[i - Len(again)]
    BY <2>1, JoinFacts
  <2>3. /\ again' \in Seq(0..NumMsgs) /\ Len(again') = Len(again) + Len(g)
        /\ \A i \in 1 .. Len(again) : again'[i] = again[i]
        /\ \A i \in 1 .. Len(again) + Len(g) : i > Len(again) => again'[i] = g[i - Len(again)]
    <3>1. again' = again \o g
      BY <2>1
    <3> QED BY <2>1, <2>2, <3>1
  <2> QED BY <2>1, <2>3
<1>8. \A i \in 1 .. Len(u) : again'[Len(again) + i] = u[i][1]
  <2> SUFFICES ASSUME NEW i \in 1 .. Len(u) PROVE again'[Len(again) + i] = u[i][1]
    OBVIOUS
  <2>1. Len(again) + i \in 1 .. Len(again) + Len(u) /\ Len(again) + i > Len(again)
        /\ (Len(again) + i) - Len(again) = i
    BY <1>1, <1>2
  <2> QED BY <1>6, <1>7, <2>1
<1> QED BY <1>1, <1>2, <1>5, <1>7, <1>8 DEF u

\* To give messages out again
LEMMA AgainSound ==
  ASSUME Sound, NEW p \in Pool, Again(p)
  PROVE  Sound'
<1>1. PICK r \in ReadTask : Becomes(p, r) /\ Repeats(p, r)
  BY DEF Again
<1>2. /\ Renewed(p) \in Seq(M) /\ again' \in Seq(0..NumMsgs) /\ Len(again') <= scenario.again
  BY <1>1, RenewedFacts
<1>3. queue' \in [Pool -> Seq(M)]
  <2>1. queue \in [Pool -> Seq(M)] /\ queue' = [queue EXCEPT ![p] = Renewed(p) \o queue[p]]
    BY <1>1 DEF Sound, Typed, Repeats
  <2>2. Renewed(p) \o queue[p] \in Seq(M)
    BY <1>2, <2>1, JoinFacts
  <2> QED BY <2>1, <2>2
<1>4. \A x \in Pool : rd'[x] = IF x = p THEN r ELSE rd[x]
  BY <1>1 DEF Becomes, Sound, Typed
<1>5. /\ rd' \in [Pool -> ReadTask]
      /\ \A x \in Pool : ReadOK(x, rd'[x]) /\ rd'[x].target \in {None, Link[x]}
  BY <1>1, <1>4 DEF Becomes, Sound, Typed, Linked
<1>6. UNCHANGED <<scenario, posted, esb, writes, wr, late, failed, readLog, writeLog>>
  BY <1>1 DEF Becomes, Repeats, wrVars
<1> QED BY <1>2, <1>3, <1>5, <1>6 DEF Sound, Typed, Linked, Failures, ReadOK, Kafka

\* So do the steps of a write task,
LEMMA WriteSound ==
  ASSUME Sound, NEW w \in WWorker, WriteWorks(w)
  PROVE  Sound'
<1>1. PICK x \in WriteTask :
        Turns(w, x) /\ (Taken(w, x) \/ Sent(w, x) \/ Listed(w, x) \/ Dropped(w, x) \/ Leaves(w, x))
  BY DEF WriteWorks
<1>2. wr[w].todo \in Seq(M) /\ wr[w].sent \in Seq(M)
      /\ queue \in [Pool -> Seq(M)] /\ writeLog \in [Pool -> Seq(M)]
  BY DEF Sound, Typed, WriteTask
<1>3. queue' \in [Pool -> Seq(M)]
  <2>1. CASE Sent(w, x)
    <3>1. Head(wr[w].todo) \in M
      BY <1>2, <2>1, TakeFacts DEF Sent
    <3>2. Append(queue[wr[w].pool], Head(wr[w].todo)) \in Seq(M)
      BY <1>2, <2>1, <3>1, AppendFacts DEF Sent
    <3> QED BY <1>2, <2>1, <3>2 DEF Sent
  <2> QED BY <1>1, <1>2, <2>1 DEF Taken, Listed, Dropped, Leaves
<1>4. writeLog' \in [Pool -> Seq(M)]
  <2>1. CASE Listed(w, x)
    <3>1. Head(wr[w].sent) \in M
      BY <1>2, <2>1, TakeFacts DEF Listed
    <3>2. Append(writeLog[wr[w].pool], Head(wr[w].sent)) \in Seq(M)
      BY <1>2, <2>1, <3>1, AppendFacts DEF Listed
    <3> QED BY <1>2, <2>1, <3>2 DEF Listed
  <2> QED BY <1>1, <1>2, <2>1 DEF Taken, Sent, Dropped, Leaves
<1>5. writes' \in Seq(Batch)
  <2>1. writes \in Seq(Batch)
    BY DEF Sound, Typed
  <2>2. UNCHANGED writes \/ (writes # <<>> /\ writes' = Tail(writes))
    BY <1>1 DEF Taken, Sent, Listed, Dropped, Leaves
  <2> QED BY <2>1, <2>2, TakeFacts
<1>6. wr' \in [WWorker -> WriteTask] /\ \A v \in WWorker : WriteOK(wr'[v])
  BY <1>1 DEF Turns, WriteOK, Sound, Typed
<1>7. UNCHANGED <<scenario, posted, again, esb, rd, readLog>>
      /\ failed' \in [Pool -> SUBSET (0..NumMsgs)] /\ \A p \in Pool : failed[p] \subseteq failed'[p]
  BY <1>1 DEF Turns
<1>8. late' \in Seq(Batch)
      /\ \A i \in DOMAIN late' : /\ late'[i].pool \in Kafka
                                 /\ \A m \in Ran(late'[i].msgs) : m[1] \in failed'[late'[i].pool]
  <2>0. /\ late \in Seq(Batch) /\ Len(late) \in Nat /\ DOMAIN late = 1 .. Len(late)
        /\ \A i \in DOMAIN late : /\ late[i].pool \in Kafka /\ late[i].pool \in Pool
                                  /\ \A m \in Ran(late[i].msgs) : m[1] \in failed'[late[i].pool]
    <3>1. late \in Seq(Batch) /\ \A i \in DOMAIN late : late[i] \in Batch
      BY DEF Sound, Typed
    <3>2. \A i \in DOMAIN late : late[i].pool \in Kafka /\ late[i].pool \in Pool
      BY <3>1 DEF Sound, Typed, Batch
    <3>3. \A i \in DOMAIN late : \A m \in Ran(late[i].msgs) : m[1] \in failed'[late[i].pool]
      BY <1>7, <3>2 DEF Sound, Failures
    <3> QED BY <3>1, <3>2, <3>3
  <2>1. CASE UNCHANGED late
    BY <2>0, <2>1
  <2>2. CASE Leaves(w, x)
    <3> DEFINE b == [pool |-> wr[w].pool, msgs |-> wr[w].todo]
    <3>1. b \in Batch /\ b.pool \in Kafka /\ (\A m \in Ran(b.msgs) : m[1] \in failed'[b.pool])
          /\ late' = Append(late, b)
      BY <1>2, <2>2 DEF Leaves, Batch
    <3> HIDE DEF b
    <3>2. /\ late' \in Seq(Batch) /\ DOMAIN late' = 1 .. Len(late) + 1
          /\ late'[Len(late) + 1] = b /\ \A i \in 1 .. Len(late) : late'[i] = late[i]
      BY <2>0, <3>1
    <3>3. \A i \in DOMAIN late' : (i \in DOMAIN late /\ late'[i] = late[i]) \/ late'[i] = b
      BY <2>0, <3>2
    <3> QED BY <2>0, <3>1, <3>2, <3>3
  <2> QED BY <1>1, <2>1, <2>2 DEF Taken, Sent, Listed, Dropped
<1>9. Kafka' = Kafka
  BY <1>7 DEF Kafka
<1>10. Typed'
  BY <1>3, <1>4, <1>5, <1>6, <1>7, <1>8, <1>9 DEF Sound, Typed, ReadOK, WriteOK
<1>11. Linked' /\ Failures'
  BY <1>7, <1>8 DEF Sound, Linked, Failures
<1> QED BY <1>10, <1>11 DEF Sound

(* What is still under way loses its first message, or that arrives.       *)
Arrives(i) == /\ late[i].pool \in Pool /\ late[i].msgs # <<>>
              /\ late' = [late EXCEPT ![i] = [pool |-> late[i].pool, msgs |-> Tail(late[i].msgs)]]
              /\ \/ queue' = [queue EXCEPT ![late[i].pool] = Append(queue[late[i].pool], Head(late[i].msgs))]
                 \/ UNCHANGED queue
              /\ UNCHANGED <<scenario, posted, again, esb, rd, writes, wr, failed, readLog, writeLog>>

LEMMA LateWork ==
  ASSUME Sound, NEW i \in DOMAIN late, LateArrives(i)
  PROVE  Arrives(i) /\ Sound'
<1>0. /\ late \in Seq(Batch) /\ late[i] \in Batch /\ late[i].pool \in Pool /\ late[i].pool \in Kafka
      /\ late[i].msgs \in Seq(M) /\ late[i] = [pool |-> late[i].pool, msgs |-> late[i].msgs]
      /\ queue \in [Pool -> Seq(M)]
      /\ \A m \in Ran(late[i].msgs) : m[1] \in failed[late[i].pool]
  <2>1. late \in Seq(Batch) /\ late[i] \in Batch /\ late[i].pool \in Kafka
    BY DEF Sound, Typed
  <2>2. queue \in [Pool -> Seq(M)] /\ \A m \in Ran(late[i].msgs) : m[1] \in failed[late[i].pool]
    BY DEF Sound, Typed, Failures
  <2>3. \A b \in Batch : b.pool \in Pool /\ b.msgs \in Seq(M) /\ b = [pool |-> b.pool, msgs |-> b.msgs]
    BY DEF Batch
  <2> QED BY <2>1, <2>2, <2>3
<1>1. /\ late[i].msgs # <<>> /\ late' = [late EXCEPT ![i].msgs = Tail(late[i].msgs)]
      /\ \/ queue' = [queue EXCEPT ![late[i].pool] = Append(queue[late[i].pool], Head(late[i].msgs))]
         \/ UNCHANGED queue
      /\ UNCHANGED <<scenario, posted, again, esb, rd, writes, wr, failed, readLog, writeLog>>
  BY DEF LateArrives
<1> DEFINE b == [pool |-> late[i].pool, msgs |-> Tail(late[i].msgs)]
<1>2. Tail(late[i].msgs) \in Seq(M) /\ Ran(Tail(late[i].msgs)) \subseteq Ran(late[i].msgs)
      /\ Head(late[i].msgs) \in M
  BY <1>0, <1>1, TakeFacts
<1>3. [late[i] EXCEPT !.msgs = Tail(late[i].msgs)] = b
  <2>1. \A c \in Batch : \A s : [c EXCEPT !.msgs = s] = [pool |-> c.pool, msgs |-> s]
    BY DEF Batch
  <2> QED BY <1>0, <2>1
<1>4. late' = [late EXCEPT ![i] = b]
  BY <1>1, <1>3
<1>5. Arrives(i)
  BY <1>0, <1>1, <1>4 DEF Arrives
<1>6. b \in Batch /\ b.pool = late[i].pool /\ b.msgs = Tail(late[i].msgs)
  BY <1>0, <1>2 DEF Batch
<1> HIDE DEF b
<1>7. /\ late' \in Seq(Batch) /\ DOMAIN late' = DOMAIN late
      /\ \A j \in DOMAIN late : late'[j] = IF j = i THEN b ELSE late[j]
  BY <1>0, <1>4, <1>6
<1>8. queue' \in [Pool -> Seq(M)]
  <2>1. Append(queue[late[i].pool], Head(late[i].msgs)) \in Seq(M)
    BY <1>0, <1>2, AppendFacts
  <2> QED BY <1>0, <1>1, <2>1
<1>9. Kafka' = Kafka
  BY <1>1 DEF Kafka
<1>10. Failures' /\ \A j \in DOMAIN late' : late'[j].pool \in Kafka
  BY <1>0, <1>1, <1>2, <1>6, <1>7 DEF Sound, Typed, Failures
<1>11. Typed'
  BY <1>1, <1>7, <1>8, <1>9, <1>10 DEF Sound, Typed, ReadOK
<1> QED BY <1>1, <1>5, <1>10, <1>11 DEF Sound, Linked

(* A batch of clients.                                                     *)
Posted(k) == [i \in 1..k |-> <<posted + i, 0>>]

\* The scheduler is given the next k messages, as a batch for Source.
LEMMA PostWork ==
  ASSUME Sound, NEW k \in 1..NumMsgs, PostWrite(k)
  PROVE  /\ Sound' /\ k \in Nat /\ posted \in Nat /\ posted' = posted + k /\ posted' =< NumMsgs
         /\ Posted(k) \in Seq(Msg) /\ Posted(k) \in Seq(M)
         /\ [pool |-> Source, msgs |-> Posted(k)] \in Batch
         /\ writes' = Append(writes, [pool |-> Source, msgs |-> Posted(k)])
         /\ UNCHANGED <<scenario, again, esb, queue, rd, wr, late, failed, readLog, writeLog>>
<1>1. scenario.msgs \in 0 .. NumMsgs /\ posted \in Nat /\ NumMsgs \in Nat /\ Source \in Pool
      /\ k \in Nat /\ posted + k =< scenario.msgs /\ posted' = posted + k
  BY BrokerAssumption DEF Sound, Typed, PostWrite
<1>2. \A i \in 1 .. k : <<posted + i, 0>> \in Msg /\ <<posted + i, 0>> \in M
  <2>1. \A i \in 1 .. k : posted + i \in 0..NumMsgs /\ posted + i # 0 /\ 0 \in 0..NumAgain
    BY <1>1, Messages
  <2> QED BY <2>1, Messages
<1>3. Posted(k) \in Seq(Msg) /\ Posted(k) \in Seq(M)
  BY <1>1, <1>2 DEF Posted
<1>4. /\ writes' = Append(writes, [pool |-> Source, msgs |-> Posted(k)])
      /\ UNCHANGED <<scenario, again, esb, queue, rd, wr, late, failed, readLog, writeLog>>
  BY DEF PostWrite, Posted, wrVars
<1>5. [pool |-> Source, msgs |-> Posted(k)] \in Batch
  BY <1>1, <1>3 DEF Batch
<1>6. writes' \in Seq(Batch)
  BY <1>4, <1>5, AppendFacts DEF Sound, Typed
<1>7. posted' \in 0 .. scenario'.msgs
  BY <1>1, <1>4
<1>8. Sound'
  BY <1>4, <1>6, <1>7 DEF Sound, Typed, Linked, Failures, ReadOK, Kafka
<1> QED BY <1>1, <1>3, <1>4, <1>5, <1>8

\* What moves messages, or tells which of them have begun.
boxVars == <<scenario, posted, again, queue, rd, writes, wr, late, failed, readLog, writeLog>>

\* Storing or removing an ESB record touches no message.
LEMMA EditSound ==
  ASSUME Sound, NEW p \in Pool, AddEsbRecord(p) \/ RemoveEsbRecord(p)
  PROVE  Sound' /\ UNCHANGED boxVars
<1>0. /\ esb \in [Pool -> Pool \cup {None}] /\ \A q \in Pool : esb[q] \in {None, Link[q]}
      /\ Link[p] \in Pool \cup {None}
  BY BrokerAssumption DEF Sound, Typed, Linked
<1>1. \E x \in {None, Link[p]} : esb' = [esb EXCEPT ![p] = x]
  BY DEF AddEsbRecord, RemoveEsbRecord
<1>2. UNCHANGED boxVars
  BY DEF AddEsbRecord, RemoveEsbRecord, wrVars, boxVars
<1>3. esb' \in [Pool -> Pool \cup {None}] /\ \A q \in Pool : esb'[q] \in {None, Link[q]}
  BY ONLY <1>0, <1>1
<1> QED BY <1>2, <1>3 DEF Sound, Typed, Linked, Failures, ReadOK, Kafka, boxVars

\* A step is one of these.
LEMMA Steps ==
  ASSUME Sound, [Next]_vars
  PROVE  \/ UNCHANGED boxVars
         \/ \E k \in 1..NumMsgs : PostWrite(k)
         \/ \E p \in Pool : ReadWorks(p)
         \/ \E p \in Pool : Again(p)
         \/ \E w \in WWorker : WriteWorks(w)
         \/ \E i \in DOMAIN late : Arrives(i)
<1>1. CASE UNCHANGED vars
  BY <1>1 DEF vars, sendVars, wrVars, boxVars
<1> QED BY <1>1, EditSound, ReadWork, WriteWork, LateWork DEF Next

\* No step leaves the types.
LEMMA StaysSound == Sound /\ [Next]_vars => Sound'
<1> SUFFICES ASSUME Sound, [Next]_vars PROVE Sound'
  OBVIOUS
<1>1. CASE UNCHANGED vars
  BY <1>1 DEF vars, sendVars, wrVars, Sound, Typed, Linked, Failures, ReadOK, Kafka
<1>2. ASSUME NEW p \in Pool, read(p) PROVE Sound'
  BY <1>2, ReadWork, ReadSound, AgainSound
<1>3. ASSUME NEW w \in WWorker, write(w) PROVE Sound'
  BY <1>3, WriteWork, WriteSound
<1> QED BY <1>1, <1>2, <1>3, PostWork, EditSound, LateWork DEF Next

LEMMA StartsSound == Init => Sound
<1> SUFFICES ASSUME Init PROVE Sound
  OBVIOUS
<1>1. NoRead \in ReadTask /\ NoWrite \in WriteTask /\ NoRead.target = None
      /\ (\A p \in Pool : ReadOK(p, NoRead)) /\ WriteOK(NoWrite)
  BY DEF NoRead, NoWrite, ReadTask, WriteTask, ReadOK, WriteOK
<1> HIDE DEF NoRead, NoWrite
<1>2. rd \in [Pool -> ReadTask] /\ wr \in [WWorker -> WriteTask]
      /\ (\A p \in Pool : rd[p] = NoRead) /\ (\A w \in WWorker : wr[w] = NoWrite)
  BY <1>1 DEF Init
<1>3. scenario.msgs \in Nat /\ scenario.again \in Nat
  BY BrokerAssumption DEF Init
<1>4. queue \in [Pool -> Seq(M)] /\ readLog \in [Pool -> Seq(M)] /\ writeLog \in [Pool -> Seq(M)]
      /\ writes \in Seq(Batch) /\ late \in Seq(Batch) /\ DOMAIN late = {}
      /\ again \in Seq(0..NumMsgs) /\ Len(again) = 0
      /\ failed \in [Pool -> SUBSET (0..NumMsgs)]
  BY DEF Init
<1>5. Typed
  BY <1>1, <1>2, <1>3, <1>4, BrokerAssumption DEF Init, Typed
<1>6. Linked
  BY <1>1, <1>2, BrokerAssumption DEF Linked, Init
<1> QED BY <1>4, <1>5, <1>6 DEF Sound, Failures

LEMMA AlwaysSound == Spec => []Sound
BY StartsSound, StaysSound, PTL DEF Spec

(* The tasks, batches, queues and lists of BrokerTasks are what TypeOK     *)
(* says they are.                                                          *)
THEOREM TypeCorrect == Spec => []TypeOK
<1>1. Sound => TypeOK
  BY Types DEF Sound
<1> QED BY <1>1, AlwaysSound, PTL

-----------------------------------------------------------------------------
(* What a rabbitmq pool forwards, it has recorded.                         *)

\* The number of m was recorded by the rabbitmq pool that feeds q.
Known(q, m) == \A p \in Pool \ Kafka : Link[p] = q /\ q # Source => m[1] \in Numbers(readLog[p])

\* Every message of s is known to the pools that feed q.
Announced(q, s) == \A m \in Msg : m \in Ran(s) => Known(q, m)

\* A read task forwards what it has in msgs, and has recorded it.
Records(p) == p \notin Kafka => \A m \in Ran(rd[p].msgs) : m[1] \in Numbers(readLog[p])

\* What is on its way to a pool, in it, or may be given out by it again is known
\* to the pools that feed it; what a rabbitmq task has in t.msgs it has recorded.
First ==
  /\ \A b \in Ran(writes) \cup Ran(late) : Announced(b.pool, b.msgs)
  /\ \A w \in WWorker : Announced(wr[w].pool, wr[w].todo)
  /\ \A q \in Pool : /\ Announced(q, queue[q]) /\ Announced(q, rd[q].uncommitted)
                     /\ Announced(q, rd[q].buffer) /\ Announced(q, rd[q].msgs)
                     /\ Records(q)

(* Whoever feeds a pool is the one pool linked to it.                      *)
OneFeeder == \A p, q \in Pool : Link[p] # None /\ Link[p] = Link[q] => p = q

\* The numbers of a sequence are those of its elements.
LEMMA NumbersOf ==
  /\ \A s : Numbers(s) = {m[1] : m \in Ran(s)}
  /\ \A s \in Seq(M), m \in M : Numbers(Append(s, m)) = Numbers(s) \cup {m[1]}
<1>1. \A s : Numbers(s) = {m[1] : m \in Ran(s)}
  BY DEF Numbers, Ran
<1>2. \A s \in Seq(M), m \in M : Ran(Append(s, m)) = Ran(s) \cup {m}
  BY AppendFacts
<1> QED BY <1>1, <1>2

\* The logs grow, so what is known remains known.
LEMMA StillKnown ==
  ASSUME UNCHANGED scenario,
         \A p \in Pool : Numbers(readLog[p]) \subseteq Numbers(readLog'[p])
  PROVE  /\ \A q, m : Known(q, m) => Known(q, m)'
         /\ Kafka' = Kafka
BY DEF Known, Kafka

\* A read task takes what it recorded first, and submits only what it has
\* taken.
LEMMA FirstRead ==
  ASSUME OneFeeder, Sound, First, NEW p \in Pool, ReadWorks(p)
  PROVE  First'
<1>1. PICK r \in ReadTask : Works(p, r)
  BY DEF ReadWorks
<1>2. /\ Becomes(p, r)
      /\ \/ Keeps(p, r) \/ Submits(p, r) \/ Delivered(p, r) \/ Receives(p, r)
         \/ Refused(p, r) \/ Blank(p, r) \/ Polls(p, r)
  BY <1>1 DEF Works
<1>3. /\ rd[p].msgs \in Seq(M) /\ rd[p].buffer \in Seq(M) /\ queue[p] \in Seq(M)
      /\ readLog[p] \in Seq(M) /\ r.msgs \in Seq(M) /\ r.buffer \in Seq(M)
      /\ Empty \in M /\ Empty \notin Msg /\ writes \in Seq(Batch)
  <2>1. Empty \in M /\ Empty \notin Msg
    BY Messages
  <2> QED BY <2>1 DEF Sound, Typed, ReadTask
<1>4. /\ rd[p].buffer # <<>> =>
           /\ Head(rd[p].buffer) \in M /\ Head(rd[p].buffer) \in Ran(rd[p].buffer)
           /\ Ran(Tail(rd[p].buffer)) \subseteq Ran(rd[p].buffer)
      /\ queue[p] # <<>> =>
           /\ Head(queue[p]) \in M /\ Head(queue[p]) \in Ran(queue[p])
           /\ Ran(Tail(queue[p])) \subseteq Ran(queue[p])
  BY <1>3, TakeFacts
<1>5. /\ \A m \in M : Ran(Append(rd[p].msgs, m)) = Ran(rd[p].msgs) \cup {m}
      /\ \A m \in M : Ran(Append(rd[p].buffer, m)) = Ran(rd[p].buffer) \cup {m}
      /\ \A m \in M : Numbers(Append(readLog[p], m)) = Numbers(readLog[p]) \cup {m[1]}
      /\ Len(r.msgs) = 0 => Ran(r.msgs) = {}
      /\ Len(r.buffer) = 0 => Ran(r.buffer) = {}
  BY <1>3, AppendFacts, NumbersOf, NoneRan
<1>6. /\ rd'[p] = r /\ \A x \in Pool : x # p => rd'[x] = rd[x]
      /\ UNCHANGED <<scenario, wr, late>>
      /\ Ran(r.uncommitted) \subseteq Ran(rd[p].uncommitted) \cup Ran(queue[p])
  BY <1>2 DEF Becomes, wrVars, Sound, Typed
<1>7. /\ \A x \in Pool : x # p => queue'[x] = queue[x]
      /\ queue'[p] = queue[p] \/ (queue[p] # <<>> /\ queue'[p] = Tail(queue[p]))
  BY <1>2 DEF Keeps, Submits, Delivered, Receives, Refused, Blank, Polls, Sound, Typed
<1>8. /\ \A x \in Pool : x # p => readLog'[x] = readLog[x]
      /\ readLog'[p] = readLog[p] \/ \E m \in M : readLog'[p] = Append(readLog[p], m)
  BY <1>2, <1>3, <1>4
     DEF Keeps, Submits, Delivered, Receives, Refused, Blank, Polls, Recorded, Sound, Typed
<1>9. \A x \in Pool : Numbers(readLog[x]) \subseteq Numbers(readLog'[x])
  <2>1. \A m \in M : Numbers(readLog[p]) \subseteq Numbers(Append(readLog[p], m))
    BY <1>5
  <2>2. Numbers(readLog[p]) \subseteq Numbers(readLog'[p])
    BY <1>8, <2>1, Zenon
  <2> QED BY <1>8, <2>2
<1>10. Kafka' = Kafka /\ \A q, m : Known(q, m) => Known(q, m)'
  BY <1>6, <1>9, StillKnown
<1>11. \A x \in Pool :
         Ran(queue'[x]) \cup Ran(rd'[x].buffer) \cup Ran(rd'[x].msgs) \cup Ran(rd'[x].uncommitted)
           \subseteq Ran(queue[x]) \cup Ran(rd[x].buffer) \cup Ran(rd[x].msgs)
                       \cup Ran(rd[x].uncommitted) \cup {Empty}
  <2>1. Ran(queue'[p]) \subseteq Ran(queue[p])
    BY <1>4, <1>7
  <2>2. Ran(r.buffer) \subseteq Ran(queue[p]) \cup Ran(rd[p].buffer)
    <3>1. \/ r.buffer = rd[p].buffer \/ Len(r.buffer) = 0
          \/ rd[p].buffer # <<>> /\ r.buffer = Tail(rd[p].buffer)
          \/ queue[p] # <<>> /\ r.buffer = Append(rd[p].buffer, Head(queue[p]))
      BY <1>2 DEF Keeps, Submits, Delivered, Receives, Refused, Blank, Polls
    <3>2. queue[p] # <<>> => Ran(Append(rd[p].buffer, Head(queue[p]))) \subseteq Ran(queue[p]) \cup Ran(rd[p].buffer)
      BY <1>4, <1>5
    <3>3. rd[p].buffer # <<>> => Ran(Tail(rd[p].buffer)) \subseteq Ran(rd[p].buffer)
      BY <1>4
    <3>4. Len(r.buffer) = 0 => Ran(r.buffer) = {}
      BY <1>5
    <3> QED BY <3>1, <3>2, <3>3, <3>4
  <2>3. Ran(r.msgs) \subseteq Ran(queue[p]) \cup Ran(rd[p].buffer) \cup Ran(rd[p].msgs) \cup {Empty}
    <3>1. r.msgs = rd[p].msgs \/ Len(r.msgs) = 0
            \/ \E m \in Ran(queue[p]) \cup Ran(rd[p].buffer) \cup {Empty} :
                 m \in M /\ r.msgs = Append(rd[p].msgs, m)
      BY <1>2, <1>3, <1>4 DEF Keeps, Submits, Delivered, Receives, Refused, Blank, Polls
    <3> QED BY <1>5, <3>1
  <2> QED BY <1>6, <1>7, <2>1, <2>2, <2>3
<1>12. ASSUME NEW x \in Pool, NEW m \in Msg,
              m \in Ran(queue'[x]) \cup Ran(rd'[x].buffer) \cup Ran(rd'[x].msgs)
                     \cup Ran(rd'[x].uncommitted)
       PROVE  Known(x, m)'
  <2>1. m \in Ran(queue[x]) \cup Ran(rd[x].buffer) \cup Ran(rd[x].msgs) \cup Ran(rd[x].uncommitted)
    BY <1>3, <1>11, <1>12
  <2> QED BY <1>10, <2>1 DEF First, Announced
<1>13. \A x \in Pool : Records(x)'
  <2>1. p \notin Kafka => \A m \in Ran(r.msgs) : m[1] \in Numbers(readLog'[p])
    <3>1. p \notin Kafka => \A m \in Ran(rd[p].msgs) : m[1] \in Numbers(readLog'[p])
      BY <1>9 DEF First, Records
    <3>2. CASE Receives(p, r)
      <4>1. readLog'[p] = Append(readLog[p], Head(rd[p].buffer))
        BY <3>2 DEF Receives, Recorded, Sound, Typed
      <4> QED BY <1>4, <1>5, <3>1, <3>2, <4>1 DEF Receives
    <3>3. CASE Blank(p, r)
      <4>1. readLog'[p] = Append(readLog[p], Empty)
        BY <3>3 DEF Blank, Recorded, Sound, Typed
      <4> QED BY <1>3, <1>5, <3>1, <3>3, <4>1 DEF Blank
    <3> QED BY <1>2, <1>5, <3>1, <3>2, <3>3 DEF Keeps, Submits, Delivered, Refused, Polls
  <2>2. \A x \in Pool : x # p => (x \notin Kafka => \A m \in Ran(rd'[x].msgs) : m[1] \in Numbers(readLog'[x]))
    BY <1>6, <1>8 DEF First, Records
  <2> QED BY <1>6, <1>10, <2>1, <2>2 DEF Records
<1>14. \A w \in WWorker : \A m \in Msg : m \in Ran(wr'[w].todo) => Known(wr[w].pool, m)'
  BY <1>6, <1>10 DEF First, Announced
<1>15. \A b \in Ran(writes') \cup Ran(late') : \A m \in Msg : m \in Ran(b.msgs) => Known(b.pool, m)'
  <2>1. \A b \in Ran(writes) \cup Ran(late') : \A m \in Msg : m \in Ran(b.msgs) => Known(b.pool, m)'
    BY <1>6, <1>10 DEF First, Announced
  <2>2. CASE UNCHANGED writes
    BY <2>1, <2>2
  <2>3. CASE Submits(p, r)
    <3> DEFINE b == [pool |-> rd[p].target, msgs |-> rd[p].msgs]
    <3>1. b \in Batch /\ b.pool = Link[p] /\ Link[p] # None /\ b.msgs = rd[p].msgs
      BY <2>3 DEF Submits, Sound, Typed, Linked, ReadTask, Batch
    <3>2. \A q \in Pool : Link[q] = Link[p] => q = p
      BY <3>1 DEF OneFeeder
    <3>3. \A m \in Msg : m \in Ran(b.msgs) => Known(b.pool, m)
      BY <3>1, <3>2 DEF Known, First, Records
    <3>4. writes' = Append(writes, b)
      BY <2>3 DEF Submits
    <3> HIDE DEF b
    <3>5. Ran(writes') = Ran(writes) \cup {b}
      BY <1>3, <3>1, <3>4, AppendFacts
    <3> QED BY <1>10, <2>1, <3>3, <3>5
  <2> QED BY <1>2, <2>2, <2>3 DEF Keeps, Delivered, Receives, Refused, Blank, Polls
<1> QED BY <1>6, <1>12, <1>13, <1>14, <1>15 DEF First, Announced

\* A message that is given out again has a number that is known.
LEMMA FirstAgain ==
  ASSUME Sound, First, NEW p \in Pool, Again(p)
  PROVE  First'
<1>1. PICK r \in ReadTask : Becomes(p, r) /\ Repeats(p, r)
  BY DEF Again
<1> DEFINE u == rd[p].uncommitted
<1>2. /\ u \in Seq(M) /\ DOMAIN u = 1 .. Len(u)
      /\ Renewed(p) \in Seq(M) /\ Len(Renewed(p)) = Len(u)
      /\ \A i \in 1 .. Len(u) : Renewed(p)[i] = <<u[i][1], Len(again) + i>>
  BY <1>1, RenewedFacts
<1>3. /\ \A x \in Pool : rd'[x] = IF x = p THEN r ELSE rd[x]
      /\ \A x \in Pool : queue'[x] = IF x = p THEN Renewed(p) \o queue[p] ELSE queue[x]
      /\ p \in Kafka /\ r.msgs \in Seq(M) /\ (r.msgs = rd[p].msgs \/ Len(r.msgs) = 0)
      /\ r.buffer = rd[p].buffer
      /\ Ran(r.uncommitted) \subseteq Ran(u) \cup Ran(queue[p])
      /\ UNCHANGED <<scenario, writes, wr, late, readLog>>
  BY <1>1 DEF Becomes, Repeats, wrVars, Sound, Typed, ReadTask
<1>4. /\ Kafka' = Kafka /\ \A q, m : Known(q, m)' <=> Known(q, m)
      /\ \A q, s : Announced(q, s)' <=> Announced(q, s)
  BY <1>3 DEF Known, Kafka, Announced
<1>5. Ran(Renewed(p) \o queue[p]) \subseteq Ran(Renewed(p)) \cup Ran(queue[p])
  <2>1. \A a, b \in Seq(M) : \A j : j = a \o b => Ran(j) \subseteq Ran(a) \cup Ran(b)
    <3> SUFFICES ASSUME NEW a \in Seq(M), NEW b \in Seq(M), NEW j, j = a \o b
                 PROVE  Ran(j) \subseteq Ran(a) \cup Ran(b)
      OBVIOUS
    <3>1. /\ Len(a) \in Nat /\ Len(b) \in Nat /\ DOMAIN a = 1 .. Len(a) /\ DOMAIN b = 1 .. Len(b)
          /\ DOMAIN j = 1 .. Len(a) + Len(b)
          /\ \A i \in 1 .. Len(a) : j[i] = a[i]
          /\ \A i \in 1 .. Len(a) + Len(b) : i > Len(a) => j[i] = b[i - Len(a)]
      BY JoinFacts
    <3>2. \A i \in DOMAIN j : i \in DOMAIN a \/ (i > Len(a) /\ i - Len(a) \in DOMAIN b)
      BY <3>1
    <3>3. \A i \in DOMAIN j : j[i] \in Ran(a) \/ j[i] \in Ran(b)
      BY <3>1, <3>2 DEF Ran
    <3> QED BY <3>3 DEF Ran
  <2>2. queue[p] \in Seq(M)
    BY DEF Sound, Typed
  <2> QED BY <1>2, <2>1, <2>2
<1>6. Announced(p, Renewed(p))
  <2> SUFFICES ASSUME NEW m \in Msg, m \in Ran(Renewed(p)) PROVE Known(p, m)
    BY DEF Announced
  <2>0. PICK i \in DOMAIN Renewed(p) : m = Renewed(p)[i]
    BY DEF Ran
  <2>1. i \in 1 .. Len(u) /\ m = <<u[i][1], Len(again) + i>>
    <3>1. DOMAIN Renewed(p) = DOMAIN u
      BY DEF Renewed
    <3> QED BY <1>2, <2>0, <3>1
  <2>2. u[i] \in M /\ u[i] \in Ran(u) /\ u[i][1] = m[1]
    BY <1>2, <2>1 DEF Ran
  <2>3. u[i] \in Msg
    BY <2>2, Messages
  <2> HIDE DEF u
  <2>4. Known(p, u[i])
    BY <2>2, <2>3 DEF First, Announced, u
  <2> QED BY <2>2, <2>4 DEF Known
<1>7. Announced(p, queue'[p])
  BY <1>3, <1>5, <1>6 DEF First, Announced
<1>8. Announced(p, r.msgs) /\ Announced(p, r.buffer) /\ Announced(p, r.uncommitted)
  <2>1. Len(r.msgs) = 0 => Ran(r.msgs) = {}
    BY <1>3, NoneRan
  <2> QED BY <1>3, <2>1 DEF First, Announced
<1>9. \A x \in Pool : Records(x)'
  BY <1>3, <1>4 DEF First, Records
<1>10. \A x \in Pool : /\ Announced(x, queue'[x]) /\ Announced(x, rd'[x].uncommitted)
                       /\ Announced(x, rd'[x].buffer) /\ Announced(x, rd'[x].msgs)
  BY <1>3, <1>7, <1>8 DEF First
<1>11. /\ \A b \in Ran(writes') \cup Ran(late') : Announced(b.pool, b.msgs)
       /\ \A w \in WWorker : Announced(wr'[w].pool, wr'[w].todo)
  BY <1>3 DEF First
<1>12. \A x, s : Announced(x, s) => \A m \in Msg : m \in Ran(s) => Known(x, m)'
  BY <1>4 DEF Announced
<1> QED BY <1>9, <1>10, <1>11, <1>12 DEF First, Announced

\* A write task carries a batch to the pool that the batch is for.
LEMMA FirstWrite ==
  ASSUME Sound, First, NEW w \in WWorker, WriteWorks(w)
  PROVE  First'
<1>1. PICK x \in WriteTask :
        Turns(w, x) /\ (Taken(w, x) \/ Sent(w, x) \/ Listed(w, x) \/ Dropped(w, x) \/ Leaves(w, x))
  BY DEF WriteWorks
<1>2. /\ wr[w].todo \in Seq(M) /\ writes \in Seq(Batch) /\ \A p \in Pool : queue[p] \in Seq(M)
      /\ x.todo \in Seq(M) /\ late \in Seq(Batch)
  BY DEF Sound, Typed, WriteTask
<1>3. \A q, m : Known(q, m)' <=> Known(q, m)
  BY <1>1 DEF Turns, Known, Kafka
<1>4. /\ wr'[w] = x /\ \A v \in WWorker : v # w => wr'[v] = wr[v]
      /\ UNCHANGED <<scenario, rd, readLog>>
  BY <1>1 DEF Turns, Sound, Typed
<1>5. Announced(x.pool, x.todo)
  <2>1. CASE Taken(w, x)
    <3>1. Head(writes) \in Ran(writes)
      BY <1>2, <2>1, TakeFacts DEF Taken
    <3> QED BY <2>1, <3>1 DEF Taken, First
  <2>2. CASE Sent(w, x)
    <3>1. Ran(Tail(wr[w].todo)) \subseteq Ran(wr[w].todo)
      BY <1>2, <2>2, TakeFacts DEF Sent
    <3> QED BY <2>2, <3>1 DEF Sent, First, Announced
  <2>3. CASE Dropped(w, x) \/ Leaves(w, x)
    <3>1. Ran(x.todo) = {}
      BY <1>2, <2>3, NoneRan DEF Dropped, Leaves
    <3> QED BY <3>1 DEF Announced
  <2> QED BY <1>1, <2>1, <2>2, <2>3 DEF Listed, First
<1>6. Ran(writes') \subseteq Ran(writes)
  <2>1. writes # <<>> => Ran(Tail(writes)) \subseteq Ran(writes)
    BY <1>2, TakeFacts
  <2> QED BY <1>1, <2>1 DEF Taken, Sent, Listed, Dropped, Leaves
<1>60. \A b \in Ran(late') : Announced(b.pool, b.msgs)
  <2>1. CASE UNCHANGED late
    BY <2>1 DEF First
  <2>2. CASE Leaves(w, x)
    <3> DEFINE b == [pool |-> wr[w].pool, msgs |-> wr[w].todo]
    <3>1. b \in Batch /\ Announced(b.pool, b.msgs) /\ late' = Append(late, b)
      BY <1>2, <2>2 DEF Leaves, Batch, First
    <3> HIDE DEF b
    <3>2. Ran(late') = Ran(late) \cup {b}
      BY <1>2, <3>1, AppendFacts
    <3> QED BY <3>1, <3>2 DEF First
  <2> QED BY <1>1, <2>1, <2>2 DEF Taken, Sent, Listed, Dropped
<1>7. \A q \in Pool : Announced(q, queue'[q])
  <2>1. CASE Sent(w, x)
    <3> DEFINE m == Head(wr[w].todo)
    <3>1. m \in M /\ m \in Ran(wr[w].todo)
      BY <1>2, <2>1, TakeFacts DEF Sent
    <3>2. Ran(Append(queue[wr[w].pool], m)) = Ran(queue[wr[w].pool]) \cup {m}
      BY <1>2, <2>1, <3>1, AppendFacts DEF Sent
    <3>3. \A q \in Pool : queue'[q] = IF q = wr[w].pool THEN Append(queue[wr[w].pool], m) ELSE queue[q]
      BY <2>1 DEF Sent, Sound, Typed
    <3> HIDE DEF m
    <3> QED BY <3>1, <3>2, <3>3 DEF First, Announced
  <2> QED BY <1>1, <2>1 DEF Taken, Listed, Dropped, Leaves, First
<1>8. /\ \A v \in WWorker : Announced(wr'[v].pool, wr'[v].todo)
      /\ \A b \in Ran(writes') \cup Ran(late') : Announced(b.pool, b.msgs)
      /\ \A q \in Pool : /\ Announced(q, rd[q].buffer) /\ Announced(q, rd[q].msgs)
                         /\ Announced(q, rd[q].uncommitted) /\ Records(q)
  BY <1>4, <1>5, <1>6, <1>60 DEF First
<1>9. \A q, s : Announced(q, s) => (\A m \in Msg : m \in Ran(s) => Known(q, m)')
  BY <1>3 DEF Announced
<1>10. \A q : Records(q) => Records(q)'
  BY <1>4 DEF Records, Kafka
<1> QED BY <1>4, <1>7, <1>8, <1>9, <1>10 DEF First, Announced

\* A message that arrives late was on its way.
LEMMA FirstLate ==
  ASSUME Sound, First, NEW i \in DOMAIN late, Arrives(i)
  PROVE  First'
<1> DEFINE q == late[i].pool
           m == Head(late[i].msgs)
           b == [pool |-> q, msgs |-> Tail(late[i].msgs)]
<1>1. /\ late \in Seq(Batch) /\ late[i].msgs \in Seq(M) /\ queue \in [Pool -> Seq(M)]
      /\ q \in Pool /\ Announced(q, late[i].msgs) /\ late[i].msgs # <<>>
  <2>1. late[i] \in Batch /\ late[i] \in Ran(late)
    BY DEF Sound, Typed, Ran
  <2> QED BY <2>1 DEF Arrives, First, Sound, Typed, Batch
<1>2. /\ m \in M /\ m \in Ran(late[i].msgs) /\ Ran(b.msgs) \subseteq Ran(late[i].msgs) /\ b.pool = q
  BY <1>1, TakeFacts
<1>3. /\ late' = [late EXCEPT ![i] = b]
      /\ queue' = [queue EXCEPT ![q] = Append(queue[q], m)] \/ UNCHANGED queue
      /\ UNCHANGED <<scenario, rd, writes, wr, readLog>>
  BY DEF Arrives
<1> HIDE DEF m, b, q
<1>4. Ran(late') \subseteq Ran(late) \cup {b}
  BY <1>1, <1>3 DEF Ran
<1>5. Announced(q, b.msgs) /\ (m \in Msg => Known(q, m))
  BY <1>1, <1>2 DEF Announced
<1>6. \A x \in Pool : Announced(x, queue'[x])
  <2>1. Ran(Append(queue[q], m)) = Ran(queue[q]) \cup {m}
    BY <1>1, <1>2, AppendFacts
  <2>2. \A x \in Pool : queue'[x] = queue[x] \/ (x = q /\ queue'[x] = Append(queue[q], m))
    BY <1>1, <1>3
  <2> QED BY <1>5, <2>1, <2>2 DEF First, Announced
<1>7. /\ \A y \in Ran(writes') \cup Ran(late') : Announced(y.pool, y.msgs)
      /\ \A w \in WWorker : Announced(wr'[w].pool, wr'[w].todo)
      /\ \A x \in Pool : /\ Announced(x, rd'[x].buffer) /\ Announced(x, rd'[x].msgs)
                         /\ Announced(x, rd'[x].uncommitted) /\ Records(x)'
  BY <1>2, <1>3, <1>4, <1>5 DEF First, Records, Kafka
<1>8. \A x, y : Known(x, y)' <=> Known(x, y)
  BY <1>3 DEF Known, Kafka
<1>9. \A x, s : Announced(x, s) => (\A y \in Msg : y \in Ran(s) => Known(x, y)')
  BY <1>8 DEF Announced
<1> QED BY <1>6, <1>7, <1>9 DEF First, Announced

\* Nobody feeds Source with anything that had to be recorded before.
LEMMA FirstPost ==
  ASSUME Sound, First, NEW k \in 1..NumMsgs, PostWrite(k)
  PROVE  First'
<1> DEFINE b == [pool |-> Source, msgs |-> Posted(k)]
<1>1. /\ b \in Batch /\ writes' = Append(writes, b) /\ writes \in Seq(Batch)
      /\ UNCHANGED <<scenario, queue, rd, wr, late, readLog>>
  BY PostWork DEF Sound, Typed
<1>2. Announced(b.pool, b.msgs)
  BY DEF Announced, Known
<1> HIDE DEF b
<1>3. Ran(writes') = Ran(writes) \cup {b}
  BY <1>1, AppendFacts
<1> QED BY <1>1, <1>2, <1>3 DEF First, Announced, Known, Kafka, Records

\* First is inductive, with the types and one feeder of a pool.
LEMMA FirstHolds == OneFeeder /\ Spec => [](Sound /\ First)
<1> SUFFICES ASSUME OneFeeder PROVE Spec => [](Sound /\ First)
  OBVIOUS
<1>1. Init => Sound /\ First
  <2> SUFFICES ASSUME Init PROVE First
    BY StartsSound
  <2>1. \A s \in Seq(M) : Len(s) = 0 => \A q : Announced(q, s)
    BY NoneRan DEF Announced
  <2>2. \A e : e = <<>> => e \in Seq(M) /\ Len(e) = 0 /\ DOMAIN e = {}
    OBVIOUS
  <2>3. /\ \A p \in Pool : queue[p] = <<>> /\ rd[p].msgs = <<>> /\ rd[p].buffer = <<>>
        /\ \A w \in WWorker : wr[w].todo = <<>>
        /\ \A p \in Pool : rd[p].uncommitted = <<>>
        /\ writes = <<>> /\ late = <<>>
    BY DEF Init, NoRead, NoWrite
  <2>4. \A p \in Pool : Records(p)
    BY <2>2, <2>3, NoneRan DEF Records
  <2> QED BY <2>1, <2>2, <2>3, <2>4 DEF First, Ran
<1>2. Sound /\ First /\ [Next]_vars => Sound' /\ First'
  <2> SUFFICES ASSUME Sound, First, [Next]_vars PROVE First'
    BY StaysSound
  <2>1. CASE UNCHANGED boxVars
    BY <2>1 DEF First, Announced, Known, Kafka, Records, boxVars
  <2> QED BY <2>1, Steps, FirstPost, FirstRead, FirstAgain, FirstWrite, FirstLate
<1> QED BY <1>1, <1>2, PTL DEF Spec

\* What First says of the boxes, RabbitRecordsFirst says of their copies.
LEMMA FirstIsRecorded == Sound /\ First => RabbitRecordsFirst
<1> SUFFICES ASSUME Sound, First, NEW m \in Msg, NEW c \in Copies(m), NEW p \in Pool \ Kafka,
                    c[1][2] = Link[p], c[1][2] # Source
             PROVE  m[1] \in Numbers(readLog[p])
  BY DEF RabbitRecordsFirst, RecordedBy
<1>1. ASSUME NEW q \in Pool \cup {None}, NEW s, Announced(q, s), NEW at, NEW tag,
             at[2] = q, c \in Occurrences(at, tag, s, m)
      PROVE  m[1] \in Numbers(readLog[p])
  <2>1. c[1] = at /\ m \in Ran(s)
    BY <1>1 DEF Occurrences, Ran
  <2> QED BY <1>1, <2>1 DEF Announced, Known
<1>2. ASSUME NEW i \in DOMAIN writes,
             c \in Occurrences(<<"writing", writes[i].pool>>, <<"batch", i>>, writes[i].msgs, m)
      PROVE  m[1] \in Numbers(readLog[p])
  <2>1. writes[i].pool \in Pool /\ Announced(writes[i].pool, writes[i].msgs)
    <3>1. writes[i] \in Batch /\ writes[i] \in Ran(writes)
      BY DEF Sound, Typed, Ran
    <3> QED BY <3>1 DEF First, Batch
  <2>2. <<"writing", writes[i].pool>>[2] = writes[i].pool
    OBVIOUS
  <2> QED BY <1>1, <1>2, <2>1, <2>2
<1>20. ASSUME NEW i \in DOMAIN late,
              c \in Occurrences(<<"writing", late[i].pool>>, <<"late", i>>, late[i].msgs, m)
      PROVE  m[1] \in Numbers(readLog[p])
  <2>1. late[i].pool \in Pool /\ Announced(late[i].pool, late[i].msgs)
    <3>1. late[i] \in Batch /\ late[i] \in Ran(late)
      BY DEF Sound, Typed, Ran
    <3> QED BY <3>1 DEF First, Batch
  <2>2. <<"writing", late[i].pool>>[2] = late[i].pool
    OBVIOUS
  <2> QED BY <1>1, <1>20, <2>1, <2>2
<1>3. ASSUME NEW w \in WWorker,
             c \in Occurrences(<<"writing", wr[w].pool>>, <<"task", w>>, wr[w].todo, m)
      PROVE  m[1] \in Numbers(readLog[p])
  <2>1. wr[w].pool \in Pool \cup {None} /\ Announced(wr[w].pool, wr[w].todo)
    BY DEF Sound, Typed, First, WriteTask
  <2>2. <<"writing", wr[w].pool>>[2] = wr[w].pool
    OBVIOUS
  <2> QED BY <1>1, <1>3, <2>1, <2>2
<1>4. ASSUME NEW q \in Pool,
             \/ c \in Occurrences(<<"queued", q>>, "broker", queue[q], m)
             \/ c \in Occurrences(<<"queued", q>>, "consumer", rd[q].buffer, m)
             \/ c \in Occurrences(<<"read", q>>, "msgs", rd[q].msgs, m)
      PROVE  m[1] \in Numbers(readLog[p])
  <2>1. /\ Announced(q, queue[q]) /\ Announced(q, rd[q].buffer) /\ Announced(q, rd[q].msgs)
    BY DEF First
  <2>2. <<"queued", q>>[2] = q /\ <<"read", q>>[2] = q
    OBVIOUS
  <2> QED BY <1>1, <1>4, <2>1, <2>2
<1> QED BY <1>2, <1>20, <1>3, <1>4 DEF Copies

(* What is on the way to a pool, in it or read from it, was recorded as    *)
(* read by the rabbitmq pool that feeds it, also when Kafka gives it out   *)
(* again or it arrives late: rabbitmq.go:188 returns when AddTaskMessage   *)
(* fails and t.msgs goes to the scheduler with the records in place.  True *)
(* of every run in which no two pools feed one.                            *)
THEOREM RecordsFirst == OneFeeder /\ Spec => []RabbitRecordsFirst
BY FirstHolds, FirstIsRecorded, PTL

-----------------------------------------------------------------------------
\* The boxes: batch i of the scheduler, the task of a worker, what the i-th
\* failed task has under way, and the queue, the consumer and t.msgs of a pool.
\* A spot is a position in a box.
Container == ({"batch"} \X Nat) \cup ({"task"} \X WWorker) \cup ({"late"} \X Nat)
               \cup ({"broker", "consumer", "msgs"} \X Pool)
Spot == Container \X Nat

\* What every box holds, and the pool that its messages go to or are in.
Boxes == [Container -> Seq(M)]
Homes == [Container -> Pool \cup {None}]

\* Message m is at spot x; some message is, or one of R.
At(box, x, m) == x[2] \in DOMAIN box[x[1]] /\ box[x[1]][x[2]] = m
Full(box, x) == \E m \in Msg : At(box, x, m)
Filled(R, box, x) == \E m \in R : At(box, x, m)

\* A box is one of the stages of Delivery; a message may stay in a stage or
\* go to the next one.
Stage(c) == CASE c[1] \in {"batch", "task", "late"} -> "writing"
              [] c[1] = "broker" -> "queued" [] c[1] = "consumer" -> "queued"
              [] c[1] = "msgs" -> "read"
Where(home, c) == <<Stage(c), home[c]>>
Passes(u, v) == u = v \/ <<u, v>> \in Abstract!Moves

\* f is the flow of a step from box and home to next and nextHome: a message
\* after the step was at f of its spot, no two come from one spot, and each
\* stays or makes a move of Delivery.
Flows(f, box, home, next, nextHome) ==
  /\ f \in [Spot -> Spot]
  /\ \A x \in Spot, m \in Msg : At(next, x, m) => At(box, f[x], m)
  /\ \A x, y \in Spot : Full(next, x) /\ Full(next, y) /\ f[x] = f[y] => x = y
  /\ \A x \in Spot : Full(next, x) => Passes(Where(home, f[x][1]), Where(nextHome, x[1]))

\* Boxes and spots are pairs.
LEMMA Pairs ==
  /\ \A c \in Container : c = <<c[1], c[2]>>
  /\ \A x \in Spot : x = <<x[1], x[2]>> /\ x[1] \in Container /\ x[2] \in Nat
BY DEF Container, Spot

\* A spot with a message is a position of its box.
LEMMA FullHome ==
  ASSUME NEW box \in Boxes, NEW x \in Spot, Full(box, x)
  PROVE  x[2] \in 1 .. Len(box[x[1]]) /\ Len(box[x[1]]) # 0
BY Pairs DEF Full, At, Boxes

(* Every box has what another one had, or nothing.                         *)
Relabel(g) == [x \in Spot |-> <<g[x[1]], x[2]>>]

\* Steps that move, keep, empty whole boxes or add an empty message to one.
LEMMA BoxesMove ==
  ASSUME NEW box \in Boxes, NEW home \in Homes, NEW next \in Boxes, NEW nextHome \in Homes,
         NEW g \in [Container -> Container],
         \A c \in Container : \/ Len(next[c]) = 0 \/ next[c] = box[g[c]]
                              \/ next[c] = Append(box[g[c]], Empty),
         \A c, d \in Container : Len(next[c]) # 0 /\ Len(next[d]) # 0 /\ g[c] = g[d] => c = d,
         \A c \in Container : Len(next[c]) # 0 => Passes(Where(home, g[c]), Where(nextHome, c))
  PROVE  Flows(Relabel(g), box, home, next, nextHome)
<1>0. \A x \in Spot : Relabel(g)[x] = <<g[x[1]], x[2]>>
  BY DEF Relabel
<1>1. ASSUME NEW x \in Spot, NEW m \in Msg, At(next, x, m)
      PROVE  At(box, Relabel(g)[x], m)
  <2>1. m # Empty
    BY Messages
  <2>2. x[1] \in Container /\ box[g[x[1]]] \in Seq(M) /\ next[x[1]] \in Seq(M)
    BY Pairs DEF Boxes
  <2>3. CASE Len(next[x[1]]) = 0
    BY <1>1, <2>2, <2>3 DEF At
  <2>4. CASE next[x[1]] = Append(box[g[x[1]]], Empty)
    <3>1. x[2] \in DOMAIN box[g[x[1]]] /\ box[g[x[1]]][x[2]] = m
      <4> DEFINE s == box[g[x[1]]]
      <4>1. s \in Seq(M) /\ x[2] \in DOMAIN Append(s, Empty) /\ Append(s, Empty)[x[2]] = m
        BY <1>1, <2>2, <2>4 DEF At
      <4> HIDE DEF s
      <4>2. x[2] \in DOMAIN s /\ s[x[2]] = m
        BY <2>1, <4>1
      <4> QED BY <4>2 DEF s
    <3> QED BY <1>0, <3>1 DEF At
  <2>5. CASE next[x[1]] = box[g[x[1]]]
    BY <1>0, <1>1, <2>5 DEF At
  <2> QED BY <2>2, <2>3, <2>4, <2>5
<1>2. ASSUME NEW x \in Spot, Full(next, x)
      PROVE  Passes(Where(home, Relabel(g)[x][1]), Where(nextHome, x[1]))
  BY <1>0, <1>2, FullHome, Pairs
<1>3. ASSUME NEW x \in Spot, NEW y \in Spot, Full(next, x), Full(next, y),
             Relabel(g)[x] = Relabel(g)[y]
      PROVE  x = y
  <2>1. g[x[1]] = g[y[1]] /\ x[2] = y[2]
    BY <1>0, <1>3
  <2>2. x[1] = y[1]
    BY <1>3, <2>1, FullHome, Pairs
  <2> QED BY <2>1, <2>2, Pairs
<1>4. Relabel(g) \in [Spot -> Spot]
  BY Pairs DEF Relabel, Spot
<1> QED BY <1>1, <1>2, <1>3, <1>4 DEF Flows

\* The first message of a goes to the end of b.
Shift(a, b, n) == [x \in Spot |-> IF x[1] = a THEN <<a, x[2] + 1>>
                                 ELSE IF x = <<b, n>> THEN <<a, 1>> ELSE x]

\* Steps that move the first message of a box to the end of another.
LEMMA OneMoves ==
  ASSUME NEW box \in Boxes, NEW home \in Homes, NEW next \in Boxes,
         NEW a \in Container, NEW b \in Container, a # b, box[a] # <<>>,
         next = [box EXCEPT ![a] = Tail(box[a]), ![b] = Append(box[b], Head(box[a]))],
         Passes(Where(home, a), Where(home, b))
  PROVE  Flows(Shift(a, b, Len(box[b]) + 1), box, home, next, home)
<1> DEFINE n == Len(box[b]) + 1
           f == Shift(a, b, n)
<1>1. /\ box[a] \in Seq(M) /\ box[b] \in Seq(M) /\ n \in Nat /\ n >= 1
      /\ Len(box[a]) >= 1 /\ Head(box[a]) = box[a][1] /\ Head(box[a]) \in M
      /\ Tail(box[a]) \in Seq(M)
      /\ DOMAIN Tail(box[a]) = 1 .. Len(box[a]) - 1
      /\ \A i \in 1 .. Len(box[a]) - 1 : Tail(box[a])[i] = box[a][i + 1]
      /\ DOMAIN box[a] = 1 .. Len(box[a]) /\ DOMAIN box[b] = 1 .. n - 1
  BY DEF Boxes
<1>2. /\ DOMAIN Append(box[b], Head(box[a])) = 1 .. n
      /\ Append(box[b], Head(box[a]))[n] = box[a][1]
      /\ \A i \in 1 .. n - 1 : Append(box[b], Head(box[a]))[i] = box[b][i]
  BY <1>1
<1>3. /\ next[a] = Tail(box[a]) /\ next[b] = Append(box[b], Head(box[a]))
      /\ \A c \in Container : c # a /\ c # b => next[c] = box[c]
  BY DEF Boxes
<1>4. \A x \in Spot : f[x] = IF x[1] = a THEN <<a, x[2] + 1>>
                             ELSE IF x = <<b, n>> THEN <<a, 1>> ELSE x
  BY DEF Shift
<1>41. ASSUME NEW x \in Spot
       PROVE  /\ x[1] = a => f[x][1] = a /\ f[x][2] = x[2] + 1
              /\ x[1] # a /\ x = <<b, n>> => f[x][1] = a /\ f[x][2] = 1
              /\ x[1] # a /\ x # <<b, n>> => f[x] = x
  <2>1. CASE x[1] = a
    <3>1. f[x] = <<a, x[2] + 1>>
      BY <1>4, <2>1, Zenon
    <3> QED BY <2>1, <3>1
  <2>2. CASE x[1] # a /\ x = <<b, n>>
    <3>1. f[x] = <<a, 1>>
      BY <1>4, <2>2, Zenon
    <3>2. f[x][1] = a /\ f[x][2] = 1
      BY <3>1
    <3> QED BY <2>2, <3>2, Zenon
  <2>3. CASE x[1] # a /\ x # <<b, n>>
    <3>1. f[x] = x
      BY <1>4, <2>3, Zenon
    <3> QED BY <2>3, <3>1
  <2> QED BY <2>1, <2>2, <2>3
<1>5. f \in [Spot -> Spot]
  BY <1>1, Pairs DEF Shift, Spot
<1> HIDE DEF n, f
<1>6. ASSUME NEW x \in Spot, NEW m, At(next, x, m)
      PROVE  At(box, f[x], m)
  <2>1. CASE x[1] = a
    <3>0. next[x[1]] = Tail(box[a])
      BY <1>3, <2>1
    <3>1. f[x] = <<a, x[2] + 1>> /\ x[2] \in 1 .. Len(box[a]) - 1 /\ m = box[a][x[2] + 1]
      BY <1>1, <1>4, <1>6, <2>1, <3>0 DEF At
    <3>2. f[x][1] = a /\ f[x][2] = x[2] + 1 /\ x[2] + 1 \in 1 .. Len(box[a])
      BY <1>1, <3>1
    <3> QED BY <1>1, <3>1, <3>2 DEF At
  <2>2. CASE x = <<b, n>>
    <3>1. f[x] = <<a, 1>>
      BY <1>4, <2>2
    <3>2. m = box[a][1]
      BY <1>1, <1>2, <1>3, <1>6, <2>2 DEF At
    <3> QED BY <1>1, <3>1, <3>2 DEF At
  <2>3. CASE x[1] = b /\ x # <<b, n>>
    <3>1. f[x] = x /\ x[2] # n /\ next[x[1]] = Append(box[b], Head(box[a]))
      BY <1>3, <1>4, <2>3, Pairs
    <3>2. x[2] \in 1 .. n - 1
      BY <1>1, <1>2, <1>6, <3>1 DEF At
    <3>3. m = box[b][x[2]]
      BY <1>2, <1>6, <3>1, <3>2 DEF At
    <3> QED BY <1>1, <2>3, <3>1, <3>2, <3>3 DEF At
  <2>4. CASE x[1] # a /\ x[1] # b
    <3>0. <<b, n>>[1] = b /\ x[1] \in Container
      BY Pairs
    <3>1. f[x] = x /\ next[x[1]] = box[x[1]]
      BY <1>3, <1>41, <2>4, <3>0
    <3> QED BY <1>6, <3>1 DEF At
  <2> QED BY <2>1, <2>2, <2>3, <2>4
<1>7. ASSUME NEW x \in Spot, NEW y \in Spot, f[x] = f[y], x[2] >= 1, y[2] >= 1
      PROVE  x = y
  <2>1. x = <<x[1], x[2]>> /\ y = <<y[1], y[2]>> /\ x[2] \in Nat /\ y[2] \in Nat
    BY Pairs
  <2> QED BY <1>41, <1>7, <2>1
<1>8. ASSUME NEW x \in Spot
      PROVE  Passes(Where(home, f[x][1]), Where(home, x[1]))
  <2>1. f[x][1] = x[1] \/ (f[x][1] = a /\ x[1] = b)
    BY <1>41
  <2> QED BY <2>1 DEF Passes
<1>9. \A x \in Spot : Full(next, x) => x[2] >= 1
  BY FullHome
<1> QED BY <1>5, <1>6, <1>7, <1>8, <1>9 DEF Flows, f, n
-----------------------------------------------------------------------------
\* The links of ESB records make no cycle: every link goes up one rank.
IsRank(rank) == \A p \in Pool : Link[p] # None => rank[Link[p]] = rank[p] + 1
Acyclic == \E rank \in [Pool -> Nat] : IsRank(rank)
Rank == CHOOSE rank \in [Pool -> Nat] : IsRank(rank)

\* The pools that what clients write can reach by links.
Closed(S) == Source \in S /\ \A p \in S : Link[p] # None => Link[p] \in S
Chain == {p \in Pool : \A S \in SUBSET Pool : Closed(S) => p \in S}

LEMMA Ranks == Acyclic => Rank \in [Pool -> Nat] /\ IsRank(Rank)
BY DEF Acyclic, Rank

\* They are Source and what is linked to one of them.
LEMMA ChainFacts ==
  /\ Chain \subseteq Pool /\ Source \in Chain
  /\ \A p \in Chain : Link[p] # None => Link[p] \in Chain
  /\ \A S \in SUBSET Pool : Closed(S) => Chain \subseteq S
<1>1. \A p \in Pool : Link[p] # None => Link[p] \in Pool
  BY BrokerAssumption
<1> QED BY <1>1, BrokerAssumption DEF Chain, Closed

\* A pool has one link at most, so without cycles they are one line of pools.
LEMMA OnePerRank ==
  ASSUME Acyclic
  PROVE  /\ \A p, q \in Chain : Rank[p] = Rank[q] => p = q
         /\ \A p \in Chain : Rank[Source] =< Rank[p]
<1>0. /\ \A p \in Pool : Rank[p] \in Nat
      /\ \A p \in Pool : Link[p] # None => Link[p] \in Pool /\ Rank[Link[p]] = Rank[p] + 1
      /\ Source \in Pool
  BY Ranks, BrokerAssumption DEF IsRank
<1>1. \A p \in Chain : p = Source \/ Rank[p] > Rank[Source]
  <2> DEFINE S == {p \in Chain : p = Source \/ Rank[p] > Rank[Source]}
  <2>1. Closed(S)
    BY <1>0, ChainFacts DEF Closed
  <2> QED BY <2>1, ChainFacts
<1>2. \A q \in Chain : q = Source \/ \E p \in Chain : Link[p] = q
  <2> DEFINE S == {q \in Chain : q = Source \/ \E p \in Chain : Link[p] = q}
  <2>1. Closed(S)
    BY <1>0, ChainFacts DEF Closed
  <2> QED BY <2>1, ChainFacts
<1>3. \A p \in Chain : \A q \in Chain : Rank[p] = Rank[q] => p = q
  <2> DEFINE S == {p \in Chain : \A q \in Chain : Rank[p] = Rank[q] => p = q}
  <2>1. Source \in S
    BY <1>0, <1>1, ChainFacts
  <2>2. ASSUME NEW p \in S, Link[p] # None
        PROVE  Link[p] \in S
    <3>1. Link[p] \in Chain /\ p \in Pool /\ Rank[Link[p]] = Rank[p] + 1
      BY <1>0, <2>2, ChainFacts
    <3>2. ASSUME NEW q \in Chain, Rank[Link[p]] = Rank[q]
          PROVE  Link[p] = q
      <4>1. q # Source
        BY <1>0, <1>1, <3>1, <3>2, ChainFacts
      <4>2. PICK o \in Chain : Link[o] = q
        BY <1>2, <4>1
      <4>3. Rank[q] = Rank[o] + 1 /\ o \in Pool
        BY <1>0, <4>2, ChainFacts, BrokerAssumption
      <4>4. Rank[o] = Rank[p]
        BY <1>0, <3>1, <3>2, <4>3
      <4> QED BY <2>2, <4>2, <4>4
    <3> QED BY <3>1, <3>2
  <2>3. Closed(S)
    BY <2>1, <2>2 DEF Closed
  <2> QED BY <2>3, ChainFacts
<1> QED BY <1>0, <1>1, <1>3, ChainFacts

-----------------------------------------------------------------------------
\* The configuration has one write worker.
OneWriter == \A v, w \in WWorker : v = w

\* How far along its way a box is: along the line of pools, and in its pool.
Depth(c) == CASE c[1] = "batch" -> 0 [] c[1] = "task" -> 1 [] c[1] = "late" -> 2
              [] c[1] = "broker" -> 3 [] c[1] = "consumer" -> 4 [] c[1] = "msgs" -> 5
Level(home, c) == 6 * Rank[home[c]] + Depth(c)

\* A box with a message belongs to a pool of the line.
Holds(R, box, c) == \E m \in R : \E i \in DOMAIN box[c] : box[c][i] = m
Carries(box, c) == Holds(Msg, box, c)
Chained(box, home) == \A c \in Container : Carries(box, c) => home[c] \in Chain
AtHome(home) == \A c \in Container : c[1] \in {"broker", "consumer", "msgs"} => home[c] = c[2]

\* A spot is ahead of another when its box is further along, when its batch
\* is taken first, or when it is nearer the head of the same box.
BoxAhead(home, c, d) ==
  \/ Level(home, c) > Level(home, d)
  \/ Level(home, c) = Level(home, d) /\ c[1] = "batch" /\ d[1] = "batch" /\ c[2] < d[2]
Ahead(home, x, y) == BoxAhead(home, x[1], y[1]) \/ (x[1] = y[1] /\ x[2] < y[2])

\* The messages that clients sent, not those that Kafka gives out again.
Plain == {m \in Msg : m[2] = 0}

\* A flow never brings a message back and, with one write worker, no message
\* of R overtakes another of R.
Advances(R, f, box, home, next, nextHome) ==
  /\ \A x \in Spot : Full(next, x) => Level(home, f[x][1]) =< Level(nextHome, x[1])
  /\ OneWriter => \A x, y \in Spot :
       Filled(R, next, x) /\ Filled(R, next, y) /\ Ahead(home, f[x], f[y]) => Ahead(nextHome, x, y)

\* The six kinds of box.
LEMMA Kinds == \A c \in Container :
  \/ c[1] = "batch" /\ c[2] \in Nat /\ Depth(c) = 0
  \/ c[1] = "task" /\ c[2] \in WWorker /\ Depth(c) = 1
  \/ c[1] = "late" /\ c[2] \in Nat /\ Depth(c) = 2
  \/ c[1] = "broker" /\ c[2] \in Pool /\ Depth(c) = 3
  \/ c[1] = "consumer" /\ c[2] \in Pool /\ Depth(c) = 4
  \/ c[1] = "msgs" /\ c[2] \in Pool /\ Depth(c) = 5
BY DEF Container, Depth

\* With one worker no two boxes are equally far along, except batches of one
\* pool and what its failed tasks have under way.
LEMMA SameLevel ==
  ASSUME Acyclic, OneWriter, NEW home \in Homes, AtHome(home),
         NEW c \in Container, NEW d \in Container, home[c] \in Chain, home[d] \in Chain
  PROVE  /\ Level(home, c) \in Nat
         /\ Level(home, c) = Level(home, d) => c[1] = d[1] /\ home[c] = home[d]
         /\ Level(home, c) = Level(home, d) /\ c[1] \notin {"batch", "late"} => c = d
<1>1. Rank[home[c]] \in Nat /\ Rank[home[d]] \in Nat
  BY Ranks, ChainFacts
<1>2. Depth(c) \in 0 .. 5 /\ Depth(d) \in 0 .. 5 /\ (Depth(c) = Depth(d) => c[1] = d[1])
  BY Kinds
<1>3. ASSUME NEW i \in Nat, NEW j \in Nat, NEW k \in 0 .. 5, NEW l \in 0 .. 5,
             6 * i + k = 6 * j + l
      PROVE  i = j /\ k = l
  BY <1>3
<1>4. ASSUME Level(home, c) = Level(home, d)
      PROVE  c[1] = d[1] /\ home[c] = home[d]
  <2>1. Rank[home[c]] = Rank[home[d]] /\ Depth(c) = Depth(d)
    BY <1>1, <1>2, <1>3, <1>4 DEF Level
  <2> QED BY <1>2, <2>1, OnePerRank
<1>5. ASSUME Level(home, c) = Level(home, d), c[1] \notin {"batch", "late"}
      PROVE  c = d
  <2>1. c[1] = d[1] /\ home[c] = home[d] /\ c = <<c[1], c[2]>> /\ d = <<d[1], d[2]>>
    BY <1>4, <1>5, Pairs
  <2>2. CASE c[1] = "task"
    <3>1. c[2] \in WWorker /\ d[2] \in WWorker
      BY <2>1, <2>2, Kinds
    <3> QED BY <2>1, <3>1 DEF OneWriter
  <2>3. CASE c[1] # "task"
    <3>1. c[1] \in {"broker", "consumer", "msgs"}
      BY <1>5, <2>3, Kinds
    <3> QED BY <2>1, <3>1 DEF AtHome
  <2> QED BY <2>2, <2>3
<1> QED BY <1>1, <1>2, <1>4, <1>5 DEF Level

\* A box is not ahead of itself.
LEMMA Levels ==
  ASSUME Acyclic, NEW home \in Homes, NEW c \in Container, home[c] \in Chain
  PROVE  Level(home, c) \in Nat /\ ~BoxAhead(home, c, c)
<1>1. Level(home, c) \in Nat
  BY Ranks, ChainFacts, Kinds DEF Level
<1>2. c[1] = "batch" => c[2] \in Nat
  BY Kinds
<1> QED BY <1>1, <1>2 DEF BoxAhead

LEMMA FullCarries ==
  ASSUME NEW box \in Boxes, NEW x \in Spot
  PROVE  /\ Full(box, x) => x[1] \in Container /\ Carries(box, x[1])
         /\ \A R : Filled(R, box, x) => x[1] \in Container /\ Holds(R, box, x[1])
         /\ \A R \in SUBSET Msg : Filled(R, box, x) => Full(box, x)
BY Pairs DEF Full, Filled, At, Carries, Holds

\* Whole boxes that keep their order advance.
LEMMA BoxesAdvance ==
  ASSUME Acyclic, NEW R \in SUBSET Msg,
         NEW box \in Boxes, NEW home \in Homes, NEW next \in Boxes, NEW nextHome \in Homes,
         NEW g \in [Container -> Container], Chained(box, home),
         Flows(Relabel(g), box, home, next, nextHome),
         \A c, d \in Container : Carries(next, c) /\ Carries(next, d) /\ g[c] = g[d] => c = d,
         \A c \in Container : Carries(next, c) => Level(home, g[c]) =< Level(nextHome, c),
         OneWriter => \A c, d \in Container :
           Holds(R, next, c) /\ Holds(R, next, d) /\ c # d /\ BoxAhead(home, g[c], g[d])
             => BoxAhead(nextHome, c, d)
  PROVE  Advances(R, Relabel(g), box, home, next, nextHome)
<1>0. \A x \in Spot : Relabel(g)[x][1] = g[x[1]] /\ Relabel(g)[x][2] = x[2]
  BY DEF Relabel
<1>1. \A x \in Spot : Full(next, x) => Level(home, Relabel(g)[x][1]) =< Level(nextHome, x[1])
  BY <1>0, FullCarries
<1>2. ASSUME OneWriter, NEW x \in Spot, NEW y \in Spot, Filled(R, next, x), Filled(R, next, y),
             Ahead(home, Relabel(g)[x], Relabel(g)[y])
      PROVE  Ahead(nextHome, x, y)
  <2>1. /\ x[1] \in Container /\ Carries(next, x[1]) /\ Holds(R, next, x[1])
        /\ y[1] \in Container /\ Carries(next, y[1]) /\ Holds(R, next, y[1])
    BY <1>2, FullCarries
  <2>2. BoxAhead(home, g[x[1]], g[y[1]]) \/ (g[x[1]] = g[y[1]] /\ x[2] < y[2])
    BY <1>0, <1>2 DEF Ahead
  <2>3. CASE x[1] # y[1] /\ BoxAhead(home, g[x[1]], g[y[1]])
    BY <1>2, <2>1, <2>3 DEF Ahead
  <2>4. x[1] # y[1] => g[x[1]] # g[y[1]]
    BY <2>1
  <2>5. CASE x[1] = y[1]
    <3>1. home[g[x[1]]] \in Chain
      <4>1. PICK m \in Msg : At(next, x, m)
        BY <1>2 DEF Filled
      <4>2. At(box, Relabel(g)[x], m)
        BY <4>1 DEF Flows
      <4>3. Carries(box, g[x[1]])
        BY <1>0, <4>2 DEF At, Carries, Holds
      <4> QED BY <2>1, <4>3 DEF Chained
    <3>2. ~BoxAhead(home, g[x[1]], g[x[1]])
      BY <2>1, <3>1, Levels
    <3> QED BY <2>2, <2>5, <3>2 DEF Ahead
  <2> QED BY <2>2, <2>3, <2>4, <2>5
<1> QED BY <1>1, <1>2 DEF Advances

\* The first message of a box that goes to the next box with messages of R
\* overtakes none of them.
LEMMA OneAdvances ==
  ASSUME Acyclic, NEW R \in SUBSET Msg,
         NEW box \in Boxes, NEW home \in Homes, NEW next \in Boxes,
         NEW a \in Container, NEW b \in Container, a # b, box[a] # <<>>, Head(box[a]) \in Msg,
         next = [box EXCEPT ![a] = Tail(box[a]), ![b] = Append(box[b], Head(box[a]))],
         Chained(box, home), AtHome(home), home[b] = home[a],
         Depth(a) < Depth(b), a[1] # "batch", b[1] \in {"broker", "consumer", "msgs"},
         \A c \in Container : Holds(R, box, c) /\ home[c] = home[a] /\ Depth(c) > Depth(a)
                                => Depth(c) >= Depth(b)
  PROVE  Advances(R, Shift(a, b, Len(box[b]) + 1), box, home, next, home)
<1> DEFINE n == Len(box[b]) + 1
           f == Shift(a, b, n)
<1>1. /\ box[a] \in Seq(M) /\ box[b] \in Seq(M) /\ n \in Nat /\ n >= 1 /\ Len(box[a]) >= 1
      /\ Head(box[a]) = box[a][1] /\ DOMAIN box[b] = 1 .. n - 1
  BY DEF Boxes
<1>2. /\ next[b] = Append(box[b], Head(box[a])) /\ next[a] = Tail(box[a])
      /\ \A c \in Container : c # a /\ c # b => next[c] = box[c]
  BY DEF Boxes
<1>11. Len(next[b]) = n
  <2>1. Head(box[a]) \in M
    BY Messages
  <2>2. Len(Append(box[b], Head(box[a]))) = Len(box[b]) + 1
    BY <1>1, <2>1
  <2> QED BY <1>2, <2>2
<1>3. \A x \in Spot : f[x] = IF x[1] = a THEN <<a, x[2] + 1>>
                             ELSE IF x = <<b, n>> THEN <<a, 1>> ELSE x
  BY DEF Shift
<1> HIDE DEF n, f
<1>4. ASSUME NEW x \in Spot
      PROVE  /\ x[1] = a => f[x][1] = a /\ f[x][2] = x[2] + 1
             /\ x = <<b, n>> => f[x][1] = a /\ f[x][2] = 1
             /\ x[1] # a /\ x # <<b, n>> => f[x] = x
  <2>1. CASE x[1] = a
    <3>1. f[x] = <<a, x[2] + 1>>
      BY <1>3, <2>1, Zenon
    <3> QED BY <2>1, <3>1
  <2>2. CASE x[1] # a /\ x = <<b, n>>
    <3>1. f[x] = <<a, 1>>
      BY <1>3, <2>2, Zenon
    <3>2. f[x][1] = a /\ f[x][2] = 1
      BY <3>1
    <3> QED BY <2>2, <3>2, Zenon
  <2>3. CASE x[1] # a /\ x # <<b, n>>
    <3>1. f[x] = x
      BY <1>3, <2>3, Zenon
    <3> QED BY <2>3, <3>1
  <2> QED BY <2>1, <2>2, <2>3
<1>5. home[a] \in Chain /\ home[b] \in Chain
  <2>1. Carries(box, a)
    BY <1>1 DEF Carries, Holds
  <2> QED BY <2>1 DEF Chained
<1>6. Level(home, a) < Level(home, b) /\ Level(home, a) \in Nat /\ Level(home, b) \in Nat
  <2>1. Rank[home[a]] \in Nat /\ Rank[home[b]] \in Nat
    BY <1>5, Ranks, ChainFacts
  <2>2. Depth(a) \in Nat /\ Depth(b) \in Nat
    BY Kinds
  <2>3. Level(home, a) = 6 * Rank[home[a]] + Depth(a) /\ Level(home, b) = 6 * Rank[home[a]] + Depth(b)
    BY DEF Level
  <2>4. \A i, j, k \in Nat : j < k => /\ 6 * i + j < 6 * i + k
                                      /\ 6 * i + j \in Nat /\ 6 * i + k \in Nat
    OBVIOUS
  <2> QED BY <2>1, <2>2, <2>3, <2>4
<1>7. ASSUME NEW S, NEW c \in Container, Holds(S, next, c), c # b
      PROVE  Holds(S, box, c)
  <2>1. CASE c = a
    <3>1. PICK m \in S : \E i \in DOMAIN next[a] : next[a][i] = m
      BY <1>7, <2>1 DEF Holds
    <3>2. PICK i \in DOMAIN Tail(box[a]) : Tail(box[a])[i] = m
      BY <1>2, <3>1
    <3>3. i + 1 \in DOMAIN box[a] /\ box[a][i + 1] = m
      BY <1>1, <3>2
    <3> QED BY <2>1, <3>3 DEF Holds
  <2> QED BY <1>2, <1>7, <2>1 DEF Holds
<1>8. ASSUME OneWriter, NEW c \in Container, Holds(R, box, c)
      PROVE  /\ home[c] \in Chain /\ Level(home, c) \in Nat
             /\ Level(home, c) = Level(home, b) => c = b
             /\ Level(home, c) > Level(home, a) => Level(home, c) >= Level(home, b)
             /\ ~BoxAhead(home, c, c)
  <2>1. home[c] \in Chain
    BY <1>8 DEF Chained, Carries, Holds
  <2>2. b[1] \notin {"batch", "late"}
    OBVIOUS
  <2>3. Level(home, b) = Level(home, c) => b = c
    BY <1>5, <1>8, <2>1, <2>2, SameLevel
  <2>4. Level(home, c) > Level(home, a) => Level(home, c) >= Level(home, b)
    <3>1. Rank[home[c]] \in Nat /\ Rank[home[a]] \in Nat
      BY <1>5, <2>1, Ranks, ChainFacts
    <3>2. Rank[home[c]] = Rank[home[a]] => home[c] = home[a]
      BY <1>5, <2>1, OnePerRank
    <3>3. CASE Rank[home[c]] = Rank[home[a]]
      <4>1. Depth(c) > Depth(a) => Depth(c) >= Depth(b)
        BY <1>8, <3>2, <3>3
      <4>2. Depth(a) \in 0 .. 5 /\ Depth(b) \in 0 .. 5 /\ Depth(c) \in 0 .. 5
        BY Kinds
      <4>3. /\ Level(home, c) = 6 * Rank[home[a]] + Depth(c)
            /\ Level(home, a) = 6 * Rank[home[a]] + Depth(a)
            /\ Level(home, b) = 6 * Rank[home[a]] + Depth(b)
        BY <3>3 DEF Level
      <4> QED BY <3>1, <4>1, <4>2, <4>3
    <3>4. CASE Rank[home[c]] # Rank[home[a]]
      <4>1. Depth(a) \in 0 .. 5 /\ Depth(b) \in 0 .. 5 /\ Depth(c) \in 0 .. 5
        BY Kinds
      <4>2. \A i, j \in Nat, k, l, o \in 0 .. 5 : i # j /\ 6 * i + k > 6 * j + l => 6 * i + k >= 6 * j + o
        OBVIOUS
      <4> QED BY <3>1, <3>4, <4>1, <4>2 DEF Level
    <3> QED BY <3>3, <3>4
  <2> QED BY <1>8, <2>1, <2>3, <2>4, Levels
<1>9. ASSUME NEW x \in Spot, Full(next, x)
      PROVE  Level(home, f[x][1]) =< Level(home, x[1])
  <2>1. CASE x = <<b, n>>
    BY <1>4, <1>6, <2>1
  <2>2. CASE x # <<b, n>>
    <3>1. f[x][1] = x[1]
      BY <1>4, <2>2
    <3>2. home[x[1]] \in Chain
      <4>1. CASE x[1] = b
        BY <1>5, <4>1
      <4>2. CASE x[1] # b
        BY <1>7, <1>9, <4>2, FullCarries DEF Chained, Carries
      <4> QED BY <4>1, <4>2
    <3>3. Level(home, x[1]) \in Nat
      BY <3>2, Levels, Pairs
    <3> QED BY <3>1, <3>3
  <2> QED BY <2>1, <2>2
<1>10. ASSUME OneWriter, NEW x \in Spot, NEW y \in Spot, Filled(R, next, x), Filled(R, next, y),
              Ahead(home, f[x], f[y])
       PROVE  Ahead(home, x, y)
  <2>0. /\ x = <<x[1], x[2]>> /\ y = <<y[1], y[2]>> /\ x[1] \in Container /\ y[1] \in Container
        /\ x[2] \in Nat /\ y[2] \in Nat
        /\ Holds(R, next, x[1]) /\ Holds(R, next, y[1]) /\ Carries(next, y[1])
        /\ Full(next, x) /\ Full(next, y)
    BY <1>10, FullCarries, Pairs
  <2>1. x[2] >= 1 /\ y[2] >= 1
    BY <2>0, FullHome
  <2>2. (x[1] = b => x[2] =< n) /\ (y[1] = b => y[2] =< n)
    <3>1. x[2] \in 1 .. Len(next[x[1]]) /\ y[2] \in 1 .. Len(next[y[1]])
      BY <2>0, FullHome
    <3> QED BY <1>1, <1>11, <3>1
  <2>3. CASE x = <<b, n>> /\ y # <<b, n>>
    <3>1. f[x][1] = a /\ f[x][2] = 1
      BY <1>4, <2>3
    <3>2. CASE y[1] = a
      BY <1>6, <2>3, <3>2 DEF Ahead, BoxAhead
    <3>3. CASE y[1] # a
      <4>1. f[y] = y
        BY <1>4, <2>3, <3>3
      <4>2. Level(home, a) > Level(home, y[1])
        BY <1>10, <3>1, <3>3, <4>1 DEF Ahead, BoxAhead
      <4>3. home[y[1]] \in Chain
        BY <1>5, <1>7, <2>0 DEF Chained, Carries
      <4>4. Level(home, y[1]) \in Nat
        BY <2>0, <4>3, Levels
      <4> QED BY <1>6, <2>3, <4>2, <4>4 DEF Ahead, BoxAhead
    <3> QED BY <3>2, <3>3
  <2>4. CASE y = <<b, n>> /\ x # <<b, n>>
    <3>1. f[y][1] = a /\ f[y][2] = 1
      BY <1>4, <2>4
    <3>2. f[x][1] = x[1]
      BY <1>4, <2>4
    <3>3. Level(home, x[1]) > Level(home, a)
      <4>1. CASE x[1] = a
        <5>1. f[x][2] = x[2] + 1
          BY <1>4, <4>1
        <5>2. ~BoxAhead(home, a, a)
          BY <1>5, Levels
        <5> QED BY <1>10, <2>1, <2>0, <3>1, <3>2, <4>1, <5>1, <5>2 DEF Ahead
      <4>2. CASE x[1] # a
        BY <1>10, <3>1, <3>2, <4>2 DEF Ahead, BoxAhead
      <4> QED BY <4>1, <4>2
    <3>4. CASE x[1] = b
      BY <2>0, <2>2, <2>4, <3>4 DEF Ahead
    <3>5. CASE x[1] # b
      <4>1. Holds(R, box, x[1])
        BY <1>7, <2>0, <3>5
      <4>2. Level(home, x[1]) > Level(home, b)
        BY <1>6, <1>8, <1>10, <2>0, <3>3, <3>5, <4>1
      <4> QED BY <2>4, <4>2 DEF Ahead, BoxAhead
    <3> QED BY <3>4, <3>5
  <2>5. CASE x # <<b, n>> /\ y # <<b, n>>
    <3>1. /\ f[x][1] = x[1] /\ f[y][1] = y[1]
          /\ f[x][2] = IF x[1] = a THEN x[2] + 1 ELSE x[2]
          /\ f[y][2] = IF y[1] = a THEN y[2] + 1 ELSE y[2]
      BY <1>4, <2>5
    <3> QED BY <1>10, <2>0, <3>1 DEF Ahead
  <2>6. CASE x = <<b, n>> /\ y = <<b, n>>
    <3>1. f[x] = f[y] /\ f[x][1] = a /\ f[x][2] = 1
      BY <1>4, <2>6
    <3>2. ~BoxAhead(home, a, a)
      BY <1>5, Levels
    <3> QED BY <1>10, <3>1, <3>2 DEF Ahead
  <2> QED BY <2>3, <2>4, <2>5, <2>6
<1> QED BY <1>9, <1>10 DEF Advances, f, n

-----------------------------------------------------------------------------
\* No message is at two spots, none is at one but those of B, and of those of
\* R one that was sent earlier is ahead.
Single(box) == \A x, y \in Spot : \A m \in Msg : At(box, x, m) /\ At(box, y, m) => x = y
UpTo(box, B) == \A x \in Spot : \A m \in Msg : At(box, x, m) => m \in B
InLine(R, box, home) ==
  OneWriter => \A x, y \in Spot : \A m, n \in R :
                 At(box, x, m) /\ At(box, y, n) /\ m[1] < n[1] => Ahead(home, x, y)

\* n is another message than m and, with one write worker, was sent earlier
\* if both are of R.  S is behind what has come as far as limit: no message
\* there is in S or was, with one worker and both of R, sent before one of S.
Before(R, n, m) == n # m /\ (OneWriter /\ n \in R /\ m \in R => n[1] < m[1])
Behind(R, S, limit, box, home) ==
  \A n \in S : \A x \in Spot : \A m \in Msg :
    n \in Msg /\ At(box, x, m) /\ Level(home, x[1]) =< limit => Before(R, n, m)

\* Moves stay on the line of pools.
LEMMA WhereMoves ==
  ASSUME NEW home \in Homes, NEW nextHome \in Homes, NEW c \in Container, NEW d \in Container,
         Passes(Where(home, c), Where(nextHome, d)), home[c] \in Chain, nextHome[d] \in Pool
  PROVE  nextHome[d] \in Chain
<1> DEFINE u == Where(home, c)
           v == Where(nextHome, d)
<1>1. /\ u[1] = Stage(c) /\ u[2] = home[c] /\ v[1] = Stage(d) /\ v[2] = nextHome[d]
  BY DEF Where
<1>2. Stage(c) \in {"writing", "queued", "read"} /\ Stage(d) \in {"writing", "queued", "read"}
  <2>1. \A e \in Container : e[1] \in {"batch", "task", "late", "broker", "consumer", "msgs"}
    BY Kinds
  <2> QED BY <2>1 DEF Stage
<1>3. Passes(u, v)
  OBVIOUS
<1> HIDE DEF u, v
<1>4. \/ u = v
      \/ \E p \in Pool : u[2] = p /\ v[2] = p
      \/ \E p \in Pool : u[2] = p /\ Link[p] # None /\ v[2] = Link[p]
      \/ v[1] = "gone"
      \/ u[1] = "new"
  BY <1>3 DEF Passes, Abstract!Moves
<1> QED BY <1>1, <1>2, <1>4, ChainFacts

\* A flow makes no copies, invents no messages and stays on the line.
LEMMA FlowKeeps ==
  ASSUME NEW box \in Boxes, NEW home \in Homes, NEW next \in Boxes, NEW nextHome \in Homes,
         NEW f, Flows(f, box, home, next, nextHome),
         \A c \in Container : Carries(next, c) => nextHome[c] \in Pool
  PROVE  /\ Single(box) => Single(next)
         /\ \A B : UpTo(box, B) => UpTo(next, B)
         /\ Chained(box, home) => Chained(next, nextHome)
<1>1. /\ f \in [Spot -> Spot]
      /\ \A x \in Spot, m \in Msg : At(next, x, m) => At(box, f[x], m)
      /\ \A x, y \in Spot : Full(next, x) /\ Full(next, y) /\ f[x] = f[y] => x = y
      /\ \A x \in Spot : Full(next, x) => Passes(Where(home, f[x][1]), Where(nextHome, x[1]))
  BY DEF Flows
<1>2. Single(box) => Single(next)
  BY <1>1 DEF Single, Full
<1>3. \A B : UpTo(box, B) => UpTo(next, B)
  BY <1>1 DEF UpTo
<1>4. ASSUME Chained(box, home), NEW c \in Container, Carries(next, c)
      PROVE  nextHome[c] \in Chain
  <2>1. PICK m \in Msg : \E i \in DOMAIN next[c] : next[c][i] = m
    BY <1>4 DEF Carries, Holds
  <2>2. PICK i \in DOMAIN next[c] : next[c][i] = m
    BY <2>1
  <2>3. <<c, i>> \in Spot /\ At(next, <<c, i>>, m)
    <3>1. next[c] \in Seq(M)
      BY DEF Boxes
    <3>2. i \in Nat
      BY <2>2, <3>1
    <3> QED BY <2>2, <3>2 DEF Spot, At
  <2>4. f[<<c, i>>] \in Spot /\ At(box, f[<<c, i>>], m) /\ Full(next, <<c, i>>)
    BY <1>1, <2>3 DEF Full
  <2>5. f[<<c, i>>][1] \in Container /\ home[f[<<c, i>>][1]] \in Chain
    BY <1>4, <2>4, Pairs, FullCarries DEF Chained, Full
  <2>6. Passes(Where(home, f[<<c, i>>][1]), Where(nextHome, c))
    BY <1>1, <2>3, <2>4
  <2> QED BY <1>4, <2>5, <2>6, WhereMoves
<1> QED BY <1>2, <1>3, <1>4 DEF Chained

\* A flow that overtakes nothing keeps the messages in line, and the messages
\* that a pool may still list after those it has listed.
LEMMA AdvanceKeeps ==
  ASSUME Acyclic, NEW R \in SUBSET Msg,
         NEW box \in Boxes, NEW home \in Homes, NEW next \in Boxes, NEW nextHome \in Homes,
         NEW f, Flows(f, box, home, next, nextHome), Advances(R, f, box, home, next, nextHome),
         Chained(box, home), Chained(next, nextHome)
  PROVE  /\ InLine(R, box, home) => InLine(R, next, nextHome)
         /\ \A S : \A limit \in Nat :
              Behind(R, S, limit, box, home) => Behind(R, S, limit, next, nextHome)
<1>1. /\ f \in [Spot -> Spot]
      /\ \A x \in Spot, m \in Msg : At(next, x, m) => At(box, f[x], m)
  BY DEF Flows
<1>2. InLine(R, box, home) => InLine(R, next, nextHome)
  BY <1>1 DEF InLine, Advances, Filled
<1>3. ASSUME NEW S, NEW limit \in Nat, Behind(R, S, limit, box, home), NEW n \in S, NEW x \in Spot,
             NEW m \in Msg, n \in Msg, At(next, x, m), Level(nextHome, x[1]) =< limit
      PROVE  Before(R, n, m)
  <2>1. f[x] \in Spot /\ At(box, f[x], m) /\ Full(next, x) /\ Full(box, f[x])
    BY <1>1, <1>3 DEF Full
  <2>2. /\ f[x][1] \in Container /\ home[f[x][1]] \in Chain
        /\ x[1] \in Container /\ nextHome[x[1]] \in Chain
    BY <2>1, FullCarries DEF Chained
  <2>3. Level(home, f[x][1]) \in Nat /\ Level(nextHome, x[1]) \in Nat
    BY <2>2, Levels
  <2>4. Level(home, f[x][1]) =< Level(nextHome, x[1])
    BY <2>1 DEF Advances
  <2>5. Level(home, f[x][1]) =< limit
    BY <1>3, <2>3, <2>4
  <2> QED BY <1>3, <2>1, <2>5 DEF Behind
<1> QED BY <1>2, <1>3 DEF Behind

\* With fewer messages of which the order counts, less is said.
LEMMA Fewer ==
  ASSUME NEW R, NEW Q \in SUBSET R, NEW box, NEW home
  PROVE  /\ InLine(R, box, home) => InLine(Q, box, home)
         /\ \A n, m : Before(R, n, m) => Before(Q, n, m)
         /\ \A S, limit : Behind(R, S, limit, box, home) => Behind(Q, S, limit, box, home)
<1>1. \A n, m : Before(R, n, m) => Before(Q, n, m)
  BY DEF Before
<1>2. InLine(R, box, home) => InLine(Q, box, home)
  BY DEF InLine
<1>3. \A S, limit : Behind(R, S, limit, box, home) => Behind(Q, S, limit, box, home)
  BY <1>1 DEF Behind
<1> QED BY <1>1, <1>2, <1>3

\* The message at the head of the box that is furthest along, as far as
\* limit, is before all others that are left once it has gone past limit.
LEMMA LastOfLine ==
  ASSUME Acyclic, NEW R \in SUBSET Plain,
         NEW box \in Boxes, NEW home \in Homes, NEW next \in Boxes, NEW nextHome \in Homes,
         NEW f, Flows(f, box, home, next, nextHome), Advances(R, f, box, home, next, nextHome),
         Chained(box, home), Chained(next, nextHome), Single(box), InLine(R, box, home),
         NEW a \in Container, a[1] # "batch", NEW e \in Msg, At(box, <<a, 1>>, e), NEW limit \in Nat,
         \A c \in Container : Holds(R, box, c) /\ Level(home, c) =< limit
                                => Level(home, c) =< Level(home, a),
         \A x \in Spot : Full(next, x) /\ Level(nextHome, x[1]) =< limit => f[x] # <<a, 1>>
  PROVE  Behind(R, {e}, limit, next, nextHome)
<1> SUFFICES ASSUME NEW x \in Spot, NEW m \in Msg, At(next, x, m), Level(nextHome, x[1]) =< limit
             PROVE  Before(R, e, m)
  BY DEF Behind
<1>1. f[x] \in Spot /\ At(box, f[x], m) /\ Full(next, x) /\ Full(box, f[x])
  BY DEF Full, Flows
<1>2. /\ f[x][1] \in Container /\ home[f[x][1]] \in Chain /\ Carries(box, f[x][1])
      /\ x[1] \in Container /\ nextHome[x[1]] \in Chain
  BY <1>1, FullCarries DEF Chained
<1>3. <<a, 1>> \in Spot /\ Full(box, <<a, 1>>) /\ <<a, 1>>[1] = a /\ <<a, 1>>[2] = 1
  BY DEF Spot, Full
<1>4. home[a] \in Chain
  BY <1>3, FullCarries DEF Chained
<1>5. Level(home, f[x][1]) \in Nat /\ Level(nextHome, x[1]) \in Nat /\ Level(home, a) \in Nat
  BY <1>2, <1>4, Levels
<1>6. Level(home, f[x][1]) =< Level(nextHome, x[1])
  BY <1>1 DEF Advances
<1>7. Level(home, f[x][1]) =< limit
  BY <1>5, <1>6
<1>8. f[x] # <<a, 1>>
  BY <1>1
<1>9. e # m
  BY <1>1, <1>3, <1>8 DEF Single
<1>10. ASSUME m \in R
       PROVE  ~Ahead(home, f[x], <<a, 1>>)
  <2>0. Filled(R, box, f[x])
    BY <1>1, <1>10 DEF Filled
  <2>1. Level(home, f[x][1]) =< Level(home, a)
    BY <1>1, <1>7, <2>0, FullCarries
  <2>2. f[x][2] >= 1
    BY <1>1, FullHome
  <2>3. f[x][2] \in Nat
    BY <1>1, Pairs
  <2> QED BY <1>3, <1>5, <2>1, <2>2, <2>3 DEF Ahead, BoxAhead
<1>11. ASSUME OneWriter, e \in R, m \in R
       PROVE  e[1] < m[1]
  <2>1. ~(m[1] < e[1])
    BY <1>1, <1>3, <1>10, <1>11 DEF InLine
  <2>2. e = <<e[1], 0>> /\ m = <<m[1], 0>> /\ e[1] \in Nat /\ m[1] \in Nat
    <3>1. \A k \in R : k \in M /\ k[2] = 0
      BY Messages DEF Plain
    <3>2. \A k \in M : k = <<k[1], k[2]>> /\ k[1] \in Nat
      BY Messages
    <3> QED BY <1>11, <3>1, <3>2
  <2> QED BY <1>9, <2>1, <2>2
<1> QED BY <1>9, <1>11 DEF Before

\* An empty message that moves overtakes nothing.
LEMMA BlankAdvances ==
  ASSUME Acyclic, NEW R \in SUBSET Msg,
         NEW box \in Boxes, NEW home \in Homes, NEW next \in Boxes,
         NEW a \in Container, NEW b \in Container, a # b, box[a] # <<>>, Head(box[a]) \notin Msg,
         next = [box EXCEPT ![a] = Tail(box[a]), ![b] = Append(box[b], Head(box[a]))],
         Chained(box, home),
         Flows(Shift(a, b, Len(box[b]) + 1), box, home, next, home)
  PROVE  Advances(R, Shift(a, b, Len(box[b]) + 1), box, home, next, home)
<1> DEFINE n == Len(box[b]) + 1
           f == Shift(a, b, n)
<1>1. ~Full(next, <<b, n>>)
  <2>1. box[a] \in Seq(M) /\ box[b] \in Seq(M) /\ next[b] = Append(box[b], Head(box[a]))
    BY DEF Boxes
  <2>2. next[b][n] = Head(box[a])
    BY <2>1
  <2> QED BY <2>2 DEF Full, At
<1>2. \A x \in Spot : f[x] = IF x[1] = a THEN <<a, x[2] + 1>>
                             ELSE IF x = <<b, n>> THEN <<a, 1>> ELSE x
  BY DEF Shift
<1>3. Flows(f, box, home, next, home)
  OBVIOUS
<1> HIDE DEF n, f
<1>4. ASSUME NEW x \in Spot, Full(next, x)
      PROVE  /\ f[x][1] = x[1] /\ f[x][2] = IF x[1] = a THEN x[2] + 1 ELSE x[2]
             /\ x[2] \in Nat /\ Level(home, x[1]) \in Nat
  <2>1. x # <<b, n>> /\ x[2] \in Nat
    BY <1>1, <1>4, Pairs
  <2>2. f[x][1] = x[1] /\ f[x][2] = IF x[1] = a THEN x[2] + 1 ELSE x[2]
    <3>1. CASE x[1] = a
      <4>1. f[x] = <<a, x[2] + 1>>
        BY <1>2, <3>1, Zenon
      <4> QED BY <3>1, <4>1
    <3>2. CASE x[1] # a
      <4>1. f[x] = x
        BY <1>2, <2>1, <3>2, Zenon
      <4> QED BY <3>2, <4>1
    <3> QED BY <3>1, <3>2
  <2>3. Full(box, f[x]) /\ f[x] \in Spot
    BY <1>3, <1>4 DEF Flows, Full
  <2>4. home[f[x][1]] \in Chain /\ f[x][1] \in Container
    BY <2>3, FullCarries DEF Chained
  <2>5. Level(home, x[1]) \in Nat
    BY <2>2, <2>4, Levels
  <2> QED BY <2>1, <2>2, <2>5
<1>5. ASSUME NEW x \in Spot, NEW y \in Spot, Filled(R, next, x), Filled(R, next, y),
             Ahead(home, f[x], f[y])
      PROVE  Ahead(home, x, y)
  <2>0. Full(next, x) /\ Full(next, y)
    BY <1>5, FullCarries
  <2>1. /\ f[x][1] = x[1] /\ f[y][1] = y[1]
        /\ f[x][2] = IF x[1] = a THEN x[2] + 1 ELSE x[2]
        /\ f[y][2] = IF y[1] = a THEN y[2] + 1 ELSE y[2]
        /\ x[2] \in Nat /\ y[2] \in Nat
    BY <1>4, <2>0
  <2> QED BY <1>5, <2>1 DEF Ahead
<1>6. ASSUME NEW x \in Spot, Full(next, x)
      PROVE  Level(home, f[x][1]) =< Level(home, x[1])
  <2>1. f[x][1] = x[1] /\ Level(home, x[1]) \in Nat
    BY <1>4, <1>6
  <2> QED BY <2>1
<1> QED BY <1>5, <1>6 DEF Advances, f, n

-----------------------------------------------------------------------------
(* The boxes of the model.                                                 *)
contents == [c \in Container |->
  IF c[1] = "batch" THEN (IF c[2] \in DOMAIN writes THEN writes[c[2]].msgs ELSE <<>>)
  ELSE IF c[1] = "task" THEN wr[c[2]].todo
  ELSE IF c[1] = "late" THEN (IF c[2] \in DOMAIN late THEN late[c[2]].msgs ELSE <<>>)
  ELSE IF c[1] = "broker" THEN queue[c[2]]
  ELSE IF c[1] = "consumer" THEN rd[c[2]].buffer ELSE rd[c[2]].msgs]

\* The pool each box belongs to.
owners == [c \in Container |->
  IF c[1] = "batch" THEN (IF c[2] \in DOMAIN writes THEN writes[c[2]].pool ELSE None)
  ELSE IF c[1] = "task" THEN wr[c[2]].pool
  ELSE IF c[1] = "late" THEN (IF c[2] \in DOMAIN late THEN late[c[2]].pool ELSE None) ELSE c[2]]

\* What contents and owners are, box by box, so that proofs need not expand
\* them.
Layout ==
  /\ contents = [c \in Container |-> contents[c]] /\ owners = [c \in Container |-> owners[c]]
  /\ \A i \in Nat : /\ contents[<<"batch", i>>] = IF i \in DOMAIN writes THEN writes[i].msgs ELSE <<>>
                    /\ owners[<<"batch", i>>] = IF i \in DOMAIN writes THEN writes[i].pool ELSE None
  /\ \A w \in WWorker : /\ contents[<<"task", w>>] = wr[w].todo
                        /\ owners[<<"task", w>>] = wr[w].pool
  /\ \A i \in Nat : /\ contents[<<"late", i>>] = IF i \in DOMAIN late THEN late[i].msgs ELSE <<>>
                    /\ owners[<<"late", i>>] = IF i \in DOMAIN late THEN late[i].pool ELSE None
  /\ \A p \in Pool : /\ contents[<<"broker", p>>] = queue[p] /\ owners[<<"broker", p>>] = p
                     /\ contents[<<"consumer", p>>] = rd[p].buffer /\ owners[<<"consumer", p>>] = p
                     /\ contents[<<"msgs", p>>] = rd[p].msgs /\ owners[<<"msgs", p>>] = p

Boxed == /\ contents \in Boxes /\ owners \in Homes /\ AtHome(owners)
         /\ \A c \in Container : Len(contents[c]) # 0 => owners[c] \in Pool

LEMMA Laid == Layout
BY DEF Layout, contents, owners, Container

\* Sound tasks, batches and queues make boxes of the right types.
LEMMA SoundBoxes == Sound => Boxed
<1> SUFFICES ASSUME Sound PROVE Boxed
  OBVIOUS
<1>1. ASSUME NEW c \in Container
      PROVE  /\ contents[c] \in Seq(M) /\ owners[c] \in Pool \cup {None}
             /\ Len(contents[c]) # 0 => owners[c] \in Pool
             /\ c[1] \in {"broker", "consumer", "msgs"} => owners[c] = c[2]
  <2> DEFINE Good(s, o) == s \in Seq(M) /\ o \in Pool \cup {None} /\ (Len(s) # 0 => o \in Pool)
  <2>1. ASSUME NEW i \in Nat
        PROVE  Good(contents[<<"batch", i>>], owners[<<"batch", i>>])
    <3>1. CASE i \in DOMAIN writes
      <4>1. writes[i] \in Batch
        BY <3>1 DEF Sound, Typed
      <4> QED BY <3>1, <4>1, Laid DEF Layout, Batch
    <3>2. CASE i \notin DOMAIN writes
      <4>1. contents[<<"batch", i>>] = <<>> /\ owners[<<"batch", i>>] = None
        BY <3>2, Laid DEF Layout
      <4>2. \A s : s = <<>> => s \in Seq(M) /\ Len(s) = 0
        OBVIOUS
      <4> QED BY <4>1, <4>2
    <3> QED BY <3>1, <3>2
  <2>2. ASSUME NEW w \in WWorker
        PROVE  Good(contents[<<"task", w>>], owners[<<"task", w>>])
    <3>1. wr[w] \in WriteTask /\ WriteOK(wr[w])
      BY DEF Sound, Typed
    <3>2. wr[w].pool = None => Len(wr[w].todo) = 0
      BY <3>1 DEF WriteOK, NoWrite
    <3> QED BY <3>1, <3>2, Laid DEF Layout, WriteTask
  <2>21. ASSUME NEW i \in Nat
         PROVE  Good(contents[<<"late", i>>], owners[<<"late", i>>])
    <3>1. CASE i \in DOMAIN late
      <4>1. late[i] \in Batch
        BY <3>1 DEF Sound, Typed
      <4> QED BY <3>1, <4>1, Laid DEF Layout, Batch
    <3>2. CASE i \notin DOMAIN late
      <4>1. contents[<<"late", i>>] = <<>> /\ owners[<<"late", i>>] = None
        BY <3>2, Laid DEF Layout
      <4>2. \A s : s = <<>> => s \in Seq(M) /\ Len(s) = 0
        OBVIOUS
      <4> QED BY <4>1, <4>2
    <3> QED BY <3>1, <3>2
  <2>3. ASSUME NEW p \in Pool, NEW k \in {"broker", "consumer", "msgs"}
        PROVE  Good(contents[<<k, p>>], owners[<<k, p>>]) /\ owners[<<k, p>>] = p
    <3>1. rd[p] \in ReadTask /\ queue[p] \in Seq(M)
      BY DEF Sound, Typed
    <3>2. rd[p].buffer \in Seq(M) /\ rd[p].msgs \in Seq(M)
      BY <3>1 DEF ReadTask
    <3>3. /\ contents[<<k, p>>] \in {queue[p], rd[p].buffer, rd[p].msgs}
          /\ owners[<<k, p>>] = p
      <4>1. CASE k = "broker"
        BY <4>1, Laid DEF Layout
      <4>2. CASE k = "consumer"
        BY <4>2, Laid DEF Layout
      <4>3. CASE k = "msgs"
        BY <4>3, Laid DEF Layout
      <4> QED BY <4>1, <4>2, <4>3
    <3> QED BY <3>1, <3>2, <3>3
  <2> HIDE DEF Good
  <2>4. Good(contents[c], owners[c]) /\ (c[1] \in {"broker", "consumer", "msgs"} => owners[c] = c[2])
    <3>1. CASE c \in {"batch"} \X Nat
      <4>1. PICK i \in Nat : c = <<"batch", i>>
        BY <3>1
      <4> QED BY <2>1, <4>1
    <3>2. CASE c \in {"task"} \X WWorker
      <4>1. PICK w \in WWorker : c = <<"task", w>>
        BY <3>2
      <4> QED BY <2>2, <4>1
    <3>3. CASE c \in {"broker", "consumer", "msgs"} \X Pool
      <4>1. PICK k \in {"broker", "consumer", "msgs"}, p \in Pool : c = <<k, p>>
        BY <3>3
      <4> QED BY <2>3, <4>1
    <3>4. CASE c \in {"late"} \X Nat
      <4>1. PICK i \in Nat : c = <<"late", i>>
        BY <3>4
      <4> QED BY <2>21, <4>1
    <3> QED BY <3>1, <3>2, <3>3, <3>4 DEF Container
  <2> QED BY <2>4 DEF Good
<1>2. contents \in Boxes /\ owners \in Homes
  BY <1>1, Laid DEF Layout, Boxes, Homes
<1> QED BY <1>1, <1>2 DEF Boxed, AtHome

LEMMA LaidNext == Layout'
BY Laid, PTL

LEMMA SoundBoxesNext == Sound' => Boxed'
BY SoundBoxes, PTL

\* A box changes only with the variable that holds it.
LEMMA Untouched ==
  ASSUME NEW c \in Container
  PROVE  /\ c[1] = "batch" /\ UNCHANGED writes => contents'[c] = contents[c] /\ owners'[c] = owners[c]
         /\ c[1] = "task" /\ wr'[c[2]] = wr[c[2]] => contents'[c] = contents[c] /\ owners'[c] = owners[c]
         /\ c[1] = "late" /\ UNCHANGED late => contents'[c] = contents[c] /\ owners'[c] = owners[c]
         /\ c[1] = "broker" /\ queue'[c[2]] = queue[c[2]] => contents'[c] = contents[c]
         /\ c[1] = "consumer" /\ rd'[c[2]].buffer = rd[c[2]].buffer => contents'[c] = contents[c]
         /\ c[1] = "msgs" /\ rd'[c[2]].msgs = rd[c[2]].msgs => contents'[c] = contents[c]
         /\ c[1] \in {"broker", "consumer", "msgs"} => owners'[c] = owners[c]
<1>1. CASE c \in {"batch"} \X Nat
  <2>1. PICK i \in Nat : c = <<"batch", i>>
    BY <1>1
  <2>4. /\ contents[<<"batch", i>>] = IF i \in DOMAIN writes THEN writes[i].msgs ELSE <<>>
        /\ owners[<<"batch", i>>] = IF i \in DOMAIN writes THEN writes[i].pool ELSE None
    BY Laid DEF Layout
  <2>5. /\ contents'[<<"batch", i>>] = IF i \in DOMAIN writes' THEN writes'[i].msgs ELSE <<>>
        /\ owners'[<<"batch", i>>] = IF i \in DOMAIN writes' THEN writes'[i].pool ELSE None
    BY LaidNext DEF Layout
  <2>2. UNCHANGED writes => /\ contents'[<<"batch", i>>] = contents[<<"batch", i>>]
                            /\ owners'[<<"batch", i>>] = owners[<<"batch", i>>]
    BY <2>4, <2>5
  <2>3. c[1] = "batch"
    BY <2>1
  <2> QED BY <2>1, <2>2, <2>3
<1>2. CASE c \in {"task"} \X WWorker
  <2>1. PICK w \in WWorker : c = <<"task", w>>
    BY <1>2
  <2>4. contents[<<"task", w>>] = wr[w].todo /\ owners[<<"task", w>>] = wr[w].pool
    BY Laid DEF Layout
  <2>5. contents'[<<"task", w>>] = wr'[w].todo /\ owners'[<<"task", w>>] = wr'[w].pool
    BY LaidNext DEF Layout
  <2>2. wr'[w] = wr[w] => /\ contents'[<<"task", w>>] = contents[<<"task", w>>]
                          /\ owners'[<<"task", w>>] = owners[<<"task", w>>]
    BY <2>4, <2>5
  <2>3. c[1] = "task" /\ c[2] = w
    BY <2>1
  <2> QED BY <2>1, <2>2, <2>3
<1>3. CASE c \in {"broker", "consumer", "msgs"} \X Pool
  <2>1. PICK k \in {"broker", "consumer", "msgs"}, p \in Pool : c = <<k, p>>
    BY <1>3
  <2>4. /\ contents[<<"broker", p>>] = queue[p] /\ owners[<<"broker", p>>] = p
        /\ contents[<<"consumer", p>>] = rd[p].buffer /\ owners[<<"consumer", p>>] = p
        /\ contents[<<"msgs", p>>] = rd[p].msgs /\ owners[<<"msgs", p>>] = p
    BY Laid DEF Layout
  <2>5. /\ contents'[<<"broker", p>>] = queue'[p] /\ owners'[<<"broker", p>>] = p
        /\ contents'[<<"consumer", p>>] = rd'[p].buffer /\ owners'[<<"consumer", p>>] = p
        /\ contents'[<<"msgs", p>>] = rd'[p].msgs /\ owners'[<<"msgs", p>>] = p
    BY LaidNext DEF Layout
  <2>2. /\ queue'[p] = queue[p] => contents'[<<"broker", p>>] = contents[<<"broker", p>>]
        /\ rd'[p].buffer = rd[p].buffer => contents'[<<"consumer", p>>] = contents[<<"consumer", p>>]
        /\ rd'[p].msgs = rd[p].msgs => contents'[<<"msgs", p>>] = contents[<<"msgs", p>>]
        /\ \A l \in {"broker", "consumer", "msgs"} : owners'[<<l, p>>] = owners[<<l, p>>]
    BY <2>4, <2>5
  <2>3. c[1] = k /\ c[2] = p
    BY <2>1
  <2> QED BY <2>1, <2>2, <2>3
<1>4. CASE c \in {"late"} \X Nat
  <2>1. PICK i \in Nat : c = <<"late", i>>
    BY <1>4
  <2>4. /\ contents[<<"late", i>>] = IF i \in DOMAIN late THEN late[i].msgs ELSE <<>>
        /\ owners[<<"late", i>>] = IF i \in DOMAIN late THEN late[i].pool ELSE None
    BY Laid DEF Layout
  <2>5. /\ contents'[<<"late", i>>] = IF i \in DOMAIN late' THEN late'[i].msgs ELSE <<>>
        /\ owners'[<<"late", i>>] = IF i \in DOMAIN late' THEN late'[i].pool ELSE None
    BY LaidNext DEF Layout
  <2>2. UNCHANGED late => /\ contents'[<<"late", i>>] = contents[<<"late", i>>]
                          /\ owners'[<<"late", i>>] = owners[<<"late", i>>]
    BY <2>4, <2>5
  <2>3. c[1] = "late"
    BY <2>1
  <2> QED BY <2>1, <2>2, <2>3
<1> QED BY <1>1, <1>2, <1>3, <1>4 DEF Container

\* The messages of which the order counts: none that failed tasks have under
\* way.
regular == {m \in Msg : Regular(m)}

LEMMA RegularPlain == regular \subseteq Plain
BY DEF regular, Regular, Plain

LEMMA RegularPlainNext == regular' \subseteq Plain
BY DEF regular, Regular, Plain

\* A message that a task failed to write is not one of them any more.
LEMMA RegularShrinks ==
  ASSUME UNCHANGED scenario, \A p \in Pool : failed[p] \subseteq failed'[p], Sound
  PROVE  regular' \subseteq regular
<1>1. Kafka' = Kafka /\ Kafka \subseteq Pool
  BY BrokerAssumption DEF Kafka, Sound, Typed
<1> QED BY <1>1 DEF regular, Regular

LEMMA LateIrregular == Sound => \A i \in DOMAIN late : \A m \in Ran(late[i].msgs) : m \notin regular
BY DEF Sound, Typed, Failures, regular, Regular

LEMMA LateIrregularNext == Sound' => \A i \in DOMAIN late' : \A m \in Ran(late'[i].msgs) : m \notin regular'
<1>1. Sound' => (\A i \in DOMAIN late : \A m \in Ran(late[i].msgs) : m \notin regular)'
  BY LateIrregular, PTL
<1> QED BY <1>1 DEF Ran

LEMMA LateKeepsNone ==
  ASSUME Sound', NEW c \in Container, c[1] = "late"
  PROVE  ~Holds(regular', contents', c)
<1>1. PICK i \in Nat : c = <<"late", i>>
  <2>1. c[2] \in Nat /\ c = <<c[1], c[2]>>
    BY Kinds, Pairs
  <2> QED BY <2>1
<1>2. contents'[<<"late", i>>] = IF i \in DOMAIN late' THEN late'[i].msgs ELSE <<>>
  BY LaidNext DEF Layout
<1>3. CASE i \in DOMAIN late'
  BY <1>1, <1>2, <1>3, LateIrregularNext DEF Holds, Ran
<1>4. CASE i \notin DOMAIN late'
  BY <1>1, <1>2, <1>4 DEF Holds
<1> QED BY <1>3, <1>4

LEMMA HoldsCarries ==
  ASSUME NEW R, R \subseteq Msg, NEW box, NEW c, Holds(R, box, c)
  PROVE  Carries(box, c)
BY DEF Carries, Holds

\* f is the flow of the step of the model that is taken.
Flow(f) == Flows(f, contents, owners, contents', owners')
Advance(f) == Acyclic /\ Chained(contents, owners)
                => Advances(regular', f, contents, owners, contents', owners')

\* Everything stays where it is.
Itself == Relabel([c \in Container |-> c])

\* No message changes its box.
LEMMA KeptFlow ==
  ASSUME Sound, Sound',
         \A c \in Container : \/ contents'[c] = contents[c] \/ Len(contents'[c]) = 0
                              \/ contents'[c] = Append(contents[c], Empty),
         \A c \in Container : Len(contents'[c]) # 0 => owners'[c] = owners[c]
  PROVE  Flow(Itself) /\ Advance(Itself) /\ \A x \in Spot : Itself[x] = x
<1> DEFINE g == [c \in Container |-> c]
<1>1. /\ contents \in Boxes /\ contents' \in Boxes /\ owners \in Homes /\ owners' \in Homes
      /\ g \in [Container -> Container] /\ \A c \in Container : g[c] = c
  BY SoundBoxes, SoundBoxesNext DEF Boxed
<1>2. \A c \in Container : owners'[c] = owners[c] => Passes(Where(owners, c), Where(owners', c))
  BY DEF Passes, Where
<1>3. \A x \in Spot : Relabel(g)[x] = x
  <2>1. \A x \in Spot : Relabel(g)[x] = <<x[1], x[2]>>
    BY <1>1, Pairs DEF Relabel
  <2> QED BY <2>1, Pairs
<1> HIDE DEF g
<1>4. Flows(Relabel(g), contents, owners, contents', owners')
  BY <1>1, <1>2, BoxesMove
<1>5. ASSUME Acyclic, Chained(contents, owners)
      PROVE  Advances(regular', Relabel(g), contents, owners, contents', owners')
  <2>1. \A c \in Container : Carries(contents', c) => owners'[c] = owners[c] /\ owners[c] \in Chain
    <3> SUFFICES ASSUME NEW c \in Container, Carries(contents', c)
                 PROVE  owners'[c] = owners[c] /\ owners[c] \in Chain
      OBVIOUS
    <3>1. contents'[c] \in Seq(M) /\ contents[c] \in Seq(M)
      BY <1>1 DEF Boxes
    <3>2. Len(contents'[c]) # 0
      BY <3>1 DEF Carries, Holds
    <3>3. Empty \notin Msg /\ Empty \in M
      BY Messages
    <3>4. Carries(contents, c)
      <4>1. CASE contents'[c] = Append(contents[c], Empty)
        BY <3>1, <3>3, <4>1 DEF Carries, Holds
      <4> QED BY <3>2, <4>1 DEF Carries, Holds
    <3> QED BY <1>5, <3>2, <3>4 DEF Chained
  <2>2. \A c \in Container : Carries(contents', c) =>
          Level(owners, g[c]) = Level(owners', c) /\ Level(owners, c) \in Nat
    BY <1>1, <1>5, <2>1, Levels DEF Level
  <2>3. \A c, d \in Container : Carries(contents', c) /\ Carries(contents', d)
          /\ BoxAhead(owners, g[c], g[d]) => BoxAhead(owners', c, d)
    BY <1>1, <2>1 DEF BoxAhead, Level
  <2>5. \A c \in Container : Holds(regular', contents', c) => Carries(contents', c)
    BY HoldsCarries, RegularPlainNext DEF Plain
  <2>6. regular' \in SUBSET Msg
    BY RegularPlainNext DEF Plain
  <2>4. \A c \in Container : Carries(contents', c) => Level(owners, g[c]) =< Level(owners', c)
    BY <1>1, <2>2
  <2> QED BY <1>1, <1>4, <1>5, <2>3, <2>4, <2>5, <2>6, BoxesAdvance
<1> QED BY <1>3, <1>4, <1>5 DEF Flow, Advance, Itself, g

\* One message goes from box a to box b of the same pool.
LEMMA OneFlow ==
  ASSUME Sound, Sound', NEW a \in Container, NEW b \in Container, a # b, contents[a] # <<>>,
         contents' = [contents EXCEPT ![a] = Tail(contents[a]),
                                      ![b] = Append(contents[b], Head(contents[a]))],
         owners' = owners, owners[a] = owners[b], Passes(Where(owners, a), Where(owners, b)),
         Depth(a) < Depth(b), a[1] # "batch", b[1] \in {"broker", "consumer", "msgs"},
         \A c \in Container : Holds(regular', contents, c) /\ owners[c] = owners[a] /\ Depth(c) > Depth(a)
                                => Depth(c) >= Depth(b)
  PROVE  LET f == Shift(a, b, Len(contents[b]) + 1) IN
           Flow(f) /\ Advance(f)
           /\ \A x \in Spot : Full(contents', x) /\ f[x] = <<a, 1>> => x[1] = b
<1> DEFINE f == Shift(a, b, Len(contents[b]) + 1)
<1>1. contents \in Boxes /\ contents' \in Boxes /\ owners \in Homes /\ AtHome(owners)
  BY SoundBoxes, SoundBoxesNext DEF Boxed
<1>2. Flows(f, contents, owners, contents', owners)
  BY <1>1, OneMoves
<1>3. regular' \in SUBSET Msg
  BY RegularPlainNext DEF Plain
<1>4. ASSUME Acyclic, Chained(contents, owners)
      PROVE  Advances(regular', f, contents, owners, contents', owners)
  <2>1. CASE Head(contents[a]) \in Msg
    BY <1>1, <1>3, <1>4, <2>1, OneAdvances
  <2>2. CASE Head(contents[a]) \notin Msg
    BY <1>1, <1>2, <1>3, <1>4, <2>2, BlankAdvances
  <2> QED BY <2>1, <2>2
<1>5. ASSUME NEW x \in Spot, Full(contents', x), f[x] = <<a, 1>>
      PROVE  x[1] = b
  <2>1. x[2] \in Nat /\ x[2] # 0
    BY <1>1, <1>5, FullHome, Pairs
  <2>2. CASE x[1] = a
    <3>1. f[x] = <<a, x[2] + 1>>
      BY <2>2, Zenon DEF Shift
    <3> QED BY <1>5, <2>1, <3>1
  <2>3. CASE x[1] # a /\ x # <<b, Len(contents[b]) + 1>>
    <3>1. f[x] = x
      BY <2>3, Zenon DEF Shift
    <3> QED BY <1>5, <2>3, <3>1
  <2>4. CASE x = <<b, Len(contents[b]) + 1>>
    BY <2>4
  <2> QED BY <2>2, <2>3, <2>4
<1> QED BY <1>2, <1>4, <1>5 DEF Flow, Advance

\* How far a message of p has come when it is still to be listed as read, or
\* as written, by p.
ReadLimit(p) == 6 * Rank[p] + 4
WriteLimit(p) == 6 * Rank[p] + 1

\* e is the first message of the foremost of the boxes up to the limit that
\* have regular ones, and leaves them.
Leads(f, e, limit) ==
  Acyclic /\ Chained(contents, owners) /\ e \in Msg =>
    \E a \in Container :
      /\ a[1] # "batch" /\ At(contents, <<a, 1>>, e) /\ Level(owners, a) =< limit
      /\ \A c \in Container : Holds(regular', contents, c) /\ Level(owners, c) =< limit
                                => Level(owners, c) =< Level(owners, a)
      /\ \A x \in Spot : Full(contents', x) /\ Level(owners', x[1]) =< limit => f[x] # <<a, 1>>

\* The three boxes of a pool are those of its task and its queue.
LEMMA ReadBoxes ==
  ASSUME Sound, Sound', NEW p \in Pool, NEW r \in ReadTask, Becomes(p, r)
  PROVE  /\ contents[<<"broker", p>>] = queue[p] /\ contents'[<<"broker", p>>] = queue'[p]
         /\ contents[<<"consumer", p>>] = rd[p].buffer /\ contents'[<<"consumer", p>>] = r.buffer
         /\ contents[<<"msgs", p>>] = rd[p].msgs /\ contents'[<<"msgs", p>>] = r.msgs
         /\ \A k \in {"broker", "consumer", "msgs"} :
              <<k, p>> \in Container /\ owners[<<k, p>>] = p /\ owners'[<<k, p>>] = p
<1>1. rd'[p] = r
  BY DEF Becomes, Sound, Typed
<1>2. /\ contents[<<"broker", p>>] = queue[p] /\ owners[<<"broker", p>>] = p
      /\ contents[<<"consumer", p>>] = rd[p].buffer /\ owners[<<"consumer", p>>] = p
      /\ contents[<<"msgs", p>>] = rd[p].msgs /\ owners[<<"msgs", p>>] = p
  BY Laid DEF Layout
<1>3. /\ contents'[<<"broker", p>>] = queue'[p] /\ owners'[<<"broker", p>>] = p
      /\ contents'[<<"consumer", p>>] = rd'[p].buffer /\ owners'[<<"consumer", p>>] = p
      /\ contents'[<<"msgs", p>>] = rd'[p].msgs /\ owners'[<<"msgs", p>>] = p
  BY LaidNext DEF Layout
<1>4. \A k \in {"broker", "consumer", "msgs"} : <<k, p>> \in Container
  BY DEF Container
<1> QED BY <1>1, <1>2, <1>3, <1>4

\* The boxes a read task leaves alone.
LEMMA ReadOthers ==
  ASSUME Sound, Sound', NEW p \in Pool, NEW r \in ReadTask, Becomes(p, r),
         NEW c \in Container, c[1] # "batch" \/ UNCHANGED writes
  PROVE  /\ owners'[c] = owners[c]
         /\ /\ c # <<"broker", p>> /\ c # <<"consumer", p>> /\ c # <<"msgs", p>>
            /\ \A q \in Pool : q # p => queue'[q] = queue[q]
            => contents'[c] = contents[c]
<1>1. /\ \A q \in Pool : q # p => rd'[q] = rd[q]
      /\ UNCHANGED <<wr, late>>
  BY DEF Becomes, Sound, Typed, wrVars
<1>2. CASE c[1] \in {"batch", "task", "late"}
  BY <1>1, <1>2, Untouched, Kinds
<1>3. CASE c[1] \in {"broker", "consumer", "msgs"}
  <2>1. c[2] \in Pool /\ owners'[c] = owners[c] /\ c = <<c[1], c[2]>>
    BY <1>3, Untouched, Kinds, Pairs
  <2>2. c # <<"broker", p>> /\ c # <<"consumer", p>> /\ c # <<"msgs", p>> => c[2] # p
    BY <1>3, <2>1
  <2> QED BY <1>1, <1>3, <2>1, <2>2, Untouched
<1> QED BY <1>2, <1>3, Kinds

-----------------------------------------------------------------------------
(* What a step of a task does to the boxes.                                *)
LEMMA LeadsFrom ==
  ASSUME Sound, Sound', NEW p \in Pool, NEW d \in 1 .. 5, NEW f, NEW e,
         NEW a \in Container, a[1] # "batch", owners[a] = p, Depth(a) =< d,
         contents[a] # <<>>, Head(contents[a]) = e,
         \A c \in Container : Holds(regular', contents, c) /\ owners[c] = p /\ Depth(c) =< d
                                => Depth(c) =< Depth(a),
         \A x \in Spot : Full(contents', x) /\ f[x] = <<a, 1>>
                           => owners'[x[1]] = p /\ Depth(x[1]) > d
  PROVE  Leads(f, e, 6 * Rank[p] + d)
<1> SUFFICES ASSUME Acyclic, Chained(contents, owners), e \in Msg
             PROVE  /\ a[1] # "batch" /\ At(contents, <<a, 1>>, e)
                    /\ Level(owners, a) =< 6 * Rank[p] + d
                    /\ \A c \in Container :
                         Holds(regular', contents, c) /\ Level(owners, c) =< 6 * Rank[p] + d
                           => Level(owners, c) =< Level(owners, a)
                    /\ \A x \in Spot : Full(contents', x) /\ Level(owners', x[1]) =< 6 * Rank[p] + d
                                         => f[x] # <<a, 1>>
  BY DEF Leads
<1>1. contents[a] \in Seq(M) /\ contents' \in Boxes
  BY SoundBoxes, SoundBoxesNext DEF Boxed, Boxes
<1>2. 1 \in DOMAIN contents[a] /\ contents[a][1] = e
  BY <1>1
<1>3. Carries(contents, a) /\ At(contents, <<a, 1>>, e)
  BY <1>2 DEF Carries, Holds, At
<1>4. p \in Chain
  BY <1>3 DEF Chained
<1>5. Rank[p] \in Nat /\ Depth(a) \in 0 .. 5
  BY Ranks, Kinds
<1>6. Level(owners, a) =< 6 * Rank[p] + d
  BY <1>5 DEF Level
<1>7. ASSUME NEW c \in Container, Holds(regular', contents, c), Level(owners, c) =< 6 * Rank[p] + d
      PROVE  Level(owners, c) =< Level(owners, a)
  <2>1. owners[c] \in Chain /\ Depth(c) \in 0 .. 5
    BY <1>7, HoldsCarries, Kinds, RegularPlainNext DEF Chained, Plain
  <2>2. Rank[owners[c]] \in Nat
    BY <2>1, Ranks, ChainFacts
  <2>3. CASE owners[c] = p
    <3>1. Depth(c) =< d
      BY <1>5, <1>7, <2>1, <2>3 DEF Level
    <3>2. Depth(c) =< Depth(a)
      BY <1>7, <2>3, <3>1
    <3> QED BY <1>5, <2>1, <2>3, <3>2 DEF Level
  <2>4. CASE owners[c] # p
    <3>1. Rank[owners[c]] # Rank[p]
      BY <1>4, <2>1, <2>4, OnePerRank
    <3>2. \A i, j \in Nat, k, l, o \in 0 .. 5 : i # j /\ 6 * i + k =< 6 * j + l => 6 * i + k =< 6 * j + o
      OBVIOUS
    <3>3. 6 * Rank[owners[c]] + Depth(c) =< 6 * Rank[p] + d /\ d \in 0 .. 5
      BY <1>7 DEF Level
    <3>4. 6 * Rank[owners[c]] + Depth(c) =< 6 * Rank[p] + Depth(a)
      BY <1>5, <2>1, <2>2, <3>1, <3>2, <3>3
    <3> QED BY <3>4 DEF Level
  <2> QED BY <2>3, <2>4
<1>8. ASSUME NEW x \in Spot, Full(contents', x), f[x] = <<a, 1>>
      PROVE  ~(Level(owners', x[1]) =< 6 * Rank[p] + d)
  <2>1. owners'[x[1]] = p /\ Depth(x[1]) > d
    BY <1>8
  <2>2. Depth(x[1]) \in 0 .. 5
    BY <1>1, <1>8, FullCarries, Kinds
  <2> QED BY <1>5, <2>1, <2>2 DEF Level
<1> QED BY <1>3, <1>6, <1>7, <1>8

\* A read task lists nothing, or the message that its flow takes past the
\* limit.
FlowStep(f) == Flow(f) /\ Advance(f)
Lists(f, p) == UNCHANGED readLog \/ \E e \in M : Recorded(p, e) /\ Leads(f, e, ReadLimit(p))

\* A read task that hands nothing on and takes nothing.
LEMMA ReadKept ==
  ASSUME Sound, Sound', NEW p \in Pool, NEW r \in ReadTask, Becomes(p, r),
         Keeps(p, r) \/ Refused(p, r) \/ Blank(p, r)
  PROVE  \E f : FlowStep(f) /\ Lists(f, p)
<1> DEFINE a == <<"consumer", p>>
<1>1. /\ UNCHANGED <<queue, writes>>
      /\ r.msgs = rd[p].msgs \/ Len(r.msgs) = 0 \/ r.msgs = Append(rd[p].msgs, Empty)
      /\ r.buffer = rd[p].buffer \/ Len(r.buffer) = 0
  BY DEF Keeps, Refused, Blank
<1>2. /\ \A c \in Container : \/ contents'[c] = contents[c] \/ Len(contents'[c]) = 0
                              \/ contents'[c] = Append(contents[c], Empty)
      /\ \A c \in Container : owners'[c] = owners[c]
  <2>1. \A c \in Container : owners'[c] = owners[c]
    BY <1>1, ReadOthers
  <2>2. \A q \in Pool : q # p => queue'[q] = queue[q]
    BY <1>1
  <2>3. \A c \in Container : c # <<"broker", p>> /\ c # <<"consumer", p>> /\ c # <<"msgs", p>>
                               => contents'[c] = contents[c]
    BY <1>1, <2>2, ReadOthers
  <2>4. /\ contents'[<<"broker", p>>] = contents[<<"broker", p>>]
        /\ \/ contents'[<<"consumer", p>>] = contents[<<"consumer", p>>]
           \/ Len(contents'[<<"consumer", p>>]) = 0
        /\ \/ contents'[<<"msgs", p>>] = contents[<<"msgs", p>>]
           \/ Len(contents'[<<"msgs", p>>]) = 0
           \/ contents'[<<"msgs", p>>] = Append(contents[<<"msgs", p>>], Empty)
    <3>1. queue'[p] = queue[p]
      BY <1>1
    <3> QED BY <1>1, <3>1, ReadBoxes
  <2> QED BY <2>1, <2>3, <2>4
<1>3. FlowStep(Itself) /\ \A x \in Spot : Itself[x] = x
  BY <1>2, KeptFlow DEF FlowStep
<1>4. CASE Refused(p, r)
  <2>1. /\ a \in Container /\ a[1] = "consumer" /\ Depth(a) = 4 /\ owners[a] = p
        /\ contents[a] = rd[p].buffer /\ contents'[a] = r.buffer
    BY ReadBoxes DEF Depth
  <2>2. /\ rd[p].buffer # <<>> /\ Head(rd[p].buffer) \in M /\ Len(r.buffer) = 0
        /\ Recorded(p, Head(rd[p].buffer))
    BY <1>4, TakeFacts DEF Refused, Sound, Typed, ReadTask
  <2>3. ASSUME NEW x \in Spot, Full(contents', x), Itself[x] = <<a, 1>>
        PROVE  FALSE
    <3>1. x[1] = a /\ Len(contents'[x[1]]) # 0
      BY <1>3, <2>3, FullHome, SoundBoxesNext DEF Boxed
    <3> QED BY <2>1, <2>2, <3>1
  <2> HIDE DEF a
  <2>4. Leads(Itself, Head(rd[p].buffer), 6 * Rank[p] + 4)
    <3>1. \A c \in Container : Carries(contents, c) /\ owners[c] = p /\ Depth(c) =< 4 => Depth(c) =< Depth(a)
      BY <2>1
    <3>2. contents[a] # <<>> /\ Head(contents[a]) = Head(rd[p].buffer) /\ a[1] # "batch" /\ Depth(a) =< 4
      BY <2>1, <2>2
    <3>3. 4 \in 1 .. 5
      OBVIOUS
    <3> HIDE DEF Itself
    <3> QED BY <2>1, <2>3, <3>1, <3>2, <3>3, LeadsFrom
  <2> QED BY <1>3, <2>2, <2>4 DEF Lists, ReadLimit
<1>5. CASE Blank(p, r)
  <2>1. Empty \in M /\ Empty \notin Msg
    BY Messages
  <2> QED BY <1>3, <1>5, <2>1 DEF Blank, Lists, Leads
<1>6. CASE Keeps(p, r)
  BY <1>3, <1>6 DEF Keeps, Lists
<1> QED BY <1>4, <1>5, <1>6

\* One that takes a message from its broker or its consumer.
LEMMA ReadMoves ==
  ASSUME Sound, Sound', NEW p \in Pool, NEW r \in ReadTask, Becomes(p, r),
         Delivered(p, r) \/ Receives(p, r) \/ Polls(p, r)
  PROVE  \E f : FlowStep(f) /\ Lists(f, p)
<1> DEFINE h == <<"broker", p>>
           b == <<"consumer", p>>
           t == <<"msgs", p>>
<1>1. /\ h \in Container /\ b \in Container /\ t \in Container
      /\ h[1] = "broker" /\ b[1] = "consumer" /\ t[1] = "msgs" /\ h # b /\ b # t /\ h # t
      /\ Depth(h) = 3 /\ Depth(b) = 4 /\ Depth(t) = 5
      /\ Stage(h) = "queued" /\ Stage(b) = "queued" /\ Stage(t) = "read"
      /\ owners[h] = p /\ owners[b] = p /\ owners[t] = p
  BY ReadBoxes DEF Depth, Stage
<1>2. /\ contents[h] = queue[p] /\ contents'[h] = queue'[p]
      /\ contents[b] = rd[p].buffer /\ contents'[b] = r.buffer
      /\ contents[t] = rd[p].msgs /\ contents'[t] = r.msgs
  BY ReadBoxes
<1>3. /\ contents \in Boxes /\ contents' \in Boxes /\ owners \in Homes /\ owners' \in Homes
      /\ AtHome(owners)
  BY SoundBoxes, SoundBoxesNext DEF Boxed
<1>4. UNCHANGED writes /\ \A q \in Pool : q # p => queue'[q] = queue[q]
  BY DEF Delivered, Receives, Polls, Sound, Typed
<1>5. /\ owners' = owners
      /\ \A c \in Container : c \notin {h, b, t} => contents'[c] = contents[c]
  <2>1. \A c \in Container : owners'[c] = owners[c]
    BY <1>4, ReadOthers
  <2>2. owners' = owners
    BY <1>3, <2>1 DEF Homes
  <2>3. \A c \in Container : c # h /\ c # b /\ c # t => contents'[c] = contents[c]
    BY <1>4, ReadOthers
  <2> QED BY <2>2, <2>3
<1>6. /\ Passes(Where(owners, h), Where(owners, b)) /\ Passes(Where(owners, h), Where(owners, t))
      /\ Passes(Where(owners, b), Where(owners, t))
  <2>1. <<<<"queued", p>>, <<"read", p>>>> \in Abstract!Moves
    BY DEF Abstract!Moves
  <2> QED BY <1>1, <2>1 DEF Passes, Where
<1>7. \A c \in Container : owners[c] = p /\ Depth(c) = 4 => c = b
  <2> SUFFICES ASSUME NEW c \in Container, owners[c] = p, Depth(c) = 4 PROVE c = b
    OBVIOUS
  <2>1. c[1] = "consumer" /\ c = <<c[1], c[2]>>
    BY Kinds, Pairs
  <2>2. c[2] = p
    BY <1>3, <2>1 DEF AtHome
  <2> QED BY <2>1, <2>2
<1> HIDE DEF h, b, t
<1>8. CASE Delivered(p, r)
  <2> DEFINE f == Shift(h, b, Len(contents[b]) + 1)
  <2>1. contents' = [contents EXCEPT ![h] = Tail(contents[h]), ![b] = Append(contents[b], Head(contents[h]))]
    <3>1. /\ queue'[p] = Tail(queue[p]) /\ r.msgs = rd[p].msgs
          /\ r.buffer = Append(rd[p].buffer, Head(queue[p]))
      BY <1>8 DEF Delivered, Sound, Typed
    <3> QED BY <1>1, <1>2, <1>3, <1>5, <3>1 DEF Boxes
  <2>2. contents[h] # <<>> /\ UNCHANGED readLog
    BY <1>2, <1>8 DEF Delivered
  <2>3. FlowStep(f)
    <3>1. \A c \in Container : Holds(regular', contents, c) /\ owners[c] = owners[h] /\ Depth(c) > Depth(h)
                                 => Depth(c) >= Depth(b)
      BY <1>1, Kinds
    <3>2. Depth(h) < Depth(b) /\ h[1] # "batch" /\ owners[h] = owners[b] /\ contents[h] # <<>>
          /\ b[1] \in {"broker", "consumer", "msgs"}
      BY <1>1, <2>2
    <3> QED BY <1>1, <1>5, <1>6, <2>1, <3>1, <3>2, OneFlow DEF FlowStep
  <2> QED BY <2>2, <2>3 DEF Lists
<1>9. CASE Receives(p, r)
  <2> DEFINE f == Shift(b, t, Len(contents[t]) + 1)
  <2>1. contents' = [contents EXCEPT ![b] = Tail(contents[b]), ![t] = Append(contents[t], Head(contents[b]))]
    <3>1. /\ queue'[p] = queue[p] /\ r.buffer = Tail(rd[p].buffer)
          /\ r.msgs = Append(rd[p].msgs, Head(rd[p].buffer))
      BY <1>9 DEF Receives
    <3> QED BY <1>1, <1>2, <1>3, <1>5, <3>1 DEF Boxes
  <2>2. contents[b] # <<>> /\ Recorded(p, Head(contents[b])) /\ Head(contents[b]) \in M
    <3>1. rd[p].buffer \in Seq(M) /\ rd[p].buffer # <<>>
      BY <1>9 DEF Receives, Sound, Typed, ReadTask
    <3> QED BY <1>2, <1>9, <3>1 DEF Receives
  <2>3. FlowStep(f) /\ \A x \in Spot : Full(contents', x) /\ f[x] = <<b, 1>> => x[1] = t
    <3>1. \A c \in Container : Holds(regular', contents, c) /\ owners[c] = owners[b] /\ Depth(c) > Depth(b)
                                 => Depth(c) >= Depth(t)
      BY <1>1, Kinds
    <3>2. Depth(b) < Depth(t) /\ b[1] # "batch" /\ owners[b] = owners[t] /\ contents[b] # <<>>
          /\ t[1] \in {"broker", "consumer", "msgs"}
      BY <1>1, <2>2
    <3> QED BY <1>1, <1>5, <1>6, <2>1, <3>1, <3>2, OneFlow DEF FlowStep
  <2> HIDE DEF f
  <2>4. Leads(f, Head(contents[b]), 6 * Rank[p] + 4)
    <3>1. \A c \in Container : Holds(regular', contents, c) /\ owners[c] = p /\ Depth(c) =< 4 => Depth(c) =< Depth(b)
      BY <1>1
    <3>2. \A x \in Spot : Full(contents', x) /\ f[x] = <<b, 1>> => owners'[x[1]] = p /\ Depth(x[1]) > 4
      BY <1>1, <1>5, <2>3
    <3>3. 4 \in 1 .. 5 /\ b[1] # "batch" /\ Depth(b) =< 4
      BY <1>1
    <3> QED BY <1>1, <2>2, <3>1, <3>2, <3>3, LeadsFrom
  <2> QED BY <2>2, <2>3, <2>4 DEF Lists, ReadLimit
<1>10. CASE Polls(p, r)
  <2> DEFINE f == Shift(h, t, Len(contents[t]) + 1)
  <2>1. contents' = [contents EXCEPT ![h] = Tail(contents[h]), ![t] = Append(contents[t], Head(contents[h]))]
    <3>1. /\ queue'[p] = Tail(queue[p]) /\ r.buffer = rd[p].buffer
          /\ r.msgs = Append(rd[p].msgs, Head(queue[p]))
      BY <1>10 DEF Polls, Sound, Typed
    <3> QED BY <1>1, <1>2, <1>3, <1>5, <3>1 DEF Boxes
  <2>2. /\ contents[h] # <<>>
        /\ Recorded(p, Head(contents[h])) \/ UNCHANGED readLog
        /\ Head(contents[h]) \in M
    <3>1. queue[p] \in Seq(M) /\ queue[p] # <<>>
      BY <1>10 DEF Polls, Sound, Typed
    <3> QED BY <1>2, <1>10, <3>1 DEF Polls
  <2>3. \A c \in Container : Holds(regular', contents, c) /\ owners[c] = p => Depth(c) # 4
    <3>1. contents[b] = <<>>
      BY <1>2, <1>10 DEF Polls, Sound, Typed, ReadOK
    <3>2. ~Holds(regular', contents, b)
      BY <3>1 DEF Holds
    <3> QED BY <1>7, <3>2
  <2>4. FlowStep(f) /\ \A x \in Spot : Full(contents', x) /\ f[x] = <<h, 1>> => x[1] = t
    <3>1. \A c \in Container : Holds(regular', contents, c) /\ owners[c] = owners[h] /\ Depth(c) > Depth(h)
                                 => Depth(c) >= Depth(t)
      BY <1>1, <2>3, Kinds
    <3>2. Depth(h) < Depth(t) /\ h[1] # "batch" /\ owners[h] = owners[t] /\ contents[h] # <<>>
          /\ t[1] \in {"broker", "consumer", "msgs"}
      BY <1>1, <2>2
    <3> QED BY <1>1, <1>5, <1>6, <2>1, <3>1, <3>2, OneFlow DEF FlowStep
  <2> HIDE DEF f
  <2>5. Leads(f, Head(contents[h]), 6 * Rank[p] + 4)
    <3>1. \A c \in Container : Holds(regular', contents, c) /\ owners[c] = p /\ Depth(c) =< 4 => Depth(c) =< Depth(h)
      BY <1>1, <2>3, Kinds
    <3>2. \A x \in Spot : Full(contents', x) /\ f[x] = <<h, 1>> => owners'[x[1]] = p /\ Depth(x[1]) > 4
      BY <1>1, <1>5, <2>4
    <3>3. 4 \in 1 .. 5 /\ h[1] # "batch" /\ Depth(h) =< 4
      BY <1>1
    <3> QED BY <1>1, <2>2, <3>1, <3>2, <3>3, LeadsFrom
  <2> QED BY <2>2, <2>4, <2>5 DEF Lists, ReadLimit
<1> QED BY <1>8, <1>9, <1>10

\* A box with a message is not empty.
LEMMA CarriesLen ==
  ASSUME NEW box \in Boxes, NEW c \in Container, Carries(box, c)
  PROVE  Len(box[c]) # 0
<1>1. box[c] \in Seq(M)
  BY DEF Boxes
<1> QED BY <1>1 DEF Carries, Holds

\* One that hands what it has to the scheduler: a new batch, behind those of the same pool.
LEMMA ReadSubmits ==
  ASSUME Sound, Sound', NEW p \in Pool, NEW r \in ReadTask, Becomes(p, r), Submits(p, r)
  PROVE  \E f : FlowStep(f) /\ Lists(f, p)
<1> DEFINE n == Len(writes) + 1
           b == <<"batch", n>>
           t == <<"msgs", p>>
           g == [c \in Container |-> IF c = b THEN t ELSE c]
<1>0. n \in Nat
  BY DEF Sound, Typed
<1>1. /\ b \in Container /\ t \in Container /\ b # t /\ b[1] = "batch" /\ b[2] = n
      /\ Depth(b) = 0 /\ Depth(t) = 5 /\ Stage(b) = "writing" /\ Stage(t) = "read"
      /\ owners[t] = p /\ n \in Nat /\ t[1] = "msgs"
  BY <1>0, ReadBoxes DEF Container, Depth, Stage
<1>2. rd[p].target = Link[p] /\ Link[p] # None /\ Link[p] \in Pool
  <2>1. rd[p].target # None
    BY DEF Submits
  <2>2. rd[p].target \in {None, Link[p]}
    BY DEF Sound, Linked
  <2> QED BY <2>1, <2>2, BrokerAssumption
<1>3. /\ contents \in Boxes /\ contents' \in Boxes /\ owners \in Homes /\ owners' \in Homes
  BY SoundBoxes, SoundBoxesNext DEF Boxed
<1>4. /\ n \in DOMAIN writes' /\ writes'[n].msgs = rd[p].msgs /\ writes'[n].pool = Link[p]
      /\ DOMAIN writes' = DOMAIN writes \cup {n} /\ DOMAIN writes = 1 .. n - 1
      /\ \A i \in DOMAIN writes : writes'[i] = writes[i]
  <2> DEFINE e == [pool |-> Link[p], msgs |-> rd[p].msgs]
  <2>1. writes \in Seq(Batch) /\ e \in Batch /\ writes' = Append(writes, e)
    BY <1>2 DEF Submits, Sound, Typed
  <2>2. e.pool = Link[p] /\ e.msgs = rd[p].msgs
    OBVIOUS
  <2> HIDE DEF e
  <2> QED BY <2>1, <2>2
<1>5. contents'[b] = contents[t] /\ owners'[b] = Link[p]
  <2>1. contents'[b] = writes'[n].msgs /\ owners'[b] = writes'[n].pool
    BY <1>1, <1>4, LaidNext DEF Layout
  <2> QED BY <1>4, <2>1, ReadBoxes
<1>6. Len(contents'[t]) = 0
  BY ReadBoxes DEF Submits
<1>7. ASSUME NEW c \in Container, c # b, c # t
      PROVE  contents'[c] = contents[c] /\ owners'[c] = owners[c]
  <2>1. CASE c[1] = "batch"
    <3>1. PICK i \in Nat : c = <<"batch", i>>
      BY <2>1, Kinds, Pairs
    <3>2. i \in DOMAIN writes' <=> i \in DOMAIN writes
      BY <1>4, <1>7, <3>1
    <3>3. /\ contents[c] = IF i \in DOMAIN writes THEN writes[i].msgs ELSE <<>>
          /\ owners[c] = IF i \in DOMAIN writes THEN writes[i].pool ELSE None
      BY <3>1, Laid DEF Layout
    <3>4. /\ contents'[c] = IF i \in DOMAIN writes' THEN writes'[i].msgs ELSE <<>>
          /\ owners'[c] = IF i \in DOMAIN writes' THEN writes'[i].pool ELSE None
      BY <3>1, LaidNext DEF Layout
    <3> QED BY <1>4, <3>2, <3>3, <3>4
  <2>2. CASE c[1] # "batch"
    <3>1. owners'[c] = owners[c]
      BY <2>2, ReadOthers
    <3>2. CASE c = <<"broker", p>>
      BY <3>1, <3>2, ReadBoxes DEF Submits
    <3>3. CASE c = <<"consumer", p>>
      BY <3>1, <3>3, ReadBoxes DEF Submits
    <3>4. CASE c # <<"broker", p>> /\ c # <<"consumer", p>>
      <4>1. \A q \in Pool : q # p => queue'[q] = queue[q]
        BY DEF Submits
      <4>2. c # <<"msgs", p>>
        BY <1>7
      <4> QED BY <2>2, <3>1, <3>4, <4>1, <4>2, ReadOthers
    <3> QED BY <3>2, <3>3, <3>4
  <2> QED BY <2>1, <2>2
<1>8. owners'[t] = p
  BY <1>1, ReadBoxes
<1> HIDE DEF n, b, t
<1>9. g \in [Container -> Container] /\ g[b] = t /\ \A c \in Container : c # b => g[c] = c
  BY <1>1
<1> HIDE DEF g
<1>10. Flows(Relabel(g), contents, owners, contents', owners')
  <2>1. Passes(Where(owners, t), Where(owners', b))
    <3>1. <<<<"read", p>>, <<"writing", Link[p]>>>> \in Abstract!Moves
      BY <1>2 DEF Abstract!Moves
    <3> QED BY <1>1, <1>5, <3>1 DEF Passes, Where
  <2>2. \A c \in Container : c # b /\ c # t => Passes(Where(owners, c), Where(owners', c))
    BY <1>7 DEF Passes, Where
  <2>3. \A c \in Container : Len(contents'[c]) = 0 \/ contents'[c] = contents[g[c]]
    BY <1>5, <1>6, <1>7, <1>9
  <2>4. \A c \in Container : Len(contents'[c]) # 0 => Passes(Where(owners, g[c]), Where(owners', c))
    BY <1>6, <1>9, <2>1, <2>2
  <2>5. \A c, d \in Container : Len(contents'[c]) # 0 /\ Len(contents'[d]) # 0 /\ g[c] = g[d] => c = d
    BY <1>6, <1>9
  <2> QED BY <1>3, <1>9, <2>3, <2>4, <2>5, BoxesMove
<1>11. ASSUME Acyclic, Chained(contents, owners)
       PROVE  Advances(regular', Relabel(g), contents, owners, contents', owners')
  <2>1. Rank[p] \in Nat /\ Rank[Link[p]] = Rank[p] + 1
    BY <1>2, <1>11, Ranks DEF IsRank
  <2>2. Level(owners, t) = 6 * Rank[p] + 5 /\ Level(owners', b) = 6 * Rank[p] + 6
    BY <1>1, <1>5, <2>1 DEF Level
  <2>3. ASSUME NEW c \in Container, Carries(contents', c)
        PROVE  /\ c # t
               /\ c # b => /\ Level(owners', c) = Level(owners, c) /\ Level(owners, c) \in Nat
                           /\ c[1] = "batch" => c[2] \in Nat /\ c[2] < n
                           /\ Level(owners, c) = 6 * Rank[p] + 6 => c[1] = "batch"
    <3>1. Len(contents'[c]) # 0
      BY <1>3, <2>3, CarriesLen
    <3>2. c # t
      BY <1>6, <3>1
    <3>3. ASSUME c # b
          PROVE  /\ Level(owners', c) = Level(owners, c) /\ Level(owners, c) \in Nat
                 /\ c[1] = "batch" => c[2] \in Nat /\ c[2] < n
                 /\ Level(owners, c) = 6 * Rank[p] + 6 => c[1] = "batch"
      <4>1. contents'[c] = contents[c] /\ owners'[c] = owners[c]
        BY <1>7, <3>2, <3>3
      <4>2. owners[c] \in Chain
        BY <1>11, <2>3, <4>1 DEF Carries, Holds, Chained
      <4>3. Rank[owners[c]] \in Nat /\ Depth(c) \in 0 .. 5 /\ (Depth(c) = 0 => c[1] = "batch")
        BY <1>11, <4>2, Ranks, ChainFacts, Kinds
      <4>4. Level(owners', c) = Level(owners, c) /\ Level(owners, c) \in Nat
        BY <4>1, <4>3 DEF Level
      <4>5. Level(owners, c) = 6 * Rank[p] + 6 => c[1] = "batch"
        BY <2>1, <4>3 DEF Level
      <4>6. c[1] = "batch" => c[2] \in Nat /\ c[2] < n
        <5>1. SUFFICES ASSUME c[1] = "batch" PROVE c[2] \in Nat /\ c[2] < n
          OBVIOUS
        <5>2. c = <<"batch", c[2]>> /\ c[2] \in Nat
          BY <5>1, Kinds, Pairs
        <5>3. c[2] \in DOMAIN writes
          <6>1. contents[<<"batch", c[2]>>] = IF c[2] \in DOMAIN writes THEN writes[c[2]].msgs ELSE <<>>
            BY <5>2, Laid DEF Layout
          <6> QED BY <3>1, <4>1, <5>2, <6>1
        <5> QED BY <1>1, <1>4, <5>2, <5>3
      <4> QED BY <4>4, <4>5, <4>6
    <3> QED BY <3>2, <3>3
  <2>4. \A c \in Container : Carries(contents', c) => Level(owners, g[c]) =< Level(owners', c)
    BY <1>9, <2>1, <2>2, <2>3
  <2>5. \A c, d \in Container : Carries(contents', c) /\ Carries(contents', d) /\ g[c] = g[d] => c = d
    BY <1>9, <2>3
  <2>6. ASSUME NEW c \in Container, NEW d \in Container, Carries(contents', c), Carries(contents', d),
               c # d, BoxAhead(owners, g[c], g[d])
        PROVE  BoxAhead(owners', c, d)
    <3>1. CASE c = b
      <4>1. g[c] = t /\ g[d] = d /\ Level(owners', d) = Level(owners, d) /\ Level(owners, d) \in Nat
        BY <1>9, <2>3, <2>6, <3>1
      <4>2. Level(owners, t) > Level(owners, d)
        BY <1>1, <2>6, <4>1 DEF BoxAhead
      <4> QED BY <2>1, <2>2, <3>1, <4>1, <4>2 DEF BoxAhead
    <3>2. CASE d = b
      <4>1. g[d] = t /\ g[c] = c /\ Level(owners', c) = Level(owners, c) /\ Level(owners, c) \in Nat
            /\ (c[1] = "batch" => c[2] \in Nat /\ c[2] < n)
            /\ (Level(owners, c) = 6 * Rank[p] + 6 => c[1] = "batch")
        BY <1>9, <2>3, <2>6, <3>2
      <4>2. Level(owners, c) > Level(owners, t)
        BY <1>1, <2>6, <4>1 DEF BoxAhead
      <4> QED BY <1>1, <2>1, <2>2, <3>2, <4>1, <4>2 DEF BoxAhead
    <3>3. CASE c # b /\ d # b
      BY <1>9, <2>3, <2>6, <3>3 DEF BoxAhead
    <3> QED BY <3>1, <3>2, <3>3
  <2>7. /\ \A c \in Container : Holds(regular', contents', c) => Carries(contents', c)
        /\ regular' \in SUBSET Msg
    BY HoldsCarries, RegularPlainNext DEF Plain
  <2> QED BY <1>3, <1>9, <1>10, <1>11, <2>4, <2>5, <2>6, <2>7, BoxesAdvance
<1> QED BY <1>10, <1>11 DEF FlowStep, Flow, Advance, Lists, Submits

\* Every step of a read task has a flow.
LEMMA ReadFlow ==
  ASSUME Sound, Sound', NEW p \in Pool, ReadWorks(p)
  PROVE  /\ \E f : FlowStep(f) /\ Lists(f, p)
         /\ UNCHANGED <<scenario, posted, again, wr, late, failed, writeLog>>
<1>1. PICK r \in ReadTask : Works(p, r)
  BY DEF ReadWorks
<1>2. \/ Submits(p, r)
      \/ Keeps(p, r) \/ Refused(p, r) \/ Blank(p, r)
      \/ Delivered(p, r) \/ Receives(p, r) \/ Polls(p, r)
  BY <1>1 DEF Works
<1>3. Becomes(p, r)
  BY <1>1 DEF Works
<1>4. \E f : FlowStep(f) /\ Lists(f, p)
  BY <1>2, <1>3, ReadKept, ReadSubmits, ReadMoves
<1>5. UNCHANGED again
  BY <1>2 DEF Keeps, Submits, Delivered, Receives, Refused, Blank, Polls
<1> QED BY <1>3, <1>4, <1>5 DEF Becomes, wrVars

\* The boxes a write task leaves alone.
LEMMA WriteBoxes ==
  ASSUME Sound, Sound', NEW w \in WWorker, NEW x \in WriteTask, Turns(w, x)
  PROVE  /\ contents[<<"task", w>>] = wr[w].todo /\ contents'[<<"task", w>>] = x.todo
         /\ owners[<<"task", w>>] = wr[w].pool /\ owners'[<<"task", w>>] = x.pool
         /\ <<"task", w>> \in Container
         /\ \A c \in Container :
              /\ c # <<"task", w>> /\ (c[1] # "batch" \/ UNCHANGED writes)
                 /\ (c[1] # "late" \/ UNCHANGED late) => owners'[c] = owners[c]
              /\ /\ c # <<"task", w>>
                 /\ c[1] # "batch" \/ UNCHANGED writes
                 /\ c[1] # "late" \/ UNCHANGED late
                 /\ c[1] # "broker" \/ queue'[c[2]] = queue[c[2]]
                 => contents'[c] = contents[c]
<1>1. wr'[w] = x /\ (\A v \in WWorker : v # w => wr'[v] = wr[v]) /\ UNCHANGED rd
  BY DEF Turns, Sound, Typed
<1>2. /\ contents[<<"task", w>>] = wr[w].todo /\ owners[<<"task", w>>] = wr[w].pool
      /\ <<"task", w>> \in Container
  BY Laid DEF Layout, Container
<1>3. contents'[<<"task", w>>] = wr'[w].todo /\ owners'[<<"task", w>>] = wr'[w].pool
  BY LaidNext DEF Layout
<1>4. ASSUME NEW c \in Container, c # <<"task", w>>, c[1] # "batch" \/ UNCHANGED writes,
             c[1] # "late" \/ UNCHANGED late
      PROVE  /\ owners'[c] = owners[c]
             /\ c[1] # "broker" \/ queue'[c[2]] = queue[c[2]] => contents'[c] = contents[c]
  <2>1. CASE c[1] = "task"
    <3>1. c[2] # w /\ c[2] \in WWorker
      BY <1>4, <2>1, Pairs, Kinds
    <3> QED BY <1>1, <2>1, <3>1, Untouched
  <2>2. CASE c[1] # "task"
    BY <1>1, <1>4, <2>2, Untouched, Kinds
  <2> QED BY <2>1, <2>2
<1> QED BY <1>1, <1>2, <1>3, <1>4

\* Recording or dropping moves nothing,
LEMMA WriteKept ==
  ASSUME Sound, Sound', NEW w \in WWorker, NEW x \in WriteTask, Turns(w, x),
         Listed(w, x) \/ Dropped(w, x)
  PROVE  FlowStep(Itself)
<1>1. UNCHANGED <<queue, writes, late>>
  BY DEF Listed, Dropped
<1>2. (x.todo = wr[w].todo /\ x.pool = wr[w].pool) \/ Len(x.todo) = 0
  BY DEF Listed, Dropped
<1>3. /\ \A c \in Container : contents'[c] = contents[c] \/ Len(contents'[c]) = 0
      /\ \A c \in Container : Len(contents'[c]) # 0 => owners'[c] = owners[c]
  BY <1>1, <1>2, WriteBoxes
<1> QED BY <1>3, KeptFlow DEF FlowStep

\* a message that is sent leaves the task for the queue,
LEMMA WriteSends ==
  ASSUME Sound, Sound', NEW w \in WWorker, NEW x \in WriteTask, Turns(w, x), Sent(w, x)
  PROVE  \E f : FlowStep(f) /\ Leads(f, Head(wr[w].todo), WriteLimit(wr[w].pool))
<1> DEFINE p == wr[w].pool
           a == <<"task", w>>
           b == <<"broker", p>>
           f == Shift(a, b, Len(contents[b]) + 1)
<1>0. p \in Pool /\ wr[w].todo # <<>> /\ wr[w].todo \in Seq(M)
  BY DEF Sent, Sound, Typed, WriteTask
<1>1. /\ a \in Container /\ b \in Container /\ a # b /\ a[1] = "task" /\ b[1] = "broker"
      /\ Depth(a) = 1 /\ Depth(b) = 3 /\ Stage(a) = "writing" /\ Stage(b) = "queued"
      /\ contents[a] = wr[w].todo /\ contents'[a] = x.todo /\ owners[a] = p /\ owners'[a] = x.pool
  BY <1>0, WriteBoxes DEF Container, Depth, Stage
<1>2. contents[b] = queue[p] /\ owners[b] = p
  BY <1>0, Laid DEF Layout
<1>3. contents'[b] = queue'[p] /\ owners'[b] = p
  BY <1>0, LaidNext DEF Layout
<1>4. /\ queue'[p] = Append(queue[p], Head(wr[w].todo)) /\ \A q \in Pool : q # p => queue'[q] = queue[q]
      /\ x.todo = Tail(wr[w].todo) /\ x.pool = p /\ UNCHANGED <<writes, late>>
  BY <1>0 DEF Sent, Sound, Typed
<1>5. /\ contents \in Boxes /\ contents' \in Boxes /\ owners \in Homes /\ owners' \in Homes
  BY SoundBoxes, SoundBoxesNext DEF Boxed
<1>6. owners' = owners
  <2>1. \A c \in Container : owners'[c] = owners[c]
    BY <1>1, <1>4, WriteBoxes
  <2> QED BY <1>5, <2>1 DEF Homes
<1>7. \A c \in Container : c # a /\ c # b => contents'[c] = contents[c]
  <2> SUFFICES ASSUME NEW c \in Container, c # a, c # b PROVE contents'[c] = contents[c]
    OBVIOUS
  <2>1. c[1] # "broker" \/ queue'[c[2]] = queue[c[2]]
    <3>1. c[1] = "broker" => c[2] \in Pool /\ c[2] # p
      BY Kinds, Pairs
    <3> QED BY <1>4, <3>1
  <2> QED BY <1>4, <2>1, WriteBoxes
<1> HIDE DEF a, b
<1>8. contents' = [contents EXCEPT ![a] = Tail(contents[a]), ![b] = Append(contents[b], Head(contents[a]))]
  BY <1>1, <1>2, <1>3, <1>4, <1>5, <1>7 DEF Boxes
<1>9. Passes(Where(owners, a), Where(owners, b))
  <2>1. <<<<"writing", p>>, <<"queued", p>>>> \in Abstract!Moves
    BY <1>0 DEF Abstract!Moves
  <2> QED BY <1>1, <1>2, <2>1 DEF Passes, Where
<1>10. FlowStep(f) /\ \A y \in Spot : Full(contents', y) /\ f[y] = <<a, 1>> => y[1] = b
  <2>1. /\ Depth(a) < Depth(b) /\ a[1] # "batch" /\ owners[a] = owners[b] /\ contents[a] # <<>>
        /\ b[1] \in {"broker", "consumer", "msgs"}
    BY <1>0, <1>1, <1>2
  <2>2. \A c \in Container : c[1] = "late" => ~Holds(regular', contents, c)
    <3> SUFFICES ASSUME NEW c \in Container, c[1] = "late", Holds(regular', contents, c) PROVE FALSE
      OBVIOUS
    <3>1. contents'[c] = contents[c]
      BY <1>1, <1>7
    <3> QED BY <3>1, LateKeepsNone DEF Holds
  <2>3. \A c \in Container : Holds(regular', contents, c) /\ Depth(c) > Depth(a) => Depth(c) >= Depth(b)
    BY <1>1, <2>2, Kinds
  <2> QED BY <1>1, <1>6, <1>8, <1>9, <2>1, <2>3, OneFlow DEF FlowStep
<1> HIDE DEF f
<1>11. Leads(f, Head(wr[w].todo), 6 * Rank[p] + 1)
  <2>1. \A c \in Container : Holds(regular', contents, c) /\ owners[c] = p /\ Depth(c) =< 1 => Depth(c) =< Depth(a)
    BY <1>1
  <2>2. \A y \in Spot : Full(contents', y) /\ f[y] = <<a, 1>> => owners'[y[1]] = p /\ Depth(y[1]) > 1
    BY <1>1, <1>2, <1>6, <1>10
  <2>3. 1 \in 1 .. 5 /\ a[1] # "batch" /\ Depth(a) =< 1 /\ Head(contents[a]) = Head(wr[w].todo)
        /\ contents[a] # <<>>
    BY <1>0, <1>1
  <2> HIDE DEF p
  <2> QED BY <1>0, <1>1, <2>1, <2>2, <2>3, LeadsFrom
<1> QED BY <1>10, <1>11 DEF WriteLimit

\* A worker takes the first batch, and the others move up.
LEMMA WriteTakes ==
  ASSUME Sound, Sound', NEW w \in WWorker, NEW x \in WriteTask, Turns(w, x), Taken(w, x)
  PROVE  \E f : FlowStep(f)
<1> DEFINE a == <<"task", w>>
           b == <<"batch", 1>>
           g == [c \in Container |-> IF c[1] = "batch" THEN <<"batch", c[2] + 1>>
                                     ELSE IF c = a THEN b ELSE c]
<1>1. /\ a \in Container /\ b \in Container /\ a[1] = "task" /\ b[1] = "batch" /\ b[2] = 1
      /\ Depth(a) = 1 /\ Depth(b) = 0 /\ Stage(a) = "writing" /\ Stage(b) = "writing"
  BY DEF Container, Depth, Stage
<1>2. /\ writes \in Seq(Batch) /\ writes # <<>> /\ writes' = Tail(writes)
      /\ DOMAIN writes = 1 .. Len(writes) /\ Len(writes) \in Nat /\ Len(writes) >= 1
      /\ DOMAIN writes' = 1 .. Len(writes) - 1
      /\ \A i \in 1 .. Len(writes) - 1 : writes'[i] = writes[i + 1]
      /\ Head(writes) = writes[1]
  BY DEF Taken, Sound, Typed
<1>3. /\ contents \in Boxes /\ contents' \in Boxes /\ owners \in Homes /\ owners' \in Homes
      /\ AtHome(owners')
  BY SoundBoxes, SoundBoxesNext DEF Boxed
<1>4. contents'[a] = contents[b] /\ owners'[a] = owners[b]
  <2>1. contents[b] = writes[1].msgs /\ owners[b] = writes[1].pool
    <3>1. 1 \in Nat /\ 1 \in DOMAIN writes
      BY <1>2
    <3>2. /\ contents[<<"batch", 1>>] = IF 1 \in DOMAIN writes THEN writes[1].msgs ELSE <<>>
          /\ owners[<<"batch", 1>>] = IF 1 \in DOMAIN writes THEN writes[1].pool ELSE None
      BY <3>1, Laid DEF Layout
    <3> QED BY <3>1, <3>2
  <2> QED BY <1>2, <2>1, WriteBoxes DEF Taken
<1>5. ASSUME NEW i \in Nat
      PROVE  /\ <<"batch", i>> \in Container /\ <<"batch", i + 1>> \in Container
             /\ Depth(<<"batch", i>>) = 0
             /\ i = 0 => Len(contents'[<<"batch", i>>]) = 0
             /\ i # 0 => /\ contents'[<<"batch", i>>] = contents[<<"batch", i + 1>>]
                         /\ owners'[<<"batch", i>>] = owners[<<"batch", i + 1>>]
  <2>0. \A j \in Nat :
          /\ contents[<<"batch", j>>] = IF j \in DOMAIN writes THEN writes[j].msgs ELSE <<>>
          /\ owners[<<"batch", j>>] = IF j \in DOMAIN writes THEN writes[j].pool ELSE None
    BY Laid DEF Layout
  <2>1. /\ contents[<<"batch", i + 1>>] = IF i + 1 \in DOMAIN writes THEN writes[i + 1].msgs ELSE <<>>
        /\ owners[<<"batch", i + 1>>] = IF i + 1 \in DOMAIN writes THEN writes[i + 1].pool ELSE None
    BY <2>0
  <2>2. /\ contents'[<<"batch", i>>] = IF i \in DOMAIN writes' THEN writes'[i].msgs ELSE <<>>
        /\ owners'[<<"batch", i>>] = IF i \in DOMAIN writes' THEN writes'[i].pool ELSE None
    BY LaidNext DEF Layout
  <2>3. <<"batch", i>> \in Container /\ <<"batch", i + 1>> \in Container /\ Depth(<<"batch", i>>) = 0
    BY DEF Container, Depth
  <2>4. i = 0 => Len(contents'[<<"batch", i>>]) = 0
    BY <1>2, <2>2
  <2>5. ASSUME i # 0
        PROVE  /\ contents'[<<"batch", i>>] = contents[<<"batch", i + 1>>]
               /\ owners'[<<"batch", i>>] = owners[<<"batch", i + 1>>]
    <3>1. i \in DOMAIN writes' <=> i + 1 \in DOMAIN writes
      BY <1>2, <2>5
    <3>2. i \in DOMAIN writes' => writes'[i] = writes[i + 1]
      BY <1>2
    <3> QED BY <2>1, <2>2, <3>1, <3>2
  <2> QED BY <2>3, <2>4, <2>5
<1>6. \A c \in Container : c[1] # "batch" /\ c # a =>
        contents'[c] = contents[c] /\ owners'[c] = owners[c]
  BY WriteBoxes DEF Taken
<1> HIDE DEF a, b
<1>7. /\ g \in [Container -> Container] /\ g[a] = b
      /\ \A i \in Nat : g[<<"batch", i>>] = <<"batch", i + 1>>
      /\ \A c \in Container : c[1] # "batch" /\ c # a => g[c] = c
  <2>1. ASSUME NEW c \in Container
        PROVE  /\ (IF c[1] = "batch" THEN <<"batch", c[2] + 1>> ELSE IF c = a THEN b ELSE c) \in Container
               /\ c[1] = "batch" => g[c] = <<"batch", c[2] + 1>>
               /\ c[1] # "batch" /\ c = a => g[c] = b
               /\ c[1] # "batch" /\ c # a => g[c] = c
    <3>1. c[1] = "batch" => c[2] \in Nat /\ <<"batch", c[2] + 1>> \in Container
      BY <1>5, Kinds
    <3> QED BY <1>1, <3>1, Zenon
  <2>2. g \in [Container -> Container]
    BY <2>1, Zenon
  <2>3. \A i \in Nat : <<"batch", i>> \in Container /\ <<"batch", i>>[1] = "batch" /\ <<"batch", i>>[2] = i
    BY <1>5
  <2> QED BY <1>1, <2>1, <2>2, <2>3
<1> HIDE DEF g
\* What has something is the task, a batch or another box.
<1>8. ASSUME NEW c \in Container, Len(contents'[c]) # 0
      PROVE  /\ contents'[c] = contents[g[c]] /\ owners'[c] = owners[g[c]]
             /\ \/ c = a /\ g[c] = b
                \/ \E i \in Nat \ {0} : c = <<"batch", i>> /\ g[c] = <<"batch", i + 1>>
                \/ c # a /\ c[1] # "batch" /\ g[c] = c
  <2>1. CASE c = a
    BY <1>4, <1>7, <2>1
  <2>2. CASE c[1] = "batch"
    <3>1. PICK i \in Nat : c = <<"batch", i>>
      BY <2>2, Kinds, Pairs
    <3>2. i # 0
      BY <1>5, <1>8, <3>1
    <3> QED BY <1>5, <1>7, <3>1, <3>2
  <2>3. CASE c # a /\ c[1] # "batch"
    BY <1>6, <1>7, <2>3
  <2> QED BY <2>1, <2>2, <2>3
<1>9. ASSUME NEW c \in Container, Len(contents'[c]) # 0
      PROVE  /\ Stage(g[c]) = Stage(c)
             /\ c = a => g[c] = b /\ g[c][1] = "batch" /\ g[c][2] = 1 /\ Depth(g[c]) = 0
             /\ c[1] = "batch" => /\ g[c][1] = "batch" /\ Depth(g[c]) = 0 /\ Depth(c) = 0
                                  /\ c[2] \in Nat \ {0} /\ g[c][2] = c[2] + 1 /\ c # a
             /\ c # a /\ c[1] # "batch" => g[c] = c
  <2>1. CASE c = a
    BY <1>1, <1>7, <2>1
  <2>2. CASE c[1] = "batch"
    <3>1. PICK i \in Nat \ {0} : c = <<"batch", i>> /\ g[c] = <<"batch", i + 1>>
      BY <1>1, <1>8, <1>9, <2>2
    <3>2. Stage(c) = "writing" /\ Stage(g[c]) = "writing" /\ Depth(g[c]) = 0 /\ Depth(c) = 0
      BY <3>1 DEF Stage, Depth
    <3> QED BY <1>1, <3>1, <3>2
  <2>3. CASE c # a /\ c[1] # "batch"
    BY <1>7, <2>3
  <2> QED BY <2>1, <2>2, <2>3
<1>10. \A c, d \in Container : Len(contents'[c]) # 0 /\ Len(contents'[d]) # 0 /\ g[c] = g[d] => c = d
  <2> SUFFICES ASSUME NEW c \in Container, NEW d \in Container, Len(contents'[c]) # 0,
                      Len(contents'[d]) # 0, g[c] = g[d]
               PROVE  c = d
    OBVIOUS
  <2>1. CASE c[1] = "batch" /\ d[1] = "batch"
    <3>1. c[2] = d[2]
      BY <1>9, <2>1
    <3> QED BY <2>1, <3>1, Pairs
  <2>2. CASE c[1] = "batch" /\ d[1] # "batch"
    BY <1>9, <2>2
  <2>3. CASE c[1] # "batch" /\ d[1] = "batch"
    BY <1>9, <2>3
  <2>4. CASE c[1] # "batch" /\ d[1] # "batch"
    BY <1>9, <2>4
  <2> QED BY <2>1, <2>2, <2>3, <2>4
<1>11. Flows(Relabel(g), contents, owners, contents', owners')
  <2>1. \A c \in Container : Len(contents'[c]) # 0 => Passes(Where(owners, g[c]), Where(owners', c))
    BY <1>8, <1>9 DEF Passes, Where
  <2>2. \A c \in Container : Len(contents'[c]) = 0 \/ contents'[c] = contents[g[c]]
    BY <1>8
  <2> QED BY <1>3, <1>7, <1>10, <2>1, <2>2, BoxesMove
<1>12. ASSUME Acyclic, Chained(contents, owners)
       PROVE  Advances(regular', Relabel(g), contents, owners, contents', owners')
  <2>1. ASSUME NEW c \in Container, Carries(contents', c)
        PROVE  /\ Len(contents'[c]) # 0 /\ owners'[c] = owners[g[c]] /\ owners'[c] \in Chain
               /\ Rank[owners'[c]] \in Nat
    <3>1. Len(contents'[c]) # 0
      BY <1>3, <2>1, CarriesLen
    <3>2. Carries(contents, g[c]) /\ owners'[c] = owners[g[c]]
      BY <1>8, <2>1, <3>1 DEF Carries, Holds
    <3>3. owners[g[c]] \in Chain
      BY <1>7, <1>12, <3>2 DEF Chained
    <3> QED BY <1>12, <3>1, <3>2, <3>3, Ranks, ChainFacts
  <2>2. ASSUME NEW c \in Container, Carries(contents', c)
        PROVE  /\ Level(owners, g[c]) \in Nat
               /\ Level(owners', c) = IF c = a THEN Level(owners, g[c]) + 1 ELSE Level(owners, g[c])
               /\ g[c][1] = "batch" => Level(owners, g[c]) = 6 * Rank[owners'[c]]
               /\ Level(owners, g[c]) = 6 * Rank[owners'[c]] + Depth(g[c])
    <3>1. Depth(g[c]) \in 0 .. 5 /\ (g[c][1] = "batch" => Depth(g[c]) = 0)
      BY <1>7, Kinds
    <3>2. Depth(c) = IF c = a THEN Depth(g[c]) + 1 ELSE Depth(g[c])
      BY <1>1, <1>9, <2>1, <2>2
    <3> QED BY <2>1, <2>2, <3>1, <3>2 DEF Level
  <2>3. \A c \in Container : Carries(contents', c) => Level(owners, g[c]) =< Level(owners', c)
    BY <2>2
  <2>4. \A c, d \in Container : Carries(contents', c) /\ Carries(contents', d) /\ g[c] = g[d] => c = d
    BY <1>10, <2>1
  <2>5. ASSUME OneWriter, NEW c \in Container, NEW d \in Container, Carries(contents', c),
               Carries(contents', d), c # d, BoxAhead(owners, g[c], g[d])
        PROVE  BoxAhead(owners', c, d)
    <3>1. CASE c = a
      BY <2>2, <2>5, <3>1 DEF BoxAhead
    <3>2. CASE d = a
      <4>1. g[d] = b /\ g[d][1] = "batch" /\ g[d][2] = 1
        BY <1>9, <2>1, <2>5, <3>2
      <4>2. Level(owners, g[d]) = 6 * Rank[owners'[d]] /\ Level(owners', d) = Level(owners, g[d]) + 1
        BY <2>2, <2>5, <3>2, <4>1
      <4>3. CASE c[1] = "batch"
        <5>1. g[c][1] = "batch" /\ g[c][2] = c[2] + 1 /\ c[2] \in Nat /\ c # a
          BY <1>9, <2>1, <2>5, <4>3
        <5>2. Level(owners, g[c]) > Level(owners, g[d])
          BY <2>5, <4>1, <5>1 DEF BoxAhead
        <5>3. Level(owners, g[c]) = 6 * Rank[owners'[c]] /\ Level(owners', c) = Level(owners, g[c])
          BY <2>2, <2>5, <5>1
        <5>4. Rank[owners'[c]] \in Nat /\ Rank[owners'[d]] \in Nat
          BY <2>1, <2>5
        <5>5. \A i, j \in Nat : 6 * i > 6 * j => 6 * i > 6 * j + 1
          OBVIOUS
        <5>6. Level(owners', c) > Level(owners', d)
          BY <4>2, <5>2, <5>3, <5>4, <5>5
        <5> QED BY <5>6 DEF BoxAhead
      <4>4. CASE c[1] # "batch"
        <5>1. g[c] = c /\ c # a
          BY <1>9, <2>1, <2>5, <3>2, <4>4
        <5>2. Level(owners, g[c]) > Level(owners, g[d]) /\ Level(owners', c) = Level(owners, g[c])
          BY <2>2, <2>5, <4>4, <5>1 DEF BoxAhead
        <5>3. Level(owners', c) # Level(owners', d)
          <6>1. ASSUME Level(owners', c) = Level(owners', d)
                PROVE  c = d
            BY <1>1, <1>3, <1>12, <2>1, <2>5, <3>2, <6>1, SameLevel
          <6> QED BY <2>5, <6>1
        <5>4. Level(owners, g[c]) \in Nat /\ Level(owners, g[d]) \in Nat
          BY <2>2, <2>5
        <5> QED BY <4>2, <5>2, <5>3, <5>4 DEF BoxAhead
      <4> QED BY <4>3, <4>4
    <3>3. CASE c # a /\ d # a
      <4>1. Level(owners', c) = Level(owners, g[c]) /\ Level(owners', d) = Level(owners, g[d])
        BY <2>2, <2>5, <3>3
      <4>2. g[c][1] = "batch" /\ g[d][1] = "batch" =>
              /\ c[1] = "batch" /\ d[1] = "batch" /\ c[2] \in Nat /\ d[2] \in Nat
              /\ g[c][2] = c[2] + 1 /\ g[d][2] = d[2] + 1
        BY <1>9, <2>1, <2>5, <3>3
      <4> QED BY <2>5, <4>1, <4>2 DEF BoxAhead
    <3> QED BY <3>1, <3>2, <3>3
  <2>6. /\ \A c \in Container : Holds(regular', contents', c) => Carries(contents', c)
        /\ regular' \in SUBSET Msg
    BY HoldsCarries, RegularPlainNext DEF Plain
  <2> QED BY <1>3, <1>7, <1>11, <1>12, <2>3, <2>4, <2>5, <2>6, BoxesAdvance
<1> QED BY <1>11, <1>12 DEF FlowStep, Flow, Advance

\* A batch under way is behind the queue of its topic, where its order does
\* not count.
LEMMA WriteLeaves ==
  ASSUME Sound, Sound', NEW w \in WWorker, NEW x \in WriteTask, Turns(w, x), Leaves(w, x)
  PROVE  \E f : FlowStep(f)
<1> DEFINE n == Len(late) + 1
           p == wr[w].pool
           a == <<"task", w>>
           b == <<"late", n>>
           g == [c \in Container |-> IF c = b THEN a ELSE c]
<1>1. /\ late \in Seq(Batch) /\ n \in Nat /\ DOMAIN late = 1 .. n - 1
      /\ p \in Pool /\ wr[w].todo \in Seq(M)
  <2>1. late \in Seq(Batch) /\ wr[w] \in WriteTask
    BY DEF Sound, Typed
  <2>2. p \in Pool
    BY DEF Leaves
  <2> QED BY <2>1, <2>2 DEF WriteTask
<1>2. /\ a \in Container /\ b \in Container /\ a # b /\ a[1] = "task" /\ b[1] = "late" /\ b[2] = n
      /\ Depth(a) = 1 /\ Depth(b) = 2 /\ Stage(a) = "writing" /\ Stage(b) = "writing"
      /\ contents[a] = wr[w].todo /\ contents'[a] = x.todo /\ owners[a] = p
  BY <1>1, WriteBoxes DEF Container, Depth, Stage
<1>3. /\ contents \in Boxes /\ contents' \in Boxes /\ owners \in Homes /\ owners' \in Homes
  BY SoundBoxes, SoundBoxesNext DEF Boxed
<1>4. /\ n \in DOMAIN late' /\ late'[n].msgs = wr[w].todo /\ late'[n].pool = p
      /\ DOMAIN late' = DOMAIN late \cup {n}
      /\ \A i \in DOMAIN late : late'[i] = late[i]
  <2>1. [pool |-> p, msgs |-> wr[w].todo] \in Batch
    BY <1>1 DEF Batch
  <2> QED BY <1>1, <2>1 DEF Leaves
<1>5. contents'[b] = contents[a] /\ owners'[b] = p
  <2>1. contents'[b] = late'[n].msgs /\ owners'[b] = late'[n].pool
    BY <1>1, <1>4, LaidNext DEF Layout
  <2> QED BY <1>2, <1>4, <2>1
<1>6. Len(contents'[a]) = 0
  BY <1>2 DEF Leaves
<1>7. ASSUME NEW c \in Container, c # b, c # a
      PROVE  contents'[c] = contents[c] /\ owners'[c] = owners[c]
  <2>1. CASE c[1] = "late"
    <3>1. PICK i \in Nat : c = <<"late", i>>
      BY <2>1, Kinds, Pairs
    <3>2. i \in DOMAIN late' <=> i \in DOMAIN late
      BY <1>4, <1>7, <3>1
    <3>3. /\ contents[c] = IF i \in DOMAIN late THEN late[i].msgs ELSE <<>>
          /\ owners[c] = IF i \in DOMAIN late THEN late[i].pool ELSE None
      BY <3>1, Laid DEF Layout
    <3>4. /\ contents'[c] = IF i \in DOMAIN late' THEN late'[i].msgs ELSE <<>>
          /\ owners'[c] = IF i \in DOMAIN late' THEN late'[i].pool ELSE None
      BY <3>1, LaidNext DEF Layout
    <3> QED BY <1>4, <3>2, <3>3, <3>4
  <2>2. CASE c[1] # "late"
    BY <1>7, <2>2, WriteBoxes DEF Leaves
  <2> QED BY <2>1, <2>2
<1> HIDE DEF n, a, b, p
<1>8. g \in [Container -> Container] /\ g[b] = a /\ \A c \in Container : c # b => g[c] = c
  BY <1>2
<1> HIDE DEF g
<1>9. Flows(Relabel(g), contents, owners, contents', owners')
  <2>1. Passes(Where(owners, a), Where(owners', b))
    BY <1>2, <1>5 DEF Passes, Where
  <2>2. \A c \in Container : c # b /\ c # a => Passes(Where(owners, c), Where(owners', c))
    BY <1>7 DEF Passes, Where
  <2>3. \A c \in Container : Len(contents'[c]) = 0 \/ contents'[c] = contents[g[c]]
    BY <1>5, <1>6, <1>7, <1>8
  <2>4. \A c \in Container : Len(contents'[c]) # 0 => Passes(Where(owners, g[c]), Where(owners', c))
    BY <1>6, <1>8, <2>1, <2>2
  <2>5. \A c, d \in Container : Len(contents'[c]) # 0 /\ Len(contents'[d]) # 0 /\ g[c] = g[d] => c = d
    BY <1>6, <1>8
  <2> QED BY <1>3, <1>8, <2>3, <2>4, <2>5, BoxesMove
<1>10. ASSUME Acyclic, Chained(contents, owners)
       PROVE  Advances(regular', Relabel(g), contents, owners, contents', owners')
  <2>1. \A c \in Container : Carries(contents', c) => c # a
    BY <1>3, <1>6, CarriesLen
  <2>2. ASSUME NEW c \in Container, Carries(contents', c), c # b
        PROVE  g[c] = c /\ Level(owners', c) = Level(owners, c) /\ Level(owners, c) \in Nat
    <3>1. g[c] = c /\ contents'[c] = contents[c] /\ owners'[c] = owners[c]
      BY <1>7, <1>8, <2>1, <2>2
    <3>2. owners[c] \in Chain
      BY <1>10, <2>2, <3>1 DEF Carries, Holds, Chained
    <3> QED BY <1>3, <1>10, <3>1, <3>2, Levels DEF Level
  <2>3. Level(owners, a) =< Level(owners', b)
    <3>1. Rank[p] \in Nat
      BY <1>1, <1>10, Ranks DEF p
    <3>2. Level(owners, a) = 6 * Rank[p] + 1 /\ Level(owners', b) = 6 * Rank[p] + 2
      BY <1>2, <1>5 DEF Level
    <3> QED BY <3>1, <3>2
  <2>4. \A c \in Container : Carries(contents', c) => Level(owners, g[c]) =< Level(owners', c)
    BY <1>8, <2>2, <2>3
  <2>5. \A c, d \in Container : Carries(contents', c) /\ Carries(contents', d) /\ g[c] = g[d] => c = d
    BY <1>8, <2>1
  <2>6. \A c \in Container : Holds(regular', contents', c) => c # b /\ Carries(contents', c)
    BY <1>2, HoldsCarries, LateKeepsNone, RegularPlainNext DEF Plain
  <2>7. \A c, d \in Container :
          Holds(regular', contents', c) /\ Holds(regular', contents', d) /\ BoxAhead(owners, g[c], g[d])
            => BoxAhead(owners', c, d)
    BY <2>2, <2>6 DEF BoxAhead
  <2>8. regular' \in SUBSET Msg
    BY RegularPlainNext DEF Plain
  <2> QED BY <1>3, <1>8, <1>9, <1>10, <2>4, <2>5, <2>7, <2>8, BoxesAdvance
<1> QED BY <1>9, <1>10 DEF FlowStep, Flow, Advance

\* Every step of a write task has a flow.
LEMMA WriteFlow ==
  ASSUME Sound, Sound', NEW w \in WWorker, NEW x \in WriteTask, Turns(w, x),
         Taken(w, x) \/ Sent(w, x) \/ Listed(w, x) \/ Dropped(w, x) \/ Leaves(w, x)
  PROVE  \E f : /\ FlowStep(f)
                /\ Sent(w, x) => Leads(f, Head(wr[w].todo), WriteLimit(wr[w].pool))
<1>1. CASE Sent(w, x)
  BY <1>1, WriteSends
<1>2. CASE ~Sent(w, x)
  BY <1>2, WriteKept, WriteTakes, WriteLeaves
<1> QED BY <1>1, <1>2

\* A flow to boxes is one to boxes that lack some of their messages.
LEMMA FewerFlow ==
  ASSUME NEW R \in SUBSET Msg, NEW box, NEW home, NEW mid, NEW next, NEW nextHome, NEW f,
         \A x \in Spot, m \in Msg : At(next, x, m) => At(mid, x, m),
         Flows(f, box, home, mid, nextHome)
  PROVE  /\ Flows(f, box, home, next, nextHome)
         /\ Advances(R, f, box, home, mid, nextHome) => Advances(R, f, box, home, next, nextHome)
<1>1. /\ \A x \in Spot : Full(next, x) => Full(mid, x)
      /\ \A x \in Spot : Filled(R, next, x) => Filled(R, mid, x)
  BY DEF Full, Filled
<1>2. Flows(f, box, home, next, nextHome)
  BY <1>1 DEF Flows
<1>3. ASSUME Advances(R, f, box, home, mid, nextHome)
      PROVE  Advances(R, f, box, home, next, nextHome)
  BY <1>1, <1>3 DEF Advances
<1> QED BY <1>2, <1>3

\* A message under way arrives, behind those of the queue, or is lost.
LEMMA LateFlow ==
  ASSUME Sound, Sound', NEW i \in DOMAIN late, Arrives(i)
  PROVE  /\ \E f : FlowStep(f)
         /\ UNCHANGED <<scenario, posted, again, wr, late[i].pool, failed, readLog, writeLog>>
<1> DEFINE p == late[i].pool
           a == <<"late", i>>
           b == <<"broker", p>>
           f == Shift(a, b, Len(contents[b]) + 1)
           mid == [contents EXCEPT ![a] = Tail(contents[a]), ![b] = Append(contents[b], Head(contents[a]))]
<1>1. /\ p \in Pool /\ late \in Seq(Batch) /\ i \in Nat /\ late[i].msgs # <<>> /\ late[i].msgs \in Seq(M)
      /\ queue[p] \in Seq(M)
  <2>1. late \in Seq(Batch) /\ queue \in [Pool -> Seq(M)] /\ p \in Pool /\ late[i].msgs # <<>>
    BY DEF Arrives, Sound, Typed
  <2>2. i \in Nat /\ late[i] \in Batch
    BY <2>1
  <2> QED BY <2>1, <2>2 DEF Batch
<1>2. /\ DOMAIN late' = DOMAIN late /\ late'[i].pool = p /\ late'[i].msgs = Tail(late[i].msgs)
      /\ \A j \in DOMAIN late : j # i => late'[j] = late[j]
  <2>1. late' = [late EXCEPT ![i] = [pool |-> p, msgs |-> Tail(late[i].msgs)]]
    BY DEF Arrives
  <2> QED BY <1>1, <2>1
<1>3. /\ a \in Container /\ b \in Container /\ a # b /\ a[1] = "late" /\ b[1] = "broker"
      /\ Depth(a) = 2 /\ Depth(b) = 3 /\ Stage(a) = "writing" /\ Stage(b) = "queued"
  BY <1>1 DEF Container, Depth, Stage
<1>4. /\ contents[a] = late[i].msgs /\ owners[a] = p /\ contents[b] = queue[p] /\ owners[b] = p
  BY <1>1, Laid DEF Layout
<1>5. /\ contents'[a] = late'[i].msgs /\ owners'[a] = late'[i].pool
      /\ contents'[b] = queue'[p] /\ owners'[b] = p
  BY <1>1, <1>2, LaidNext DEF Layout
<1>6. /\ contents \in Boxes /\ contents' \in Boxes /\ owners \in Homes /\ owners' \in Homes
      /\ AtHome(owners)
  BY SoundBoxes, SoundBoxesNext DEF Boxed
<1>7. ASSUME NEW c \in Container, c # a
      PROVE  owners'[c] = owners[c] /\ (c # b => contents'[c] = contents[c])
  <2>1. CASE c[1] = "late"
    <3>1. PICK j \in Nat : c = <<"late", j>>
      BY <2>1, Kinds, Pairs
    <3>2. /\ contents[c] = IF j \in DOMAIN late THEN late[j].msgs ELSE <<>>
          /\ owners[c] = IF j \in DOMAIN late THEN late[j].pool ELSE None
      BY <3>1, Laid DEF Layout
    <3>3. /\ contents'[c] = IF j \in DOMAIN late' THEN late'[j].msgs ELSE <<>>
          /\ owners'[c] = IF j \in DOMAIN late' THEN late'[j].pool ELSE None
      BY <3>1, LaidNext DEF Layout
    <3>4. j # i
      BY <1>7, <3>1
    <3> QED BY <1>2, <3>2, <3>3, <3>4
  <2>2. CASE c[1] = "broker"
    <3>1. c[2] \in Pool /\ c = <<c[1], c[2]>>
      BY <2>2, Kinds, Pairs
    <3>2. c # b => queue'[c[2]] = queue[c[2]]
      BY <2>2, <3>1 DEF Arrives, Sound, Typed
    <3> QED BY <2>2, <3>2, Untouched
  <2>3. CASE c[1] \notin {"late", "broker"}
    <3>1. UNCHANGED <<writes, wr, rd>>
      BY DEF Arrives
    <3> QED BY <2>3, <3>1, Untouched, Kinds
  <2> QED BY <2>1, <2>2, <2>3
<1>8. owners' = owners
  <2>1. \A c \in Container : owners'[c] = owners[c]
    BY <1>2, <1>4, <1>5, <1>7
  <2> QED BY <1>6, <2>1 DEF Homes
<1>9. \/ queue'[p] = Append(queue[p], Head(late[i].msgs))
      \/ queue'[p] = queue[p]
  BY <1>1 DEF Arrives, Sound, Typed
<1> HIDE DEF a, b, p, f
<1>10. /\ mid \in Boxes /\ mid[a] = contents'[a] /\ mid[b] = Append(contents[b], Head(contents[a]))
       /\ \A c \in Container : c # a /\ c # b => mid[c] = contents[c]
       /\ contents'[b] = mid[b] \/ contents'[b] = contents[b]
  <2>1. Tail(contents[a]) \in Seq(M) /\ Append(contents[b], Head(contents[a])) \in Seq(M)
    <3>1. late[i].msgs # <<>> /\ late[i].msgs \in Seq(M) /\ queue[p] \in Seq(M)
      BY <1>1 DEF p
    <3> QED BY <1>4, <3>1, TakeFacts, AppendFacts
  <2> QED BY <1>2, <1>3, <1>4, <1>5, <1>6, <1>9, <2>1 DEF Boxes
<1>11. mid = [contents EXCEPT ![a] = Tail(contents[a]), ![b] = Append(contents[b], Head(contents[a]))]
  OBVIOUS
<1> HIDE DEF mid
<1>12. \A x \in Spot, m \in Msg : At(contents', x, m) => At(mid, x, m)
  <2> SUFFICES ASSUME NEW x \in Spot, NEW m \in Msg, At(contents', x, m) PROVE At(mid, x, m)
    OBVIOUS
  <2>1. CASE x[1] = b /\ contents'[b] = contents[b]
    <3>1. contents[b] \in Seq(M) /\ Head(contents[a]) \in M
      BY <1>1, <1>3, <1>4, <1>6, TakeFacts DEF Boxes, p
    <3>2. x[2] \in DOMAIN contents[b] /\ contents[b][x[2]] = m
      BY <2>1 DEF At
    <3>3. x[2] \in DOMAIN mid[b] /\ mid[b][x[2]] = m
      BY <1>10, <3>1, <3>2
    <3> QED BY <2>1, <3>3 DEF At
  <2>2. CASE ~(x[1] = b /\ contents'[b] = contents[b])
    <3>0. \A c \in Container : c # a => (c # b => contents'[c] = contents[c])
      BY <1>7
    <3>1. contents'[x[1]] = mid[x[1]]
      <4>1. x[1] \in Container
        BY Pairs
      <4>2. CASE x[1] = a
        BY <1>10, <4>2
      <4>3. CASE x[1] = b
        BY <1>10, <2>2, <4>3
      <4>4. CASE x[1] # a /\ x[1] # b
        <5>1. mid[x[1]] = contents[x[1]]
          BY <1>10, <4>1, <4>4
        <5> QED BY <3>0, <4>1, <4>4, <5>1
      <4> QED BY <4>2, <4>3, <4>4
    <3> QED BY <3>1 DEF At
  <2> QED BY <2>1, <2>2
<1>13. Passes(Where(owners, a), Where(owners, b)) /\ owners[a] = owners[b] /\ contents[a] # <<>>
  <2>1. <<<<"writing", p>>, <<"queued", p>>>> \in Abstract!Moves
    BY <1>1 DEF Abstract!Moves, p
  <2> QED BY <1>1, <1>3, <1>4, <2>1 DEF Passes, Where
<1>14. Flows(f, contents, owners, mid, owners)
  BY <1>3, <1>6, <1>10, <1>11, <1>13, OneMoves DEF f
<1>15. regular' \in SUBSET Msg
  BY RegularPlainNext DEF Plain
<1>16. ASSUME Acyclic, Chained(contents, owners)
       PROVE  Advances(regular', f, contents, owners, mid, owners)
  <2>1. \A c \in Container : Depth(c) > Depth(a) => Depth(c) >= Depth(b)
    BY <1>3, Kinds
  <2>2. CASE Head(contents[a]) \in Msg
    <3>1. Depth(a) < Depth(b) /\ a[1] # "batch" /\ b[1] \in {"broker", "consumer", "msgs"}
      BY <1>3
    <3> QED BY <1>3, <1>6, <1>10, <1>11, <1>13, <1>15, <1>16, <2>1, <2>2, <3>1, OneAdvances DEF f
  <2>3. CASE Head(contents[a]) \notin Msg
    BY <1>3, <1>6, <1>10, <1>11, <1>13, <1>14, <1>15, <1>16, <2>3, BlankAdvances DEF f
  <2> QED BY <2>2, <2>3
<1>17. FlowStep(f)
  BY <1>8, <1>12, <1>14, <1>15, <1>16, FewerFlow DEF FlowStep, Flow, Advance
<1> QED BY <1>2, <1>17 DEF Arrives, p

-----------------------------------------------------------------------------
(* What clients write goes behind everything else.                         *)
\* The messages there are: those sent, and those given out again.
Old == {m \in Msg : begun(m)}

LEMMA OldPost ==
  ASSUME Sound, NEW k \in 1..NumMsgs, PostWrite(k)
  PROVE  /\ Old \subseteq Old'
         /\ \A i \in 1 .. k : <<posted + i, 0>> \in Old' \ Old
         /\ \A m \in Old' \ Old : \E i \in 1 .. k : m = <<posted + i, 0>>
         /\ \A m \in Old \cap Plain : m[1] =< posted
<1>1. k \in Nat /\ posted \in Nat /\ posted' = posted + k /\ Posted(k) \in Seq(Msg) /\ UNCHANGED again
  BY PostWork
<1>2. \A m \in Msg : m = <<m[1], m[2]>> /\ m[1] \in Nat
  BY Messages
<1>3. ASSUME NEW m \in Old PROVE m \in Old'
  BY <1>1, <1>2 DEF Old, begun
<1>4. ASSUME NEW i \in 1 .. k PROVE <<posted + i, 0>> \in Old' \ Old
  <2>1. <<posted + i, 0>> \in Msg
    <3>1. Len(Posted(k)) = k /\ Posted(k)[i] = <<posted + i, 0>>
      BY <1>1 DEF Posted
    <3> QED BY <1>1, <3>1
  <2> QED BY <1>1, <2>1 DEF Old, begun
<1>5. ASSUME NEW m \in Old' \ Old PROVE \E i \in 1 .. k : m = <<posted + i, 0>>
  <2>1. m \in Msg /\ m[2] = 0 /\ m[1] =< posted + k /\ ~(m[1] =< posted)
    BY <1>1 DEF Old, begun
  <2>2. m = <<m[1], 0>> /\ m[1] \in Nat
    BY <1>2, <2>1
  <2>3. m[1] - posted \in 1 .. k /\ posted + (m[1] - posted) = m[1]
    BY <1>1, <2>1, <2>2
  <2> QED BY <2>2, <2>3
<1> QED BY <1>3, <1>4, <1>5 DEF Old, begun, Plain

NewBatch == <<"batch", Len(writes) + 1>>

\* Only the new batch changes.
LEMMA PostBoxes ==
  ASSUME Sound, NEW k \in 1..NumMsgs, PostWrite(k)
  PROVE  /\ NewBatch \in Container /\ NewBatch[1] = "batch" /\ NewBatch[2] = Len(writes) + 1
         /\ Len(writes) \in Nat /\ Depth(NewBatch) = 0 /\ Stage(NewBatch) = "writing"
         /\ owners'[NewBatch] = Source /\ contents'[NewBatch] = Posted(k)
         /\ \A c \in Container : c # NewBatch => contents'[c] = contents[c] /\ owners'[c] = owners[c]
         /\ \A i \in Nat : Len(contents[<<"batch", i>>]) # 0 => i < Len(writes) + 1
<1> DEFINE n == Len(writes) + 1
<1>0. Len(writes) \in Nat /\ n \in Nat /\ writes \in Seq(Batch)
  BY DEF Sound, Typed
<1>1. NewBatch \in Container /\ NewBatch[1] = "batch" /\ NewBatch[2] = n
      /\ Depth(NewBatch) = 0 /\ Stage(NewBatch) = "writing"
  BY <1>0 DEF NewBatch, Container, Depth, Stage
<1>2. /\ writes' = Append(writes, [pool |-> Source, msgs |-> Posted(k)])
      /\ UNCHANGED <<queue, rd, wr, late>>
  BY PostWork
<1>3. /\ DOMAIN writes' = 1 .. n /\ DOMAIN writes = 1 .. n - 1
      /\ writes'[n].pool = Source /\ writes'[n].msgs = Posted(k)
      /\ \A i \in 1 .. n - 1 : writes'[i] = writes[i]
  BY <1>0, <1>2
<1>4. owners'[NewBatch] = Source /\ contents'[NewBatch] = Posted(k)
  <2>1. n \in DOMAIN writes'
    BY <1>0, <1>3
  <2>2. contents'[<<"batch", n>>] = writes'[n].msgs /\ owners'[<<"batch", n>>] = writes'[n].pool
    BY <1>0, <2>1, LaidNext DEF Layout
  <2> QED BY <1>3, <2>2 DEF NewBatch
<1>5. ASSUME NEW i \in Nat
      PROVE  /\ i # n => /\ contents'[<<"batch", i>>] = contents[<<"batch", i>>]
                         /\ owners'[<<"batch", i>>] = owners[<<"batch", i>>]
             /\ Len(contents[<<"batch", i>>]) # 0 => i < n
  <2>1. /\ contents[<<"batch", i>>] = IF i \in DOMAIN writes THEN writes[i].msgs ELSE <<>>
        /\ owners[<<"batch", i>>] = IF i \in DOMAIN writes THEN writes[i].pool ELSE None
    BY Laid DEF Layout
  <2>2. /\ contents'[<<"batch", i>>] = IF i \in DOMAIN writes' THEN writes'[i].msgs ELSE <<>>
        /\ owners'[<<"batch", i>>] = IF i \in DOMAIN writes' THEN writes'[i].pool ELSE None
    BY LaidNext DEF Layout
  <2>3. i # n => (i \in DOMAIN writes' <=> i \in DOMAIN writes)
    BY <1>0, <1>3
  <2>4. i \in DOMAIN writes => i < n /\ writes'[i] = writes[i]
    BY <1>0, <1>3
  <2>5. Len(contents[<<"batch", i>>]) # 0 => i < n
    BY <2>1, <2>4
  <2> QED BY <2>1, <2>2, <2>3, <2>4, <2>5
<1>6. ASSUME NEW c \in Container, c # NewBatch
      PROVE  contents'[c] = contents[c] /\ owners'[c] = owners[c]
  <2>1. CASE c[1] = "batch"
    <3>1. c = <<"batch", c[2]>> /\ c[2] \in Nat
      BY <2>1, Kinds, Pairs
    <3>2. c[2] # n
      BY <1>6, <3>1 DEF NewBatch
    <3> QED BY <1>5, <3>1, <3>2
  <2>2. CASE c[1] # "batch"
    BY <1>2, <2>2, Untouched, Kinds
  <2> QED BY <2>1, <2>2
<1> QED BY <1>0, <1>1, <1>4, <1>5, <1>6

\* What is there after the step was there before, or is new.
LEMMA PostSpots ==
  ASSUME Sound, NEW k \in 1..NumMsgs, PostWrite(k)
  PROVE  /\ \A x \in Spot, m \in Msg : At(contents', x, m) =>
              \/ x[1] = NewBatch /\ x[2] \in 1 .. k /\ m = <<posted + x[2], 0>>
              \/ x[1] # NewBatch /\ At(contents, x, m)
         /\ \A x \in Spot, m \in Msg : At(contents, x, m) => x[1] # NewBatch /\ At(contents', x, m)
         /\ \A i \in 1 .. k : /\ <<NewBatch, i>> \in Spot
                              /\ At(contents', <<NewBatch, i>>, <<posted + i, 0>>)
<1>1. posted \in Nat /\ k \in Nat
  BY PostWork
<1>2. DOMAIN Posted(k) = 1 .. k /\ \A i \in 1 .. k : Posted(k)[i] = <<posted + i, 0>>
  BY DEF Posted
<1>3. ASSUME NEW x \in Spot, NEW m \in Msg, At(contents', x, m)
      PROVE  \/ x[1] = NewBatch /\ x[2] \in 1 .. k /\ m = <<posted + x[2], 0>>
             \/ x[1] # NewBatch /\ At(contents, x, m)
  <2>1. CASE x[1] = NewBatch
    BY <1>2, <1>3, <2>1, PostBoxes DEF At
  <2>2. CASE x[1] # NewBatch
    <3>1. contents'[x[1]] = contents[x[1]]
      BY <2>2, PostBoxes, Pairs
    <3> QED BY <1>3, <2>2, <3>1 DEF At
  <2> QED BY <2>1, <2>2
<1>4. ASSUME NEW x \in Spot, NEW m \in Msg, At(contents, x, m)
      PROVE  x[1] # NewBatch /\ At(contents', x, m)
  <2>1. x[1] # NewBatch
    <3>1. Len(contents[x[1]]) # 0
      BY <1>4, FullHome, SoundBoxes DEF Boxed, Full
    <3>2. ~(Len(writes) + 1 < Len(writes) + 1)
      BY PostBoxes
    <3>3. Len(writes) + 1 \in Nat
      BY PostBoxes
    <3> QED BY <3>1, <3>2, <3>3, PostBoxes DEF NewBatch
  <2>2. contents'[x[1]] = contents[x[1]]
    BY <2>1, PostBoxes, Pairs
  <2> QED BY <1>4, <2>1, <2>2 DEF At
<1>5. ASSUME NEW i \in 1 .. k
      PROVE  <<NewBatch, i>> \in Spot /\ At(contents', <<NewBatch, i>>, <<posted + i, 0>>)
  <2>1. <<NewBatch, i>> \in Spot /\ <<NewBatch, i>>[1] = NewBatch /\ <<NewBatch, i>>[2] = i
    BY <1>1, PostBoxes DEF Spot
  <2> QED BY <1>2, <2>1, PostBoxes DEF At
<1> QED BY <1>3, <1>4, <1>5

\* The messages of the new batch are nowhere else yet,
LEMMA PostKeeps ==
  ASSUME Sound, NEW k \in 1..NumMsgs, PostWrite(k), Single(contents), UpTo(contents, Old)
  PROVE  Single(contents') /\ UpTo(contents', Old')
<1>1. posted \in Nat /\ k \in Nat
  BY PostWork
<1>2. UpTo(contents', Old')
  BY PostSpots, OldPost DEF UpTo
<1>3. Single(contents')
  <2> SUFFICES ASSUME NEW x \in Spot, NEW y \in Spot, NEW m \in Msg,
                      At(contents', x, m), At(contents', y, m)
               PROVE  x = y
    BY DEF Single
  <2>1. CASE x[1] = NewBatch /\ y[1] = NewBatch
    <3>1. m = <<posted + x[2], 0>> /\ m = <<posted + y[2], 0>> /\ x[2] \in Nat /\ y[2] \in Nat
      BY <2>1, PostSpots, Pairs
    <3>2. posted + x[2] = posted + y[2]
      BY <3>1
    <3>3. x[2] = y[2]
      BY <1>1, <3>1, <3>2
    <3> QED BY <2>1, <3>3, Pairs
  <2>2. CASE x[1] # NewBatch /\ y[1] # NewBatch
    BY <2>2, PostSpots DEF Single
  <2>3. \A z \in Spot : z[1] = NewBatch /\ At(contents', z, m) => m \notin Old
    BY PostSpots, OldPost
  <2>4. \A z \in Spot : At(contents, z, m) => m \in Old
    BY DEF UpTo
  <2> QED BY <2>1, <2>2, <2>3, <2>4, PostSpots
<1> QED BY <1>2, <1>3

\* and were sent after all others.
LEMMA PostInLine ==
  ASSUME Acyclic, Sound, NEW k \in 1..NumMsgs, PostWrite(k), UpTo(contents, Old),
         Chained(contents, owners)
  PROVE  /\ Chained(contents', owners')
         /\ \A R \in SUBSET Plain : InLine(R, contents, owners) => InLine(R, contents', owners')
         /\ \A R \in SUBSET Plain : \A S : \A limit \in Nat :
              Behind(R, S, limit, contents, owners) /\ S \cap Msg \subseteq Old
                => Behind(R, S, limit, contents', owners')
<1>0. posted \in Nat /\ Source \in Pool /\ Source \in Chain
  BY PostWork, BrokerAssumption, ChainFacts
<1>1. Chained(contents', owners')
  <2> SUFFICES ASSUME NEW c \in Container, Carries(contents', c) PROVE owners'[c] \in Chain
    BY DEF Chained
  <2>1. CASE c = NewBatch
    BY <1>0, <2>1, PostBoxes
  <2>2. CASE c # NewBatch
    BY <2>2, PostBoxes DEF Carries, Holds, Chained
  <2> QED BY <2>1, <2>2
<1>2. Rank[Source] \in Nat /\ Level(owners', NewBatch) = 6 * Rank[Source]
  BY <1>0, PostBoxes, Ranks DEF Level
<1>3. ASSUME NEW c \in Container, c # NewBatch
      PROVE  Level(owners', c) = Level(owners, c)
  BY <1>3, PostBoxes DEF Level
<1>4. ASSUME NEW x \in Spot, NEW m \in Msg, At(contents, x, m)
      PROVE  /\ x[1] \in Container /\ x[1] # NewBatch /\ Level(owners, x[1]) >= 6 * Rank[Source]
             /\ Level(owners, x[1]) \in Nat
             /\ Level(owners, x[1]) = 6 * Rank[Source] =>
                  x[1][1] = "batch" /\ x[1][2] < Len(writes) + 1
  <2>1. x[1] \in Container /\ Carries(contents, x[1]) /\ x[1] # NewBatch /\ Len(contents[x[1]]) # 0
    BY <1>4, FullCarries, FullHome, SoundBoxes, PostSpots DEF Boxed, Full
  <2>2. owners[x[1]] \in Chain
    BY <2>1 DEF Chained
  <2>3. Rank[owners[x[1]]] >= Rank[Source] /\ Rank[owners[x[1]]] \in Nat
    BY <2>2, OnePerRank, Ranks, ChainFacts
  <2>4. Depth(x[1]) \in 0 .. 5 /\ (Depth(x[1]) = 0 => x[1][1] = "batch" /\ x[1][2] \in Nat)
    BY <2>1, Kinds
  <2>5. Level(owners, x[1]) >= 6 * Rank[Source] /\ Level(owners, x[1]) \in Nat
        /\ (Level(owners, x[1]) = 6 * Rank[Source] => Depth(x[1]) = 0)
    BY <1>2, <2>3, <2>4 DEF Level
  <2>6. x[1][1] = "batch" /\ x[1][2] \in Nat => x[1][2] < Len(writes) + 1
    <3>1. x[1] = <<x[1][1], x[1][2]>>
      BY <2>1, Pairs
    <3> QED BY <2>1, <3>1, PostBoxes
  <2> QED BY <2>1, <2>4, <2>5, <2>6
<1>5. ASSUME NEW R \in SUBSET Plain, InLine(R, contents, owners)
      PROVE  InLine(R, contents', owners')
  <2> SUFFICES ASSUME OneWriter, NEW x \in Spot, NEW y \in Spot, NEW m \in R, NEW n \in R,
                      At(contents', x, m), At(contents', y, n), m[1] < n[1]
               PROVE  Ahead(owners', x, y)
    BY DEF InLine
  <2>0. m \in Msg /\ n \in Msg /\ m[1] \in Nat /\ n[1] \in Nat
    BY Messages DEF Plain
  <2>1. CASE x[1] = NewBatch /\ y[1] = NewBatch
    <3>1. m[1] = posted + x[2] /\ n[1] = posted + y[2] /\ x[2] \in Nat /\ y[2] \in Nat
      BY <2>0, <2>1, PostSpots, Pairs
    <3>2. x[2] < y[2]
      BY <1>0, <3>1
    <3> QED BY <2>1, <3>2 DEF Ahead
  <2>2. CASE x[1] # NewBatch /\ y[1] = NewBatch
    <3>1. At(contents, x, m)
      BY <2>0, <2>2, PostSpots
    <3>2. /\ Level(owners', x[1]) = Level(owners, x[1]) /\ Level(owners, x[1]) >= 6 * Rank[Source]
          /\ Level(owners, x[1]) \in Nat
          /\ Level(owners, x[1]) = 6 * Rank[Source] => x[1][1] = "batch" /\ x[1][2] < Len(writes) + 1
      BY <1>3, <1>4, <2>0, <3>1
    <3>3. BoxAhead(owners', x[1], NewBatch)
      BY <1>2, <3>2, PostBoxes DEF BoxAhead
    <3> QED BY <2>2, <3>3 DEF Ahead
  <2>3. CASE y[1] # NewBatch
    <3>1. At(contents, y, n) /\ n[1] =< posted
      BY <2>0, <2>3, PostSpots, OldPost DEF UpTo
    <3>2. At(contents, x, m) /\ x[1] # NewBatch
      <4>1. CASE x[1] = NewBatch
        <5>1. m[1] = posted + x[2] /\ x[2] \in Nat
          BY <2>0, <4>1, PostSpots, Pairs
        <5> QED BY <1>0, <2>0, <3>1, <5>1
      <4> QED BY <2>0, <4>1, PostSpots
    <3>4. Ahead(owners, x, y)
      BY <1>5, <3>1, <3>2 DEF InLine
    <3>5. Level(owners', x[1]) = Level(owners, x[1]) /\ Level(owners', y[1]) = Level(owners, y[1])
      BY <1>3, <2>3, <3>2, Pairs
    <3> QED BY <3>4, <3>5 DEF Ahead, BoxAhead
  <2> QED BY <2>1, <2>2, <2>3
<1>6. ASSUME NEW R \in SUBSET Plain, NEW S, NEW limit \in Nat,
             Behind(R, S, limit, contents, owners), S \cap Msg \subseteq Old
      PROVE  Behind(R, S, limit, contents', owners')
  <2> SUFFICES ASSUME NEW n \in S, NEW x \in Spot, NEW m \in Msg, n \in Msg,
                      At(contents', x, m), Level(owners', x[1]) =< limit
               PROVE  Before(R, n, m)
    BY DEF Behind
  <2>1. CASE x[1] = NewBatch
    <3>1. m[1] = posted + x[2] /\ x[2] \in Nat /\ x[2] # 0 /\ m \notin Old /\ n \in Old
      BY <1>6, <2>1, PostSpots, OldPost, Pairs
    <3>2. n \in R => n[1] =< posted /\ n[1] \in Nat
      BY <3>1, OldPost, Messages
    <3> QED BY <1>0, <3>1, <3>2 DEF Before
  <2>2. CASE x[1] # NewBatch
    <3>1. At(contents, x, m) /\ Level(owners, x[1]) =< limit
      BY <1>3, <2>2, PostSpots, Pairs
    <3> QED BY <1>6, <3>1 DEF Behind
  <2> QED BY <2>1, <2>2
<1> QED BY <1>1, <1>5, <1>6

-----------------------------------------------------------------------------
(* What Kafka gives out again goes to the head of its topic.               *)
LEMMA OldAgain ==
  ASSUME Sound, NEW p \in Pool, NEW r \in ReadTask, Becomes(p, r), Repeats(p, r)
  PROVE  /\ Old \subseteq Old'
         /\ \A i \in DOMAIN Renewed(p) : Renewed(p)[i] \in Msg => Renewed(p)[i] \in (Old' \ Old) \ Plain
         /\ \A m \in Old' \ Old : \E i \in DOMAIN Renewed(p) : m = Renewed(p)[i]
         /\ \A i, j \in DOMAIN Renewed(p) : Renewed(p)[i] = Renewed(p)[j] => i = j
<1> DEFINE u == rd[p].uncommitted
           n == Len(again)
           s == Renewed(p)
<1>1. /\ n \in Nat /\ Len(u) \in Nat /\ DOMAIN s = 1 .. Len(u)
      /\ \A i \in 1 .. Len(u) : s[i] = <<u[i][1], n + i>>
      /\ DOMAIN again = 1 .. n /\ DOMAIN again' = 1 .. n + Len(u)
      /\ \A i \in 1 .. n : again'[i] = again[i]
      /\ \A i \in 1 .. Len(u) : again'[n + i] = u[i][1]
  <2>1. s \in Seq(M) /\ Len(s) = Len(u)
    BY RenewedFacts
  <2>2. again \in Seq(0..NumMsgs) /\ again' \in Seq(0..NumMsgs) /\ Len(again') = n + Len(u)
    BY RenewedFacts DEF Sound, Typed
  <2>3. /\ n \in Nat /\ Len(u) \in Nat
        /\ \A i \in 1 .. Len(u) : s[i] = <<u[i][1], n + i>>
        /\ \A i \in 1 .. n : again'[i] = again[i]
        /\ \A i \in 1 .. Len(u) : again'[n + i] = u[i][1]
    BY RenewedFacts
  <2> HIDE DEF s, u, n
  <2>4. DOMAIN s = 1 .. Len(u)
    BY <2>1
  <2>5. DOMAIN again = 1 .. n /\ DOMAIN again' = 1 .. n + Len(u)
    BY <2>2 DEF n
  <2> QED BY <2>3, <2>4, <2>5
<1>2. UNCHANGED posted
  BY DEF Becomes
<1> HIDE DEF u, n, s
<1>3. \A m \in Msg : m = <<m[1], m[2]>> /\ m[1] \in Nat /\ m[2] \in Nat
  BY Messages
<1>4. \A i \in 1 .. Len(u) : /\ n + i # 0 /\ n + i \in 1 .. n + Len(u) /\ n + i \notin 1 .. n
                             /\ s[i][1] = u[i][1] /\ s[i][2] = n + i
  BY <1>1
<1>5. ASSUME NEW m \in Old PROVE m \in Old'
  <2>1. 1 .. n \subseteq 1 .. n + Len(u)
    BY <1>1
  <2> QED BY <1>1, <1>2, <2>1 DEF Old, begun
<1>6. ASSUME NEW i \in 1 .. Len(u), s[i] \in Msg PROVE s[i] \in (Old' \ Old) \ Plain
  BY <1>1, <1>4, <1>6 DEF Old, begun, Plain
<1>7. ASSUME NEW m \in Old' \ Old PROVE \E i \in 1 .. Len(u) : m = s[i]
  <2>1. m \in Msg /\ m[2] # 0 /\ m[2] \in 1 .. n + Len(u) /\ again'[m[2]] = m[1]
        /\ ~(m[2] \in 1 .. n /\ again[m[2]] = m[1])
    BY <1>1, <1>2 DEF Old, begun
  <2>2. m[2] \notin 1 .. n
    BY <1>1, <2>1
  <2> DEFINE i == m[2] - n
  <2>3. i \in 1 .. Len(u) /\ n + i = m[2]
    BY <1>1, <2>1, <2>2
  <2> HIDE DEF i
  <2>4. u[i][1] = m[1]
    BY <1>1, <2>1, <2>3
  <2>5. s[i] = <<m[1], m[2]>>
    BY <1>1, <2>3, <2>4
  <2> QED BY <1>3, <2>1, <2>3, <2>5
<1>8. ASSUME NEW i \in 1 .. Len(u), NEW j \in 1 .. Len(u), s[i] = s[j] PROVE i = j
  <2>1. n + i = n + j
    BY <1>4, <1>8
  <2> QED BY <1>1, <2>1
<1> QED BY <1>1, <1>5, <1>6, <1>7, <1>8 DEF s

\* What was in the topic has moved back by as many.
Back(p, x) == IF x[1] = <<"broker", p>> THEN <<x[1], x[2] - Len(Renewed(p))>> ELSE x
Fresh(p, x) == x[1] = <<"broker", p>> /\ x[2] \in DOMAIN Renewed(p)

LEMMA AgainSpots ==
  ASSUME Sound, Sound', NEW p \in Pool, NEW r \in ReadTask, Becomes(p, r), Repeats(p, r)
  PROVE  /\ \A c \in Container : owners'[c] = owners[c]
         /\ \A x \in Spot, m \in Msg : At(contents', x, m) /\ Fresh(p, x) => m = Renewed(p)[x[2]]
         /\ \A x \in Spot, m \in Msg : At(contents', x, m) /\ ~Fresh(p, x) =>
              /\ Back(p, x) \in Spot /\ Back(p, x)[1] = x[1] /\ At(contents, Back(p, x), m)
              /\ x[1] = <<"broker", p>> => Back(p, x)[2] = x[2] - Len(Renewed(p))
              /\ x[1] # <<"broker", p>> => Back(p, x)[2] = x[2]
         /\ \A i \in DOMAIN Renewed(p) : /\ <<<<"broker", p>>, i>> \in Spot
                                         /\ At(contents', <<<<"broker", p>>, i>>, Renewed(p)[i])
         /\ Len(Renewed(p)) \in Nat
<1> DEFINE b == <<"broker", p>>
           s == Renewed(p)
           q == queue[p]
<1>1. /\ s \in Seq(M) /\ q \in Seq(M) /\ queue'[p] = s \o q
      /\ \A v \in Pool : v # p => queue'[v] = queue[v]
      /\ r.msgs = rd[p].msgs \/ Len(r.msgs) = 0
      /\ r.buffer = rd[p].buffer
      /\ UNCHANGED <<writes, wr, late>>
  <2>1. s \in Seq(M)
    BY RenewedFacts
  <2> QED BY <2>1 DEF Sound, Typed, Repeats, Becomes, wrVars
<1>2. /\ contents[b] = q /\ contents'[b] = s \o q /\ b \in Container /\ b[1] = "broker"
      /\ contents'[<<"msgs", p>>] = contents[<<"msgs", p>>] \/ Len(contents'[<<"msgs", p>>]) = 0
      /\ contents'[<<"consumer", p>>] = contents[<<"consumer", p>>]
  BY <1>1, ReadBoxes
<1>3. rd' = [rd EXCEPT ![p] = r] /\ rd \in [Pool -> ReadTask]
  BY DEF Becomes, Sound, Typed
<1>4. ASSUME NEW c \in Container, c # b
      PROVE  contents'[c] = contents[c] \/ Len(contents'[c]) = 0
  <2>1. CASE c[1] \in {"broker", "consumer", "msgs"}
    <3>1. c[2] \in Pool /\ c = <<c[1], c[2]>>
      BY <2>1, Kinds, Pairs
    <3>2. CASE c[2] = p
      <4>1. c = <<c[1], p>> /\ c[1] # "broker"
        BY <1>4, <3>1, <3>2
      <4>2. c = <<"consumer", p>> \/ c = <<"msgs", p>>
        BY <2>1, <4>1
      <4> QED BY <1>2, <4>2
    <3>3. CASE c[2] # p
      <4>1. rd'[c[2]] = rd[c[2]] /\ queue'[c[2]] = queue[c[2]]
        BY <1>1, <1>3, <3>1, <3>3
      <4> QED BY <2>1, <4>1, Untouched
    <3> QED BY <3>2, <3>3
  <2>2. CASE c[1] \notin {"broker", "consumer", "msgs"}
    BY <1>1, <2>2, Untouched, Kinds
  <2> QED BY <2>1, <2>2
<1>5. ASSUME NEW c \in Container PROVE owners'[c] = owners[c]
  BY <1>1, Untouched, Kinds
<1>6. /\ Len(s) \in Nat /\ DOMAIN s = 1 .. Len(s) /\ DOMAIN q = 1 .. Len(q) /\ Len(q) \in Nat
      /\ DOMAIN (s \o q) = 1 .. Len(s) + Len(q)
      /\ \A i \in 1 .. Len(s) : (s \o q)[i] = s[i]
      /\ \A i \in 1 .. Len(s) + Len(q) : i > Len(s) => (s \o q)[i] = q[i - Len(s)]
  BY <1>1, JoinFacts
<1> HIDE DEF b, s, q
<1>7. ASSUME NEW x \in Spot, NEW m \in Msg, At(contents', x, m), Fresh(p, x)
      PROVE  m = s[x[2]]
  <2>1. x[1] = b /\ x[2] \in 1 .. Len(s) /\ (s \o q)[x[2]] = m
    BY <1>2, <1>6, <1>7 DEF At, Fresh, b, s
  <2> QED BY <1>6, <2>1
<1>8. ASSUME NEW x \in Spot, NEW m \in Msg, At(contents', x, m), ~Fresh(p, x)
      PROVE  /\ Back(p, x) \in Spot /\ Back(p, x)[1] = x[1] /\ At(contents, Back(p, x), m)
             /\ x[1] = b => Back(p, x)[2] = x[2] - Len(s)
             /\ x[1] # b => Back(p, x)[2] = x[2]
  <2>1. CASE x[1] = b
    <3>1. x[2] \in 1 .. Len(s) + Len(q) /\ x[2] \notin 1 .. Len(s) /\ (s \o q)[x[2]] = m
      BY <1>2, <1>6, <1>8, <2>1 DEF At, Fresh, b, s
    <3>2. x[2] > Len(s) /\ x[2] - Len(s) \in 1 .. Len(q) /\ x[2] - Len(s) \in Nat
      BY <1>6, <3>1
    <3>3. q[x[2] - Len(s)] = m
      BY <1>6, <3>1, <3>2
    <3>4. Back(p, x) = <<b, x[2] - Len(s)>>
      BY <2>1 DEF Back, b, s
    <3>5. Back(p, x)[1] = b /\ Back(p, x)[2] = x[2] - Len(s) /\ Back(p, x) \in Spot
      BY <1>2, <3>2, <3>4 DEF Spot
    <3> QED BY <1>2, <1>6, <2>1, <3>2, <3>3, <3>5 DEF At
  <2>2. CASE x[1] # b
    <3>1. Back(p, x) = x
      BY <2>2 DEF Back, b
    <3>2. x[1] \in Container /\ contents'[x[1]] \in Seq(M)
      BY Pairs, SoundBoxesNext DEF Boxed, Boxes
    <3>3. Len(contents'[x[1]]) # 0
      BY <1>8, <3>2 DEF At
    <3>4. contents'[x[1]] = contents[x[1]]
      BY <1>4, <2>2, <3>2, <3>3
    <3> QED BY <1>8, <2>2, <3>1, <3>4 DEF At
  <2> QED BY <2>1, <2>2
<1>9. ASSUME NEW i \in DOMAIN s
      PROVE  <<b, i>> \in Spot /\ At(contents', <<b, i>>, s[i])
  <2>1. i \in 1 .. Len(s) /\ i \in 1 .. Len(s) + Len(q) /\ i \in Nat
    BY <1>6
  <2>2. <<b, i>>[1] = b /\ <<b, i>>[2] = i /\ <<b, i>> \in Spot
    BY <1>2, <2>1 DEF Spot
  <2> QED BY <1>2, <1>6, <2>1, <2>2 DEF At
<1> QED BY <1>5, <1>6, <1>7, <1>8, <1>9 DEF b, s

\* These are other messages than those that are anywhere,
LEMMA AgainKeeps ==
  ASSUME Sound, Sound', NEW p \in Pool, Again(p), Single(contents), UpTo(contents, Old)
  PROVE  Single(contents') /\ UpTo(contents', Old')
<1>1. PICK r \in ReadTask : Becomes(p, r) /\ Repeats(p, r)
  BY DEF Again
<1>2. ASSUME NEW x \in Spot, NEW m \in Msg, At(contents', x, m), Fresh(p, x)
      PROVE  m \in Old' \ Old
  BY <1>1, <1>2, AgainSpots, OldAgain DEF Fresh
<1>3. ASSUME NEW x \in Spot, NEW m \in Msg, At(contents', x, m), ~Fresh(p, x)
      PROVE  m \in Old
  BY <1>1, <1>3, AgainSpots DEF UpTo
<1>4. UpTo(contents', Old')
  BY <1>1, <1>2, <1>3, OldAgain DEF UpTo
<1>5. ASSUME NEW x \in Spot, NEW y \in Spot, NEW m \in Msg, At(contents', x, m), At(contents', y, m)
      PROVE  x = y
  <2>1. CASE Fresh(p, x) /\ Fresh(p, y)
    <3>1. x[1] = y[1] /\ Renewed(p)[x[2]] = Renewed(p)[y[2]]
      BY <1>1, <1>5, <2>1, AgainSpots DEF Fresh
    <3>2. x[2] = y[2]
      BY <1>1, <2>1, <3>1, OldAgain DEF Fresh
    <3> QED BY <3>1, <3>2, Pairs
  <2>2. CASE ~Fresh(p, x) /\ ~Fresh(p, y)
    <3>1. Back(p, x) = Back(p, y)
      BY <1>1, <1>5, <2>2, AgainSpots DEF Single
    <3>2. x[1] = y[1]
      BY <1>1, <1>5, <2>2, <3>1, AgainSpots
    <3>3. x[2] \in Nat /\ y[2] \in Nat /\ Len(Renewed(p)) \in Nat
      BY <1>1, AgainSpots, Pairs
    <3>4. CASE x[1] = <<"broker", p>>
      <4>1. x[2] - Len(Renewed(p)) = y[2] - Len(Renewed(p))
        BY <1>1, <1>5, <2>2, <3>1, <3>2, <3>4, AgainSpots
      <4>2. x[2] = y[2]
        BY <3>3, <4>1
      <4> QED BY <3>2, <4>2, Pairs
    <3>5. CASE x[1] # <<"broker", p>>
      <4>1. x[2] = y[2]
        BY <1>1, <1>5, <2>2, <3>1, <3>2, <3>5, AgainSpots
      <4> QED BY <3>2, <4>1, Pairs
    <3> QED BY <3>4, <3>5
  <2> QED BY <1>2, <1>3, <1>5, <2>1, <2>2
<1> QED BY <1>4, <1>5 DEF Single

\* What a reader of kafka has not committed belongs to the line of pools.
Held == \A p \in Pool : \A m \in Ran(rd[p].uncommitted) : m \in Msg => p \in Chain

\* and it came from the queue.
LEMMA StaysHeld ==
  ASSUME Sound, Chained(contents, owners), Held, NEW p \in Pool, NEW r \in ReadTask, Becomes(p, r)
  PROVE  Held'
<1>1. rd' = [rd EXCEPT ![p] = r] /\ rd \in [Pool -> ReadTask]
      /\ Ran(r.uncommitted) \subseteq Ran(rd[p].uncommitted) \cup Ran(queue[p])
  BY DEF Becomes, Sound, Typed
<1>2. ASSUME NEW m \in Ran(queue[p]), m \in Msg
      PROVE  p \in Chain
  <2>1. contents[<<"broker", p>>] = queue[p] /\ owners[<<"broker", p>>] = p
        /\ <<"broker", p>> \in Container
    BY Laid DEF Layout, Container
  <2>2. Carries(contents, <<"broker", p>>)
    BY <1>2, <2>1 DEF Carries, Holds, Ran
  <2> QED BY <2>1, <2>2 DEF Chained
<1>3. \A m \in Ran(r.uncommitted) : m \in Msg => p \in Chain
  BY <1>1, <1>2 DEF Held
<1>4. \A v \in Pool : rd'[v] = IF v = p THEN r ELSE rd[v]
  BY <1>1
<1> QED BY <1>3, <1>4 DEF Held, Ran

\* and no order is claimed of them.
LEMMA AgainInLine ==
  ASSUME Acyclic, Sound, Sound', NEW p \in Pool, Again(p), UpTo(contents, Old),
         Chained(contents, owners), Held
  PROVE  /\ Chained(contents', owners')
         /\ \A R \in SUBSET Plain : InLine(R, contents, owners) => InLine(R, contents', owners')
         /\ \A R \in SUBSET Plain : \A S : \A limit \in Nat :
              Behind(R, S, limit, contents, owners) /\ S \cap Msg \subseteq Old
                => Behind(R, S, limit, contents', owners')
<1>1. PICK r \in ReadTask : Becomes(p, r) /\ Repeats(p, r)
  BY DEF Again
<1>2. \A c \in Container : owners'[c] = owners[c] /\ Level(owners', c) = Level(owners, c)
  BY <1>1, AgainSpots DEF Level
<1>3. ASSUME NEW x \in Spot, NEW m \in Msg, At(contents', x, m), Fresh(p, x)
      PROVE  m \notin Old /\ m \notin Plain
  BY <1>1, <1>3, AgainSpots, OldAgain DEF Fresh
<1>4. Chained(contents', owners')
  <2> SUFFICES ASSUME NEW c \in Container, Carries(contents', c) PROVE owners'[c] \in Chain
    BY DEF Chained
  <2>1. PICK m \in Msg : \E i \in DOMAIN contents'[c] : contents'[c][i] = m
    BY DEF Carries, Holds
  <2>2. PICK i \in DOMAIN contents'[c] : contents'[c][i] = m
    BY <2>1
  <2> DEFINE x == <<c, i>>
  <2>3. x \in Spot /\ x[1] = c /\ x[2] = i /\ At(contents', x, m)
    <3>1. contents'[c] \in Seq(M)
      BY SoundBoxesNext DEF Boxed, Boxes
    <3>2. i \in Nat
      BY <2>2, <3>1
    <3> QED BY <2>2, <3>2 DEF Spot, At
  <2> HIDE DEF x
  <2>4. CASE Fresh(p, x)
    <3>1. m = Renewed(p)[i] /\ i \in DOMAIN Renewed(p) /\ c = <<"broker", p>>
      BY <1>1, <2>3, <2>4, AgainSpots DEF Fresh
    <3>2. /\ i \in DOMAIN rd[p].uncommitted /\ m = <<rd[p].uncommitted[i][1], Len(again) + i>>
          /\ rd[p].uncommitted \in Seq(M)
      BY <3>1 DEF Renewed, Sound, Typed, ReadTask
    <3>3. rd[p].uncommitted[i] \in Ran(rd[p].uncommitted) /\ rd[p].uncommitted[i] \in M
          /\ rd[p].uncommitted[i][1] = m[1]
      BY <3>2 DEF Ran
    <3>4. rd[p].uncommitted[i] \in Msg
      BY <3>3, Messages
    <3>5. owners[<<"broker", p>>] = p
      BY Laid DEF Layout
    <3> QED BY <1>2, <3>1, <3>3, <3>4, <3>5 DEF Held
  <2>5. CASE ~Fresh(p, x)
    <3>1. Back(p, x) \in Spot /\ Back(p, x)[1] = c /\ At(contents, Back(p, x), m)
      BY <1>1, <2>3, <2>5, AgainSpots
    <3>2. Carries(contents, c)
      BY <3>1 DEF Carries, Holds, At
    <3> QED BY <1>2, <3>2 DEF Chained
  <2> QED BY <2>4, <2>5
<1>5. ASSUME NEW R \in SUBSET Plain, InLine(R, contents, owners)
      PROVE  InLine(R, contents', owners')
  <2> SUFFICES ASSUME OneWriter, NEW x \in Spot, NEW y \in Spot, NEW m \in R, NEW n \in R,
                      At(contents', x, m), At(contents', y, n), m[1] < n[1]
               PROVE  Ahead(owners', x, y)
    BY DEF InLine
  <2>0. m \in Msg /\ n \in Msg
    BY DEF Plain
  <2>1. ~Fresh(p, x) /\ ~Fresh(p, y)
    BY <1>3, <2>0
  <2>2. /\ Back(p, x) \in Spot /\ Back(p, x)[1] = x[1] /\ At(contents, Back(p, x), m)
        /\ Back(p, y) \in Spot /\ Back(p, y)[1] = y[1] /\ At(contents, Back(p, y), n)
    BY <1>1, <2>0, <2>1, AgainSpots
  <2>3. Ahead(owners, Back(p, x), Back(p, y))
    BY <1>5, <2>2 DEF InLine
  <2>4. x[1] \in Container /\ y[1] \in Container /\ x[2] \in Nat /\ y[2] \in Nat
    BY Pairs
  <2>5. BoxAhead(owners, x[1], y[1]) => BoxAhead(owners', x[1], y[1])
    BY <1>2, <2>4 DEF BoxAhead
  <2>6. x[1] = y[1] /\ Back(p, x)[2] < Back(p, y)[2] => x[2] < y[2]
    <3>1. CASE x[1] = <<"broker", p>> /\ y[1] = x[1]
      <4>1. /\ Back(p, x)[2] = x[2] - Len(Renewed(p)) /\ Back(p, y)[2] = y[2] - Len(Renewed(p))
            /\ Len(Renewed(p)) \in Nat
        BY <1>1, <2>0, <2>1, <3>1, AgainSpots
      <4> QED BY <2>4, <4>1
    <3>2. CASE x[1] # <<"broker", p>> /\ y[1] = x[1]
      BY <1>1, <2>0, <2>1, <3>2, AgainSpots
    <3> QED BY <3>1, <3>2
  <2> QED BY <2>2, <2>3, <2>5, <2>6 DEF Ahead
<1>6. ASSUME NEW R \in SUBSET Plain, NEW S, NEW limit \in Nat,
             Behind(R, S, limit, contents, owners), S \cap Msg \subseteq Old
      PROVE  Behind(R, S, limit, contents', owners')
  <2> SUFFICES ASSUME NEW n \in S, NEW x \in Spot, NEW m \in Msg, n \in Msg,
                      At(contents', x, m), Level(owners', x[1]) =< limit
               PROVE  Before(R, n, m)
    BY DEF Behind
  <2>1. CASE Fresh(p, x)
    BY <1>3, <1>6, <2>1 DEF Before
  <2>2. CASE ~Fresh(p, x)
    <3>1. Back(p, x) \in Spot /\ Back(p, x)[1] = x[1] /\ At(contents, Back(p, x), m)
      BY <1>1, <2>2, AgainSpots
    <3>2. Level(owners, Back(p, x)[1]) =< limit
      BY <1>2, <3>1, Pairs
    <3> QED BY <1>6, <3>1, <3>2 DEF Behind
  <2> QED BY <2>1, <2>2
<1> QED BY <1>4, <1>5, <1>6

-----------------------------------------------------------------------------
(* Every message is in one place.                                          *)
Placed == Sound /\ Single(contents) /\ UpTo(contents, Old)

\* A step writes a batch, gives messages out again or lets what there is flow.
Moving == \/ UNCHANGED boxVars
          \/ \E p \in Pool : ReadWorks(p)
          \/ \E w \in WWorker : WriteWorks(w)
          \/ \E i \in DOMAIN late : Arrives(i)

LEMMA StepFlows ==
  ASSUME Sound, Sound', Moving
  PROVE  (\E f : FlowStep(f)) /\ Old' = Old
<1>0. UNCHANGED <<posted, again>> => Old' = Old
  BY DEF Old, begun
<1>1. CASE UNCHANGED boxVars
  <2>1. UNCHANGED <<posted, again, writes, wr, late, queue, rd>>
    BY <1>1 DEF boxVars
  <2>2. \A c \in Container : contents'[c] = contents[c] /\ owners'[c] = owners[c]
    BY <2>1, Untouched, Kinds
  <2>3. FlowStep(Itself)
    BY <2>2, KeptFlow DEF FlowStep
  <2> QED BY <1>0, <2>1, <2>3
<1>2. CASE \E p \in Pool : ReadWorks(p)
  BY <1>0, <1>2, ReadFlow
<1>3. CASE \E w \in WWorker : WriteWorks(w)
  <2>1. PICK w \in WWorker : WriteWorks(w)
    BY <1>3
  <2>2. PICK x \in WriteTask :
          Turns(w, x) /\ (Taken(w, x) \/ Sent(w, x) \/ Listed(w, x) \/ Dropped(w, x) \/ Leaves(w, x))
    BY <2>1 DEF WriteWorks
  <2>3. \E f : FlowStep(f)
    BY <2>2, WriteFlow
  <2> QED BY <1>0, <2>2, <2>3 DEF Turns
<1>4. CASE \E i \in DOMAIN late : Arrives(i)
  BY <1>0, <1>4, LateFlow
<1> QED BY <1>1, <1>2, <1>3, <1>4 DEF Moving

\* No step makes a second copy.
LEMMA StaysPlaced == Placed /\ [Next]_vars => Placed'
<1> SUFFICES ASSUME Placed, [Next]_vars PROVE Placed'
  OBVIOUS
<1>1. Sound /\ Sound'
  BY StaysSound DEF Placed
<1>2. CASE \E k \in 1..NumMsgs : PostWrite(k)
  BY <1>1, <1>2, PostKeeps DEF Placed
<1>3. CASE \E p \in Pool : Again(p)
  BY <1>1, <1>3, AgainKeeps DEF Placed
<1>4. CASE Moving
  <2>1. PICK f : FlowStep(f)
    BY <1>1, <1>4, StepFlows
  <2>2. Old' = Old
    BY <1>1, <1>4, StepFlows
  <2>3. /\ contents \in Boxes /\ contents' \in Boxes /\ owners \in Homes /\ owners' \in Homes
        /\ \A c \in Container : Len(contents'[c]) # 0 => owners'[c] \in Pool
    BY <1>1, SoundBoxes, SoundBoxesNext DEF Boxed
  <2>4. \A c \in Container : Carries(contents', c) => owners'[c] \in Pool
    BY <2>3, CarriesLen
  <2>5. Flows(f, contents, owners, contents', owners')
    BY <2>1 DEF FlowStep, Flow
  <2>6. Single(contents') /\ UpTo(contents', Old)
    BY <2>3, <2>4, <2>5, FlowKeeps DEF Placed
  <2>7. UpTo(contents', Old')
    BY <2>2, <2>6
  <2> QED BY <1>1, <2>6, <2>7 DEF Placed
<1> QED BY <1>1, <1>2, <1>3, <1>4, Steps DEF Moving

\* Nothing is anywhere at first.
LEMMA StartsEmpty == Init => \A c \in Container : Len(contents[c]) = 0
<1> SUFFICES ASSUME Init, NEW c \in Container PROVE Len(contents[c]) = 0
  OBVIOUS
<1>0. /\ \A p \in Pool : queue[p] = <<>> /\ rd[p].buffer = <<>> /\ rd[p].msgs = <<>>
      /\ \A w \in WWorker : wr[w].todo = <<>>
      /\ writes = <<>> /\ late = <<>> /\ Len(<<>>) = 0
  BY DEF Init, NoRead, NoWrite
<1>1. CASE c[1] = "batch"
  <2>1. PICK i \in Nat : c = <<"batch", i>>
    BY <1>1, Kinds, Pairs
  <2>2. contents[<<"batch", i>>] = IF i \in DOMAIN writes THEN writes[i].msgs ELSE <<>>
    BY Laid DEF Layout
  <2>3. i \notin DOMAIN writes
    BY <1>0
  <2> QED BY <1>0, <2>1, <2>2, <2>3
<1>2. CASE c[1] = "task"
  <2>1. PICK w \in WWorker : c = <<"task", w>>
    BY <1>2, Kinds, Pairs
  <2> QED BY <1>0, <2>1, Laid DEF Layout
<1>3. CASE c[1] \in {"broker", "consumer", "msgs"}
  <2>1. PICK p \in Pool : c = <<c[1], p>>
    BY <1>3, Kinds, Pairs
  <2>2. /\ contents[<<"broker", p>>] = queue[p] /\ contents[<<"consumer", p>>] = rd[p].buffer
        /\ contents[<<"msgs", p>>] = rd[p].msgs
    BY Laid DEF Layout
  <2> QED BY <1>0, <1>3, <2>1, <2>2
<1>4. CASE c[1] = "late"
  <2>1. PICK i \in Nat : c = <<"late", i>>
    BY <1>4, Kinds, Pairs
  <2>2. contents[<<"late", i>>] = IF i \in DOMAIN late THEN late[i].msgs ELSE <<>>
    BY Laid DEF Layout
  <2>3. i \notin DOMAIN late
    BY <1>0
  <2> QED BY <1>0, <2>1, <2>2, <2>3
<1> QED BY <1>1, <1>2, <1>3, <1>4, Kinds

\* Nothing is anywhere before clients write.
LEMMA NothingAtFirst == Init => \A x \in Spot, m \in Msg : ~At(contents, x, m)
<1>1. Init => Boxed
  BY StartsSound, SoundBoxes
<1>2. Boxed => \A x \in Spot, m \in Msg : At(contents, x, m) => Len(contents[x[1]]) # 0
  BY FullHome DEF Boxed, Full
<1> QED BY <1>1, <1>2, StartsEmpty, Pairs

\* Every message has one spot at most.
LEMMA AlwaysPlaced == Spec => []Placed
<1>1. Init => Placed
  BY StartsSound, NothingAtFirst DEF Placed, Single, UpTo
<1> QED BY <1>1, StaysPlaced, PTL DEF Spec

-----------------------------------------------------------------------------
(* The copies of a message and its spots are the same thing.               *)
Tag(c) == IF c[1] \in {"batch", "task", "late"} THEN c ELSE c[1]
Copy(x) == <<Where(owners, x[1]), Tag(x[1]), x[2]>>

\* The occurrences that Copies finds in one box are its spots.
LEMMA OccurrenceOf ==
  ASSUME Sound, NEW c \in Container, NEW m \in Msg, NEW o
  PROVE  o \in Occurrences(Where(owners, c), Tag(c), contents[c], m)
           <=> \E x \in Spot : x[1] = c /\ At(contents, x, m) /\ o = Copy(x)
<1>0. contents[c] \in Seq(M)
  BY SoundBoxes DEF Boxed, Boxes
<1>1. \A j \in DOMAIN contents[c] : <<c, j>> \in Spot /\ <<c, j>>[1] = c /\ <<c, j>>[2] = j
  BY <1>0 DEF Spot
<1>2. ASSUME o \in Occurrences(Where(owners, c), Tag(c), contents[c], m)
      PROVE  \E x \in Spot : x[1] = c /\ At(contents, x, m) /\ o = Copy(x)
  <2>1. PICK j \in DOMAIN contents[c] :
          contents[c][j] = m /\ o = <<Where(owners, c), Tag(c), j>>
    BY <1>2 DEF Occurrences
  <2>2. At(contents, <<c, j>>, m) /\ o = Copy(<<c, j>>)
    BY <1>1, <2>1 DEF At, Copy
  <2> QED BY <1>1, <2>2
<1>3. ASSUME NEW x \in Spot, x[1] = c, At(contents, x, m), o = Copy(x)
      PROVE  o \in Occurrences(Where(owners, c), Tag(c), contents[c], m)
  BY <1>3 DEF Occurrences, At, Copy
<1> QED BY <1>2, <1>3

\* The copies of a message are its spots.
LEMMA CopiesAreSpots ==
  ASSUME Sound, NEW m \in Msg, NEW o
  PROVE  o \in Copies(m) <=> \E x \in Spot : At(contents, x, m) /\ o = Copy(x)
<1> DEFINE In(c) == Occurrences(Where(owners, c), Tag(c), contents[c], m)
<1>1. ASSUME NEW i \in DOMAIN writes
      PROVE  /\ <<"batch", i>> \in Container
             /\ In(<<"batch", i>>) = Occurrences(<<"writing", writes[i].pool>>, <<"batch", i>>, writes[i].msgs, m)
  <2>1. i \in Nat
    BY DEF Sound, Typed
  <2>2. contents[<<"batch", i>>] = writes[i].msgs /\ owners[<<"batch", i>>] = writes[i].pool
    BY <2>1, Laid DEF Layout
  <2>3. /\ <<"batch", i>> \in Container /\ Stage(<<"batch", i>>) = "writing"
        /\ Tag(<<"batch", i>>) = <<"batch", i>>
    BY <2>1 DEF Container, Stage, Tag
  <2> QED BY <2>2, <2>3 DEF Where
<1>2. ASSUME NEW w \in WWorker
      PROVE  /\ <<"task", w>> \in Container
             /\ In(<<"task", w>>) = Occurrences(<<"writing", wr[w].pool>>, <<"task", w>>, wr[w].todo, m)
  <2>1. contents[<<"task", w>>] = wr[w].todo /\ owners[<<"task", w>>] = wr[w].pool
    BY Laid DEF Layout
  <2>2. /\ <<"task", w>> \in Container /\ Stage(<<"task", w>>) = "writing"
        /\ Tag(<<"task", w>>) = <<"task", w>>
    BY DEF Container, Stage, Tag
  <2> QED BY <2>1, <2>2 DEF Where
<1>3. ASSUME NEW p \in Pool
      PROVE  /\ {<<"broker", p>>, <<"consumer", p>>, <<"msgs", p>>} \subseteq Container
             /\ In(<<"broker", p>>) = Occurrences(<<"queued", p>>, "broker", queue[p], m)
             /\ In(<<"consumer", p>>) = Occurrences(<<"queued", p>>, "consumer", rd[p].buffer, m)
             /\ In(<<"msgs", p>>) = Occurrences(<<"read", p>>, "msgs", rd[p].msgs, m)
  <2>1. /\ contents[<<"broker", p>>] = queue[p] /\ owners[<<"broker", p>>] = p
        /\ contents[<<"consumer", p>>] = rd[p].buffer /\ owners[<<"consumer", p>>] = p
        /\ contents[<<"msgs", p>>] = rd[p].msgs /\ owners[<<"msgs", p>>] = p
    BY Laid DEF Layout
  <2>2. /\ {<<"broker", p>>, <<"consumer", p>>, <<"msgs", p>>} \subseteq Container
        /\ Stage(<<"broker", p>>) = "queued" /\ Tag(<<"broker", p>>) = "broker"
        /\ Stage(<<"consumer", p>>) = "queued" /\ Tag(<<"consumer", p>>) = "consumer"
        /\ Stage(<<"msgs", p>>) = "read" /\ Tag(<<"msgs", p>>) = "msgs"
    BY DEF Container, Stage, Tag
  <2> QED BY <2>1, <2>2 DEF Where
<1>4. ASSUME NEW i \in DOMAIN late
      PROVE  /\ <<"late", i>> \in Container
             /\ In(<<"late", i>>) = Occurrences(<<"writing", late[i].pool>>, <<"late", i>>, late[i].msgs, m)
  <2>1. i \in Nat
    BY DEF Sound, Typed
  <2>2. contents[<<"late", i>>] = late[i].msgs /\ owners[<<"late", i>>] = late[i].pool
    BY <2>1, Laid DEF Layout
  <2>3. /\ <<"late", i>> \in Container /\ Stage(<<"late", i>>) = "writing"
        /\ Tag(<<"late", i>>) = <<"late", i>>
    BY <2>1 DEF Container, Stage, Tag
  <2> QED BY <2>2, <2>3 DEF Where
<1>5. ASSUME o \in Copies(m)
      PROVE  \E c \in Container : o \in In(c)
  <2>1. \/ \E i \in DOMAIN writes :
             o \in Occurrences(<<"writing", writes[i].pool>>, <<"batch", i>>, writes[i].msgs, m)
        \/ \E w \in WWorker : o \in Occurrences(<<"writing", wr[w].pool>>, <<"task", w>>, wr[w].todo, m)
        \/ \E i \in DOMAIN late :
             o \in Occurrences(<<"writing", late[i].pool>>, <<"late", i>>, late[i].msgs, m)
        \/ \E p \in Pool : \/ o \in Occurrences(<<"queued", p>>, "broker", queue[p], m)
                           \/ o \in Occurrences(<<"queued", p>>, "consumer", rd[p].buffer, m)
                           \/ o \in Occurrences(<<"read", p>>, "msgs", rd[p].msgs, m)
    BY <1>5 DEF Copies
  <2> HIDE DEF In
  <2> QED BY <1>1, <1>2, <1>3, <1>4, <2>1
<1>6. ASSUME NEW c \in Container, o \in In(c)
      PROVE  o \in Copies(m)
  <2>0. \E x \in Spot : x[1] = c /\ At(contents, x, m)
    BY <1>6, OccurrenceOf
  <2>1. Len(contents[c]) # 0
    BY <2>0, FullHome, SoundBoxes DEF Boxed, Full
  <2>2. CASE c[1] = "batch"
    <3>1. PICK i \in Nat : c = <<"batch", i>>
      BY <2>2, Kinds, Pairs
    <3>2. contents[<<"batch", i>>] = IF i \in DOMAIN writes THEN writes[i].msgs ELSE <<>>
      BY Laid DEF Layout
    <3>3. i \in DOMAIN writes
      BY <2>1, <3>1, <3>2
    <3>4. o \in Occurrences(<<"writing", writes[i].pool>>, <<"batch", i>>, writes[i].msgs, m)
      BY <1>1, <1>6, <3>1, <3>3
    <3> QED BY <3>3, <3>4 DEF Copies
  <2>3. CASE c[1] = "task"
    <3>1. PICK w \in WWorker : c = <<"task", w>>
      BY <2>3, Kinds, Pairs
    <3>2. o \in Occurrences(<<"writing", wr[w].pool>>, <<"task", w>>, wr[w].todo, m)
      BY <1>2, <1>6, <3>1
    <3> QED BY <3>2 DEF Copies
  <2>4. CASE c[1] \in {"broker", "consumer", "msgs"}
    <3>1. PICK p \in Pool : c = <<c[1], p>>
      BY <2>4, Kinds, Pairs
    <3>2. \/ o \in Occurrences(<<"queued", p>>, "broker", queue[p], m)
          \/ o \in Occurrences(<<"queued", p>>, "consumer", rd[p].buffer, m)
          \/ o \in Occurrences(<<"read", p>>, "msgs", rd[p].msgs, m)
      BY <1>3, <1>6, <2>4, <3>1
    <3> QED BY <3>2 DEF Copies
  <2>5. CASE c[1] = "late"
    <3>1. PICK i \in Nat : c = <<"late", i>>
      BY <2>5, Kinds, Pairs
    <3>2. contents[<<"late", i>>] = IF i \in DOMAIN late THEN late[i].msgs ELSE <<>>
      BY Laid DEF Layout
    <3>3. i \in DOMAIN late
      BY <2>1, <3>1, <3>2
    <3>4. o \in Occurrences(<<"writing", late[i].pool>>, <<"late", i>>, late[i].msgs, m)
      BY <1>6, <1>4, <3>1, <3>3
    <3> QED BY <3>3, <3>4 DEF Copies
  <2> QED BY <2>2, <2>3, <2>4, <2>5, Kinds
<1>7. (\E c \in Container : o \in In(c)) <=> \E x \in Spot : At(contents, x, m) /\ o = Copy(x)
  BY OccurrenceOf, Pairs
<1> QED BY <1>5, <1>6, <1>7

\* One spot at most, hence one copy at most.
LEMMA OneCopy == Placed => \A m \in Msg : Cardinality(Copies(m)) <= 1
<1> SUFFICES ASSUME Placed, NEW m \in Msg PROVE Cardinality(Copies(m)) <= 1
  OBVIOUS
<1>1. \A o, u \in Copies(m) : o = u
  BY CopiesAreSpots DEF Placed, Single
<1>2. CASE Copies(m) = {}
  BY <1>2, FS_EmptySet
<1>3. CASE Copies(m) # {}
  <2>1. PICK o \in Copies(m) : TRUE
    BY <1>3
  <2>2. Copies(m) = {o}
    BY <1>1, <2>1
  <2> QED BY <2>2, FS_Singleton
<1> QED BY <1>2, <1>3

(* A message is in one place at a time: in a batch, a task, a queue, a     *)
(* consumer or a read task, whatever fails or is forwarded, and with any   *)
(* links.                                                                  *)
THEOREM OnePlace == Spec => [](\A m \in Msg : Cardinality(Copies(m)) <= 1)
BY AlwaysPlaced, OneCopy, PTL

-----------------------------------------------------------------------------
(* The places of Delivery.                                                 *)
\* Delivery has a message where its spot is, or it is new or gone.
LEMMA PlaceOf ==
  ASSUME Placed, NEW m \in Msg
  PROVE  /\ m \notin Old => place[m] = <<"new", None>>
         /\ \A x \in Spot : At(contents, x, m) => m \in Old /\ place[m] = Where(owners, x[1])
         /\ m \in Old /\ (\A x \in Spot : ~At(contents, x, m)) => place[m] = <<"gone", None>>
<1>0. m \in Old <=> begun(m)
  BY DEF Old
<1>1. place[m] = IF ~begun(m) THEN <<"new", None>>
                 ELSE IF Copies(m) = {} THEN <<"gone", None>>
                 ELSE (CHOOSE c \in Copies(m) : TRUE)[1]
  BY DEF place
<1>2. ASSUME NEW x \in Spot, At(contents, x, m)
      PROVE  m \in Old /\ place[m] = Where(owners, x[1])
  <2>1. m \in Old
    BY <1>2 DEF Placed, UpTo
  <2>2. Copy(x) \in Copies(m)
    BY <1>2, CopiesAreSpots DEF Placed
  <2>3. \A o \in Copies(m) : o = Copy(x)
    BY <1>2, CopiesAreSpots DEF Placed, Single
  <2>4. (CHOOSE c \in Copies(m) : TRUE) = Copy(x)
    BY <2>2, <2>3
  <2>5. Copies(m) # {} /\ begun(m)
    BY <1>0, <2>1, <2>2
  <2>6. place[m] = Copy(x)[1]
    BY <1>1, <2>4, <2>5, Zenon
  <2> QED BY <2>1, <2>6 DEF Copy
<1>3. ASSUME m \in Old, \A x \in Spot : ~At(contents, x, m)
      PROVE  place[m] = <<"gone", None>>
  <2>1. Copies(m) = {}
    BY <1>3, CopiesAreSpots DEF Placed
  <2> QED BY <1>0, <1>1, <1>3, <2>1, Zenon
<1>4. m \notin Old => place[m] = <<"new", None>>
  BY <1>0, <1>1, Zenon
<1> QED BY <1>2, <1>3, <1>4

\* PlaceOf for all messages, and after a step.
Places ==
  \A m \in Msg :
    /\ m \notin Old => place[m] = <<"new", None>>
    /\ \A x \in Spot : At(contents, x, m) => m \in Old /\ place[m] = Where(owners, x[1])
    /\ m \in Old /\ (\A x \in Spot : ~At(contents, x, m)) => place[m] = <<"gone", None>>

LEMMA PlacesHold == Placed => Places
BY PlaceOf DEF Places

LEMMA PlacesNext == Placed' => Places'
BY PlacesHold, PTL

LEMMA PlaceOfNext ==
  ASSUME Placed', NEW m \in Msg
  PROVE  /\ m \notin Old' => place'[m] = <<"new", None>>
         /\ \A x \in Spot : At(contents', x, m) => m \in Old' /\ place'[m] = Where(owners', x[1])
         /\ m \in Old' /\ (\A x \in Spot : ~At(contents', x, m)) => place'[m] = <<"gone", None>>
BY PlacesNext DEF Places, At, Where

\* place is a function to the places of Delivery.
PlaceOK == place \in [Msg -> Abstract!Place]

LEMMA PlaceTyped == Placed => PlaceOK
<1> SUFFICES ASSUME Placed, NEW m \in Msg PROVE place[m] \in Abstract!Place
  BY DEF place, PlaceOK
<1>1. CASE m \notin Old
  BY <1>1, PlaceOf DEF Abstract!Place
<1>2. CASE m \in Old /\ \A x \in Spot : ~At(contents, x, m)
  BY <1>2, PlaceOf DEF Abstract!Place
<1>3. ASSUME NEW x \in Spot, At(contents, x, m)
      PROVE  place[m] \in Abstract!Place
  <2>1. x[1] \in Container /\ owners[x[1]] \in Pool
    BY <1>3, Pairs, FullHome, SoundBoxes DEF Boxed, Full, Placed
  <2>2. Stage(x[1]) \in {"writing", "queued", "read"}
    BY <2>1, Kinds DEF Stage
  <2>3. Where(owners, x[1]) \in Abstract!Place
    BY <2>1, <2>2 DEF Where, Abstract!Place
  <2> QED BY <1>3, <2>3, PlaceOf
<1> QED BY <1>1, <1>2, <1>3

LEMMA PlaceTypedNext == Placed' => PlaceOK'
BY PlaceTyped, PTL

\* A message that is anywhere after a step was there, at its place or at one
\* from which it may move, or begins.
LEMMA Arrival ==
  ASSUME Placed, Placed', [Next]_vars
  PROVE  /\ Old \subseteq Old'
         /\ \A m \in Old' \ Old : place'[m] \in Abstract!Begins(m)
         /\ \A m \in Old : \A x \in Spot : At(contents', x, m) =>
              place'[m] = place[m] \/ <<place[m], place'[m]>> \in Abstract!Moves
<1>0. Sound /\ Sound' /\ Old \subseteq Msg /\ Old' \subseteq Msg
  BY DEF Placed, Old
<1>1. CASE \E k \in 1..NumMsgs : PostWrite(k)
  <2>1. PICK k \in 1..NumMsgs : PostWrite(k)
    BY <1>1
  <2>2. ASSUME NEW m \in Old' \ Old
        PROVE  place'[m] \in Abstract!Begins(m)
    <3>1. PICK i \in 1 .. k : m = <<posted + i, 0>>
      BY <1>0, <2>1, OldPost
    <3>2. place'[m] = Where(owners', NewBatch)
      BY <1>0, <2>1, <3>1, PostSpots, PlaceOfNext
    <3>3. place'[m] = <<"writing", Source>>
      BY <1>0, <2>1, <3>2, PostBoxes DEF Where
    <3>4. m[2] = 0
      BY <3>1
    <3> QED BY <3>3, <3>4 DEF Abstract!Begins
  <2>3. ASSUME NEW m \in Old, NEW x \in Spot, At(contents', x, m)
        PROVE  place'[m] = place[m]
    <3>0. m \in Msg
      BY <1>0
    <3>1. At(contents, x, m) /\ x[1] # NewBatch
      BY <1>0, <2>1, <2>3, <3>0, PostSpots, OldPost
    <3>2. owners'[x[1]] = owners[x[1]]
      BY <1>0, <2>1, <3>1, PostBoxes, Pairs
    <3> QED BY <2>3, <3>0, <3>1, <3>2, PlaceOf, PlaceOfNext DEF Where
  <2> QED BY <1>0, <2>1, <2>2, <2>3, OldPost
<1>2. CASE \E p \in Pool : Again(p)
  <2>1. PICK p \in Pool : Again(p)
    BY <1>2
  <2>2. PICK r \in ReadTask : Becomes(p, r) /\ Repeats(p, r)
    BY <2>1 DEF Again
  <2>3. ASSUME NEW m \in Old' \ Old
        PROVE  place'[m] \in Abstract!Begins(m)
    <3>1. PICK i \in DOMAIN Renewed(p) : m = Renewed(p)[i]
      BY <1>0, <2>2, OldAgain
    <3>2. place'[m] = Where(owners', <<"broker", p>>)
      BY <1>0, <2>2, <3>1, AgainSpots, PlaceOfNext
    <3>3. owners'[<<"broker", p>>] = p /\ Stage(<<"broker", p>>) = "queued"
      BY LaidNext DEF Layout, Stage
    <3>4. m \in Msg /\ m[2] # 0 /\ p \in Kafka
      BY <1>0, <2>2, <3>1, OldAgain DEF Repeats, Plain
    <3> QED BY <3>2, <3>3, <3>4 DEF Abstract!Begins, Where
  <2>4. ASSUME NEW m \in Old, NEW x \in Spot, At(contents', x, m)
        PROVE  place'[m] = place[m]
    <3>0. m \in Msg
      BY <1>0
    <3>1. ~Fresh(p, x)
      BY <1>0, <2>2, <2>4, <3>0, AgainSpots, OldAgain DEF Fresh
    <3>2. Back(p, x) \in Spot /\ Back(p, x)[1] = x[1] /\ At(contents, Back(p, x), m)
      BY <1>0, <2>2, <2>4, <3>0, <3>1, AgainSpots
    <3>3. owners'[x[1]] = owners[x[1]]
      BY <1>0, <2>2, AgainSpots, Pairs
    <3>4. place[m] = Where(owners, x[1]) /\ place'[m] = Where(owners', x[1])
      BY <2>4, <3>0, <3>2, PlaceOf, PlaceOfNext
    <3> QED BY <3>3, <3>4 DEF Where
  <2> QED BY <1>0, <2>2, <2>3, <2>4, OldAgain
<1>3. CASE Moving
  <2>1. PICK f : FlowStep(f)
    BY <1>0, <1>3, StepFlows
  <2>2. Old' = Old
    BY <1>0, <1>3, StepFlows
  <2>3. ASSUME NEW m \in Old, NEW x \in Spot, At(contents', x, m)
        PROVE  place'[m] = place[m] \/ <<place[m], place'[m]>> \in Abstract!Moves
    <3>0. m \in Msg
      BY <1>0
    <3>1. place'[m] = Where(owners', x[1])
      BY <2>3, <3>0, PlaceOfNext
    <3>2. /\ f[x] \in Spot /\ At(contents, f[x], m)
          /\ Passes(Where(owners, f[x][1]), Where(owners', x[1]))
      BY <2>1, <2>3, <3>0 DEF FlowStep, Flow, Flows, Full
    <3>3. place[m] = Where(owners, f[x][1])
      BY <3>0, <3>2, PlaceOf
    <3> QED BY <3>1, <3>2, <3>3 DEF Passes
  <2> QED BY <2>2, <2>3
<1> QED BY <1>0, <1>1, <1>2, <1>3, Steps DEF Moving

LEMMA SameScenario ==
  ASSUME Sound, [Next]_vars
  PROVE  UNCHANGED scenario
<1>1. ASSUME NEW p \in Pool, ReadWorks(p) \/ Again(p) PROVE UNCHANGED scenario
  BY <1>1 DEF ReadWorks, Works, Again, Becomes
<1>2. ASSUME NEW w \in WWorker, WriteWorks(w) PROVE UNCHANGED scenario
  BY <1>2 DEF WriteWorks, Turns
<1> QED BY <1>1, <1>2, Steps, PostWork DEF Arrives, boxVars

\* A flow is a step of Delivery, and so are a batch of clients and what a
\* topic gives out again.
LEMMA Delivers ==
  ASSUME Placed, Placed', [Next]_vars
  PROVE  Abstract!Next
<1>1. place' \in [Msg -> Abstract!Place]
  BY PlaceTypedNext DEF PlaceOK, Abstract!Place
<1>2. ASSUME NEW m \in Msg
      PROVE  \/ place'[m] = place[m]
             \/ place[m] = <<"new", None>> /\ place'[m] \in Abstract!Begins(m)
             \/ <<place[m], place'[m]>> \in Abstract!Moves
  <2>1. CASE m \notin Old'
    <3>1. m \notin Old
      BY <2>1, Arrival
    <3> QED BY <2>1, <3>1, PlaceOf, PlaceOfNext
  <2>2. CASE m \in Old' \ Old
    <3>1. place[m] = <<"new", None>>
      BY <2>2, PlaceOf
    <3> QED BY <2>2, <3>1, Arrival
  <2>3. CASE m \in Old /\ \E x \in Spot : At(contents', x, m)
    BY <2>3, Arrival
  <2>4. CASE m \in Old /\ \A x \in Spot : ~At(contents', x, m)
    <3>0. m \in Old'
      BY <2>4, Arrival
    <3>1. place'[m] = <<"gone", None>>
      BY <2>4, <3>0, PlaceOfNext
    <3>2. place[m] \in Abstract!Place
      BY PlaceTyped DEF PlaceOK
    <3>3. place[m] # <<"new", None>>
      <4>1. CASE \E x \in Spot : At(contents, x, m)
        <5>1. PICK x \in Spot : At(contents, x, m)
          BY <4>1
        <5>2. place[m] = Where(owners, x[1]) /\ x[1] \in Container
          BY <5>1, PlaceOf, Pairs
        <5>3. Stage(x[1]) # "new"
          BY <5>2, Kinds DEF Stage
        <5> QED BY <5>2, <5>3 DEF Where
      <4>2. CASE \A x \in Spot : ~At(contents, x, m)
        <5>1. place[m] = <<"gone", None>>
          BY <2>4, <4>2, PlaceOf
        <5> QED BY <5>1
      <4> QED BY <4>1, <4>2
    <3> QED BY <3>1, <3>2, <3>3 DEF Abstract!Moves
  <2> QED BY <2>1, <2>2, <2>3, <2>4
<1>3. Kafka' = Kafka
  BY SameScenario DEF Placed, Kafka
<1> QED BY <1>1, <1>2, <1>3 DEF Abstract!Next

(* The tasks implement Delivery: a message goes from the write task to the *)
(* queue, to the read task and by the ESB record to a write task of the    *)
(* linked pool (esb.go:52), never back, although deadlines, errors, lost   *)
(* connections and late reports of a kafka write drop it anywhere; only a  *)
(* topic gives it out again, when the offset of the group did not cover it *)
(* (kafka.go:106 to 115).  True of any links, cycles included.             *)
THEOREM Refinement == Spec => DeliversInOrder
<1>1. Init => Abstract!Init
  <2> SUFFICES ASSUME Init PROVE Abstract!Init
    OBVIOUS
  <2>1. \A m \in Msg : ~begun(m)
    <3>1. posted = 0 /\ DOMAIN again = {}
      BY DEF Init
    <3>2. \A m \in Msg : m[1] \in Nat /\ m[1] # 0
      BY Messages
    <3> QED BY <3>1, <3>2 DEF begun
  <2>2. Kafka \subseteq Pool
    BY BrokerAssumption DEF Init, Kafka
  <2> QED BY <2>1, <2>2 DEF place, Abstract!Init
<1>2. Placed /\ Placed' /\ [Next]_vars => [Abstract!Next]_<<place, Kafka>>
  BY Delivers
<1> QED BY <1>1, <1>2, AlwaysPlaced, PTL DEF Spec, DeliversInOrder, Abstract!Spec

-----------------------------------------------------------------------------
(* The order of the lists.                                                 *)
\* A list has no message twice and, with one write worker, has them in the
\* order they were sent; all of s comes before all of t.
Sorted(R, s) == \A i, j \in DOMAIN s : i < j /\ s[i] \in Msg /\ s[j] \in Msg => Before(R, s[i], s[j])
Older(R, s, t) == \A n \in Ran(s), m \in Ran(t) : n \in Msg /\ m \in Msg => Before(R, n, m)

\* A message that comes after all of a list goes at its end.
LEMMA SortedAppend ==
  ASSUME NEW R, NEW s \in Seq(M), NEW e \in M, Sorted(R, s),
         \A n \in Ran(s) : n \in Msg /\ e \in Msg => Before(R, n, e)
  PROVE  Sorted(R, Append(s, e))
<1>1. /\ DOMAIN Append(s, e) = 1 .. Len(s) + 1 /\ DOMAIN s = 1 .. Len(s) /\ Len(s) \in Nat
      /\ Append(s, e)[Len(s) + 1] = e /\ \A i \in 1 .. Len(s) : Append(s, e)[i] = s[i]
  OBVIOUS
<1>2. \A i \in 1 .. Len(s) : s[i] \in Ran(s)
  BY <1>1 DEF Ran
<1> SUFFICES ASSUME NEW i \in 1 .. Len(s) + 1, NEW j \in 1 .. Len(s) + 1, i < j,
                    Append(s, e)[i] \in Msg, Append(s, e)[j] \in Msg
             PROVE  Before(R, Append(s, e)[i], Append(s, e)[j])
  BY <1>1 DEF Sorted
<1>3. i \in 1 .. Len(s) /\ (j \in 1 .. Len(s) \/ j = Len(s) + 1)
  BY <1>1
<1> QED BY <1>1, <1>2, <1>3 DEF Sorted

\* The first message of a sorted list comes before the others.
LEMMA SortedTail ==
  ASSUME NEW R, NEW s \in Seq(M), s # <<>>, Sorted(R, s)
  PROVE  /\ Sorted(R, Tail(s))
         /\ \A m \in Ran(Tail(s)) : Head(s) \in Msg /\ m \in Msg => Before(R, Head(s), m)
<1>1. /\ Head(s) = s[1] /\ Len(s) \in Nat \ {0} /\ DOMAIN s = 1 .. Len(s)
      /\ DOMAIN Tail(s) = 1 .. Len(s) - 1
      /\ \A i \in 1 .. Len(s) - 1 : Tail(s)[i] = s[i + 1]
  OBVIOUS
<1>2. \A i \in 1 .. Len(s) - 1 : i + 1 \in 1 .. Len(s) /\ 1 < i + 1
  BY <1>1
<1>3. 1 \in 1 .. Len(s)
  BY <1>1
<1>4. \A i, j \in 1 .. Len(s) - 1 : i < j => i + 1 < j + 1
  BY <1>1
<1>5. Sorted(R, Tail(s))
  BY <1>1, <1>2, <1>4 DEF Sorted
<1>6. \A m \in Ran(Tail(s)) : Head(s) \in Msg /\ m \in Msg => Before(R, Head(s), m)
  BY <1>1, <1>2, <1>3 DEF Sorted, Ran
<1> QED BY <1>5, <1>6

\* Messages are in one place each, on the line of pools, and those of R in
\* line.
InOrder(R) == Placed /\ Chained(contents, owners) /\ Held /\ InLine(R, contents, owners)

\* What a pool lists is behind nothing that it still has to list.
Listing(R, s, limit) == /\ Sorted(R, s) /\ Behind(R, Ran(s), limit, contents, owners)
                        /\ Ran(s) \cap Msg \subseteq Old

\* Two workers with tasks of one pool have other messages to record.
Shared(v, w) == wr[v].pool = wr[w].pool =>
  \A n \in Ran(wr[v].sent), m \in Ran(wr[w].sent) : n \in Msg /\ m \in Msg => n # m

\* Every list is sorted and behind what has yet to be listed in it; a worker
\* records what it sent after what is recorded.
ListsInOrder(R) ==
  /\ \A p \in Pool : Listing(R, readLog[p], ReadLimit(p)) /\ Listing(R, writeLog[p], WriteLimit(p))
  /\ \A w \in WWorker : wr[w].pool \in Pool =>
       /\ Listing(R, wr[w].sent, WriteLimit(wr[w].pool))
       /\ Older(R, writeLog[wr[w].pool], wr[w].sent)
  /\ \A v, w \in WWorker : v # w /\ wr[v].pool \in Pool => Shared(v, w)

\* What holds of the regular messages holds of those that stay regular.
LEMMA FewerInOrder ==
  ASSUME NEW R, NEW Q \in SUBSET R, InOrder(R), ListsInOrder(R)
  PROVE  InOrder(Q) /\ ListsInOrder(Q)
<1>1. InOrder(Q)
  BY Fewer DEF InOrder
<1>2. \A n, m : Before(R, n, m) => Before(Q, n, m)
  BY Fewer
<1>3. \A s, limit : Listing(R, s, limit) => Listing(Q, s, limit)
  BY <1>2, Fewer DEF Listing, Sorted
<1>4. \A s, u : Older(R, s, u) => Older(Q, s, u)
  BY <1>2 DEF Older
<1> QED BY <1>1, <1>3, <1>4 DEF ListsInOrder

\* Limits are numbers.
LEMMA Limits == Acyclic => \A p \in Pool : ReadLimit(p) \in Nat /\ WriteLimit(p) \in Nat
BY Ranks DEF ReadLimit, WriteLimit

\* A flow keeps what is behind, and appends to a list what leads.
LEMMA FlowLists ==
  ASSUME Acyclic, InOrder(regular'), Sound', NEW f, FlowStep(f)
  PROVE  /\ Chained(contents', owners') /\ InLine(regular', contents', owners')
         /\ \A S : \A limit \in Nat : Behind(regular', S, limit, contents, owners)
                                        => Behind(regular', S, limit, contents', owners')
         /\ \A e \in Msg : \A limit \in Nat :
              Leads(f, e, limit) => Behind(regular', {e}, limit, contents', owners') /\ e \in Old
         /\ \A S : \A e \in Msg : \A limit \in Nat :
              Leads(f, e, limit) /\ Behind(regular', S, limit, contents, owners)
                => \A n \in S : n \in Msg => Before(regular', n, e)
<1>0. /\ contents \in Boxes /\ contents' \in Boxes /\ owners \in Homes /\ owners' \in Homes
      /\ \A c \in Container : Len(contents'[c]) # 0 => owners'[c] \in Pool
  BY SoundBoxes, SoundBoxesNext DEF Boxed, InOrder, Placed
<1>1. /\ Flows(f, contents, owners, contents', owners')
      /\ Advances(regular', f, contents, owners, contents', owners')
      /\ Single(contents) /\ UpTo(contents, Old) /\ InLine(regular', contents, owners)
      /\ Chained(contents, owners)
  BY DEF FlowStep, Flow, Advance, InOrder, Placed
<1>2. \A c \in Container : Carries(contents', c) => owners'[c] \in Pool
  BY <1>0, CarriesLen
<1>3. Chained(contents', owners')
  BY <1>0, <1>1, <1>2, FlowKeeps
<1>4. /\ InLine(regular', contents', owners')
      /\ \A S : \A limit \in Nat : Behind(regular', S, limit, contents, owners)
                                     => Behind(regular', S, limit, contents', owners')
  <2>1. regular' \in SUBSET Msg
    BY RegularPlainNext DEF Plain
  <2> QED BY <1>0, <1>1, <1>3, <2>1, AdvanceKeeps
<1>5. ASSUME NEW e \in Msg, NEW limit \in Nat, Leads(f, e, limit)
      PROVE  /\ Behind(regular', {e}, limit, contents', owners') /\ e \in Old
             /\ \A S : Behind(regular', S, limit, contents, owners) => \A n \in S : n \in Msg => Before(regular', n, e)
  <2>1. PICK a \in Container :
          /\ a[1] # "batch" /\ At(contents, <<a, 1>>, e) /\ Level(owners, a) =< limit
          /\ \A c \in Container : Holds(regular', contents, c) /\ Level(owners, c) =< limit
                                    => Level(owners, c) =< Level(owners, a)
          /\ \A x \in Spot : Full(contents', x) /\ Level(owners', x[1]) =< limit => f[x] # <<a, 1>>
    BY <1>1, <1>5 DEF Leads
  <2>2. Behind(regular', {e}, limit, contents', owners')
    BY <1>0, <1>1, <1>3, <2>1, RegularPlainNext, LastOfLine
  <2>3. <<a, 1>> \in Spot /\ <<a, 1>>[1] = a
    BY DEF Spot
  <2>4. e \in Old
    BY <1>1, <2>1, <2>3 DEF UpTo
  <2>5. \A S : Behind(regular', S, limit, contents, owners) => \A n \in S : n \in Msg => Before(regular', n, e)
    BY <2>1, <2>3 DEF Behind
  <2> QED BY <2>2, <2>4, <2>5
<1> QED BY <1>3, <1>4, <1>5

\* Listing, after a step.
ListingNext(s, limit) == /\ Sorted(regular', s) /\ Behind(regular', Ran(s), limit, contents', owners')
                         /\ Ran(s) \cap Msg \subseteq Old'

\* A list stays sorted, also with the message that the step takes past the
\* limit.
LEMMA ListingGrows ==
  ASSUME Acyclic, InOrder(regular'), Sound', NEW f, FlowStep(f), Old' = Old,
         NEW s \in Seq(M), NEW limit \in Nat, Listing(regular', s, limit)
  PROVE  /\ ListingNext(s, limit)
         /\ \A e \in M : Leads(f, e, limit) => ListingNext(Append(s, e), limit)
<1>1. ListingNext(s, limit)
  BY FlowLists DEF Listing, ListingNext
<1>2. ASSUME NEW e \in M, Leads(f, e, limit)
      PROVE  ListingNext(Append(s, e), limit)
  <2>1. Ran(Append(s, e)) = Ran(s) \cup {e}
    BY AppendFacts
  <2>2. e \in Msg => /\ Behind(regular', {e}, limit, contents', owners') /\ e \in Old
                     /\ \A n \in Ran(s) : n \in Msg => Before(regular', n, e)
    BY <1>2, FlowLists DEF Listing
  <2>3. Sorted(regular', Append(s, e))
    BY <2>2, SortedAppend DEF Listing
  <2>4. Behind(regular', Ran(Append(s, e)), limit, contents', owners')
    BY <1>1, <2>1, <2>2 DEF Behind, ListingNext
  <2>5. Ran(Append(s, e)) \cap Msg \subseteq Old'
    BY <1>1, <2>1, <2>2 DEF ListingNext
  <2> QED BY <2>3, <2>4, <2>5 DEF ListingNext
<1> QED BY <1>1, <1>2

\* ListsInOrder after a step, list by list.
LEMMA ListsNext ==
  ASSUME \A p \in Pool : ListingNext(readLog'[p], ReadLimit(p)) /\ ListingNext(writeLog'[p], WriteLimit(p)),
         \A w \in WWorker : wr'[w].pool \in Pool =>
           /\ ListingNext(wr'[w].sent, WriteLimit(wr'[w].pool))
           /\ Older(regular', writeLog'[wr'[w].pool], wr'[w].sent),
         \A v, w \in WWorker : v # w /\ wr'[v].pool \in Pool => Shared(v, w)'
  PROVE  ListsInOrder(regular)'
BY DEF ListsInOrder, Listing, ListingNext

\* Everything that is listed or sent has its type.
LEMMA ListTypes ==
  ASSUME Sound
  PROVE  /\ \A p \in Pool : readLog[p] \in Seq(M) /\ writeLog[p] \in Seq(M)
         /\ \A w \in WWorker : wr[w].sent \in Seq(M) /\ wr[w].todo \in Seq(M)
BY DEF Sound, Typed, WriteTask

\* Steps of a read task keep the lists in order,
LEMMA ReadsInOrder ==
  ASSUME Acyclic, InOrder(regular'), ListsInOrder(regular'), Sound', NEW p \in Pool, ReadWorks(p)
  PROVE  Chained(contents', owners') /\ InLine(regular', contents', owners') /\ ListsInOrder(regular)'
<1>0. Sound
  BY DEF InOrder, Placed
<1>1. PICK f : FlowStep(f) /\ Lists(f, p)
  BY <1>0, ReadFlow
<1>2. UNCHANGED <<wr, writeLog>> /\ Old' = Old
  <2>1. UNCHANGED <<posted, again, wr, writeLog>>
    BY <1>0, ReadFlow
  <2> QED BY <2>1 DEF Old, begun
<1>3. Chained(contents', owners') /\ InLine(regular', contents', owners')
  BY <1>1, FlowLists
<1>4. \A q \in Pool : ReadLimit(q) \in Nat /\ WriteLimit(q) \in Nat
  BY Limits
<1>5. ASSUME NEW q \in Pool
      PROVE  ListingNext(readLog'[q], ReadLimit(q)) /\ ListingNext(writeLog'[q], WriteLimit(q))
  <2>1. Listing(regular', readLog[q], ReadLimit(q)) /\ Listing(regular', writeLog[q], WriteLimit(q))
    BY DEF ListsInOrder
  <2>2. readLog[q] \in Seq(M) /\ writeLog[q] \in Seq(M)
    BY <1>0, ListTypes
  <2>3. /\ ListingNext(readLog[q], ReadLimit(q)) /\ ListingNext(writeLog[q], WriteLimit(q))
        /\ \A e \in M : Leads(f, e, ReadLimit(q)) => ListingNext(Append(readLog[q], e), ReadLimit(q))
    BY <1>1, <1>2, <1>4, <2>1, <2>2, ListingGrows
  <2>4. \/ readLog'[q] = readLog[q]
        \/ \E e \in M : readLog'[q] = Append(readLog[q], e) /\ Leads(f, e, ReadLimit(q))
    BY <1>0, <1>1 DEF Lists, Recorded, Sound, Typed
  <2> QED BY <1>2, <2>3, <2>4
<1>6. ASSUME NEW w \in WWorker, wr'[w].pool \in Pool
      PROVE  /\ ListingNext(wr'[w].sent, WriteLimit(wr'[w].pool))
             /\ Older(regular', writeLog'[wr'[w].pool], wr'[w].sent)
  <2>1. wr[w].pool \in Pool /\ Listing(regular', wr[w].sent, WriteLimit(wr[w].pool)) /\ wr[w].sent \in Seq(M)
        /\ Older(regular', writeLog[wr[w].pool], wr[w].sent)
    BY <1>0, <1>2, <1>6, ListTypes DEF ListsInOrder
  <2>2. ListingNext(wr[w].sent, WriteLimit(wr[w].pool))
    BY <1>1, <1>2, <1>4, <2>1, ListingGrows
  <2> QED BY <1>2, <2>1, <2>2
<1>7. ASSUME NEW v \in WWorker, NEW w \in WWorker, v # w, wr'[v].pool \in Pool
      PROVE  Shared(v, w)'
  BY <1>2, <1>7 DEF ListsInOrder, Shared
<1> QED BY <1>3, <1>5, <1>6, <1>7, ListsNext

\* and so do those of a write task,
LEMMA WritesInOrder ==
  ASSUME Acyclic, InOrder(regular'), ListsInOrder(regular'), Sound', NEW w \in WWorker, WriteWorks(w)
  PROVE  Chained(contents', owners') /\ InLine(regular', contents', owners') /\ ListsInOrder(regular)'
<1>0. Sound
  BY DEF InOrder, Placed
<1>1. PICK x \in WriteTask :
        Turns(w, x) /\ (Taken(w, x) \/ Sent(w, x) \/ Listed(w, x) \/ Dropped(w, x) \/ Leaves(w, x))
  BY DEF WriteWorks
<1>2. PICK f : FlowStep(f) /\ (Sent(w, x) => Leads(f, Head(wr[w].todo), WriteLimit(wr[w].pool)))
  BY <1>0, <1>1, WriteFlow
<1>3. /\ UNCHANGED readLog /\ Old' = Old
      /\ wr'[w] = x /\ \A v \in WWorker : v # w => wr'[v] = wr[v]
  <2>1. UNCHANGED <<posted, again>>
    BY <1>1 DEF Turns
  <2> QED BY <1>0, <1>1, <2>1 DEF Turns, Sound, Typed, Old, begun
<1>4. Chained(contents', owners') /\ InLine(regular', contents', owners')
  BY <1>2, FlowLists
<1>5. \A q \in Pool : ReadLimit(q) \in Nat /\ WriteLimit(q) \in Nat
  BY Limits
<1>6. \A s \in Seq(M) : \A limit \in Nat : Listing(regular', s, limit) =>
        /\ ListingNext(s, limit)
        /\ \A e \in M : Leads(f, e, limit) => ListingNext(Append(s, e), limit)
  BY <1>2, <1>3, ListingGrows
<1>7. \A q \in Pool : /\ ListingNext(readLog'[q], ReadLimit(q))
                      /\ ListingNext(writeLog[q], WriteLimit(q))
  BY <1>0, <1>3, <1>5, <1>6, ListTypes DEF ListsInOrder
<1>8. \A v \in WWorker : wr[v].pool \in Pool =>
        /\ ListingNext(wr[v].sent, WriteLimit(wr[v].pool))
        /\ Older(regular', writeLog[wr[v].pool], wr[v].sent)
  BY <1>0, <1>5, <1>6, ListTypes DEF ListsInOrder
<1>9. wr[w].sent \in Seq(M) /\ wr[w].todo \in Seq(M)
  BY <1>0, ListTypes
<1>10. CASE Len(x.sent) = 0 /\ UNCHANGED writeLog
  <2>1. Ran(x.sent) = {} /\ x.sent \in Seq(M) /\ DOMAIN x.sent = {}
    <3>1. x.sent \in Seq(M)
      BY DEF WriteTask
    <3> QED BY <1>10, <3>1, NoneRan
  <2>2. \A limit : ListingNext(x.sent, limit)
    BY <2>1 DEF ListingNext, Sorted, Behind
  <2>3. \A s : Older(regular', s, x.sent)
    BY <2>1 DEF Older
  <2>4. \A v \in WWorker : wr'[v].pool \in Pool =>
          /\ ListingNext(wr'[v].sent, WriteLimit(wr'[v].pool))
          /\ Older(regular', writeLog'[wr'[v].pool], wr'[v].sent)
    <3> SUFFICES ASSUME NEW v \in WWorker, wr'[v].pool \in Pool
                 PROVE  /\ ListingNext(wr'[v].sent, WriteLimit(wr'[v].pool))
                        /\ Older(regular', writeLog'[wr'[v].pool], wr'[v].sent)
      OBVIOUS
    <3>1. CASE v = w
      BY <1>3, <2>2, <2>3, <3>1
    <3>2. CASE v # w
      BY <1>3, <1>8, <1>10, <3>2
    <3> QED BY <3>1, <3>2
  <2>5. \A u, v \in WWorker : u # v /\ wr'[u].pool \in Pool => Shared(u, v)'
    BY <1>3, <2>1 DEF ListsInOrder, Shared
  <2> QED BY <1>4, <1>7, <1>10, <2>4, <2>5, ListsNext
<1>11. CASE Sent(w, x)
  <2> DEFINE p == wr[w].pool
             e == Head(wr[w].todo)
  <2>1. p \in Pool /\ e \in M /\ x.pool = p /\ x.sent = Append(wr[w].sent, e) /\ UNCHANGED writeLog
        /\ Ran(x.sent) = Ran(wr[w].sent) \cup {e} /\ Leads(f, e, WriteLimit(p))
    BY <1>2, <1>9, <1>11, TakeFacts, AppendFacts DEF Sent
  <2> HIDE DEF p, e
  <2>2. WriteLimit(p) \in Nat
    BY <1>5, <2>1
  <2>3. \A S : e \in Msg /\ Behind(regular', S, WriteLimit(p), contents, owners)
          => \A n \in S : n \in Msg => Before(regular', n, e)
    BY <1>2, <2>1, <2>2, FlowLists
  <2>4. ListingNext(x.sent, WriteLimit(p))
    BY <1>6, <1>9, <2>1, <2>2 DEF ListsInOrder, p
  <2>5. Older(regular', writeLog[p], x.sent)
    <3>1. Behind(regular', Ran(writeLog[p]), WriteLimit(p), contents, owners)
      BY <2>1 DEF ListsInOrder, Listing
    <3>2. Older(regular', writeLog[p], wr[w].sent)
      BY <2>1 DEF ListsInOrder, p
    <3> QED BY <2>1, <2>3, <3>1, <3>2 DEF Older
  <2>6. ASSUME NEW v \in WWorker, v # w, wr[v].pool = p
        PROVE  \A n \in Ran(wr[v].sent), m \in Ran(x.sent) : n \in Msg /\ m \in Msg => n # m
    <3>1. Behind(regular', Ran(wr[v].sent), WriteLimit(p), contents, owners)
      BY <2>1, <2>6 DEF ListsInOrder, Listing
    <3>2. e \in Msg => \A n \in Ran(wr[v].sent) : n \in Msg => n # e
      BY <2>3, <3>1 DEF Before
    <3>3. \A n \in Ran(wr[v].sent), m \in Ran(wr[w].sent) : n \in Msg /\ m \in Msg => n # m
      BY <2>1, <2>6 DEF ListsInOrder, Shared, p
    <3> QED BY <2>1, <3>2, <3>3
  <2>7. \A v \in WWorker : wr'[v].pool \in Pool =>
          /\ ListingNext(wr'[v].sent, WriteLimit(wr'[v].pool))
          /\ Older(regular', writeLog'[wr'[v].pool], wr'[v].sent)
    BY <1>3, <1>8, <2>1, <2>4, <2>5
  <2>8. ASSUME NEW u \in WWorker, NEW v \in WWorker, u # v, wr'[u].pool \in Pool
        PROVE  Shared(u, v)'
    <3>1. CASE u = w
      <4>1. wr'[u] = x /\ wr'[v] = wr[v] /\ x.pool = p
        BY <1>3, <2>1, <2>8, <3>1
      <4> QED BY <2>6, <2>8, <3>1, <4>1 DEF Shared
    <3>2. CASE v = w
      <4>1. wr'[v] = x /\ wr'[u] = wr[u] /\ x.pool = p
        BY <1>3, <2>1, <2>8, <3>2
      <4> QED BY <2>6, <2>8, <3>2, <4>1 DEF Shared
    <3>3. CASE u # w /\ v # w
      BY <1>3, <2>8, <3>3 DEF ListsInOrder, Shared
    <3> QED BY <3>1, <3>2, <3>3
  <2> QED BY <1>4, <1>7, <2>1, <2>7, <2>8, ListsNext
<1>12. CASE Listed(w, x)
  <2> DEFINE p == wr[w].pool
             e == Head(wr[w].sent)
             log == Append(writeLog[p], e)
  <2>1. /\ p \in Pool /\ e \in M /\ e \in Ran(wr[w].sent) /\ x.pool = p /\ x.sent = Tail(wr[w].sent)
        /\ x.sent \in Seq(M) /\ Ran(x.sent) \subseteq Ran(wr[w].sent)
        /\ writeLog'[p] = log /\ (\A q \in Pool : q # p => writeLog'[q] = writeLog[q])
        /\ writeLog[p] \in Seq(M) /\ wr[w].sent # <<>>
    <3>1. p \in Pool /\ wr[w].sent # <<>> /\ x.pool = p /\ x.sent = Tail(wr[w].sent)
          /\ writeLog' = [writeLog EXCEPT ![p] = log]
      BY <1>12 DEF Listed
    <3>2. e \in M /\ e \in Ran(wr[w].sent) /\ Tail(wr[w].sent) \in Seq(M)
          /\ Ran(Tail(wr[w].sent)) \subseteq Ran(wr[w].sent)
      BY <1>9, <3>1, TakeFacts
    <3>3. writeLog[p] \in Seq(M) /\ writeLog \in [Pool -> Seq(M)]
      BY <1>0, <3>1 DEF Sound, Typed
    <3> QED BY <3>1, <3>2, <3>3
  <2>2. Ran(log) = Ran(writeLog[p]) \cup {e}
    BY <2>1, AppendFacts
  <2>3. /\ Listing(regular', writeLog[p], WriteLimit(p)) /\ Listing(regular', wr[w].sent, WriteLimit(p))
        /\ Older(regular', writeLog[p], wr[w].sent)
    BY <2>1 DEF ListsInOrder
  <2>4. /\ ListingNext(writeLog[p], WriteLimit(p)) /\ ListingNext(wr[w].sent, WriteLimit(p))
    BY <1>7, <1>8, <2>1
  <2> HIDE DEF p, e
  <2>5. Sorted(regular', log)
    BY <2>1, <2>3, SortedAppend DEF Listing, Older
  <2>6. Sorted(regular', x.sent) /\ \A m \in Ran(x.sent) : e \in Msg /\ m \in Msg => Before(regular', e, m)
    BY <1>9, <2>1, <2>3, SortedTail DEF Listing, e
  <2> HIDE DEF log
  <2>7. ListingNext(log, WriteLimit(p)) /\ ListingNext(x.sent, WriteLimit(p))
    <3>1. /\ Behind(regular', Ran(log), WriteLimit(p), contents', owners')
          /\ Behind(regular', Ran(x.sent), WriteLimit(p), contents', owners')
      BY <2>1, <2>2, <2>4 DEF ListingNext, Behind
    <3>2. Ran(log) \cap Msg \subseteq Old' /\ Ran(x.sent) \cap Msg \subseteq Old'
      BY <2>1, <2>2, <2>4 DEF ListingNext
    <3> QED BY <2>5, <2>6, <3>1, <3>2 DEF ListingNext
  <2>8. Older(regular', log, x.sent)
    BY <2>1, <2>2, <2>3, <2>6 DEF Older
  <2>9. ASSUME NEW v \in WWorker, v # w, wr[v].pool = p
        PROVE  Older(regular', log, wr[v].sent)
    <3>1. Older(regular', writeLog[p], wr[v].sent)
      BY <2>1, <2>9 DEF ListsInOrder
    <3>2. \A n \in Ran(wr[w].sent), m \in Ran(wr[v].sent) : n \in Msg /\ m \in Msg => n # m
      BY <2>1, <2>9 DEF ListsInOrder, Shared, p
    <3>3. ~OneWriter
      BY <2>9 DEF OneWriter
    <3> QED BY <2>1, <2>2, <3>1, <3>2, <3>3 DEF Older, Before
  <2>10. ASSUME NEW v \in WWorker, wr'[v].pool \in Pool
         PROVE  /\ ListingNext(wr'[v].sent, WriteLimit(wr'[v].pool))
                /\ Older(regular', writeLog'[wr'[v].pool], wr'[v].sent)
    <3>1. CASE v = w
      BY <1>3, <2>1, <2>7, <2>8, <3>1
    <3>2. CASE v # w /\ wr[v].pool = p
      BY <1>3, <1>8, <2>1, <2>9, <3>2
    <3>3. CASE v # w /\ wr[v].pool # p
      BY <1>3, <1>8, <2>1, <2>10, <3>3
    <3> QED BY <3>1, <3>2, <3>3
  <2>11. \A q \in Pool : ListingNext(writeLog'[q], WriteLimit(q))
    BY <1>7, <2>1, <2>7
  <2>12. ASSUME NEW u \in WWorker, NEW v \in WWorker, u # v, wr'[u].pool \in Pool
         PROVE  Shared(u, v)'
    <3>1. \A z \in WWorker : wr'[z].pool = wr[z].pool /\ Ran(wr'[z].sent) \subseteq Ran(wr[z].sent)
      BY <1>3, <2>1 DEF p
    <3> QED BY <2>12, <3>1 DEF ListsInOrder, Shared
  <2> QED BY <1>4, <1>7, <2>10, <2>11, <2>12, ListsNext
<1>13. Taken(w, x) \/ Dropped(w, x) \/ Leaves(w, x) => Len(x.sent) = 0 /\ UNCHANGED writeLog
  BY DEF Taken, Dropped, Leaves
<1> QED BY <1>1, <1>10, <1>11, <1>12, <1>13

\* clients that write and topics that give out again,
LEMMA EntersInOrder ==
  ASSUME Acyclic, InOrder(regular'), ListsInOrder(regular'), Sound',
         (\E k \in 1..NumMsgs : PostWrite(k)) \/ (\E p \in Pool : Again(p))
  PROVE  Chained(contents', owners') /\ InLine(regular', contents', owners') /\ ListsInOrder(regular)'
<1>1. /\ Sound /\ UpTo(contents, Old) /\ Chained(contents, owners) /\ Held
      /\ InLine(regular', contents, owners) /\ regular' \in SUBSET Plain
  BY RegularPlainNext DEF InOrder, Placed
<1>2. /\ UNCHANGED <<wr, readLog, writeLog>> /\ Old \subseteq Old'
      /\ Chained(contents', owners') /\ InLine(regular', contents', owners')
      /\ \A S : \A limit \in Nat :
           Behind(regular', S, limit, contents, owners) /\ S \cap Msg \subseteq Old
             => Behind(regular', S, limit, contents', owners')
  <2>1. CASE \E k \in 1..NumMsgs : PostWrite(k)
    BY <1>1, <2>1, PostWork, OldPost, PostInLine
  <2>2. CASE \E p \in Pool : Again(p)
    <3>1. PICK p \in Pool : Again(p)
      BY <2>2
    <3>2. PICK r \in ReadTask : Becomes(p, r) /\ Repeats(p, r)
      BY <3>1 DEF Again
    <3>3. UNCHANGED <<wr, readLog, writeLog>>
      BY <3>2 DEF Becomes, Repeats, wrVars
    <3>4. Old \subseteq Old'
      BY <1>1, <3>2, OldAgain
    <3> QED BY <1>1, <3>1, <3>3, <3>4, AgainInLine
  <2> QED BY <2>1, <2>2
<1>3. \A s : \A limit \in Nat : Listing(regular', s, limit) => ListingNext(s, limit)
  BY <1>2 DEF Listing, ListingNext
<1>5. \A v, w \in WWorker : v # w /\ wr'[v].pool \in Pool => Shared(v, w)'
  BY <1>2 DEF ListsInOrder, Shared
<1>6. \A p \in Pool : ListingNext(readLog'[p], ReadLimit(p)) /\ ListingNext(writeLog'[p], WriteLimit(p))
  BY <1>2, <1>3, Limits DEF ListsInOrder
<1>7. \A w \in WWorker : wr'[w].pool \in Pool =>
        /\ ListingNext(wr'[w].sent, WriteLimit(wr'[w].pool))
        /\ Older(regular', writeLog'[wr'[w].pool], wr'[w].sent)
  BY <1>2, <1>3, Limits DEF ListsInOrder
<1> QED BY <1>2, <1>5, <1>6, <1>7, ListsNext

\* what was under way, and edits of the ESB records.
LEMMA RestsInOrder ==
  ASSUME Acyclic, InOrder(regular'), ListsInOrder(regular'), Sound',
         UNCHANGED boxVars \/ \E i \in DOMAIN late : Arrives(i)
  PROVE  Chained(contents', owners') /\ InLine(regular', contents', owners') /\ ListsInOrder(regular)'
<1>0. Sound
  BY DEF InOrder, Placed
<1>1. (\E f : FlowStep(f)) /\ Old' = Old
  BY <1>0, StepFlows DEF Moving
<1>2. PICK f : FlowStep(f)
  BY <1>1
<1>3. Chained(contents', owners') /\ InLine(regular', contents', owners')
  BY <1>2, FlowLists
<1>4. \A s \in Seq(M) : \A limit \in Nat : Listing(regular', s, limit) => ListingNext(s, limit)
  BY <1>1, <1>2, ListingGrows
<1>8. UNCHANGED <<wr, readLog, writeLog>>
  BY DEF Arrives, boxVars
<1>5. \A p \in Pool : ListingNext(readLog'[p], ReadLimit(p)) /\ ListingNext(writeLog'[p], WriteLimit(p))
  BY <1>0, <1>4, <1>8, Limits, ListTypes DEF ListsInOrder
<1>6. \A w \in WWorker : wr'[w].pool \in Pool =>
        /\ ListingNext(wr'[w].sent, WriteLimit(wr'[w].pool))
        /\ Older(regular', writeLog'[wr'[w].pool], wr'[w].sent)
  BY <1>0, <1>4, <1>8, Limits, ListTypes DEF ListsInOrder
<1>7. \A v, w \in WWorker : v # w /\ wr'[v].pool \in Pool => Shared(v, w)'
  BY <1>8 DEF ListsInOrder, Shared
<1> QED BY <1>3, <1>5, <1>6, <1>7, ListsNext

\* The inductive invariant of the lists.
Ordered == InOrder(regular) /\ ListsInOrder(regular)

\* No step leaves it.
LEMMA StaysOrdered ==
  ASSUME Acyclic, Ordered, [Next]_vars
  PROVE  Ordered'
<1>1. Placed' /\ Sound /\ Sound' /\ Chained(contents, owners) /\ Held
  BY StaysPlaced DEF Ordered, InOrder, Placed
<1>2. \/ UNCHANGED boxVars
      \/ \E k \in 1..NumMsgs : PostWrite(k)
      \/ \E p \in Pool : ReadWorks(p)
      \/ \E p \in Pool : Again(p)
      \/ \E w \in WWorker : WriteWorks(w)
      \/ \E i \in DOMAIN late : Arrives(i)
  BY <1>1, Steps
<1>3. regular' \subseteq regular
  <2>1. \A p \in Pool : failed[p] \subseteq failed'[p]
    <3>1. ASSUME NEW p \in Pool, ReadWorks(p) \/ Again(p) PROVE UNCHANGED failed
      BY <3>1 DEF ReadWorks, Works, Again, Becomes, wrVars
    <3>2. ASSUME NEW w \in WWorker, WriteWorks(w) PROVE \A p \in Pool : failed[p] \subseteq failed'[p]
      BY <3>2 DEF WriteWorks, Turns
    <3> QED BY <1>1, <1>2, <3>1, <3>2, PostWork DEF Arrives, boxVars
  <2> QED BY <1>1, <2>1, SameScenario, RegularShrinks
<1>4. InOrder(regular') /\ ListsInOrder(regular')
  BY <1>3, FewerInOrder DEF Ordered
<1>5. Chained(contents', owners') /\ InLine(regular', contents', owners') /\ ListsInOrder(regular)'
  BY <1>1, <1>2, <1>4, RestsInOrder, EntersInOrder, ReadsInOrder, WritesInOrder
<1>6. Held'
  <2>1. ASSUME NEW p \in Pool, ReadWorks(p) \/ Again(p) PROVE Held'
    BY <1>1, <2>1, StaysHeld DEF ReadWorks, Works, Again
  <2>2. ASSUME NEW w \in WWorker, WriteWorks(w) PROVE UNCHANGED rd
    BY <2>2 DEF WriteWorks, Turns
  <2>3. UNCHANGED rd => Held'
    BY <1>1 DEF Held
  <2> QED BY <1>1, <1>2, <2>1, <2>2, <2>3, PostWork DEF Arrives, boxVars
<1> QED BY <1>1, <1>5, <1>6 DEF Ordered, InOrder

LEMMA StartsOrdered == Init => Ordered
<1> SUFFICES ASSUME Init PROVE Ordered
  OBVIOUS
<1>1. Placed
  BY StartsSound, NothingAtFirst DEF Placed, Single, UpTo
<1>2. \A c \in Container : ~Carries(contents, c)
  BY <1>1, StartsEmpty, SoundBoxes, CarriesLen DEF Placed, Boxed
<1>3. Held
  BY DEF Init, NoRead, Held, Ran
<1>4. InOrder(regular)
  <2>1. regular \subseteq Msg
    BY RegularPlain DEF Plain
  <2> QED BY <1>1, <1>2, <1>3, <2>1, NothingAtFirst DEF InOrder, Chained, InLine
<1>5. /\ \A p \in Pool : readLog[p] = <<>> /\ writeLog[p] = <<>>
      /\ \A w \in WWorker : wr[w].pool \notin Pool
  BY BrokerAssumption DEF Init, NoWrite
<1>6. \A s, limit : s = <<>> => Listing(regular, s, limit)
  <2>1. \A s : s = <<>> => DOMAIN s = {}
    OBVIOUS
  <2>2. \A s : DOMAIN s = {} => Ran(s) = {}
    BY DEF Ran
  <2> QED BY <2>1, <2>2 DEF Listing, Sorted, Behind
<1> QED BY <1>4, <1>5, <1>6 DEF Ordered, ListsInOrder

\* It holds in every behaviour, when the links make no cycle.
LEMMA AlwaysOrdered == Acyclic /\ Spec => []Ordered
<1> SUFFICES ASSUME Acyclic PROVE Spec => []Ordered
  OBVIOUS
<1>1. Ordered /\ [Next]_vars => Ordered'
  BY StaysOrdered
<1> QED BY <1>1, StartsOrdered, PTL DEF Spec

\* A list without repetitions has each message once.
LEMMA OneOccurrence ==
  ASSUME NEW R, NEW s \in Seq(M), Sorted(R, s), NEW m \in Msg, NEW at, NEW tag
  PROVE  Cardinality(Occurrences(at, tag, s, m)) <= 1
<1>1. \A i, j \in DOMAIN s : s[i] = m /\ s[j] = m => i = j
  <2> SUFFICES ASSUME NEW i \in DOMAIN s, NEW j \in DOMAIN s, s[i] = m, s[j] = m, i # j PROVE FALSE
    OBVIOUS
  <2>1. i < j \/ j < i
    OBVIOUS
  <2> QED BY <2>1 DEF Sorted, Before
<1>2. CASE \E i \in DOMAIN s : s[i] = m
  <2>1. PICK i \in DOMAIN s : s[i] = m
    BY <1>2
  <2>2. {j \in DOMAIN s : s[j] = m} = {i}
    BY <1>1, <2>1
  <2> DEFINE o == <<at, tag, i>>
  <2>3. Occurrences(at, tag, s, m) = {<<at, tag, k>> : k \in {i}}
    BY <2>2, Zenon DEF Occurrences
  <2>4. {<<at, tag, k>> : k \in {i}} = {o}
    OBVIOUS
  <2> HIDE DEF o
  <2>5. Cardinality({o}) = 1
    BY FS_Singleton
  <2>6. Occurrences(at, tag, s, m) = {o}
    BY <2>3, <2>4, Zenon
  <2> QED BY <2>5, <2>6
<1>3. CASE \A i \in DOMAIN s : s[i] # m
  <2>1. Occurrences(at, tag, s, m) = {}
    BY <1>3 DEF Occurrences
  <2> QED BY <2>1, FS_EmptySet
<1> QED BY <1>2, <1>3

(* Nothing is in two places, and no pool lists what a broker gave out, or  *)
(* clients sent, twice: t.msgs is emptied when it was submitted            *)
(* (rabbitmq.go:196, kafka.go:159) and a task that starts anew has none.   *)
(* What kafka gives out again counts as another message each time.         *)
(* True of any number of workers when the links make no cycle; the code    *)
(* does not refuse a cycle, and a message that comes round is listed       *)
(* again.                                                                  *)
THEOREM NoDuplicates == Acyclic /\ Spec => []NeverDuplicated
<1> SUFFICES ASSUME Acyclic PROVE Spec => []NeverDuplicated
  OBVIOUS
<1>1. Ordered => NeverDuplicated
  <2> SUFFICES ASSUME Ordered, NEW m \in Msg
               PROVE  /\ Cardinality(Copies(m)) <= 1
                      /\ \A p \in Pool, log \in {readLog, writeLog} :
                           Cardinality(Occurrences(p, "log", log[p], m)) <= 1
    BY DEF NeverDuplicated
  <2>1. Cardinality(Copies(m)) <= 1
    BY OneCopy DEF Ordered, InOrder
  <2>2. ASSUME NEW p \in Pool
        PROVE  /\ Cardinality(Occurrences(p, "log", readLog[p], m)) <= 1
               /\ Cardinality(Occurrences(p, "log", writeLog[p], m)) <= 1
    <3>1. Sorted(regular, readLog[p]) /\ Sorted(regular, writeLog[p]) /\ readLog[p] \in Seq(M) /\ writeLog[p] \in Seq(M)
      BY ListTypes DEF Ordered, InOrder, Placed, ListsInOrder, Listing
    <3> QED BY <3>1, OneOccurrence
  <2> QED BY <2>1, <2>2
<1> QED BY <1>1, AlwaysOrdered, PTL

(* With one write worker every pool lists messages as read and as written  *)
(* in the order clients sent them, whatever is lost in between: batches    *)
(* are taken and submitted in order, and each box is a queue.  Left out are*)
(* what kafka gives out again and what is under way when a kafka write task*)
(* fails (kafka.go:222).  kafka_test.go:47 and 55 compare the lists.       *)
THEOREM ListedInOrder == Acyclic /\ OneWriter /\ Spec => []LogsInOrder
<1> SUFFICES ASSUME Acyclic, OneWriter PROVE Spec => []LogsInOrder
  OBVIOUS
<1>1. Ordered => LogsInOrder
  <2> SUFFICES ASSUME Ordered, NEW p \in Pool PROVE Increasing(readLog[p]) /\ Increasing(writeLog[p])
    BY DEF LogsInOrder
  <2>1. Sorted(regular, readLog[p]) /\ Sorted(regular, writeLog[p]) /\ readLog[p] \in Seq(M) /\ writeLog[p] \in Seq(M)
    BY ListTypes DEF Ordered, InOrder, Placed, ListsInOrder, Listing
  <2>2. ASSUME NEW s \in Seq(M), Sorted(regular, s) PROVE Increasing(s)
    <3>1. \A i \in DOMAIN s : Regular(s[i]) => s[i] \in Msg /\ s[i] \in regular
      <4>1. \A i \in DOMAIN s : s[i] \in M
        OBVIOUS
      <4>2. \A m \in M : m # Empty /\ m[2] = 0 => m \in Msg
        BY Messages DEF Empty
      <4> QED BY <4>1, <4>2 DEF Regular, regular
    <3> QED BY <2>2, <3>1 DEF Increasing, Sorted, Before
  <2> QED BY <2>1, <2>2
<1> QED BY <1>1, AlwaysOrdered, PTL
=============================================================================
