----------------------------- MODULE BrokerTasks -----------------------------
(***************************************************************************)
(* What the read and write tasks of message pools do: rabbitmq.go, kafka.go*)
(* and esb.go of internal/brokers, on top of the scheduler (TaskScheduler):*)
(* one read task per pool at a time, an unbounded FIFO of write tasks and a*)
(* number of write workers.                                                *)
(*                                                                         *)
(* Clients write messages to the pool Source and start read tasks.  A read *)
(* task records what it reads and, if its pool has an ESB record, submits  *)
(* it in batches as write tasks of the linked pool.  A message is a pair:  *)
(* its number, in the order the clients send them, and 0; a mapper script  *)
(* changes contents, which are not modelled.  Kafka gives a message out    *)
(* again when the offsets of a reader were not committed: the second member*)
(* tells these apart.                                                      *)
(***************************************************************************)
EXTENDS Naturals, FiniteSets, SequencesExt

CONSTANTS Pool,
          Source,    \* the pool clients write to
          Link,      \* Link[p]: pool_out of the ESB record of p, or None
          NumMsgs,   \* messages clients send at most
          NumAgain,  \* messages kafka gives out again at most
          WWorker,   \* write workers
          Scenarios, \* what the behaviours are about
          None

Message == (0..NumMsgs) \X (0..NumAgain)
Msg == (1..NumMsgs) \X (0..NumAgain)
Empty == <<0, 0>>    \* the zero amqp.Delivery of a closed channel

ASSUME BrokerAssumption ==
  /\ None \notin Pool /\ Source \in Pool
  /\ Link \in [Pool -> Pool \cup {None}]
  /\ NumMsgs \in Nat /\ NumAgain \in Nat
  /\ \A s \in Scenarios :
       /\ s.kafka \subseteq Pool
       /\ s.events \subseteq {"deadline", "connect", "connection", "poll", "record",
                             "submit", "edit", "commit"}
       /\ s.msgs \in 0..NumMsgs /\ s.empty \in Nat /\ s.again \in 0..NumAgain

VARIABLES scenario,  \* the one of Scenarios that this behaviour is about: kafka,
                     \* the pools that are kafka topics, the others being rabbitmq
                     \* queues; events, what may happen to tasks; msgs, how many
                     \* messages clients send, again, how many kafka gives out
                     \* again, and empty, how many empty ones a pool records:
                     \* these bound the runs
          posted,    \* number of messages clients have sent
          again,     \* the numbers of the messages kafka has given out again
          esb,       \* esb[p]: pool_out of the stored ESB record of p, or None
          queue,     \* queue[p]: what the broker holds and nobody was given
          rd,        \* rd[p]: the read task of p
          writes,    \* mps.write_tasks: the batches yet to be written
          wr,        \* wr[w]: the write task of worker w
          late,      \* the batches of failed kafka write tasks of which
                     \* messages are still under way
          failed,    \* failed[p]: the numbers of the messages that write tasks
                     \* of p failed to write or to record.  History.
          readLog,   \* readLog[p]: the task messages of p's read tasks
          writeLog   \* writeLog[p]: the task messages of p's write tasks

wrVars == <<wr, late, failed, writeLog>>
sendVars == <<scenario, posted, again, esb, writes, wrVars>>
vars == <<sendVars, queue, rd, readLog>>

Kafka == scenario.kafka
calm == scenario.events = {}

\* A read task: msgs is t.msgs, target the pool_out it found, expired its
\* context, run the flag of kafka.go, uncommitted what Poll returned and the
\* group's offset does not cover, buffer and open rabbitmq's consumer.
NoRead == [pc |-> "off", msgs |-> <<>>, target |-> None, expired |-> FALSE,
           run |-> FALSE, uncommitted |-> <<>>, buffer |-> <<>>, open |-> FALSE]
\* A write task: todo is not yet with the broker, sent not yet recorded.
NoWrite == [pool |-> None, todo |-> <<>>, sent |-> <<>>]

TypeOK ==
  /\ scenario \in Scenarios /\ posted \in 0..scenario.msgs /\ again \in Seq(0..NumMsgs) /\ Len(again) <= scenario.again
  /\ esb \in [Pool -> Pool \cup {None}]
  /\ queue \in [Pool -> Seq(Message)]
  /\ rd \in [Pool -> [pc : {"off", "connect", "esb", "read", "poll", "stopped"},
                      msgs : Seq(Message), target : Pool \cup {None},
                      expired : BOOLEAN, run : BOOLEAN, uncommitted : Seq(Message),
                      buffer : Seq(Message), open : BOOLEAN]]
  /\ writes \in Seq([pool : Pool, msgs : Seq(Message)])
  /\ wr \in [WWorker -> [pool : Pool \cup {None}, todo : Seq(Message), sent : Seq(Message)]]
  /\ late \in Seq([pool : Pool, msgs : Seq(Message)])
  /\ failed \in [Pool -> SUBSET (0..NumMsgs)]
  /\ readLog \in [Pool -> Seq(Message)]
  /\ writeLog \in [Pool -> Seq(Message)]
  /\ \A p \in Pool : /\ rd[p].pc = "off" => rd[p] = NoRead
                     /\ IF p \in Kafka THEN rd[p].buffer = <<>> ELSE rd[p].uncommitted = <<>>
                     /\ rd[p].pc \in {"poll", "stopped"} => p \in Kafka
  /\ \A w \in WWorker : wr[w].pool = None => wr[w] = NoWrite
  /\ \A i \in DOMAIN late : late[i].pool \in Kafka

Init == /\ scenario \in Scenarios /\ posted = 0 /\ again = <<>>
        /\ esb = Link
        /\ queue = [p \in Pool |-> <<>>]
        /\ rd = [p \in Pool |-> NoRead]
        /\ writes = <<>> /\ late = <<>>
        /\ wr = [w \in WWorker |-> NoWrite]
        /\ failed = [p \in Pool |-> {}]
        /\ readLog = [p \in Pool |-> <<>>] /\ writeLog = [p \in Pool |-> <<>>]

Happens(e) == e \in scenario.events

-----------------------------------------------------------------------------
(* Clients *)

\* POST .../write: a task with the next k messages.
PostWrite(k) ==
  /\ posted + k <= scenario.msgs
  /\ posted' = posted + k
  /\ writes' = Append(writes, [pool |-> Source, msgs |-> [i \in 1..k |-> <<posted + i, 0>>]])
  /\ UNCHANGED <<scenario, again, esb, queue, rd, wrVars, readLog>>

\* POST .../read: the scheduler starts no second read task of a pool.
PostRead(p) ==
  /\ rd[p].pc = "off"
  /\ rd' = [rd EXCEPT ![p].pc = "connect"]
  /\ UNCHANGED <<sendVars, queue, readLog>>

AddEsbRecord(p) == /\ Happens("edit") /\ esb[p] = None
                   /\ esb' = [esb EXCEPT ![p] = Link[p]]
                   /\ UNCHANGED <<scenario, posted, again, queue, rd, writes, wrVars, readLog>>

RemoveEsbRecord(p) == /\ Happens("edit")
                      /\ esb' = [esb EXCEPT ![p] = None]
                      /\ UNCHANGED <<scenario, posted, again, queue, rd, writes, wrVars, readLog>>

-----------------------------------------------------------------------------
(* Read tasks, from connectAndPrepare to close *)

\* Mutant: t.msgs outlives the task.
EndRead_Keeps(p) == rd' = [rd EXCEPT ![p].pc = "off"]

\* The task returns; what its consumer or t.msgs still holds is dropped.
EndRead(p) == rd' = [rd EXCEPT ![p] = NoRead]

\* The scheduler's context.WithTimeout.
ReadDeadline(p) == /\ Happens("deadline")
                   /\ rd[p].pc # "off" /\ ~rd[p].expired
                   /\ rd' = [rd EXCEPT ![p].expired = TRUE]
                   /\ UNCHANGED <<sendVars, queue, readLog>>

\* connectAndPrepare and ch.Consume, or NewConsumer and SubscribeTopics.
Connect(p) == /\ rd[p].pc = "connect"
              /\ \/ rd' = [rd EXCEPT ![p].pc = "esb", ![p].open = TRUE]
                 \/ Happens("connect") /\ EndRead(p)
              /\ UNCHANGED <<sendVars, queue, readLog>>

\* Mutant: a record that was found is not used.
GetESBRecord_Unused(p) ==
  /\ rd[p].pc = "esb"
  /\ rd' = [rd EXCEPT ![p].pc = "read", ![p].run = p \in Kafka]
  /\ UNCHANGED <<sendVars, queue, readLog>>

GetESBRecord(p) ==
  /\ rd[p].pc = "esb"
  /\ \/ rd' = [rd EXCEPT ![p].pc = "read", ![p].target = esb[p], ![p].run = p \in Kafka]
     \/ /\ Happens("connect") \/ rd[p].expired
        /\ EndRead(p)
  /\ UNCHANGED <<sendVars, queue, readLog>>

\* Mutant: the batch goes to pool_in.
submitToESB_In(p) ==
  /\ rd[p].target # None /\ rd[p].msgs # <<>>
  /\ writes' = Append(writes, [pool |-> p, msgs |-> rd[p].msgs])
  /\ UNCHANGED <<scenario, posted, again, esb, wrVars>>

\* submitToESB: GetMessagePool or the mapper fails, or the batch is scheduled.
submitToESB(p) ==
  /\ rd[p].target # None /\ rd[p].msgs # <<>>
  /\ writes' = Append(writes, [pool |-> rd[p].target, msgs |-> rd[p].msgs])
  /\ UNCHANGED <<scenario, posted, again, esb, wrVars>>

(* rabbitmq.go: with AutoAck the broker hands everything to the consumer.  *)
Deliver(p) ==
  /\ p \notin Kafka /\ rd[p].open /\ queue[p] # <<>>
  /\ rd' = [rd EXCEPT ![p].buffer = Append(@, Head(queue[p]))]
  /\ queue' = [queue EXCEPT ![p] = Tail(@)]
  /\ UNCHANGED <<sendVars, readLog>>

\* amqp drops the buffer and closes the delivery channel.
ConnectionLost(p) == /\ Happens("connection")
                     /\ p \notin Kafka /\ rd[p].open
                     /\ rd' = [rd EXCEPT ![p].buffer = <<>>, ![p].open = FALSE]
                     /\ UNCHANGED <<sendVars, queue, readLog>>

\* case <-ctx.Done()
RabbitDone(p) == /\ p \notin Kafka /\ rd[p].pc = "read" /\ rd[p].expired
                 /\ EndRead(p)
                 /\ UNCHANGED <<sendVars, queue, readLog>>

\* AddTaskMessage of m; when it fails the message may be stored or not.
Recorded(p, m) == readLog' = [readLog EXCEPT ![p] = Append(@, m)]

\* Mutant: an error of AddTaskMessage does not end the task.
RabbitMessage_Ignores(p) ==
  /\ p \notin Kafka /\ rd[p].pc = "read" /\ rd[p].buffer # <<>>
  /\ rd' = [rd EXCEPT ![p].msgs = Append(@, Head(rd[p].buffer)), ![p].buffer = Tail(@)]
  /\ \/ Recorded(p, Head(rd[p].buffer))
     \/ Happens("record") /\ UNCHANGED readLog
  /\ UNCHANGED <<sendVars, queue>>

\* case msg := <-msgs
RabbitMessage(p) ==
  /\ p \notin Kafka /\ rd[p].pc = "read" /\ rd[p].buffer # <<>>
  /\ LET m == Head(rd[p].buffer) IN
     \/ /\ rd' = [rd EXCEPT ![p].msgs = Append(@, m), ![p].buffer = Tail(@)]
        /\ Recorded(p, m)
     \/ /\ Happens("record")
        /\ Recorded(p, m) \/ UNCHANGED readLog
        /\ EndRead(p)
  /\ UNCHANGED <<sendVars, queue>>

\* The same on a closed channel, which is always ready with a zero value.
RabbitEmpty(p) ==
  /\ p \notin Kafka /\ rd[p].pc = "read" /\ ~rd[p].open
  /\ Len(SelectSeq(readLog[p], LAMBDA m : m = Empty)) < scenario.empty
  /\ rd' = [rd EXCEPT ![p].msgs = Append(@, Empty)]
  /\ Recorded(p, Empty)
  /\ UNCHANGED <<sendVars, queue>>

\* Mutant: t.msgs is not replaced.
RabbitTick_Keeps(p) ==
  /\ p \notin Kafka /\ rd[p].pc = "read" /\ submitToESB(p)
  /\ UNCHANGED <<rd, queue, readLog>>

\* case <-ticker.C
RabbitTick(p) ==
  /\ p \notin Kafka /\ rd[p].pc = "read"
  /\ \/ /\ submitToESB(p)
        /\ rd' = [rd EXCEPT ![p].msgs = <<>>]
     \/ /\ Happens("submit") /\ rd[p].target # None /\ rd[p].msgs # <<>>
        /\ EndRead(p)
        /\ UNCHANGED sendVars
  /\ UNCHANGED <<queue, readLog>>

(* kafka.go: a goroutine polls while run is set; the task waits for the    *)
(* deadline, clears run and waits for the goroutine.                       *)
KafkaLoop(p) == /\ p \in Kafka /\ rd[p].pc = "read"
                /\ rd' = [rd EXCEPT ![p].pc = IF rd[p].run THEN "poll" ELSE "stopped"]
                /\ UNCHANGED <<sendVars, queue, readLog>>

\* The error of AddTaskMessage is databaseErr, the test is for err, still nil.
KafkaMessage(p) ==
  /\ rd[p].pc = "poll" /\ queue[p] # <<>>
  /\ LET m == Head(queue[p]) IN
       /\ rd' = [rd EXCEPT ![p].pc = "read", ![p].msgs = Append(@, m),
                           ![p].uncommitted = Append(@, m)]
       /\ Recorded(p, m) \/ (Happens("record") /\ UNCHANGED readLog)
  /\ queue' = [queue EXCEPT ![p] = Tail(@)]
  /\ UNCHANGED sendVars

\* The consumer's own commit, at intervals, of what Poll had returned by then.
AutoCommit(p) ==
  /\ rd[p].uncommitted # <<>>
  /\ \E n \in DOMAIN rd[p].uncommitted :
       rd' = [rd EXCEPT ![p].uncommitted = SubSeq(@, n + 1, Len(@))]
  /\ UNCHANGED <<sendVars, queue, readLog>>

\* The topic goes on from the group's offset: messages are given out again.
GiveOutAgain(p) ==
  /\ Happens("commit") /\ rd[p].uncommitted # <<>>
  /\ LET s == rd[p].uncommitted IN
       /\ Len(again) + Len(s) <= scenario.again
       /\ again' = again \o [i \in DOMAIN s |-> s[i][1]]
       /\ queue' = [queue EXCEPT ![p] = [i \in DOMAIN s |-> <<s[i][1], Len(again) + i>>] \o @]
  /\ UNCHANGED <<scenario, posted, esb, writes, wrVars, readLog>>

\* All consumers are of one group: when another one comes or goes, or this one
\* is taken for dead, the topic is assigned anew.
Rebalance(p) == /\ GiveOutAgain(p)
                /\ rd' = [rd EXCEPT ![p].uncommitted = <<>>]

KafkaError(p) == /\ Happens("poll") /\ rd[p].pc = "poll"
                 /\ rd' = [rd EXCEPT ![p].pc = "read", ![p].run = FALSE]
                 /\ UNCHANGED <<sendVars, queue, readLog>>

\* Poll returned nil.  t.msgs is replaced also when submitToESB failed.
KafkaTimeout(p) ==
  /\ rd[p].pc = "poll"
  /\ \/ /\ rd[p].target = None \/ rd[p].msgs = <<>>
        /\ rd' = [rd EXCEPT ![p].pc = "read"]
        /\ UNCHANGED sendVars
     \/ /\ submitToESB(p)
        /\ rd' = [rd EXCEPT ![p].pc = "read", ![p].msgs = <<>>]
     \/ /\ Happens("submit") /\ rd[p].target # None /\ rd[p].msgs # <<>>
        /\ rd' = [rd EXCEPT ![p].pc = "read", ![p].msgs = <<>>, ![p].run = FALSE]
        /\ UNCHANGED sendVars
  /\ UNCHANGED <<queue, readLog>>

\* Mutant: the deadline does not stop the goroutine.
KafkaCancel_Missing(p) == FALSE /\ UNCHANGED vars

KafkaCancel(p) == /\ p \in Kafka /\ rd[p].expired /\ rd[p].run
                  /\ rd' = [rd EXCEPT ![p].run = FALSE]
                  /\ UNCHANGED <<sendVars, queue, readLog>>

\* consumer.Close commits the offsets; its error is ignored.
KafkaJoin(p) == /\ rd[p].pc = "stopped" /\ rd[p].expired
                /\ EndRead(p)
                /\ GiveOutAgain(p) \/ UNCHANGED <<sendVars, queue, readLog>>

-----------------------------------------------------------------------------
(* Write tasks, from connectAndPrepare to close *)
EndWrite(w) == wr' = [wr EXCEPT ![w] = NoWrite]

Numbers(s) == {s[i][1] : i \in DOMAIN s}

\* The task returns an error, and rest may reach the broker later.
FailWrite(w, rest) ==
  /\ EndWrite(w)
  /\ late' = IF rest = <<>> THEN late
             ELSE Append(late, [pool |-> wr[w].pool, msgs |-> rest])
  /\ failed' = [failed EXCEPT ![wr[w].pool] = @ \cup Numbers(wr[w].todo \o wr[w].sent)]

\* Kafka is given the whole batch at first, rabbitmq one message at a time.
UnderWay(w) == IF wr[w].pool \in Kafka THEN wr[w].todo ELSE <<>>

\* Mutant: the last task of the queue is taken first.
TakeWrite_Last(w) ==
  /\ wr[w].pool = None /\ writes # <<>>
  /\ wr' = [wr EXCEPT ![w] = [pool |-> Last(writes).pool, todo |-> Last(writes).msgs, sent |-> <<>>]]
  /\ writes' = Front(writes)
  /\ UNCHANGED <<scenario, posted, again, esb, queue, rd, late, failed, readLog, writeLog>>

TakeWrite(w) ==
  /\ wr[w].pool = None /\ writes # <<>>
  /\ wr' = [wr EXCEPT ![w] = [pool |-> Head(writes).pool, todo |-> Head(writes).msgs, sent |-> <<>>]]
  /\ writes' = Tail(writes)
  /\ UNCHANGED <<scenario, posted, again, esb, queue, rd, late, failed, readLog, writeLog>>

\* One message reaches the broker: rabbitmq publishes the next one when the
\* last is recorded, kafka delivers all in the background.
Send(w) ==
  /\ wr[w].todo # <<>> /\ (wr[w].pool \notin Kafka => wr[w].sent = <<>>)
  /\ LET m == Head(wr[w].todo) IN
       /\ wr' = [wr EXCEPT ![w].todo = Tail(@), ![w].sent = Append(@, m)]
       /\ queue' = [queue EXCEPT ![wr[w].pool] = Append(@, m)]
  /\ UNCHANGED <<scenario, posted, again, esb, rd, writes, late, failed, readLog, writeLog>>

RecordWritten(w) ==
  /\ wr[w].sent # <<>>
  /\ \/ /\ writeLog' = [writeLog EXCEPT ![wr[w].pool] = Append(@, Head(wr[w].sent))]
        /\ wr' = [wr EXCEPT ![w].sent = Tail(@)]
        /\ UNCHANGED <<late, failed>>
     \/ /\ Happens("record")
        /\ FailWrite(w, UnderWay(w))
        /\ UNCHANGED writeLog
  /\ UNCHANGED <<scenario, posted, again, esb, queue, rd, writes, readLog>>

\* No connection; a publish or delivery error; kafka's "timeout to write batch".
WriteFails(w) ==
  /\ wr[w].pool # None
  /\ \/ Happens("connect") /\ FailWrite(w, <<>>)
     \/ /\ \/ Happens("connection") /\ wr[w].todo # <<>>
           \/ Happens("deadline") /\ wr[w].pool \in Kafka /\ wr[w].todo \o wr[w].sent # <<>>
        /\ FailWrite(w, UnderWay(w))
  /\ UNCHANGED <<scenario, posted, again, esb, queue, rd, writes, readLog, writeLog>>

\* Mutant: the task does not wait for the delivery reports.
WriteDone_Early(w) ==
  /\ wr[w].pool # None /\ wr[w].todo = <<>>
  /\ EndWrite(w)
  /\ UNCHANGED <<scenario, posted, again, esb, queue, rd, writes, late, failed, readLog, writeLog>>

WriteDone(w) ==
  /\ wr[w].pool # None /\ wr[w].todo = <<>> /\ wr[w].sent = <<>>
  /\ EndWrite(w)
  /\ UNCHANGED <<scenario, posted, again, esb, queue, rd, writes, late, failed, readLog, writeLog>>

\* A message of a failed task reaches the topic after all, or never.
LateArrives(i) ==
  /\ i \in DOMAIN late /\ late[i].msgs # <<>>
  /\ late' = [late EXCEPT ![i].msgs = Tail(@)]
  /\ \/ queue' = [queue EXCEPT ![late[i].pool] = Append(@, Head(late[i].msgs))]
     \/ UNCHANGED queue
  /\ UNCHANGED <<scenario, posted, again, esb, rd, writes, wr, failed, readLog, writeLog>>

-----------------------------------------------------------------------------
KafkaPoll(p) == KafkaLoop(p) \/ KafkaMessage(p) \/ KafkaTimeout(p) \/ KafkaError(p)

RabbitRead(p) == RabbitMessage(p) \/ RabbitEmpty(p) \/ RabbitTick(p) \/ RabbitDone(p)

\* The steps of which one at most is enabled at a time.
routine(p) == PostRead(p) \/ Connect(p) \/ GetESBRecord(p) \/ KafkaPoll(p) \/ KafkaJoin(p)

read(p) == \/ routine(p) \/ ReadDeadline(p) \/ KafkaCancel(p)
           \/ AutoCommit(p) \/ Rebalance(p)
           \/ Deliver(p) \/ ConnectionLost(p) \/ RabbitRead(p)

write(w) == TakeWrite(w) \/ Send(w) \/ RecordWritten(w) \/ WriteFails(w) \/ WriteDone(w)

Next == \/ \E k \in 1..NumMsgs : PostWrite(k)
        \/ \E p \in Pool : AddEsbRecord(p) \/ RemoveEsbRecord(p) \/ read(p)
        \/ \E w \in WWorker : write(w)
        \/ \E i \in DOMAIN late : LateArrives(i)

(* Goroutines run, brokers deliver what they hold to a consumer that waits *)
(* for it, timers fire; select chooses at random between what is ready.    *)
(* Clients keep reading every pool.                                        *)
Fairness ==
  /\ \A p \in Pool :
       /\ WF_vars(routine(p)) /\ WF_vars(ReadDeadline(p))
       /\ WF_vars(Deliver(p)) /\ WF_vars(RabbitTick(p))
       /\ SF_vars(RabbitMessage(p) \/ KafkaMessage(p))
       /\ WF_vars(RabbitDone(p) \/ KafkaCancel(p))
  /\ \A w \in WWorker : WF_vars(write(w))

Spec == Init /\ [][Next]_vars /\ Fairness

-----------------------------------------------------------------------------
(* The copies of m, each tagged with the place of Delivery it is at. *)
Occurrences(at, tag, s, m) == {<<at, tag, i>> : i \in {j \in DOMAIN s : s[j] = m}}

Copies(m) ==
  UNION ({Occurrences(<<"writing", writes[i].pool>>, <<"batch", i>>, writes[i].msgs, m) : i \in DOMAIN writes}
    \cup {Occurrences(<<"writing", wr[w].pool>>, <<"task", w>>, wr[w].todo, m) : w \in WWorker}
    \cup {Occurrences(<<"writing", late[i].pool>>, <<"late", i>>, late[i].msgs, m) : i \in DOMAIN late}
    \cup {Occurrences(<<"queued", p>>, "broker", queue[p], m) : p \in Pool}
    \cup {Occurrences(<<"queued", p>>, "consumer", rd[p].buffer, m) : p \in Pool}
    \cup {Occurrences(<<"read", p>>, "msgs", rd[p].msgs, m) : p \in Pool})

begun(m) == IF m[2] = 0 THEN m[1] <= posted
                        ELSE m[2] \in DOMAIN again /\ again[m[2]] = m[1]

place == [m \in Msg |-> IF ~begun(m) THEN <<"new", None>>
                        ELSE IF Copies(m) = {} THEN <<"gone", None>>
                        ELSE (CHOOSE c \in Copies(m) : TRUE)[1]]

(* No message is ever in two places, nor listed twice by a pool, however   *)
(* tasks fail, restart and forward to each other.  This is said of what a  *)
(* broker gives out: Kafka gives a message out again when a commit fails   *)
(* (kafka.go:115 ignores it), and each time it is listed and forwarded.    *)
NeverDuplicated ==
  \A m \in Msg :
    /\ Cardinality(Copies(m)) <= 1
    /\ \A p \in Pool, log \in {readLog, writeLog} :
         Cardinality(Occurrences(p, "log", log[p], m)) <= 1

(* A message goes through the places in their order, to linked pools only; *)
(* only Kafka begins again, from the queue.                                *)
Abstract == INSTANCE Delivery WITH Topic <- Kafka, Repeat <- {m \in Msg : m[2] # 0}
DeliversInOrder == Abstract!Spec

(* A message that is forwarded was recorded as read by the first pool: the *)
(* tasks return when AddTaskMessage fails (rabbitmq.go:188, kafka.go:145). *)
RecordedBy(pools) ==
  \A m \in Msg : \A c \in Copies(m), p \in pools :
    c[1][2] = Link[p] /\ c[1][2] # Source => m[1] \in Numbers(readLog[p])

RecordedFirst == RecordedBy(Pool)

(* The same of the tasks of rabbitmq pools alone.                          *)
RabbitRecordsFirst == RecordedBy(Pool \ Kafka)

(* What a broker or a reader of p has is in the list of p's write tasks, or*)
(* will be when the task that sent it goes on, unless a write task failed: *)
(* kafka.go:222 returns while messages are on their way.                   *)
QueuedIsListed ==
  \A p \in Pool :
    Numbers(queue[p] \o rd[p].buffer \o rd[p].msgs) \ {Empty[1]} \subseteq
      Numbers(writeLog[p]) \cup failed[p]
        \cup UNION {Numbers(wr[w].sent) : w \in {v \in WWorker : wr[v].pool = p}}

(* With one write worker a pool's messages are listed in the order they    *)
(* were sent, whatever is lost in between; kafka_test.go:47 and 55 compare *)
(* the lists.  Not so those that Kafka gives out again, nor those of a     *)
(* kafka write task that failed, which may come later than their next.     *)
Regular(m) == m # Empty /\ m[2] = 0 /\ \A p \in Kafka : m[1] \notin failed[p]
Increasing(s) == \A i, j \in DOMAIN s : i < j /\ Regular(s[i]) /\ Regular(s[j]) => s[i][1] < s[j][1]
LogsInOrder == \A p \in Pool : Increasing(readLog[p]) /\ Increasing(writeLog[p])

(* Messages sent to the first queue of an ESB pair can be read from the    *)
(* second (README.md:13), as long as nothing fails and no read task has to *)
(* end.                                                                    *)
SentIsReadAtTheEnd ==
  \A n \in 1..NumMsgs : calm /\ n <= posted ~>
    \A p \in Pool : (\E q \in Pool : Link[q] = p) => Contains(readLog[p], <<n, 0>>)

(* Where tasks have deadlines every read task ends, by its own or by an    *)
(* error, and its pool can be read again.                                  *)
ReadTasksEnd ==
  \A p \in Pool :
    "deadline" \in scenario.events /\ rd[p].pc # "off" ~> rd[p].pc = "off"
=============================================================================
