---------------------------- MODULE PoolRegistry ----------------------------
(***************************************************************************)
(* AddMessagePool, RemoveMessagePool and GetMessagePool of                 *)
(* internal/brokers/registry.go: a message pool is a document of the       *)
(* message_pools collection and an endpoint of a broker, a kafka topic or a*)
(* rabbitmq queue, which are made and deleted in two steps.                *)
(*                                                                         *)
(* The collection is one atomic map: its mutex and its coherent cache are  *)
(* those of the routes (module Routes).                                    *)
(***************************************************************************)
EXTENDS Naturals, FiniteSets

CONSTANTS Pool,
          Queue,     \* topics and queues, the endpoints of the brokers
          Kafka,     \* those that are kafka topics
          Own,       \* Own[p]: the queues an orderly client uses for p
          Handler,
          None

ASSUME RegistryAssumption ==
  /\ None \notin Pool \cup Queue /\ Kafka \subseteq Queue
  /\ Own \in [Pool -> SUBSET Queue]
  /\ \A p, q \in Pool : p # q => Own[p] \cap Own[q] = {}

(* In an orderly behaviour pools share no queue, a pool is removed while no*)
(* other request or task uses it, and kafka reports no errors of topics.   *)
VARIABLES orderly,
          docs,      \* docs[p]: the queue of the document of p, or None
          queues,    \* the endpoints that exist
          h,         \* h[i]: what handler or task i does
          answer     \* answer[p]: the last success no opposite request followed

vars == <<orderly, docs, queues, h, answer>>

Idle == [op |-> "none", pool |-> None, queue |-> None, pc |-> "begin"]
NoAnswer == [op |-> "none", queue |-> None]

Requests == [op : {"add", "remove", "task"}, pool : Pool, queue : Queue \cup {None},
             pc : {"endpoint", "doc", "get"}]

TypeOK ==
  /\ orderly \in BOOLEAN
  /\ docs \in [Pool -> Queue \cup {None}]
  /\ queues \subseteq Queue
  /\ h \in [Handler -> Requests \cup {Idle}]
  /\ answer \in [Pool -> [op : {"add", "remove"}, queue : Queue] \cup {NoAnswer}]
  /\ \A i \in Handler : /\ h[i].pc \in {"endpoint", "doc"} => h[i].queue # None
                        /\ h[i].pc = "get" => h[i].op # "add" /\ h[i].queue = None
                        /\ h[i].op = "task" => h[i].queue \notin Kafka

Init == /\ orderly \in BOOLEAN
        /\ docs = [p \in Pool |-> None]
        /\ queues = {}
        /\ h = [i \in Handler |-> Idle]
        /\ answer = [p \in Pool |-> NoAnswer]

Busy(p, ops) == \E i \in Handler : h[i].pool = p /\ h[i].op \in ops

\* Mutant: a request that ended is still counted as one of its pool.
End_Half(i) == h' = [h EXCEPT ![i].pc = "begin"]

End(i) == h' = [h EXCEPT ![i] = Idle]

Succeed(i) == answer' = [answer EXCEPT ![h[i].pool] = [op |-> h[i].op, queue |-> h[i].queue]]

-----------------------------------------------------------------------------
(* Requests *)

\* POST of a pool with queue or topic q.
PostPool(i, p, q) ==
  /\ h[i] = Idle
  /\ orderly => q \in Own[p] /\ ~Busy(p, {"remove"})
  /\ h' = [h EXCEPT ![i] = [op |-> "add", pool |-> p, queue |-> q, pc |-> "endpoint"]]
  /\ answer' = IF answer[p].op = "remove" THEN [answer EXCEPT ![p] = NoAnswer] ELSE answer
  /\ UNCHANGED <<orderly, docs, queues>>

\* DELETE of a pool.
DeletePool(i, p) ==
  /\ h[i] = Idle
  /\ orderly => ~Busy(p, {"add", "task"})
  /\ h' = [h EXCEPT ![i] = [op |-> "remove", pool |-> p, queue |-> None, pc |-> "get"]]
  /\ answer' = IF answer[p].op = "add" THEN [answer EXCEPT ![p] = NoAnswer] ELSE answer
  /\ UNCHANGED <<orderly, docs, queues>>

\* POST of a read or write task, which runs on after the answer.
PostTask(i, p) ==
  /\ h[i] = Idle
  /\ orderly => ~Busy(p, {"remove"})
  /\ h' = [h EXCEPT ![i] = [op |-> "task", pool |-> p, queue |-> None, pc |-> "get"]]
  /\ UNCHANGED <<orderly, docs, queues, answer>>

-----------------------------------------------------------------------------
(* AddMessagePool *)

\* Rabbitmq's does nothing; kafka's makes the topic.  A call that fails may
\* have had its effect; the errors of single topics are not looked at.
CreateBrokerEndpoint(i) ==
  /\ h[i].op = "add" /\ h[i].pc = "endpoint"
  /\ \/ /\ h[i].queue \notin Kafka
        /\ h' = [h EXCEPT ![i].pc = "doc"]
        /\ UNCHANGED queues
     \/ /\ h[i].queue \in Kafka
        /\ \/ queues' = queues \cup {h[i].queue}
           \/ ~orderly /\ UNCHANGED queues
        /\ h' = [h EXCEPT ![i].pc = "doc"]
     \/ /\ h[i].queue \in Kafka
        /\ queues' = queues \cup {h[i].queue} \/ UNCHANGED queues
        /\ End(i)
  /\ UNCHANGED <<orderly, docs, answer>>

\* InsertOne under the unique index of the name: it succeeds, finds a
\* duplicate, or fails with the document stored or not.
addMessagePool(i) ==
  /\ h[i].op = "add" /\ h[i].pc = "doc"
  /\ LET p == h[i].pool
         Insert == docs[p] = None /\ docs' = [docs EXCEPT ![p] = h[i].queue] IN
       \/ Insert /\ Succeed(i)
       \/ Insert /\ UNCHANGED answer
       \/ UNCHANGED <<docs, answer>>
  /\ End(i)
  /\ UNCHANGED <<orderly, queues>>

-----------------------------------------------------------------------------
(* RemoveMessagePool, and what tasks do with a pool *)

GetMessagePool(i) ==
  /\ h[i].pc = "get"
  /\ LET q == docs[h[i].pool] IN
     \/ /\ q # None
        /\ h[i].op = "remove" \/ q \notin Kafka
        /\ h' = [h EXCEPT ![i].queue = q, ![i].pc = "endpoint"]
     \/ /\ q # None => h[i].op = "task" /\ q \in Kafka
        /\ End(i)
  /\ UNCHANGED <<orderly, docs, queues, answer>>

\* Kafka's RemoveBrokerEndpoint.  A call that fails may have had its effect;
\* the errors of single topics are not looked at.
DeleteTopics(i) ==
  /\ h[i].op = "remove" /\ h[i].pc = "endpoint" /\ h[i].queue \in Kafka
  /\ \/ /\ \/ queues' = queues \ {h[i].queue}
           \/ ~orderly /\ UNCHANGED queues
        /\ h' = [h EXCEPT ![i].pc = "doc"]
     \/ /\ queues' = queues \ {h[i].queue} \/ UNCHANGED queues
        /\ End(i)
  /\ UNCHANGED <<orderly, docs, answer>>

\* Mutant: an error of the broker is taken for success.
QueueDelete_Ignored(i) ==
  /\ h[i].op = "remove" /\ h[i].pc = "endpoint" /\ h[i].queue \notin Kafka
  /\ queues' = queues \ {h[i].queue} \/ UNCHANGED queues
  /\ h' = [h EXCEPT ![i].pc = "doc"]
  /\ UNCHANGED <<orderly, docs, answer>>

\* Rabbitmq's RemoveBrokerEndpoint.
QueueDelete(i) ==
  /\ h[i].op = "remove" /\ h[i].pc = "endpoint" /\ h[i].queue \notin Kafka
  /\ \/ /\ queues' = queues \ {h[i].queue}
        /\ h' = [h EXCEPT ![i].pc = "doc"]
     \/ /\ queues' = queues \ {h[i].queue} \/ UNCHANGED queues
        /\ End(i)
  /\ UNCHANGED <<orderly, docs, answer>>

\* DeleteOne: of a document that is not there it is a success as well.
removeMessagePool(i) ==
  /\ h[i].op = "remove" /\ h[i].pc = "doc"
  /\ \/ docs' = [docs EXCEPT ![h[i].pool] = None] /\ Succeed(i)
     \/ docs' = [docs EXCEPT ![h[i].pool] = None] /\ UNCHANGED answer
     \/ UNCHANGED <<docs, answer>>
  /\ End(i)
  /\ UNCHANGED <<orderly, queues>>

\* connectAndPrepare of a rabbitmq task.
QueueDeclare(i) ==
  /\ h[i].op = "task" /\ h[i].pc = "endpoint"
  /\ queues' = queues \cup {h[i].queue} \/ UNCHANGED queues
  /\ End(i)
  /\ UNCHANGED <<orderly, docs, answer>>

-----------------------------------------------------------------------------
\* Mutant: the document goes first.
RemoveMessagePool_DocFirst(i) ==
  \/ GetMessagePool(i)
  \/ /\ h[i].op = "remove" /\ h[i].pc = "endpoint"
     /\ docs' = [docs EXCEPT ![h[i].pool] = None]
     /\ h' = [h EXCEPT ![i].pc = "doc"]
     /\ UNCHANGED <<orderly, queues, answer>>
  \/ /\ h[i].op = "remove" /\ h[i].pc = "doc"
     /\ \/ queues' = queues \ {h[i].queue} /\ Succeed(i)
        \/ UNCHANGED <<queues, answer>>
     /\ End(i)
     /\ UNCHANGED <<orderly, docs>>

RemoveMessagePool(i) == \/ GetMessagePool(i) \/ DeleteTopics(i) \/ QueueDelete(i)
                        \/ removeMessagePool(i)

AddMessagePool(i) == CreateBrokerEndpoint(i) \/ addMessagePool(i)

Next == \E i \in Handler :
          \/ \E p \in Pool : \/ \E q \in Queue : PostPool(i, p, q)
                             \/ DeletePool(i, p) \/ PostTask(i, p)
          \/ AddMessagePool(i) \/ RemoveMessagePool(i) \/ QueueDeclare(i)

Spec == Init /\ [][Next]_vars

-----------------------------------------------------------------------------
(* What the server answered to be done is done, whatever failed before: a  *)
(* pool that was created has its document and its topic, of one that was   *)
(* removed neither is left.  Clients that remove a pool while it is created*)
(* or used void it (see README.md).                                        *)
AnsweredIsDone ==
  orderly => \A p \in Pool :
    /\ answer[p].op = "add" => /\ docs[p] = answer[p].queue
                               /\ docs[p] \in Kafka => docs[p] \in queues
    /\ answer[p].op = "remove" => docs[p] = None /\ answer[p].queue \notin queues

(* However a DELETE ends, the endpoint is gone or the pool can be deleted  *)
(* again: registry.go:61 removes the endpoint first.                       *)
DeleteCanBeRepeated ==
  [][\A i \in Handler :
       orderly /\ h[i].op = "remove" /\ h[i].queue # None /\ h'[i] = Idle
         => (h[i].queue \in queues' => docs'[h[i].pool] = h[i].queue)]_vars
=============================================================================
