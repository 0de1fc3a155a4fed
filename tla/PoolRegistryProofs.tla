-------------------------- MODULE PoolRegistryProofs --------------------------
(***************************************************************************)
(* PoolRegistry for any number of pools, queues and handlers: what was     *)
(* answered is done, and a DELETE can be repeated.                         *)
(***************************************************************************)
EXTENDS PoolRegistry, TLAPS

(* Requests of a pool do not meet a DELETE of it, and use its own queues.  *)
Discipline ==
  \A i, j \in Handler :
    h[i].op = "remove" /\ h[j].op \in {"add", "task"} => h[i].pool # h[j].pool

OwnQueues ==
  /\ \A i \in Handler : h[i].queue # None => h[i].queue \in Own[h[i].pool]
  /\ \A p \in Pool : docs[p] # None => docs[p] \in Own[p]
  /\ \A p \in Pool : answer[p].op # "none" => answer[p].queue \in Own[p]

(* How far a POST and a DELETE under way have come.                        *)
Created ==
  \A i \in Handler : h[i].op = "add" /\ h[i].pc = "doc" /\ h[i].queue \in Kafka
                       => h[i].queue \in queues

Deleted ==
  \A i \in Handler : h[i].op = "remove" /\ h[i].queue # None =>
    /\ docs[h[i].pool] \in {h[i].queue, None}
    /\ h[i].queue \in queues => docs[h[i].pool] = h[i].queue /\ h[i].pc = "endpoint"

(* What was answered, and that no opposite request came after it.          *)
Answered ==
  \A p \in Pool :
    /\ answer[p].op = "add" => /\ docs[p] = answer[p].queue
                               /\ docs[p] \in Kafka => docs[p] \in queues
                               /\ ~Busy(p, {"remove"})
    /\ answer[p].op = "remove" => /\ docs[p] = None /\ answer[p].queue \notin queues
                                  /\ ~Busy(p, {"add"})
                                  /\ \A i \in Handler : h[i].pool = p /\ h[i].op = "task"
                                                          => h[i].queue = None

Good == Discipline /\ OwnQueues /\ Created /\ Deleted /\ Answered

IInv == TypeOK /\ (orderly => Good)

-----------------------------------------------------------------------------
LEMMA TypeInit == Init => TypeOK
  BY RegistryAssumption DEF Init, TypeOK, Idle, NoAnswer

(* Types are kept by every step.                                           *)
LEMMA TypeStep == TypeOK /\ [Next]_vars => TypeOK'
  <1> SUFFICES ASSUME TypeOK, [Next]_vars PROVE TypeOK'
    OBVIOUS
  <1> USE RegistryAssumption DEF TypeOK, Idle, NoAnswer, Requests
  <1>1. ASSUME NEW i \in Handler, NEW p \in Pool, NEW q \in Queue, PostPool(i, p, q)
        PROVE TypeOK'
    BY <1>1 DEF PostPool
  <1>2. ASSUME NEW i \in Handler, NEW p \in Pool, DeletePool(i, p)
        PROVE TypeOK'
    BY <1>2 DEF DeletePool
  <1>3. ASSUME NEW i \in Handler, NEW p \in Pool, PostTask(i, p)
        PROVE TypeOK'
    BY <1>3 DEF PostTask
  <1>4. ASSUME NEW i \in Handler, CreateBrokerEndpoint(i)
        PROVE TypeOK'
    BY <1>4 DEF CreateBrokerEndpoint, End
  <1>5. ASSUME NEW i \in Handler, addMessagePool(i)
        PROVE TypeOK'
    BY <1>5 DEF addMessagePool, End, Succeed
  <1>6. ASSUME NEW i \in Handler, GetMessagePool(i)
        PROVE TypeOK'
    BY <1>6 DEF GetMessagePool, End
  <1>7. ASSUME NEW i \in Handler, DeleteTopics(i)
        PROVE TypeOK'
    BY <1>7 DEF DeleteTopics, End
  <1>8. ASSUME NEW i \in Handler, QueueDelete(i)
        PROVE TypeOK'
    BY <1>8 DEF QueueDelete, End
  <1>9. ASSUME NEW i \in Handler, removeMessagePool(i)
        PROVE TypeOK'
    BY <1>9 DEF removeMessagePool, End, Succeed
  <1>10. ASSUME NEW i \in Handler, QueueDeclare(i)
         PROVE TypeOK'
    BY <1>10 DEF QueueDeclare, End
  <1>11. CASE UNCHANGED vars
    BY <1>11 DEF vars
  <1> QED
    BY <1>1, <1>2, <1>3, <1>4, <1>5, <1>6, <1>7, <1>8, <1>9, <1>10, <1>11
    DEF Next, AddMessagePool, RemoveMessagePool

-----------------------------------------------------------------------------
LEMMA GoodInit == Init => Good
  BY DEF Init, Good, Discipline, OwnQueues, Created, Deleted, Answered, Busy, Idle, NoAnswer

(* Step i changes record i only; a step that begins nothing leaves the      *)
(* request its kind and pool, or ends it.                                   *)
Handles(i) == /\ \A j \in Handler \ {i} : h'[j] = h[j]
              /\ h'[i] = Idle \/ (h'[i].op = h[i].op /\ h'[i].pool = h[i].pool)
              /\ UNCHANGED orderly

LEMMA HandlesAdd ==
  ASSUME TypeOK, NEW i \in Handler, AddMessagePool(i) PROVE Handles(i)
  <1> USE DEF TypeOK, Handles, Requests, Idle, End
  <1>1. CASE CreateBrokerEndpoint(i)
    BY <1>1 DEF CreateBrokerEndpoint
  <1>2. CASE addMessagePool(i)
    BY <1>2 DEF addMessagePool
  <1> QED
    BY <1>1, <1>2 DEF AddMessagePool

LEMMA HandlesRemove ==
  ASSUME TypeOK, NEW i \in Handler, RemoveMessagePool(i) PROVE Handles(i)
  <1> USE DEF TypeOK, Handles, Requests, Idle, End
  <1>1. CASE GetMessagePool(i)
    BY <1>1 DEF GetMessagePool
  <1>2. CASE DeleteTopics(i)
    BY <1>2 DEF DeleteTopics
  <1>3. CASE QueueDelete(i)
    BY <1>3 DEF QueueDelete
  <1>4. CASE removeMessagePool(i)
    BY <1>4 DEF removeMessagePool
  <1> QED
    BY <1>1, <1>2, <1>3, <1>4 DEF RemoveMessagePool

LEMMA HandlesTask ==
  ASSUME TypeOK, NEW i \in Handler, QueueDeclare(i) PROVE Handles(i)
  BY DEF QueueDeclare, TypeOK, Handles, Requests, Idle, End

(* Clients keep the discipline: only the three requests begin anything.    *)
LEMMA DisciplineStep ==
  ASSUME TypeOK, orderly, Discipline, [Next]_vars PROVE Discipline'
  <1> USE RegistryAssumption DEF TypeOK, Idle, Requests, Discipline, Busy
  <1>1. ASSUME NEW i \in Handler, NEW p \in Pool, NEW q \in Queue, PostPool(i, p, q)
        PROVE Discipline'
    BY <1>1 DEF PostPool
  <1>2. ASSUME NEW i \in Handler, NEW p \in Pool, DeletePool(i, p)
        PROVE Discipline'
    BY <1>2 DEF DeletePool
  <1>3. ASSUME NEW i \in Handler, NEW p \in Pool, PostTask(i, p)
        PROVE Discipline'
    BY <1>3 DEF PostTask
  <1>4. ASSUME NEW i \in Handler, AddMessagePool(i) \/ RemoveMessagePool(i) \/ QueueDeclare(i)
        PROVE Discipline'
    <2>1. Handles(i)
      BY <1>4, HandlesAdd, HandlesRemove, HandlesTask
    <2>2. \A j \in Handler : h'[j] = h[j] \/ h'[j].op = "none"
                             \/ (h'[j].op = h[j].op /\ h'[j].pool = h[j].pool)
      BY <2>1 DEF Handles
    <2> QED
      BY <2>2
  <1>5. CASE UNCHANGED vars
    BY <1>5 DEF vars
  <1> QED
    BY <1>1, <1>2, <1>3, <1>4, <1>5 DEF Next

(* Queues stay with their pools.                                           *)
LEMMA OwnQueuesStep ==
  ASSUME TypeOK, orderly, OwnQueues, [Next]_vars PROVE OwnQueues'
  <1> USE RegistryAssumption DEF TypeOK, Idle, Requests, NoAnswer, OwnQueues
  <1>1. ASSUME NEW i \in Handler, NEW p \in Pool, NEW q \in Queue, PostPool(i, p, q)
        PROVE OwnQueues'
    BY <1>1 DEF PostPool
  <1>2. ASSUME NEW i \in Handler, NEW p \in Pool, DeletePool(i, p) \/ PostTask(i, p)
        PROVE OwnQueues'
    <2>1. CASE DeletePool(i, p)
      BY <2>1 DEF DeletePool
    <2>2. CASE PostTask(i, p)
      BY <2>2 DEF PostTask
    <2> QED
      BY <1>2, <2>1, <2>2
  <1>3. ASSUME NEW i \in Handler, AddMessagePool(i)
        PROVE OwnQueues'
    <2>1. CASE CreateBrokerEndpoint(i)
      BY <2>1, HandlesAdd, <1>3 DEF CreateBrokerEndpoint, End
    <2>2. CASE addMessagePool(i)
      BY <2>2 DEF addMessagePool, End, Succeed
    <2> QED
      BY <1>3, <2>1, <2>2 DEF AddMessagePool
  <1>4. ASSUME NEW i \in Handler, RemoveMessagePool(i)
        PROVE OwnQueues'
    <2>1. CASE GetMessagePool(i)
      BY <2>1 DEF GetMessagePool, End
    <2>2. CASE DeleteTopics(i)
      BY <2>2 DEF DeleteTopics, End
    <2>3. CASE QueueDelete(i)
      BY <2>3 DEF QueueDelete, End
    <2>4. CASE removeMessagePool(i)
      BY <2>4 DEF removeMessagePool, End, Succeed
    <2> QED
      BY <1>4, <2>1, <2>2, <2>3, <2>4 DEF RemoveMessagePool
  <1>5. ASSUME NEW i \in Handler, QueueDeclare(i)
        PROVE OwnQueues'
    BY <1>5 DEF QueueDeclare, End
  <1>6. CASE UNCHANGED vars
    BY <1>6 DEF vars
  <1> QED
    BY <1>1, <1>2, <1>3, <1>4, <1>5, <1>6 DEF Next

(* A topic that was created stays until its document is stored: whoever    *)
(* deletes it deletes the pool.                                            *)
LEMMA CreatedStep ==
  ASSUME TypeOK, orderly, Discipline, OwnQueues, Created, [Next]_vars PROVE Created'
  <1> USE RegistryAssumption DEF TypeOK, Idle, Requests, NoAnswer, Created
  <1>1. ASSUME NEW i \in Handler, NEW p \in Pool, NEW q \in Queue, PostPool(i, p, q)
        PROVE Created'
    BY <1>1 DEF PostPool
  <1>2. ASSUME NEW i \in Handler, NEW p \in Pool, DeletePool(i, p)
        PROVE Created'
    BY <1>2 DEF DeletePool
  <1>3. ASSUME NEW i \in Handler, NEW p \in Pool, PostTask(i, p)
        PROVE Created'
    BY <1>3 DEF PostTask
  <1>4. ASSUME NEW i \in Handler, CreateBrokerEndpoint(i)
        PROVE Created'
    BY <1>4 DEF CreateBrokerEndpoint, End
  <1>5. ASSUME NEW i \in Handler, addMessagePool(i)
        PROVE Created'
    BY <1>5 DEF addMessagePool, End
  <1>6. ASSUME NEW i \in Handler, GetMessagePool(i)
        PROVE Created'
    BY <1>6 DEF GetMessagePool, End
  <1>7. ASSUME NEW i \in Handler, DeleteTopics(i)
        PROVE Created'
    <2>1. \A j \in Handler : h[j].op = "add" => h[j].queue # h[i].queue
      BY <1>7 DEF DeleteTopics, Discipline, OwnQueues
    <2> QED
      BY <1>7, <2>1 DEF DeleteTopics, End
  <1>8. ASSUME NEW i \in Handler, QueueDelete(i)
        PROVE Created'
    BY <1>8 DEF QueueDelete, End
  <1>9. ASSUME NEW i \in Handler, removeMessagePool(i)
        PROVE Created'
    BY <1>9 DEF removeMessagePool, End
  <1>10. ASSUME NEW i \in Handler, QueueDeclare(i)
         PROVE Created'
    BY <1>10 DEF QueueDeclare, End
  <1>11. CASE UNCHANGED vars
    BY <1>11 DEF vars
  <1> QED
    BY <1>1, <1>2, <1>3, <1>4, <1>5, <1>6, <1>7, <1>8, <1>9, <1>10, <1>11
    DEF Next, AddMessagePool, RemoveMessagePool

(* While a DELETE is under way the document is the one it found or gone,   *)
(* and gone only if the queue is: two DELETEs of a pool found the same.    *)
LEMMA DeletedStep ==
  ASSUME TypeOK, orderly, Discipline, OwnQueues, Deleted, [Next]_vars PROVE Deleted'
  <1> USE RegistryAssumption DEF TypeOK, Idle, Requests, NoAnswer, Deleted
  <1>1. ASSUME NEW i \in Handler, NEW p \in Pool, NEW q \in Queue, PostPool(i, p, q)
        PROVE Deleted'
    BY <1>1 DEF PostPool
  <1>2. ASSUME NEW i \in Handler, NEW p \in Pool, DeletePool(i, p)
        PROVE Deleted'
    BY <1>2 DEF DeletePool
  <1>3. ASSUME NEW i \in Handler, NEW p \in Pool, PostTask(i, p)
        PROVE Deleted'
    BY <1>3 DEF PostTask
  <1>4. ASSUME NEW i \in Handler, CreateBrokerEndpoint(i)
        PROVE Deleted'
    <2>1. \A j \in Handler : h[j].op = "remove" => h[j].queue # h[i].queue
      BY <1>4 DEF CreateBrokerEndpoint, Discipline, OwnQueues
    <2> QED
      BY <1>4, <2>1 DEF CreateBrokerEndpoint, End
  <1>5. ASSUME NEW i \in Handler, addMessagePool(i)
        PROVE Deleted'
    <2>1. \A j \in Handler : h[j].op = "remove" => h[j].pool # h[i].pool
      BY <1>5 DEF addMessagePool, Discipline
    <2> QED
      BY <1>5, <2>1 DEF addMessagePool, End
  <1>6. ASSUME NEW i \in Handler, GetMessagePool(i)
        PROVE Deleted'
    BY <1>6 DEF GetMessagePool, End
  <1>7. ASSUME NEW i \in Handler, DeleteTopics(i)
        PROVE Deleted'
    BY <1>7 DEF DeleteTopics, End
  <1>8. ASSUME NEW i \in Handler, QueueDelete(i)
        PROVE Deleted'
    BY <1>8 DEF QueueDelete, End
  <1>9. ASSUME NEW i \in Handler, removeMessagePool(i)
        PROVE Deleted'
    <2>1. h[i].queue \notin queues /\ docs[h[i].pool] \in {h[i].queue, None}
      BY <1>9 DEF removeMessagePool
    <2>2. \A j \in Handler : h[j].op = "remove" /\ h[j].queue # None /\ h[j].pool = h[i].pool
                             => h[j].queue \notin queues
      BY <2>1
    <2> QED
      BY <1>9, <2>2 DEF removeMessagePool, End
  <1>10. ASSUME NEW i \in Handler, QueueDeclare(i)
         PROVE Deleted'
    <2>1. \A j \in Handler : h[j].op = "remove" => h[j].queue # h[i].queue
      BY <1>10 DEF QueueDeclare, Discipline, OwnQueues
    <2> QED
      BY <1>10, <2>1 DEF QueueDeclare, End
  <1>11. CASE UNCHANGED vars
    BY <1>11 DEF vars
  <1> QED
    BY <1>1, <1>2, <1>3, <1>4, <1>5, <1>6, <1>7, <1>8, <1>9, <1>10, <1>11
    DEF Next, AddMessagePool, RemoveMessagePool

(* Nothing undoes what was answered, but an opposite request that began.   *)
LEMMA AnsweredStep ==
  ASSUME TypeOK, orderly, Good, [Next]_vars PROVE Answered'
  <1> USE RegistryAssumption DEF TypeOK, Idle, Requests, NoAnswer, Answered, Busy
  <1>0. Discipline /\ OwnQueues /\ Created /\ Deleted /\ Answered
    BY DEF Good
  <1>1. ASSUME NEW i \in Handler, NEW p \in Pool, NEW q \in Queue, PostPool(i, p, q)
        PROVE Answered'
    BY <1>0, <1>1 DEF PostPool
  <1>2. ASSUME NEW i \in Handler, NEW p \in Pool, DeletePool(i, p)
        PROVE Answered'
    BY <1>0, <1>2 DEF DeletePool
  <1>3. ASSUME NEW i \in Handler, NEW p \in Pool, PostTask(i, p)
        PROVE Answered'
    BY <1>0, <1>3 DEF PostTask
  <1>4. ASSUME NEW i \in Handler, CreateBrokerEndpoint(i)
        PROVE Answered'
    <2>1. \A p \in Pool : answer[p].op = "remove" => answer[p].queue # h[i].queue
      BY <1>0, <1>4 DEF CreateBrokerEndpoint, OwnQueues
    <2>2. \A j \in Handler :
            \/ h'[j].op = "none" \/ h'[j] = h[j]
            \/ (j = i /\ h'[j].op = "add" /\ h[j].op = "add" /\ h'[j].pool = h[j].pool)
      BY <1>4 DEF CreateBrokerEndpoint, End
    <2>3. /\ queues \subseteq queues' /\ queues' \subseteq queues \cup {h[i].queue}
          /\ UNCHANGED <<docs, answer>>
      BY <1>4 DEF CreateBrokerEndpoint
    <2> QED
      BY <1>0, <2>1, <2>2, <2>3
  <1>5. ASSUME NEW i \in Handler, addMessagePool(i)
        PROVE Answered'
    <2>1. h[i].queue \in Kafka => h[i].queue \in queues
      BY <1>0, <1>5 DEF addMessagePool, Created
    <2>2. ~Busy(h[i].pool, {"remove"})
      BY <1>0, <1>5 DEF addMessagePool, Discipline
    <2>3. answer[h[i].pool].op # "remove"
      BY <1>0, <1>5 DEF addMessagePool
    <2> QED
      BY <1>0, <1>5, <2>1, <2>2, <2>3 DEF addMessagePool, End, Succeed
  <1>6. ASSUME NEW i \in Handler, GetMessagePool(i)
        PROVE Answered'
    BY <1>0, <1>6 DEF GetMessagePool, End
  <1>7. ASSUME NEW i \in Handler, DeleteTopics(i)
        PROVE Answered'
    <2>1. \A p \in Pool : answer[p].op = "add" => docs[p] # h[i].queue
      BY <1>0, <1>7 DEF DeleteTopics, OwnQueues
    <2>2. \A j \in Handler :
            \/ h'[j].op = "none" \/ h'[j] = h[j]
            \/ (j = i /\ h'[j].op = "remove" /\ h[j].op = "remove" /\ h'[j].pool = h[j].pool)
      BY <1>7 DEF DeleteTopics, End
    <2>3. /\ queues' \subseteq queues /\ queues \subseteq queues' \cup {h[i].queue}
          /\ UNCHANGED <<docs, answer>>
      BY <1>7 DEF DeleteTopics
    <2> QED
      BY <1>0, <2>1, <2>2, <2>3
  <1>8. ASSUME NEW i \in Handler, QueueDelete(i)
        PROVE Answered'
    BY <1>0, <1>8 DEF QueueDelete, End
  <1>9. ASSUME NEW i \in Handler, removeMessagePool(i)
        PROVE Answered'
    <2>1. h[i].queue \notin queues
      BY <1>0, <1>9 DEF removeMessagePool, Deleted
    <2>2. ~Busy(h[i].pool, {"add"}) /\ ~Busy(h[i].pool, {"task"})
      BY <1>0, <1>9 DEF removeMessagePool, Discipline
    <2>3. answer[h[i].pool].op # "add"
      BY <1>0, <1>9 DEF removeMessagePool
    <2> QED
      BY <1>0, <1>9, <2>1, <2>2, <2>3 DEF removeMessagePool, End, Succeed
  <1>10. ASSUME NEW i \in Handler, QueueDeclare(i)
         PROVE Answered'
    <2>1. \A p \in Pool : answer[p].op = "remove" => answer[p].queue # h[i].queue
      BY <1>0, <1>10 DEF QueueDeclare, OwnQueues
    <2> QED
      BY <1>0, <1>10, <2>1 DEF QueueDeclare, End
  <1>11. CASE UNCHANGED vars
    BY <1>0, <1>11 DEF vars
  <1> QED
    BY <1>1, <1>2, <1>3, <1>4, <1>5, <1>6, <1>7, <1>8, <1>9, <1>10, <1>11
    DEF Next, AddMessagePool, RemoveMessagePool

LEMMA Invariance == Spec => []IInv
  <1>1. Init => IInv
    BY TypeInit, GoodInit DEF IInv
  <1>2. IInv /\ [Next]_vars => IInv'
    <2> SUFFICES ASSUME IInv, [Next]_vars PROVE IInv'
      OBVIOUS
    <2>1. TypeOK'
      BY TypeStep DEF IInv
    <2>2. orderly' = orderly
      BY DEF Next, vars, PostPool, DeletePool, PostTask, AddMessagePool, CreateBrokerEndpoint,
             addMessagePool, RemoveMessagePool, GetMessagePool, DeleteTopics, QueueDelete,
             removeMessagePool, QueueDeclare
    <2>3. ASSUME orderly PROVE Good'
      BY <2>3, DisciplineStep, OwnQueuesStep, CreatedStep, DeletedStep, AnsweredStep
      DEF IInv, Good
    <2> QED
      BY <2>1, <2>2, <2>3 DEF IInv
  <1> QED
    BY <1>1, <1>2, PTL DEF Spec

(* The records of handlers and pools keep their shape: a handler knows its *)
(* queue exactly when it works on it, and tasks touch rabbitmq queues only.*)
THEOREM TypeCorrect == Spec => []TypeOK
  BY Invariance, PTL DEF IInv

(* Whatever failed on the way, what the clients were told is the case.     *)
THEOREM AnswersHold == Spec => []AnsweredIsDone
  <1>1. IInv => AnsweredIsDone
    BY DEF IInv, Good, Answered, AnsweredIsDone
  <1> QED
    BY <1>1, Invariance, PTL

(* A DELETE that ends leaves no queue behind that another cannot find.     *)
THEOREM DeletesCanBeRepeated == Spec => DeleteCanBeRepeated
  <1>1. IInv /\ [Next]_vars =>
          [\A i \in Handler :
             orderly /\ h[i].op = "remove" /\ h[i].queue # None /\ h'[i] = Idle
               => (h[i].queue \in queues' => docs'[h[i].pool] = h[i].queue)]_vars
    <2> SUFFICES ASSUME IInv, [Next]_vars, orderly,
                        NEW i \in Handler, h[i].op = "remove", h[i].queue # None, h'[i] = Idle,
                        h[i].queue \in queues'
                 PROVE  docs'[h[i].pool] = h[i].queue
      OBVIOUS
    <2> USE RegistryAssumption DEF TypeOK, Idle, Requests
    <2>1. TypeOK /\ Deleted
      BY DEF IInv, Good
    <2>2. DeleteTopics(i) \/ QueueDelete(i) \/ removeMessagePool(i)
      <3>1. h'[i] # h[i] /\ h[i].pc # "get"
        BY <2>1
      <3>2. \A j \in Handler, p \in Pool, q \in Queue :
              ~PostPool(j, p, q) /\ ~DeletePool(j, p) /\ ~PostTask(j, p)
        BY <2>1, <3>1 DEF PostPool, DeletePool, PostTask
      <3>3. \A j \in Handler : AddMessagePool(j) \/ RemoveMessagePool(j) \/ QueueDeclare(j) => j = i
        <4> HIDE DEF TypeOK, Idle, Requests
        <4>1. \A j \in Handler : AddMessagePool(j) \/ RemoveMessagePool(j) \/ QueueDeclare(j) => Handles(j)
          BY <2>1, HandlesAdd, HandlesRemove, HandlesTask
        <4> QED BY ONLY <3>1, <4>1 DEF Handles
      <3> QED
        BY <2>1, <3>1, <3>2, <3>3
        DEF Next, vars, AddMessagePool, RemoveMessagePool, CreateBrokerEndpoint,
            addMessagePool, GetMessagePool, QueueDeclare
    <2>3. CASE DeleteTopics(i)
      BY <2>1, <2>3 DEF DeleteTopics, Deleted
    <2>4. CASE QueueDelete(i)
      BY <2>1, <2>4 DEF QueueDelete, Deleted
    <2>5. CASE removeMessagePool(i)
      BY <2>1, <2>5 DEF removeMessagePool, Deleted
    <2> QED
      BY <2>2, <2>3, <2>4, <2>5
  <1> QED
    BY <1>1, Invariance, PTL DEF Spec, DeleteCanBeRepeated
=============================================================================
