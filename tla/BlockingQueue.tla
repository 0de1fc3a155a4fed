---------------------------- MODULE BlockingQueue ----------------------------
(***************************************************************************)
(* util.BlockingQueue (internal/util/blocking_queue.go): a deque guarded   *)
(* by one mutex with two condition variables, q.empty for goroutines in    *)
(* Get and q.full for goroutines in Put.                                   *)
(*                                                                         *)
(* sync.Cond.Wait releases the mutex and parks the caller; Signal takes    *)
(* one parked goroutine off the list, Broadcast all of them, and each of   *)
(* those has to win the mutex again before it re-tests its loop condition. *)
(* Between the two any other goroutine may run, so a critical section (from*)
(* Lock or wake-up to Unlock or Wait) is one action here and a call that   *)
(* parks takes several.                                                    *)
(***************************************************************************)
EXTENDS Integers, Sequences, FiniteSets

CONSTANTS Putters,    \* goroutines that call Put
          Getters,    \* goroutines that call Get
          Elem,       \* elements ever put, each by one call: bounds the runs
          MaxSize     \* q.max_size, not positive for an unbounded queue

ASSUME QueueAssumption == /\ MaxSize \in Int
                          /\ IsFiniteSet(Putters)
                          /\ IsFiniteSet(Getters)
                          /\ IsFiniteSet(Elem)

VARIABLES elems,      \* q.elems
          closed,     \* q.closed
          waitEmpty,  \* getters parked in q.empty.Wait()
          wakeEmpty,  \* getters off the list of q.empty, not yet running
          waitFull,   \* <<p, el>>: p is parked in q.full.Wait() in Put(el)
          wakeFull,   \* <<p, el>>: off the list of q.full, not yet running
          called      \* the elements already passed to a Put call

vars == <<elems, closed, waitEmpty, wakeEmpty, waitFull, wakeFull, called>>

TypeOK == /\ elems \in Seq(Elem)
          /\ closed \in BOOLEAN
          /\ waitEmpty \subseteq Getters
          /\ wakeEmpty \subseteq Getters
          /\ waitFull \subseteq Putters \X Elem
          /\ wakeFull \subseteq Putters \X Elem
          /\ called \subseteq Elem
          /\ waitEmpty \cap wakeEmpty = {}
          /\ waitFull \cap wakeFull = {}

Init == /\ elems = <<>>
        /\ closed = FALSE
        /\ waitEmpty = {} /\ wakeEmpty = {}
        /\ waitFull = {} /\ wakeFull = {}
        /\ called = {}

\* Mutant: the comparison is off by one.
isFull_OffByOne == MaxSize > 0 /\ Len(elems) > MaxSize

isFull == MaxSize > 0 /\ Len(elems) >= MaxSize

\* Mutants: the call of Signal is missing; the waiter stays on the list.
SignalEmpty_Missing(asleep, awake) == waitEmpty' = asleep /\ wakeEmpty' = awake
SignalFull_Missing(asleep, awake) == waitFull' = asleep /\ wakeFull' = awake
SignalEmpty_KeepsWaiter(asleep, awake) ==
  waitEmpty' = asleep /\ \E g \in Getters : wakeEmpty' = awake \cup {g}

\* q.empty.Signal() and q.full.Signal(): one parked goroutine, if any.
SignalEmpty(asleep, awake) ==
  \/ asleep = {} /\ waitEmpty' = asleep /\ wakeEmpty' = awake
  \/ \E g \in asleep : waitEmpty' = asleep \ {g} /\ wakeEmpty' = awake \cup {g}

SignalFull(asleep, awake) ==
  \/ asleep = {} /\ waitFull' = asleep /\ wakeFull' = awake
  \/ \E c \in asleep : waitFull' = asleep \ {c} /\ wakeFull' = awake \cup {c}

Idle(p) == \A el \in Elem : <<p, el>> \notin waitFull \cup wakeFull

\* p holds the mutex in Put(el): it has just called it, or was woken in it.
InPut(p, el) == \/ Idle(p) /\ el \notin called
                \/ <<p, el>> \in wakeFull

InGet(g) == g \notin waitEmpty

PutRefused(p, el) ==                                      \* return false
  /\ InPut(p, el)
  /\ closed
  /\ wakeFull' = wakeFull \ {<<p, el>>}
  /\ called' = called \cup {el}
  /\ UNCHANGED <<elems, closed, waitEmpty, wakeEmpty, waitFull>>

PutParks(p, el) ==                                        \* q.full.Wait()
  /\ InPut(p, el)
  /\ ~closed /\ isFull
  /\ waitFull' = waitFull \cup {<<p, el>>}
  /\ wakeFull' = wakeFull \ {<<p, el>>}
  /\ called' = called \cup {el}
  /\ UNCHANGED <<elems, closed, waitEmpty, wakeEmpty>>

\* Mutant: no test of q.closed after q.full.Wait().
PutPushes_IgnoresClosed(p, el) ==
  /\ InPut(p, el)
  /\ ~isFull
  /\ elems' = Append(elems, el)
  /\ SignalEmpty(waitEmpty, wakeEmpty)
  /\ wakeFull' = wakeFull \ {<<p, el>>}
  /\ called' = called \cup {el}
  /\ UNCHANGED <<closed, waitFull>>

PutPushes(p, el) ==                                       \* return true
  /\ InPut(p, el)
  /\ ~closed /\ ~isFull
  /\ elems' = Append(elems, el)
  /\ SignalEmpty(waitEmpty, wakeEmpty)
  /\ wakeFull' = wakeFull \ {<<p, el>>}
  /\ called' = called \cup {el}
  /\ UNCHANGED <<closed, waitFull>>

GetPops(g) ==                                             \* return Some(el)
  /\ InGet(g)
  /\ elems # <<>>
  /\ elems' = Tail(elems)
  /\ SignalFull(waitFull, wakeFull)
  /\ wakeEmpty' = wakeEmpty \ {g}
  /\ UNCHANGED <<closed, waitEmpty, called>>

GetParks(g) ==                                            \* q.empty.Wait()
  /\ InGet(g)
  /\ ~closed /\ elems = <<>>
  /\ waitEmpty' = waitEmpty \cup {g}
  /\ wakeEmpty' = wakeEmpty \ {g}
  /\ UNCHANGED <<elems, closed, waitFull, wakeFull, called>>

GetNone(g) ==                                             \* return None
  /\ InGet(g)
  /\ closed /\ elems = <<>>
  /\ wakeEmpty' = wakeEmpty \ {g}
  /\ UNCHANGED <<elems, closed, waitEmpty, waitFull, wakeFull, called>>

\* Mutant: Signal where the code has Broadcast.
Close_Signals(clear) ==
  /\ closed' = TRUE
  /\ elems' = IF clear THEN <<>> ELSE elems
  /\ SignalEmpty(waitEmpty, wakeEmpty)
  /\ UNCHANGED <<waitFull, wakeFull, called>>

\* Broadcasts q.empty only: a Put parked on q.full stays parked.
Close(clear) ==
  /\ closed' = TRUE
  /\ elems' = IF clear THEN <<>> ELSE elems
  /\ waitEmpty' = {}
  /\ wakeEmpty' = wakeEmpty \cup waitEmpty
  /\ UNCHANGED <<waitFull, wakeFull, called>>

Put(p, el) == PutRefused(p, el) \/ PutParks(p, el) \/ PutPushes(p, el)
Get(g) == GetPops(g) \/ GetParks(g) \/ GetNone(g)

Next == \/ \E p \in Putters, el \in Elem : Put(p, el)
        \/ \E g \in Getters : Get(g)
        \/ \E clear \in BOOLEAN : Close(clear)

Spec == Init /\ [][Next]_vars

(***************************************************************************)
(* Fairness: the getters are worker loops that come back to Get after every*)
(* task, and sync.Mutex does not starve a goroutine that was woken.  Nobody*)
(* is obliged to start a Put or to close the queue.                        *)
(***************************************************************************)
Fairness == /\ \A g \in Getters : WF_vars(Get(g))
            /\ \A p \in Putters : \A el \in Elem :
                 WF_vars(<<p, el>> \in wakeFull /\ Put(p, el))

FairSpec == Spec /\ Fairness

-----------------------------------------------------------------------------
(* No lost wake-up.  While a getter is parked the queue is open, and enough*)
(* other getters are on their way to take every queued element: Put signals*)
(* once per element, a getter that barges in takes an element instead, and *)
(* Close wakes all (mpTaskScheduler.Stop relies on it).                    *)
GetterWakeups ==
  waitEmpty # {} => ~closed /\ Cardinality(wakeEmpty) >= Len(elems)

(* The same for Put: while a call is parked on an open bounded queue, the  *)
(* free slots do not outnumber the woken calls that will fill them, since  *)
(* Get signals q.full once for every element it takes.                     *)
PutterWakeups ==
  ~closed /\ waitFull # {} => Cardinality(wakeFull) + Len(elems) >= MaxSize

(* A woken Put re-tests isFull before it pushes, so a bounded queue never  *)
(* exceeds its capacity whoever barges in between signal and wake-up.      *)
WithinCapacity == MaxSize > 0 => Len(elems) <= MaxSize

(* The queue is a closable FIFO queue: order is kept, nothing is accepted  *)
(* once Close has returned, None is answered only when closed and drained. *)
Abstract == INSTANCE ClosableQueue
ImplementsClosableQueue == Abstract!Spec

(* Every element put is eventually taken or cleared: no interleaving of    *)
(* signals and barging getters leaves it behind in the deque.              *)
Queued(el) == \E i \in DOMAIN elems : elems[i] = el
ElementsLeave == \A el \in Elem : Queued(el) ~> ~Queued(el)

(* A parked Put returns, or the queue is closed.  The exception is needed: *)
(* Close does not broadcast q.full, and a Close(true) leaves no element    *)
(* whose Get could signal it.                                              *)
ParkedPutReturns ==
  \A c \in Putters \X Elem :
    c \in waitFull \cup wakeFull ~> c \notin waitFull \cup wakeFull \/ closed
=============================================================================
