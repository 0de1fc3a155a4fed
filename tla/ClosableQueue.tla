---------------------------- MODULE ClosableQueue ----------------------------
(***************************************************************************)
(* What util.BlockingQueue promises to its callers, with the mutex, the    *)
(* condition variables and the parked goroutines left out: a FIFO queue    *)
(* that can be closed once and for all, that refuses elements when closed  *)
(* and that answers None only when it is closed and drained.  BlockingQueue*)
(* implements it; TaskScheduler is built on it.                            *)
(***************************************************************************)
EXTENDS Sequences

CONSTANT Elem        \* the elements callers may put

VARIABLES elems,     \* q.elems, a deque
          closed     \* q.closed

qvars == <<elems, closed>>

Init == elems = <<>> /\ closed = FALSE

\* Put returns true: the element is at the back of the queue.
Put(el) == /\ ~closed
           /\ elems' = Append(elems, el)
           /\ UNCHANGED closed

\* Put returns false: nothing happened.
PutRefused == closed /\ UNCHANGED qvars

\* Get returns the element at the front, whether the queue is closed or not.
Get(el) == /\ elems # <<>>
           /\ el = Head(elems)
           /\ elems' = Tail(elems)
           /\ UNCHANGED closed

\* Get returns None.
GetNone == /\ closed
           /\ elems = <<>>
           /\ UNCHANGED qvars

Close(clear) == /\ closed' = TRUE
                /\ elems' = IF clear THEN <<>> ELSE elems

Next == \/ \E el \in Elem : Put(el) \/ Get(el)
        \/ PutRefused
        \/ GetNone
        \/ \E clear \in BOOLEAN : Close(clear)

Spec == Init /\ [][Next]_qvars
=============================================================================
