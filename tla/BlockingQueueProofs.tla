------------------------- MODULE BlockingQueueProofs -------------------------
(***************************************************************************)
(* BlockingQueue for any number of goroutines, any elements and any        *)
(* capacity: its invariants, and that it implements ClosableQueue.         *)
(***************************************************************************)
EXTENDS BlockingQueue, FiniteSetTheorems, SequenceTheorems, TLAPS

(* Every goroutine is on at most one list, and the lists hold goroutines.  *)
THEOREM TypeCorrect == Spec => []TypeOK
<1>1. Init => TypeOK
  <2> SUFFICES ASSUME Init PROVE TypeOK
    OBVIOUS
  <2>1. elems \in Seq(Elem) BY DEF Init
  <2>2. closed \in BOOLEAN BY DEF Init
  <2>3. waitFull \subseteq Putters \X Elem BY DEF Init
  <2>4. wakeFull \subseteq Putters \X Elem BY DEF Init
  <2>5. waitFull \cap wakeFull = {} BY DEF Init
  <2> QED BY <2>1, <2>2, <2>3, <2>4, <2>5 DEF Init, TypeOK
<1>2. TypeOK /\ [Next]_vars => TypeOK'
  <2> SUFFICES ASSUME TypeOK, [Next]_vars PROVE TypeOK'
    OBVIOUS
  <2> USE DEF TypeOK
  <2>1. ASSUME NEW p \in Putters, NEW el \in Elem, PutRefused(p, el) PROVE TypeOK'
    BY <2>1 DEF PutRefused
  <2>2. ASSUME NEW p \in Putters, NEW el \in Elem, PutParks(p, el) PROVE TypeOK'
    <3>1. <<p, el>> \notin waitFull
      BY <2>2 DEF PutParks, InPut, Idle
    <3>2. waitFull' \cap wakeFull' = {}
      BY <2>2 DEF PutParks
    <3> QED BY <2>2, <3>2 DEF PutParks
  <2>3. ASSUME NEW p \in Putters, NEW el \in Elem, PutPushes(p, el) PROVE TypeOK'
    BY <2>3 DEF PutPushes, SignalEmpty
  <2>4. ASSUME NEW g \in Getters, GetPops(g) PROVE TypeOK'
    BY <2>4 DEF GetPops, SignalFull
  <2>5. ASSUME NEW g \in Getters, GetParks(g) PROVE TypeOK'
    BY <2>5 DEF GetParks
  <2>6. ASSUME NEW g \in Getters, GetNone(g) PROVE TypeOK'
    BY <2>6 DEF GetNone
  <2>7. ASSUME NEW clear \in BOOLEAN, Close(clear) PROVE TypeOK'
    BY <2>7 DEF Close
  <2>8. CASE UNCHANGED vars
    BY <2>8 DEF vars
  <2> QED BY <2>1, <2>2, <2>3, <2>4, <2>5, <2>6, <2>7, <2>8 DEF Next, Put, Get
<1> QED BY <1>1, <1>2, PTL DEF Spec

-----------------------------------------------------------------------------
(* Counting facts shared by the two wake-up invariants.                    *)
LEMMA WokenFinite ==
  ASSUME TypeOK
  PROVE  /\ IsFiniteSet(wakeEmpty) /\ Cardinality(wakeEmpty) \in Nat
         /\ IsFiniteSet(wakeFull) /\ Cardinality(wakeFull) \in Nat
<1>1. IsFiniteSet(wakeEmpty)
  BY QueueAssumption, FS_Subset DEF TypeOK
<1>2. IsFiniteSet(Putters \X Elem)
  BY QueueAssumption, FS_Product
<1>3. IsFiniteSet(wakeFull)
  BY <1>2, FS_Subset DEF TypeOK
<1> QED BY <1>1, <1>3, FS_CardinalityType

LEMMA AddRemove ==
  ASSUME NEW S, IsFiniteSet(S), NEW x
  PROVE  /\ x \notin S => Cardinality(S \cup {x}) = Cardinality(S) + 1
         /\ Cardinality(S \ {x}) \in Nat
         /\ Cardinality(S \ {x}) >= Cardinality(S) - 1
<1>0. Cardinality(S) \in Nat /\ Cardinality(S \ {x}) \in Nat
  BY FS_CardinalityType, FS_RemoveElement
<1>1. CASE x \in S
  BY <1>0, <1>1, FS_RemoveElement
<1>2. CASE x \notin S
  <2>1. S \ {x} = S
    BY <1>2
  <2> QED BY <1>0, <1>2, <2>1, FS_AddElement
<1> QED BY <1>1, <1>2

(* Close leaves no getter parked and none parks on a closed queue.         *)
Released == closed => waitEmpty = {}

LEMMA GettersAreReleased == Spec => []Released
<1>1. Init => Released
  BY DEF Init, Released
<1>2. Released /\ [Next]_vars => Released'
  <2> SUFFICES ASSUME Released, [Next]_vars, closed' PROVE waitEmpty' = {}
    BY DEF Released
  <2>1. CASE Next
    <3>1. ASSUME NEW p \in Putters, NEW el \in Elem, Put(p, el) PROVE waitEmpty' = {}
      BY <3>1 DEF Put, PutRefused, PutParks, PutPushes, Released
    <3>2. ASSUME NEW g \in Getters, Get(g) PROVE waitEmpty' = {}
      BY <3>2 DEF Get, GetPops, GetParks, GetNone, Released
    <3> QED BY <2>1, <3>1, <3>2 DEF Next, Close
  <2>2. CASE UNCHANGED vars
    BY <2>2 DEF vars, Released
  <2> QED BY <2>1, <2>2
<1> QED BY <1>1, <1>2, PTL DEF Spec

(* No getter sleeps over an element: the inductive step counts, for every  *)
(* critical section, the woken getters against the queued elements.        *)
Counted == ~closed /\ waitEmpty # {} => Cardinality(wakeEmpty) >= Len(elems)

THEOREM GettersAreWoken == Spec => []GetterWakeups
<1>1. Init => Counted
  BY DEF Init, Counted
<1>2. TypeOK /\ Counted /\ [Next]_vars => Counted'
  <2> SUFFICES ASSUME TypeOK, Counted, [Next]_vars,
                      ~closed', waitEmpty' # {}
               PROVE  Cardinality(wakeEmpty') >= Len(elems')
    BY DEF Counted
  <2> USE DEF Counted
  <2>0. IsFiniteSet(wakeEmpty) /\ Cardinality(wakeEmpty) \in Nat /\ Len(elems) \in Nat
    BY WokenFinite DEF TypeOK
  <2>1. ASSUME NEW p \in Putters, NEW el \in Elem, PutPushes(p, el)
        PROVE  Cardinality(wakeEmpty') >= Len(elems')
    <3>1. PICK g \in waitEmpty : waitEmpty' = waitEmpty \ {g} /\ wakeEmpty' = wakeEmpty \cup {g}
      BY <2>1 DEF PutPushes, SignalEmpty
    <3>2. Cardinality(wakeEmpty') = Cardinality(wakeEmpty) + 1
      BY <2>0, <3>1, AddRemove DEF TypeOK
    <3>3. Len(elems') = Len(elems) + 1
      BY <2>1 DEF PutPushes, TypeOK
    <3>4. Cardinality(wakeEmpty) >= Len(elems)
      BY <2>1, <3>1 DEF PutPushes
    <3> QED BY <2>0, <3>2, <3>3, <3>4
  <2>2. ASSUME NEW g \in Getters, GetPops(g)
        PROVE  Cardinality(wakeEmpty') >= Len(elems')
    <3>1. Len(elems') = Len(elems) - 1
      BY <2>2 DEF GetPops, TypeOK
    <3>2. Cardinality(wakeEmpty') >= Cardinality(wakeEmpty) - 1
      BY <2>0, <2>2, AddRemove DEF GetPops
    <3>3. Cardinality(wakeEmpty) >= Len(elems)
      BY <2>2 DEF GetPops
    <3>4. Cardinality(wakeEmpty') \in Nat
      BY <2>0, <2>2, AddRemove DEF GetPops
    <3> QED BY <2>0, <3>1, <3>2, <3>3, <3>4
  <2>3. ASSUME NEW g \in Getters, GetParks(g)
        PROVE  Cardinality(wakeEmpty') >= Len(elems')
    <3>1. elems' = <<>> /\ IsFiniteSet(wakeEmpty')
      BY <2>0, <2>3, FS_RemoveElement DEF GetParks
    <3>2. Len(elems') = 0 /\ Cardinality(wakeEmpty') \in Nat
      BY <3>1, FS_CardinalityType
    <3> QED BY <3>2
  <2>4. ASSUME NEW p \in Putters, NEW el \in Elem, PutRefused(p, el) \/ PutParks(p, el)
        PROVE  Cardinality(wakeEmpty') >= Len(elems')
    BY <2>4 DEF PutRefused, PutParks
  <2>5. ASSUME NEW g \in Getters, GetNone(g) PROVE FALSE
    BY <2>5 DEF GetNone
  <2>6. ASSUME NEW clear \in BOOLEAN, Close(clear) PROVE FALSE
    BY <2>6 DEF Close
  <2>7. CASE UNCHANGED vars
    BY <2>7 DEF vars
  <2> QED BY <2>1, <2>2, <2>3, <2>4, <2>5, <2>6, <2>7 DEF Next, Put, Get
<1>3. Released /\ Counted => GetterWakeups
  BY DEF Released, Counted, GetterWakeups
<1> QED BY <1>1, <1>2, <1>3, GettersAreReleased, TypeCorrect, PTL DEF Spec

(* No Put sleeps beside a free slot, by the same count over q.full.        *)
THEOREM PuttersAreWoken == Spec => []PutterWakeups
<1>1. Init => PutterWakeups
  BY DEF Init, PutterWakeups
<1>2. TypeOK /\ PutterWakeups /\ [Next]_vars => PutterWakeups'
  <2> SUFFICES ASSUME TypeOK, PutterWakeups, [Next]_vars,
                      ~closed', waitFull' # {}
               PROVE  Cardinality(wakeFull') + Len(elems') >= MaxSize
    BY DEF PutterWakeups
  <2> USE QueueAssumption DEF PutterWakeups
  <2>0. IsFiniteSet(wakeFull) /\ Cardinality(wakeFull) \in Nat /\ Len(elems) \in Nat
    BY WokenFinite DEF TypeOK
  <2>1. ASSUME NEW p \in Putters, NEW el \in Elem, PutPushes(p, el)
        PROVE  Cardinality(wakeFull') + Len(elems') >= MaxSize
    <3>1. Len(elems') = Len(elems) + 1
      BY <2>1 DEF PutPushes, TypeOK
    <3>2. Cardinality(wakeFull) + Len(elems) >= MaxSize
      BY <2>1 DEF PutPushes
    <3>3. /\ Cardinality(wakeFull') >= Cardinality(wakeFull) - 1
          /\ Cardinality(wakeFull') \in Nat
      BY <2>0, <2>1, AddRemove DEF PutPushes
    <3> QED BY <2>0, <3>1, <3>2, <3>3
  <2>2. ASSUME NEW p \in Putters, NEW el \in Elem, PutParks(p, el)
        PROVE  Cardinality(wakeFull') + Len(elems') >= MaxSize
    <3>1. Len(elems') >= MaxSize /\ Len(elems') \in Nat
      BY <2>0, <2>2 DEF PutParks, isFull
    <3>2. Cardinality(wakeFull') \in Nat
      BY <2>0, <2>2, FS_RemoveElement, FS_CardinalityType DEF PutParks
    <3> QED BY <3>1, <3>2
  <2>3. ASSUME NEW g \in Getters, GetPops(g)
        PROVE  Cardinality(wakeFull') + Len(elems') >= MaxSize
    <3>1. PICK c \in waitFull : waitFull' = waitFull \ {c} /\ wakeFull' = wakeFull \cup {c}
      BY <2>3 DEF GetPops, SignalFull
    <3>2. Cardinality(wakeFull') = Cardinality(wakeFull) + 1
      BY <2>0, <3>1, AddRemove DEF TypeOK
    <3>3. Len(elems') = Len(elems) - 1
      BY <2>3 DEF GetPops, TypeOK
    <3>4. Cardinality(wakeFull) + Len(elems) >= MaxSize
      BY <2>3, <3>1 DEF GetPops
    <3> QED BY <2>0, <3>2, <3>3, <3>4
  <2>4. ASSUME NEW g \in Getters, GetParks(g) \/ GetNone(g)
        PROVE  Cardinality(wakeFull') + Len(elems') >= MaxSize
    BY <2>4 DEF GetParks, GetNone
  <2>5. ASSUME NEW p \in Putters, NEW el \in Elem, PutRefused(p, el) PROVE FALSE
    BY <2>5 DEF PutRefused
  <2>6. ASSUME NEW clear \in BOOLEAN, Close(clear) PROVE FALSE
    BY <2>6 DEF Close
  <2>7. CASE UNCHANGED vars
    BY <2>7 DEF vars
  <2> QED BY <2>1, <2>2, <2>3, <2>4, <2>5, <2>6, <2>7 DEF Next, Put, Get
<1> QED BY <1>1, <1>2, TypeCorrect, PTL DEF Spec

(* A bounded queue stays within its capacity whoever barges in.            *)
THEOREM CapacityIsKept == Spec => []WithinCapacity
<1>1. Init => WithinCapacity
  BY QueueAssumption DEF Init, WithinCapacity
<1>2. TypeOK /\ WithinCapacity /\ [Next]_vars => WithinCapacity'
  <2> SUFFICES ASSUME TypeOK, WithinCapacity, [Next]_vars, MaxSize > 0
               PROVE  Len(elems') <= MaxSize
    BY DEF WithinCapacity
  <2>0. Len(elems) \in Nat /\ Len(elems) <= MaxSize /\ MaxSize \in Int
    BY QueueAssumption DEF TypeOK, WithinCapacity
  <2>1. ASSUME NEW p \in Putters, NEW el \in Elem, PutPushes(p, el)
        PROVE  Len(elems') <= MaxSize
    BY <2>0, <2>1 DEF PutPushes, isFull, TypeOK
  <2>2. ASSUME NEW g \in Getters, GetPops(g) PROVE Len(elems') <= MaxSize
    BY <2>0, <2>2 DEF GetPops, TypeOK
  <2>3. ASSUME NEW clear \in BOOLEAN, Close(clear) PROVE Len(elems') <= MaxSize
    BY <2>0, <2>3 DEF Close
  <2>4. CASE UNCHANGED elems
    BY <2>0, <2>4
  <2> QED BY <2>1, <2>2, <2>3, <2>4 DEF Next, Put, Get, vars, PutRefused, PutParks,
                                      GetParks, GetNone
<1> QED BY <1>1, <1>2, TypeCorrect, PTL DEF Spec

(* Every critical section is one operation of the closable queue, or none: *)
(* parking and waking cannot be seen from outside.                         *)
THEOREM Refinement == Spec => ImplementsClosableQueue
<1>1. Init => Abstract!Init
  BY DEF Init, Abstract!Init
<1>2. TypeOK /\ [Next]_vars => [Abstract!Next]_(Abstract!qvars)
  <2> SUFFICES ASSUME TypeOK, [Next]_vars
               PROVE  Abstract!Next \/ UNCHANGED <<elems, closed>>
    BY DEF Abstract!qvars
  <2>1. ASSUME NEW p \in Putters, NEW el \in Elem, PutPushes(p, el) PROVE Abstract!Put(el)
    BY <2>1 DEF PutPushes, Abstract!Put
  <2>2. ASSUME NEW g \in Getters, GetPops(g)
        PROVE  Head(elems) \in Elem /\ Abstract!Get(Head(elems))
    BY <2>2 DEF GetPops, Abstract!Get, TypeOK
  <2>3. ASSUME NEW clear \in BOOLEAN, Close(clear) PROVE Abstract!Close(clear)
    BY <2>3 DEF Close, Abstract!Close
  <2>4. CASE Next
    BY <2>1, <2>2, <2>3, <2>4 DEF Next, Put, Get, Abstract!Next, PutRefused, PutParks,
                                   GetParks, GetNone
  <2>5. CASE UNCHANGED vars
    BY <2>5 DEF vars
  <2> QED BY <2>4, <2>5
<1> QED BY <1>1, <1>2, TypeCorrect, PTL DEF Spec, ImplementsClosableQueue, Abstract!Spec
=============================================================================
