------------------------------- MODULE Delivery -------------------------------
(***************************************************************************)
(* What the broker tasks promise about a message: it is in one place at a  *)
(* time, moves from the write task to the queue, to the read task and, by  *)
(* an ESB record, to a write task of the linked pool, never back and never *)
(* twice.  It may be lost anywhere on its way.  A topic may give a message *)
(* out again: this is another one, of Repeat, which begins in the topic and*)
(* goes on like any other.                                                 *)
(***************************************************************************)
CONSTANTS Pool,
          Source,  \* the pool the clients write to
          Link,    \* Link[p]: the pool linked to p by an ESB record, or None
          Msg,
          Repeat,  \* those that are not sent but given out again
          None

VARIABLES place,   \* place[m]: where m is
          Topic    \* the pools that give messages out again

Place == {<<"new", None>>, <<"gone", None>>}
           \cup ({"writing", "queued", "read"} \X Pool)

Begins(m) == IF m \in Repeat THEN {"queued"} \X Topic ELSE {<<"writing", Source>>}

\* The moves of one message.
Moves == {<<<<"writing", p>>, <<"queued", p>>>> : p \in Pool}
           \cup {<<<<"queued", p>>, <<"read", p>>>> : p \in Pool}
           \cup {<<<<"read", p>>, <<"writing", Link[p]>>>> : p \in {q \in Pool : Link[q] # None}}
           \cup {<<x, <<"gone", None>>>> : x \in Place \ {<<"new", None>>}}

Init == /\ place = [m \in Msg |-> <<"new", None>>]
        /\ Topic \subseteq Pool

Next == /\ place' \in [Msg -> Place]
        /\ \A m \in Msg : \/ place'[m] = place[m]
                          \/ place[m] = <<"new", None>> /\ place'[m] \in Begins(m)
                          \/ <<place[m], place'[m]>> \in Moves
        /\ UNCHANGED Topic

Spec == Init /\ [][Next]_<<place, Topic>>
=============================================================================
