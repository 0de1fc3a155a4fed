------------------------------- MODULE RouteMap -------------------------------
(***************************************************************************)
(* What database.routes promises: a map from paths to routes with atomic   *)
(* operations.  A reader asks for a path and is answered with what the map *)
(* holds at some moment between question and answer, or with an error.     *)
(* After a write that failed the map may hold the old or the new.          *)
(***************************************************************************)
CONSTANTS Path, Route, Reader,
          None,       \* no route: ErrNoSuchPath
          NoAnswer,   \* the question is open
          Failed      \* any other error

VARIABLES m,          \* m[p]: what path p may hold, routes or None
          got         \* got[r]: the path r asked for last, and the answer

mvars == <<m, got>>

Init == /\ m = [p \in Path |-> {None}]
        /\ got \in [Reader -> [path : Path, answer : {Failed}]]

Holds(p, t) == \E y \in m[p] \ {None} : y.type = t

Add(p, x) == None \in m[p] /\ m' = [m EXCEPT ![p] = {x}] /\ UNCHANGED got
Update(p, x) == Holds(p, x.type) /\ m' = [m EXCEPT ![p] = {x}] /\ UNCHANGED got
Remove(p) == m' = [m EXCEPT ![p] = {None}] /\ UNCHANGED got
WriteFails(p, x) == m' = [m EXCEPT ![p] = @ \cup {x}] /\ UNCHANGED got

Ask(r, p) == /\ got[r].answer # NoAnswer
             /\ got' = [got EXCEPT ![r] = [path |-> p, answer |-> NoAnswer]]
             /\ UNCHANGED m

Answer(r) == /\ got[r].answer = NoAnswer
             /\ \E a \in m[got[r].path] \cup {Failed} : got' = [got EXCEPT ![r].answer = a]
             /\ UNCHANGED m

Next == \/ \E p \in Path, x \in Route : Add(p, x) \/ Update(p, x) \/ WriteFails(p, x)
        \/ \E p \in Path : Remove(p) \/ WriteFails(p, None)
        \/ \E r \in Reader : Answer(r) \/ \E p \in Path : Ask(r, p)

Spec == Init /\ [][Next]_mvars
=============================================================================
