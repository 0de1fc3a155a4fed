----------------------------- MODULE ScriptStoreMC -----------------------------
(* Model checking ScriptStore: routes, codes and handlers are               *)
(* interchangeable, and only invariants are checked.                        *)
EXTENDS ScriptStore, TLC

Symmetry == Permutations(Path) \cup Permutations(Code) \cup Permutations(Handler)
=============================================================================
