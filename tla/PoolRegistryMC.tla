--------------------------- MODULE PoolRegistryMC ---------------------------
(* PoolRegistry with a pool that may be a topic or a queue, and a topic. *)
EXTENDS PoolRegistry

CONSTANTS p1, p2, k1, k2, r1

MCPool == {p1, p2}
MCQueue == {k1, k2, r1}
MCKafka == {k1, k2}
MCOwn == [p \in MCPool |-> IF p = p1 THEN {k1, r1} ELSE {k2}]
=============================================================================
