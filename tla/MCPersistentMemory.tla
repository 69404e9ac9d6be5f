------------------------- MODULE MCPersistentMemory -------------------------
(* An instance of PersistentMemory: two agents share the store. *)
EXTENDS PersistentMemory

CONSTANTS a, b

MCAgent == {a, b}
MCTokenBudget == [n \in Agent |-> IF n = a THEN 1 ELSE 2]

=============================================================================
