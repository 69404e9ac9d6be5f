------------------------- MODULE MCProcessRegistry -------------------------
(* Instances of ProcessRegistry: a supervisor with children. *)
EXTENDS ProcessRegistry

CONSTANTS s, a, b

MCName == {s, a, b}
\* The supervisor runs with children for a and b, or with a chain of two.
SupervisorWithTwo ==
  << [name |-> s, parent |-> None, children |-> <<2, 3>>],
     [name |-> a, parent |-> 1, children |-> <<>>],
     [name |-> b, parent |-> 1, children |-> <<>>] >>
Chain ==
  << [name |-> s, parent |-> None, children |-> <<2>>],
     [name |-> a, parent |-> 1, children |-> <<3>>],
     [name |-> b, parent |-> 2, children |-> <<>>] >>
Nothing == <<>>

OneForOne == [n \in Name |-> "one_for_one"]
OneForAll == [n \in Name |-> "one_for_all"]
RestForOne == [n \in Name |-> "rest_for_one"]
Permanent == [n \in Name |-> "permanent"]
Mixed == [n \in Name |-> IF n = a THEN "permanent" ELSE "transient"]
WithTemporary == [n \in Name |-> IF n = b THEN "temporary" ELSE "permanent"]
Once == [n \in Name |-> 1]
Twice == [n \in Name |-> 2]
NoBackoff == [n \in Name |-> FALSE]
WithBackoff == [n \in Name |-> TRUE]

=============================================================================
