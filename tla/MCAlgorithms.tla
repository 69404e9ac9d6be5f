---------------------------- MODULE MCAlgorithms ----------------------------
(***************************************************************************)
(* The pure functions of Toolchain, Monitors and PageTable on all inputs   *)
(* of a bounded size: a program, the events of an agent or a stream, the   *)
(* records of a connection, or the calls to a page table, built one        *)
(* element at a time.                                                      *)
(***************************************************************************)
EXTENDS Toolchain, Monitors, PageTable

CONSTANTS MaxProgram, MaxEvents, MaxCalls   \* bounds

VARIABLES kind, input

Name(x) == [expr |-> "name", name |-> x]
Number(v) == [expr |-> "const", value |-> v]
Atoms == {Name("x"), Name("y"), Number(1)}
Bin(op, l, r) == [expr |-> op, left |-> l, right |-> r]
Conditions == {Bin("lt", Name("x"), Number(1)), Bin("lt", Name("y"), Name("x"))}
Expressions ==
  Atoms \cup {Bin(op, l, r) : op \in {"sub", "lt"}, l \in Atoms, r \in {Name("x"), Number(1)}}
  \cup {[expr |-> "neg", of |-> Name("x")],
        [expr |-> "if", test |-> Bin("eq", Name("x"), Name("y")),
         then |-> Number(1), other |-> Bin("mul", Name("x"), Name("y"))]}

Assign(x, e) == [stmt |-> "assign", name |-> x, value |-> e]
Branches == {[stmt |-> s, value |-> Name(x)] : s \in {"return", "expr"}, x \in {"x", "y"}}
Step1 == Assign("y", Bin("add", Name("y"), Number(1)))
Step2 == Assign("x", Bin("sub", Name("x"), Name("y")))
Loop(c, body) == [stmt |-> "while", test |-> c, body |-> body]
Statements ==
  {Assign("y", e) : e \in Expressions} \cup {Assign("x", Name("y"))}
  \cup {[stmt |-> "return", value |-> e] : e \in Expressions}
  \cup {[stmt |-> "expr", value |-> Name("x")], [stmt |-> "none"]}
  \cup {[stmt |-> "if", test |-> c, then |-> b1, other |-> b2] :
          c \in Conditions, b1 \in Branches, b2 \in Branches}
  \cup {Loop(c, b) : c \in Conditions,
          b \in {<<Step1>>, <<Step1, Step2>>, <<[stmt |-> "none"], Step1>>,
                 <<Loop(Bin("lt", Name("y"), Number(1)), <<Step1>>), Step2>>}}

Events == [time : 1 .. 4, usage : {0, 7},
           type : StreamEvents \cup {"loaded", "output"}]
Records == [time : 0 .. 2, id : 1 .. 2, count : {0, 1, 2}]
Calls == [op : {"append"}, tokens : {1, 2, 4}] \cup [op : {"page_in"}, page : 1 .. 3]
         \cup {[op |-> "register", tokens |-> 4], [op |-> "unregister"], [op |-> "take"]}

Init == kind \in {"program", "events", "records", "calls"} /\ input = <<>>
Next ==
  /\ UNCHANGED kind
  /\ \/ /\ kind = "program" /\ Len(input) < MaxProgram
        /\ \E s \in Statements : input' = Append(input, s)
     \/ /\ kind = "events" /\ Len(input) < MaxEvents
        /\ \E e \in Events : input' = Append(input, e)
     \/ /\ kind = "records" /\ Len(input) < MaxEvents
        /\ \E r \in Records : input' = Append(input, r)
     \/ /\ kind = "calls" /\ Len(input) < MaxCalls
        /\ \E c \in Calls : input' = Append(input, c)
Spec == Init /\ [][Next]_<<kind, input>>

\* The sandbox returns what Python returns.
CompilerAgrees ==
  kind = "program" => \A arg \in [Param -> 0 .. 2] : Agrees(input, arg)

\* A replay in pages, the row of a stream and the state of an agent, whatever
\* the order in which the events have arrived.
ReplayIsWhole == kind = "events" => \A n \in 1 .. 2 : PagesAreTheReplay(input, n)
StreamsAreTrue == kind = "events" => StreamRowIsTrue(input)
AgentsAreTrue ==
  kind = "events" => \A row \in {"none", "running", "exited"} : MonitorsAgree(row, input)

\* The row of a connection.
ConnectionsAreTrue == kind = "records" => ConnectionIsTrue(input)

\* The monitors show what their events and records say.
ViewsAreTrue == StreamsAreTrue /\ AgentsAreTrue /\ ConnectionsAreTrue

\* The tokens and the contents of the pages of an agent.
TokensAreTrue == kind = "calls" => TokensAreCounted(input)
PagesAreSafe == kind = "calls" => PagesAreKept(input)

\* A page table counts its tokens, and keeps every page or its copy.
TablesAreTrue == TokensAreTrue /\ PagesAreSafe
=============================================================================
