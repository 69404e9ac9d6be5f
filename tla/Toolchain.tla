----------------------------- MODULE Toolchain -----------------------------
(***************************************************************************)
(* The compiler of kernel/toolchain.py: a function of a small subset of    *)
(* Python becomes WebAssembly.  Here are what it accepts and the code it   *)
(* emits, what the engine of the sandbox makes of that code (validation    *)
(* and execution), and what Python means by the function.                  *)
(*                                                                         *)
(* Syntax trees and code are records; the floats are integers, and there   *)
(* is no division.  Fuel bounds the turns of loops on both sides.          *)
(***************************************************************************)
EXTENDS Integers, Sequences, FiniteSets

CONSTANTS
  Param,   \* the parameters of the function
  Fuel     \* turns of loops, of Python's and of the sandbox's

ASSUME FuelAssumption == Fuel \in Nat

(***************************************************************************)
(* AgentCodeCompiler.                                                      *)
(***************************************************************************)
\* _collect_local_names: what is assigned anywhere in the function.
RECURSIVE Assigned(_)
Assigned(body) ==
  UNION {CASE body[i].stmt = "assign" -> {body[i].name}
           [] body[i].stmt = "while" -> Assigned(body[i].body)
           [] OTHER -> {} : i \in DOMAIN body}

Comparison(e) == e.expr \in {"lt", "eq"}
\* _compile_expr and _compile_compare: only known names are read, and conditions
\* must be comparisons.
RECURSIVE Compiles(_, _)
Compiles(e, known) ==
  CASE e.expr = "name" -> e.name \in known
    [] e.expr = "const" -> TRUE
    [] e.expr = "neg" -> Compiles(e.of, known)
    [] e.expr = "if" -> /\ Comparison(e.test) /\ Compiles(e.test, known)
                        /\ Compiles(e.then, known) /\ Compiles(e.other, known)
    [] OTHER -> Compiles(e.left, known) /\ Compiles(e.right, known)

\* _compile_statement, _compile_while and _compile_branch_statement: a bare
\* expression is the last statement or a branch, a loop has no return or if.
RECURSIVE Accepts(_, _, _)
Accepts(s, known, tail) ==
  CASE s.stmt \in {"assign", "return"} -> Compiles(s.value, known)
    [] s.stmt = "none" -> TRUE
    [] s.stmt = "expr" -> tail /\ Compiles(s.value, known)
    [] s.stmt = "if" -> /\ Comparison(s.test) /\ Compiles(s.test, known)
                        /\ \A b \in {s.then, s.other} :
                             b.stmt \in {"return", "expr"} /\ Compiles(b.value, known)
    [] s.stmt = "while" -> /\ s.body # <<>> /\ Comparison(s.test) /\ Compiles(s.test, known)
                           /\ \A i \in DOMAIN s.body :
                                /\ s.body[i].stmt \notin {"return", "if"}
                                /\ Accepts(s.body[i], known, FALSE)

\* visit_FunctionDef
Accepted(body) ==
  LET known == Param \cup Assigned(body) IN
  \A i \in DOMAIN body : Accepts(body[i], known, i = Len(body))

Op(op) == <<[op |-> op]>>
Const(v) == <<[op |-> "const", value |-> v]>>

\* Mutant: the operands are emitted in the order of the stack.
Operands_Swapped(left, right) == right \o left
Operands(left, right) == left \o right

\* _compile_expr, _compile_compare
RECURSIVE Code(_)
Code(e) ==
  CASE e.expr = "name" -> <<[op |-> "get", name |-> e.name]>>
    [] e.expr = "const" -> Const(e.value)
    [] e.expr = "neg" -> Const(-1) \o Code(e.of) \o Op("mul")
    [] e.expr \in {"add", "sub", "mul", "lt", "eq"} ->
         Operands(Code(e.left), Code(e.right)) \o Op(e.expr)
    [] e.expr = "if" -> Code(e.test)
         \o <<[op |-> "if", then |-> Code(e.then), other |-> Code(e.other)]>>

\* The rest of them: return leaves its value on the stack, and runs on.
RECURSIVE Emitted(_)
Emitted(s) ==
  CASE s.stmt = "assign" -> Code(s.value) \o <<[op |-> "set", name |-> s.name]>>
    [] s.stmt \in {"return", "expr"} -> Code(s.value)
    [] s.stmt = "none" -> Const(0)
    [] s.stmt = "if" -> Code(s.test)
         \o <<[op |-> "if", then |-> Code(s.then.value), other |-> Code(s.other.value)]>>
    [] s.stmt = "while" ->
         LET all[i \in 0 .. Len(s.body)] ==
               IF i = 0 THEN <<>> ELSE all[i - 1] \o Emitted(s.body[i])
         IN <<[op |-> "while", test |-> Code(s.test), body |-> all[Len(s.body)]]>>

RECURSIVE Compiled(_)
Compiled(body) == IF body = <<>> THEN <<>> ELSE Emitted(Head(body)) \o Compiled(Tail(body))

(***************************************************************************)
(* The engine.  block, loop, eqz, br_if 1 and br 0 are emitted together,   *)
(* as one instruction here; what a turn leaves on the stack is dropped by  *)
(* its br.                                                                 *)
(***************************************************************************)
Bad == <<"bad">>
Arity == [add |-> "f", sub |-> "f", mul |-> "f", lt |-> "i", eq |-> "i"]

\* Validation: the types on the stack after the code.
RECURSIVE Types(_, _)
Types(code, stack) ==
  IF stack = Bad \/ code = <<>> THEN stack
  ELSE
  LET i == Head(code)
      n == Len(stack)
      ends == SubSeq(stack, n - 1, n)
  IN Types(Tail(code),
       CASE i.op \in {"get", "const"} -> Append(stack, "f")
         [] i.op = "set" ->
              IF n > 0 /\ stack[n] = "f" THEN SubSeq(stack, 1, n - 1) ELSE Bad
         [] i.op \in DOMAIN Arity ->
              IF n > 1 /\ ends = <<"f", "f">>
              THEN Append(SubSeq(stack, 1, n - 2), Arity[i.op]) ELSE Bad
         [] i.op = "if" ->
              IF /\ n > 0 /\ stack[n] = "i"
                 /\ Types(i.then, <<>>) = <<"f">> /\ Types(i.other, <<>>) = <<"f">>
              THEN Append(SubSeq(stack, 1, n - 1), "f") ELSE Bad
         [] i.op = "while" ->
              IF Types(i.test, <<>>) = <<"i">> /\ Types(i.body, <<>>) # Bad
              THEN stack ELSE Bad)

Valid(body) == Types(Compiled(body), <<>>) = <<"f">>

Truth(b) == IF b THEN 1 ELSE 0
Result(op, x, y) ==
  CASE op = "add" -> x + y [] op = "sub" -> x - y [] op = "mul" -> x * y
    [] op = "lt" -> Truth(x < y) [] op = "eq" -> Truth(x = y)

\* i32.eqz, br_if 1
GoesOn(v) == v # 0

\* Execution: a machine is its stack, its locals and its fuel.
RECURSIVE Runs(_, _)
RECURSIVE Turns(_, _)
Runs(code, m) ==
  IF code = <<>> \/ m.fuel = 0 THEN m
  ELSE
  LET i == Head(code)
      n == Len(m.stack)
      below(k) == SubSeq(m.stack, 1, n - k)
  IN Runs(Tail(code),
       CASE i.op = "get" -> [m EXCEPT !.stack = Append(@, m.vars[i.name])]
         [] i.op = "const" -> [m EXCEPT !.stack = Append(@, i.value)]
         [] i.op = "set" -> [m EXCEPT !.vars[i.name] = m.stack[n], !.stack = below(1)]
         [] i.op \in DOMAIN Arity ->
              [m EXCEPT !.stack =
                 Append(below(2), Result(i.op, m.stack[n - 1], m.stack[n]))]
         [] i.op = "if" ->
              Runs(IF m.stack[n] # 0 THEN i.then ELSE i.other, [m EXCEPT !.stack = below(1)])
         [] i.op = "while" -> Turns(i, m))

Turns(i, m) ==
  LET tested == Runs(i.test, m) IN
  IF m.fuel = 0 \/ ~GoesOn(tested.stack[Len(tested.stack)]) THEN m
  ELSE LET turned == Runs(i.body, m)
       IN Turns(i, [turned EXCEPT !.stack = m.stack, !.fuel = @ - 1])

\* Locals start as 0.
Executed(body, arg) ==
  Runs(Compiled(body),
       [stack |-> <<>>, fuel |-> Fuel + 1,
        vars |-> [x \in Param \cup Assigned(body) |-> IF x \in Param THEN arg[x] ELSE 0]])

(***************************************************************************)
(* Python: a call returns a value, or None, raises (a local that is not    *)
(* bound yet), or goes on for too long.                                    *)
(***************************************************************************)
RECURSIVE Raises(_, _)
RECURSIVE Value(_, _)
Raises(e, env) ==
  CASE e.expr = "name" -> e.name \notin DOMAIN env
    [] e.expr = "const" -> FALSE
    [] e.expr = "neg" -> Raises(e.of, env)
    [] e.expr = "if" -> \/ Raises(e.test, env)
                        \/ Raises(IF Value(e.test, env) # 0 THEN e.then ELSE e.other, env)
    [] OTHER -> Raises(e.left, env) \/ Raises(e.right, env)

Value(e, env) ==
  CASE e.expr = "name" -> env[e.name]
    [] e.expr = "const" -> e.value
    [] e.expr = "neg" -> 0 - Value(e.of, env)
    [] e.expr = "if" -> IF Value(e.test, env) # 0 THEN Value(e.then, env)
                        ELSE Value(e.other, env)
    [] OTHER -> Result(e.expr, Value(e.left, env), Value(e.right, env))

\* A call under way: its local variables, how it stands, what it returns.
RECURSIVE Python(_, _)
Python(body, c) ==
  IF body = <<>> \/ c.now # "runs" THEN c
  ELSE
  LET s == Head(body)
      raised == [c EXCEPT !.now = "raised"]
  IN Python(Tail(body),
       CASE s.stmt = "none" -> c
         [] s.stmt \in {"assign", "return", "expr"} ->
              IF Raises(s.value, c.env) THEN raised
              ELSE LET v == Value(s.value, c.env) IN
                   CASE s.stmt = "assign" ->
                          [c EXCEPT !.env = [x \in DOMAIN @ \cup {s.name} |->
                                               IF x = s.name THEN v ELSE @[x]]]
                     [] s.stmt = "return" -> [c EXCEPT !.now = "returned", !.value = v]
                     [] OTHER -> c
         [] s.stmt = "if" ->
              IF Raises(s.test, c.env) THEN raised
              ELSE Python(<<IF Value(s.test, c.env) # 0 THEN s.then ELSE s.other>>, c)
         [] s.stmt = "while" ->
              IF Raises(s.test, c.env) THEN raised
              ELSE IF Value(s.test, c.env) = 0 THEN c
              ELSE IF c.fuel = 0 THEN [c EXCEPT !.now = "runs on"]
              ELSE Python(s.body \o <<s>>, [c EXCEPT !.fuel = @ - 1]))

Called(body, arg) ==
  Python(body, [env |-> arg, now |-> "runs", value |-> 0, fuel |-> Fuel])

(***************************************************************************)
(* Property.                                                               *)
(***************************************************************************)
\* Whenever Python returns a number, the sandbox computes the same one, unless
\* it rejects the code or runs out of fuel.
Agrees(body, arg) ==
  LET call == Called(body, arg)
      machine == Executed(body, arg)
  IN Accepted(body) /\ Valid(body) /\ call.now = "returned" =>
       machine.fuel = 0 \/ machine.stack = <<call.value>>
=============================================================================
