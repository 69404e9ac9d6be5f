------------------------- MODULE ControlPlaneProofs -------------------------
(***************************************************************************)
(* What ControlPlane keeps for any agents, routes and mailboxes: a request *)
(* is in one place at a time, and the hosts survive their failures.        *)
(*                                                                         *)
(* The proof counts.  Every step moves what it takes out of one place to   *)
(* at most one other, so that the number of places of a task cannot grow.  *)
(***************************************************************************)
EXTENDS ControlPlane, SequenceTheorems, FiniteSetTheorems, TLAPS

-----------------------------------------------------------------------------
(* The inductive invariant *)

One(x, t) == IF x = t THEN 1 ELSE 0

\* Where a task is in a mailbox of messages, in the mailboxes of the hosts, and
\* which hosts have it.
Listed(s, t) == {i \in DOMAIN s : s[i].task = t}
Delivered(q, n, t) ==
  {p \in Agent \X (1 .. n) : p[2] \in DOMAIN q[p[1]] /\ q[p[1]][p[2]] = t}
Working(h, t) == {a \in Agent : h[a].task = t}

Busy == [cmd : {"works", "reports"}, task : Task]

Types ==
  /\ world \in Worlds
  /\ orchestrator \in Seq(Message) /\ Len(orchestrator) <= world.size
  /\ inbox \in [Agent -> Seq(Task)]
  /\ \A a \in Agent : Len(inbox[a]) <= world.size
  /\ host \in [Agent -> {Idle, Over, Failed} \cup Busy]
  /\ router \in {Idle, Over, Failed} \cup Message
  /\ ingress \in {"runs", "over", "raised"} /\ main \in {"waits", "cancels", "over"}
  /\ raised \in BOOLEAN /\ asked \in 0 .. MaxTasks
  /\ log \in Seq(Message)

\* What is to be routed is a task of the user.
Routable ==
  /\ \A i \in 1 .. Len(orchestrator) :
       orchestrator[i].cmd = "task" => orchestrator[i].task \in Task
  /\ router.cmd = "task" => router.task \in Task

\* A task is in one place, and in none before it has been asked for.
Once ==
  \A t \in Task : Places(t) <= 1 /\ (asked < t => Places(t) = 0)

IInv == Types /\ Routable /\ Once /\ HostsSurvive

-----------------------------------------------------------------------------
(* Counting the places of a task *)

\* The places in a list are finitely many.
LEMMA ListedFinite ==
  ASSUME NEW S, NEW s \in Seq(S), NEW t
  PROVE  IsFiniteSet(Listed(s, t)) /\ Cardinality(Listed(s, t)) \in Nat
<1>1. Len(s) \in Nat /\ DOMAIN s = 1 .. Len(s)
  BY LenProperties
<1>2. IsFiniteSet(1 .. Len(s)) /\ Listed(s, t) \subseteq 1 .. Len(s)
  BY <1>1, FS_Interval DEF Listed
<1> QED
  BY <1>2, FS_Subset, FS_CardinalityType

\* An element more is a place more if it is the task.
LEMMA ListedAppend ==
  ASSUME NEW S, NEW s \in Seq(S), NEW e \in S, NEW t
  PROVE  Cardinality(Listed(Append(s, e), t)) = Cardinality(Listed(s, t)) + One(e.task, t)
<1> DEFINE n == Len(s)
           u == Append(s, e)
<1>1. /\ n \in Nat /\ DOMAIN s = 1 .. n /\ DOMAIN u = 1 .. n + 1
      /\ \A i \in 1 .. n : u[i] = s[i]
      /\ u[n + 1] = e
  BY AppendProperties, LenProperties
<1>2. IsFiniteSet(Listed(s, t)) /\ Cardinality(Listed(s, t)) \in Nat
  BY ListedFinite
<1>3. n + 1 \notin Listed(s, t) /\ \A i \in 1 .. n + 1 : i \in 1 .. n \/ i = n + 1
  BY <1>1 DEF Listed
<1> HIDE DEF u, n
<1>4. CASE e.task = t
  <2>1. Listed(u, t) = Listed(s, t) \cup {n + 1}
    BY <1>1, <1>3, <1>4 DEF Listed
  <2>2. Cardinality(Listed(u, t)) = Cardinality(Listed(s, t)) + 1
    BY <1>2, <1>3, <2>1, FS_AddElement
  <2> QED
    BY <1>4, <2>2 DEF One, u
<1>5. CASE e.task # t
  <2>1. Listed(u, t) = Listed(s, t)
    BY <1>1, <1>3, <1>5 DEF Listed
  <2> QED
    BY <1>2, <1>5, <2>1 DEF One, u
<1> QED
  BY <1>4, <1>5

\* Without its head a list has a place less if the head was the task.
LEMMA ListedTail ==
  ASSUME NEW S, NEW s \in Seq(S), s # <<>>, NEW t
  PROVE  Cardinality(Listed(Tail(s), t)) + One(Head(s).task, t)
           <= Cardinality(Listed(s, t))
<1> DEFINE n == Len(s)
           u == Tail(s)
           T == Listed(s, t) \ {1}
           f == [i \in Listed(u, t) |-> i + 1]
<1>1. /\ n \in Nat /\ n >= 1 /\ DOMAIN s = 1 .. n /\ u \in Seq(S) /\ Len(u) = n - 1
      /\ \A i \in 1 .. n - 1 : u[i] = s[i + 1]
      /\ Head(s) = s[1]
  BY EmptySeq, LenProperties, HeadTailProperties
<1>2. DOMAIN u = 1 .. n - 1
  BY <1>1, LenProperties
<1>3. /\ IsFiniteSet(Listed(s, t)) /\ Cardinality(Listed(s, t)) \in Nat
      /\ IsFiniteSet(Listed(u, t)) /\ Cardinality(Listed(u, t)) \in Nat
  BY <1>1, ListedFinite
<1> HIDE DEF u
<1>4. \A i \in Listed(u, t) : i \in Nat /\ i + 1 \in T
  <2> SUFFICES ASSUME NEW i \in Listed(u, t) PROVE i \in Nat /\ i + 1 \in T
    OBVIOUS
  <2>1. i \in 1 .. n - 1 /\ u[i].task = t
    BY <1>2 DEF Listed
  <2>2. i \in Nat /\ i + 1 \in 1 .. n /\ i + 1 # 1 /\ s[i + 1].task = t
    BY <1>1, <2>1
  <2> QED
    BY <1>1, <2>2 DEF Listed
<1>5. f \in Injection(Listed(u, t), T)
  <2>1. f \in [Listed(u, t) -> T]
    BY <1>4
  <2>2. \A i, j \in Listed(u, t) : f[i] = f[j] => i = j
    BY <1>4
  <2> QED
    BY <2>1, <2>2 DEF Injection, IsInjective
<1>6. IsFiniteSet(T) /\ Cardinality(T) \in Nat
  BY <1>3, FS_Subset, FS_CardinalityType
<1>7. Cardinality(Listed(u, t)) <= Cardinality(T)
  <2> HIDE DEF f, T
  <2> QED
    BY <1>5, <1>6, FS_Injection
<1>8. Cardinality(T) + One(s[1].task, t) = Cardinality(Listed(s, t))
  <2>1. CASE s[1].task = t
    <3>1. 1 \in Listed(s, t)
      BY <1>1, <2>1 DEF Listed
    <3>2. Cardinality(T) = Cardinality(Listed(s, t)) - 1
      BY <1>3, <3>1, FS_RemoveElement
    <3> HIDE DEF T
    <3> QED
      BY <1>3, <1>6, <2>1, <3>2 DEF One
  <2>2. CASE s[1].task # t
    <3>1. T = Listed(s, t)
      BY <2>2 DEF Listed
    <3> HIDE DEF T
    <3> QED
      BY <1>3, <2>2, <3>1 DEF One
  <2> QED
    BY <2>1, <2>2
<1>9. One(s[1].task, t) \in Nat
  BY DEF One
<1> HIDE DEF T
<1>10. Cardinality(Listed(u, t)) + One(s[1].task, t) <= Cardinality(Listed(s, t))
  BY <1>3, <1>6, <1>7, <1>8, <1>9
<1> QED
  BY <1>1, <1>10 DEF u

\* The places in the mailboxes of the hosts are finitely many.
LEMMA DeliveredFinite ==
  ASSUME NEW q, NEW n \in Nat, NEW t
  PROVE  /\ IsFiniteSet(Delivered(q, n, t))
         /\ Cardinality(Delivered(q, n, t)) \in Nat
<1>1. IsFiniteSet(1 .. n)
  BY FS_Interval
<1>2. IsFiniteSet(Agent \X (1 .. n))
  BY <1>1, AgentAssumption, FS_Product
<1>3. Delivered(q, n, t) \subseteq Agent \X (1 .. n)
  BY DEF Delivered
<1> QED
  BY <1>2, <1>3, FS_Subset, FS_CardinalityType

\* A task more for a host.
LEMMA DeliveredAppend ==
  ASSUME NEW q, NEW r, NEW n \in Nat, NEW t, NEW a \in Agent, NEW e \in Task,
         q[a] \in Seq(Task), Len(q[a]) < n,
         r[a] = Append(q[a], e), \A b \in Agent \ {a} : r[b] = q[b]
  PROVE  Cardinality(Delivered(r, n, t)) = Cardinality(Delivered(q, n, t)) + One(e, t)
<1> DEFINE m == Len(q[a])
<1>1. /\ m \in Nat /\ DOMAIN q[a] = 1 .. m /\ DOMAIN r[a] = 1 .. m + 1
      /\ \A i \in 1 .. m : r[a][i] = q[a][i]
      /\ r[a][m + 1] = e
  <2>1. q[a] \in Seq(Task) /\ r[a] = Append(q[a], e)
    OBVIOUS
  <2> QED
    BY <2>1, AppendProperties, LenProperties
<1>2. \A b \in Agent \ {a} : r[b] = q[b]
  OBVIOUS
<1>3. m + 1 \in 1 .. n
  BY <1>1
<1>4. /\ IsFiniteSet(Delivered(q, n, t)) /\ Cardinality(Delivered(q, n, t)) \in Nat
  BY DeliveredFinite
<1>5. /\ <<a, m + 1>> \notin Delivered(q, n, t)
      /\ \A i \in 1 .. m + 1 : i \in 1 .. m \/ i = m + 1
      /\ \A i \in 1 .. m : i \in 1 .. m + 1 /\ i # m + 1
  BY <1>1 DEF Delivered
<1> HIDE DEF m
<1>6. ASSUME NEW b \in Agent, NEW i \in 1 .. n
      PROVE  <<b, i>> \in Delivered(r, n, t) <=>
               <<b, i>> \in Delivered(q, n, t) \/ (b = a /\ i = m + 1 /\ e = t)
  <2>1. CASE b # a
    BY <1>2, <2>1 DEF Delivered
  <2>2. CASE b = a
    <3>1. <<b, i>> \in Delivered(r, n, t) <=> i \in 1 .. m + 1 /\ r[a][i] = t
      BY <1>1, <2>2 DEF Delivered
    <3>2. <<b, i>> \in Delivered(q, n, t) <=> i \in 1 .. m /\ q[a][i] = t
      BY <1>1, <2>2 DEF Delivered
    <3> QED
      BY <1>1, <1>5, <2>2, <3>1, <3>2
  <2> QED
    BY <2>1, <2>2
<1>7. ASSUME NEW x
      PROVE  x \in Delivered(r, n, t) <=>
               x \in Delivered(q, n, t) \/ (x = <<a, m + 1>> /\ e = t)
  <2>1. CASE \E b \in Agent, i \in 1 .. n : x = <<b, i>>
    <3>1. PICK b \in Agent, i \in 1 .. n : x = <<b, i>>
      BY <2>1
    <3>2. x = <<a, m + 1>> <=> b = a /\ i = m + 1
      BY <3>1
    <3> QED
      BY <1>6, <3>1, <3>2
  <2>2. CASE ~ \E b \in Agent, i \in 1 .. n : x = <<b, i>>
    <3>1. x \notin Delivered(r, n, t) /\ x \notin Delivered(q, n, t)
      BY <2>2 DEF Delivered
    <3>2. x # <<a, m + 1>>
      BY <1>3, <2>2
    <3> QED
      BY <3>1, <3>2
  <2> QED
    BY <2>1, <2>2
<1>8. CASE e = t
  <2>1. Delivered(r, n, t) = Delivered(q, n, t) \cup {<<a, m + 1>>}
    BY <1>7, <1>8
  <2>2. Cardinality(Delivered(r, n, t)) = Cardinality(Delivered(q, n, t)) + 1
    BY <1>4, <1>5, <2>1, FS_AddElement
  <2> QED
    BY <1>8, <2>2 DEF One
<1>9. CASE e # t
  <2>1. Delivered(r, n, t) = Delivered(q, n, t)
    BY <1>7, <1>9
  <2> QED
    BY <1>4, <1>9, <2>1 DEF One
<1> QED
  BY <1>8, <1>9

\* A task less for a host.
LEMMA DeliveredTail ==
  ASSUME NEW q \in [Agent -> Seq(Task)], NEW n \in Nat, NEW t,
         NEW a \in Agent, q[a] # <<>>, Len(q[a]) <= n,
         NEW r, r = [q EXCEPT ![a] = Tail(@)]
  PROVE  Cardinality(Delivered(r, n, t)) + One(Head(q[a]), t)
           <= Cardinality(Delivered(q, n, t))
<1> DEFINE m == Len(q[a])
           D == Delivered(r, n, t)
           T == Delivered(q, n, t) \ {<<a, 1>>}
           f == [x \in D |-> IF x[1] = a THEN <<a, x[2] + 1>> ELSE x]
<1>1. /\ m \in Nat /\ m >= 1 /\ m <= n /\ DOMAIN q[a] = 1 .. m /\ Head(q[a]) = q[a][1]
      /\ \A i \in 1 .. m - 1 : r[a][i] = q[a][i + 1]
      /\ DOMAIN r[a] = 1 .. m - 1
  <2>1. q[a] \in Seq(Task) /\ r[a] = Tail(q[a])
    OBVIOUS
  <2>2. /\ m \in Nat /\ m >= 1 /\ DOMAIN q[a] = 1 .. m /\ Head(q[a]) = q[a][1]
    BY <2>1, EmptySeq, LenProperties
  <2>3. /\ r[a] \in Seq(Task) /\ Len(r[a]) = m - 1
        /\ \A i \in 1 .. m - 1 : r[a][i] = q[a][i + 1]
    BY <2>1, HeadTailProperties
  <2> QED
    BY <2>2, <2>3, LenProperties
<1>2. \A b \in Agent \ {a} : r[b] = q[b]
  OBVIOUS
<1>3. /\ IsFiniteSet(Delivered(q, n, t)) /\ Cardinality(Delivered(q, n, t)) \in Nat
      /\ IsFiniteSet(D) /\ Cardinality(D) \in Nat
  BY DeliveredFinite
<1> HIDE DEF m
<1>4. \A x \in D : \E b \in Agent, i \in 1 .. n :
        x = <<b, i>> /\ i \in DOMAIN r[b] /\ r[b][i] = t
  BY DEF Delivered
<1>5. ASSUME NEW b \in Agent, NEW i \in 1 .. n, i \in DOMAIN r[b], r[b][i] = t
      PROVE  IF b = a THEN <<a, i + 1>> \in T /\ i \in Nat ELSE <<b, i>> \in T
  <2>1. CASE b = a
    <3>1. i \in 1 .. m - 1
      BY <1>1, <1>5, <2>1
    <3>2. i + 1 \in 1 .. m /\ i + 1 \in 1 .. n /\ i + 1 # 1
      BY <1>1, <3>1
    <3>3. q[a][i + 1] = t
      BY <1>1, <1>5, <2>1, <3>1
    <3>4. <<a, i + 1>> \in Delivered(q, n, t)
      BY <1>1, <3>2, <3>3 DEF Delivered
    <3>5. <<a, i + 1>> # <<a, 1>>
      BY <3>2
    <3> QED
      BY <2>1, <3>4, <3>5
  <2>2. CASE b # a
    BY <1>2, <1>5, <2>2 DEF Delivered
  <2> QED
    BY <2>1, <2>2
<1>6. f \in Injection(D, T)
  <2>1. ASSUME NEW x \in D PROVE f[x] \in T
    <3>1. PICK b \in Agent, i \in 1 .. n :
            x = <<b, i>> /\ i \in DOMAIN r[b] /\ r[b][i] = t
      BY <1>4
    <3> QED
      BY <1>5, <3>1
  <2>2. ASSUME NEW x \in D, NEW y \in D, f[x] = f[y] PROVE x = y
    <3>1. PICK b \in Agent, i \in 1 .. n : x = <<b, i>>
      BY <1>4
    <3>2. PICK c \in Agent, j \in 1 .. n : y = <<c, j>>
      BY <1>4
    <3>3. f[x] = (IF b = a THEN <<a, i + 1>> ELSE <<b, i>>)
          /\ f[y] = (IF c = a THEN <<a, j + 1>> ELSE <<c, j>>)
      BY <3>1, <3>2
    <3>4. i + 1 = j + 1 => i = j
      OBVIOUS
    <3> QED
      BY <2>2, <3>1, <3>2, <3>3, <3>4
  <2>3. f \in [D -> T]
    BY <2>1
  <2> HIDE DEF f, D, T
  <2> QED
    BY <2>2, <2>3 DEF Injection, IsInjective
<1>7. IsFiniteSet(T) /\ Cardinality(T) \in Nat
  BY <1>3, FS_Subset, FS_CardinalityType
<1>8. Cardinality(D) <= Cardinality(T)
  <2> HIDE DEF f, T, D
  <2> QED
    BY <1>6, <1>7, FS_Injection
<1>9. Cardinality(T) + One(q[a][1], t) = Cardinality(Delivered(q, n, t))
  <2>1. CASE q[a][1] = t
    <3>1. <<a, 1>> \in Delivered(q, n, t)
      BY <1>1, <2>1 DEF Delivered
    <3>2. Cardinality(T) = Cardinality(Delivered(q, n, t)) - 1
      BY <1>3, <3>1, FS_RemoveElement
    <3> HIDE DEF T
    <3> QED
      BY <1>3, <1>7, <2>1, <3>2 DEF One
  <2>2. CASE q[a][1] # t
    <3>1. T = Delivered(q, n, t)
      BY <2>2 DEF Delivered
    <3> HIDE DEF T
    <3> QED
      BY <1>3, <2>2, <3>1 DEF One
  <2> QED
    BY <2>1, <2>2
<1>10. One(q[a][1], t) \in Nat
  BY DEF One
<1> HIDE DEF T, D
<1>11. Cardinality(D) + One(q[a][1], t) <= Cardinality(Delivered(q, n, t))
  BY <1>3, <1>7, <1>8, <1>9, <1>10
<1> QED
  BY <1>1, <1>11 DEF D

\* What one host has, and what it had.
LEMMA WorkingFinite ==
  ASSUME NEW h, NEW t
  PROVE  IsFiniteSet(Working(h, t)) /\ Cardinality(Working(h, t)) \in Nat
BY AgentAssumption, FS_Subset, FS_CardinalityType DEF Working

LEMMA WorkingChanges ==
  ASSUME NEW h, NEW g, NEW t, NEW a \in Agent, \A b \in Agent \ {a} : g[b] = h[b]
  PROVE  Cardinality(Working(g, t)) + One(h[a].task, t)
           = Cardinality(Working(h, t)) + One(g[a].task, t)
<1> DEFINE U == Working(h, t) \ {a}
<1>1. IsFiniteSet(Working(h, t)) /\ Cardinality(Working(h, t)) \in Nat
  BY WorkingFinite
<1>2. IsFiniteSet(U) /\ Cardinality(U) \in Nat /\ a \notin U
  BY <1>1, FS_Subset, FS_CardinalityType
<1>3. U = Working(g, t) \ {a}
  BY DEF Working
<1>4. ASSUME NEW f, U = Working(f, t) \ {a}
      PROVE  Cardinality(Working(f, t)) = Cardinality(U) + One(f[a].task, t)
  <2>1. CASE f[a].task = t
    <3>1. Working(f, t) = U \cup {a}
      BY <1>4, <2>1 DEF Working
    <3> HIDE DEF U
    <3>2. Cardinality(Working(f, t)) = Cardinality(U) + 1
      BY <1>2, <3>1, FS_AddElement
    <3> QED
      BY <2>1, <3>2 DEF One
  <2>2. CASE f[a].task # t
    <3>1. Working(f, t) = U
      BY <1>4, <2>2 DEF Working
    <3> HIDE DEF U
    <3> QED
      BY <1>2, <2>2, <3>1 DEF One
  <2> QED
    BY <2>1, <2>2
<1>5. One(g[a].task, t) \in Nat /\ One(h[a].task, t) \in Nat
  BY DEF One
<1>6. Cardinality(Working(h, t)) = Cardinality(U) + One(h[a].task, t)
  BY <1>4
<1>7. Cardinality(Working(g, t)) = Cardinality(U) + One(g[a].task, t)
  BY <1>3, <1>4
<1> HIDE DEF U
<1> QED
  BY <1>2, <1>5, <1>6, <1>7

\* The same of a step that changes one host, or adds to one mailbox.
LEMMA HostChanges ==
  ASSUME NEW t, NEW a \in Agent, \A b \in Agent \ {a} : host'[b] = host[b]
  PROVE  Cardinality(Working(host', t)) + One(host[a].task, t)
           = Cardinality(Working(host, t)) + One(host'[a].task, t)
BY WorkingChanges

LEMMA InboxGrows ==
  ASSUME NEW t, NEW a \in Agent, NEW e \in Task,
         inbox[a] \in Seq(Task), world.size \in Nat, Len(inbox[a]) < world.size,
         inbox'[a] = Append(inbox[a], e), \A b \in Agent \ {a} : inbox'[b] = inbox[b]
  PROVE  Cardinality(Delivered(inbox', world.size, t))
           = Cardinality(Delivered(inbox, world.size, t)) + One(e, t)
BY DeliveredAppend

\* The places of a task before and after a step, in parts.
LEMMA Parts ==
  ASSUME Types, Types', world' = world, NEW t \in Task
  PROVE  /\ Places(t) = Cardinality(Listed(orchestrator, t)) + One(router.task, t)
                        + Cardinality(Delivered(inbox, world.size, t))
                        + Cardinality(Working(host, t)) + Cardinality(Listed(log, t))
         /\ Places(t)' = Cardinality(Listed(orchestrator', t)) + One(router'.task, t)
                         + Cardinality(Delivered(inbox', world.size, t))
                         + Cardinality(Working(host', t)) + Cardinality(Listed(log', t))
         /\ Cardinality(Listed(orchestrator, t)) \in Nat
         /\ Cardinality(Listed(orchestrator', t)) \in Nat
         /\ One(router.task, t) \in Nat /\ One(router'.task, t) \in Nat
         /\ Cardinality(Delivered(inbox, world.size, t)) \in Nat
         /\ Cardinality(Delivered(inbox', world.size, t)) \in Nat
         /\ Cardinality(Working(host, t)) \in Nat
         /\ Cardinality(Working(host', t)) \in Nat
         /\ Cardinality(Listed(log, t)) \in Nat
         /\ Cardinality(Listed(log', t)) \in Nat
<1>1. world.size \in Nat
  BY WorldAssumption DEF Types, World
<1>2. /\ Cardinality(Listed(orchestrator, t)) \in Nat
      /\ Cardinality(Listed(orchestrator', t)) \in Nat
      /\ Cardinality(Listed(log, t)) \in Nat
      /\ Cardinality(Listed(log', t)) \in Nat
  BY ListedFinite DEF Types
<1>3. /\ Cardinality(Delivered(inbox, world.size, t)) \in Nat
      /\ Cardinality(Delivered(inbox', world.size, t)) \in Nat
  BY <1>1, DeliveredFinite
<1>4. /\ Cardinality(Working(host, t)) \in Nat
      /\ Cardinality(Working(host', t)) \in Nat
  BY WorkingFinite
<1>5. One(router.task, t) \in Nat /\ One(router'.task, t) \in Nat
  BY DEF One
<1>6. Places(t) = Cardinality(Listed(orchestrator, t)) + One(router.task, t)
                  + Cardinality(Delivered(inbox, world.size, t))
                  + Cardinality(Working(host, t)) + Cardinality(Listed(log, t))
  BY DEF Places, Listed, Delivered, Working, One
<1>7. Places(t)' = Cardinality(Listed(orchestrator', t)) + One(router'.task, t)
                   + Cardinality(Delivered(inbox', world.size, t))
                   + Cardinality(Working(host', t)) + Cardinality(Listed(log', t))
  BY DEF Places, Listed, Delivered, Working, One
<1> QED
  BY <1>2, <1>3, <1>4, <1>5, <1>6, <1>7

\* A step that adds no place, but for a new task, keeps tasks in one place.
LEMMA OnceKept ==
  ASSUME Types, Types', world' = world, Once,
         \A t \in Task :
           \/ Places(t)' <= Places(t) /\ asked' \in {asked, asked + 1}
           \/ Places(t)' <= Places(t) + 1 /\ t = asked + 1 /\ asked' = asked + 1
  PROVE  Once'
<1> SUFFICES ASSUME NEW t \in Task
             PROVE  Places(t)' <= 1 /\ (asked' < t => Places(t)' = 0)
  BY DEF Once
<1>1. Places(t) \in Nat /\ Places(t)' \in Nat
  <2>1. \A a, b, c, d, e \in Nat : a + b + c + d + e \in Nat
    OBVIOUS
  <2> QED
    BY <2>1, Parts
<1>2. asked \in Nat /\ asked' \in Nat /\ t \in Nat
  BY RouteAssumption DEF Types, Task
<1>3. Places(t) <= 1 /\ (asked < t => Places(t) = 0)
  BY DEF Once
<1>4. CASE Places(t)' <= Places(t) /\ asked' \in {asked, asked + 1}
  <2>1. asked' < t => asked < t
    BY <1>2, <1>4
  <2> QED
    BY <1>1, <1>3, <1>4, <2>1
<1>5. CASE Places(t)' <= Places(t) + 1 /\ t = asked + 1 /\ asked' = asked + 1
  <2>1. asked < t /\ ~(asked' < t)
    BY <1>2, <1>5
  <2> QED
    BY <1>1, <1>3, <1>5, <2>1
<1> QED
  BY <1>4, <1>5

\* What has ended, or is idle, has no task.
LEMMA NoTask ==
  ASSUME NEW t \in Task
  PROVE  /\ 0 \notin Task /\ t # 0
         /\ One(Idle.task, t) = 0 /\ One(Failed.task, t) = 0 /\ One(Over.task, t) = 0
BY DEF Task, One, Idle, Failed, Over

-----------------------------------------------------------------------------
(* The steps *)

LEMMA InitHolds == Init => IInv
<1> SUFFICES ASSUME Init PROVE IInv
  OBVIOUS
<1>1. Types
  <2>1. world \in Worlds /\ world.size \in Nat
    BY WorldAssumption DEF Init, World
  <2>2. <<>> \in Seq(Message) /\ <<>> \in Seq(Task) /\ Len(<<>>) = 0
    BY EmptySeq
  <2>3. inbox \in [Agent -> Seq(Task)] /\ \A a \in Agent : Len(inbox[a]) <= world.size
    BY <2>1, <2>2 DEF Init
  <2>4. host \in [Agent -> {Idle, Over, Failed} \cup Busy]
    BY DEF Init
  <2>5. asked \in 0 .. MaxTasks
    BY RouteAssumption DEF Init
  <2>6. /\ orchestrator \in Seq(Message) /\ Len(orchestrator) <= world.size
        /\ log \in Seq(Message)
    BY <2>1, <2>2 DEF Init
  <2>7. raised \in BOOLEAN
    BY DEF Init
  <2> QED
    BY <2>1, <2>3, <2>4, <2>5, <2>6, <2>7 DEF Init, Types
<1>2. Routable
  BY EmptySeq DEF Init, Routable, Idle
<1>3. ASSUME NEW t \in Task PROVE Places(t) = 0
  <2>1. /\ {i \in DOMAIN orchestrator : orchestrator[i].task = t} = {}
        /\ {i \in DOMAIN log : log[i].task = t} = {}
    BY DEF Init
  <2>2. {p \in Agent \X (1 .. world.size) :
           p[2] \in DOMAIN inbox[p[1]] /\ inbox[p[1]][p[2]] = t} = {}
    BY DEF Init
  <2>3. {a \in Agent : host[a].task = t} = {} /\ router.task # t
    BY DEF Init, Idle, Task
  <2>4. Cardinality({}) = 0
    BY FS_EmptySet
  <2>5. Places(t) = 0 + 0 + 0 + 0 + 0
    BY <2>1, <2>2, <2>3, <2>4 DEF Places
  <2> QED
    BY <2>5
<1>4. Once
  BY <1>3 DEF Once
<1>5. HostsSurvive
  BY DEF Init, HostsSurvive, Stopped, Idle, Over, Failed
<1> QED
  BY <1>1, <1>2, <1>4, <1>5 DEF IInv

\* The user's request is a new task.
LEMMA AskKeeps ==
  ASSUME IInv, Ask
  PROVE  IInv'
<1> DEFINE e == [cmd |-> "task", task |-> asked + 1]
<1>1. /\ ingress = "runs" /\ asked < MaxTasks /\ asked' = asked + 1
      /\ UNCHANGED <<world, inbox, router, host, main, raised, log>>
  BY DEF Ask
<1>2. asked \in Nat /\ asked + 1 \in Task /\ asked' \in 0 .. MaxTasks
  BY <1>1, RouteAssumption DEF IInv, Types, Task
<1>3. e \in Message /\ e.task = asked + 1
  BY <1>2 DEF Message
<1>4. CASE ~Room(orchestrator)
  <2>1. ingress' = "raised" /\ orchestrator' = orchestrator
    BY <1>4 DEF Ask
  <2>2. Types'
    BY <1>1, <1>2, <2>1 DEF IInv, Types
  <2>3. Routable' /\ HostsSurvive'
    BY <1>1, <2>1 DEF IInv, Routable, HostsSurvive
  <2>4. ASSUME NEW t \in Task PROVE Places(t)' <= Places(t)
    BY <1>1, <2>1, <2>2, Parts DEF IInv
  <2>5. Once'
    BY <1>1, <2>2, <2>4, OnceKept DEF IInv
  <2> QED
    BY <2>2, <2>3, <2>5 DEF IInv
<1>5. CASE Room(orchestrator)
  <2>1. ingress' = ingress /\ orchestrator' = Append(orchestrator, e)
    BY <1>5 DEF Ask
  <2> HIDE DEF e
  <2>2. /\ orchestrator' \in Seq(Message) /\ Len(orchestrator) \in Nat
        /\ Len(orchestrator') = Len(orchestrator) + 1
        /\ \A i \in 1 .. Len(orchestrator) : orchestrator'[i] = orchestrator[i]
        /\ orchestrator'[Len(orchestrator) + 1] = e
    BY <1>3, <2>1, AppendProperties, LenProperties DEF IInv, Types
  <2>3. Len(orchestrator') <= world.size
    BY <1>5, <2>2, WorldAssumption DEF Room, IInv, Types, World
  <2>4. Types'
    BY <1>1, <1>2, <2>1, <2>2, <2>3 DEF IInv, Types
  <2>5. Routable'
    <3>1. \A i \in 1 .. Len(orchestrator') :
            i \in 1 .. Len(orchestrator) \/ i = Len(orchestrator) + 1
      BY <2>2
    <3> QED
      BY <1>1, <1>2, <1>3, <2>2, <3>1 DEF IInv, Routable
  <2>6. HostsSurvive'
    BY <1>1 DEF IInv, HostsSurvive
  <2>7. ASSUME NEW t \in Task
        PROVE  \/ Places(t)' <= Places(t)
               \/ Places(t)' <= Places(t) + 1 /\ t = asked + 1
    <3>1. Cardinality(Listed(orchestrator', t))
            = Cardinality(Listed(orchestrator, t)) + One(asked + 1, t)
      BY <1>3, <2>1, ListedAppend DEF IInv, Types
    <3>2. One(asked + 1, t) = IF t = asked + 1 THEN 1 ELSE 0
      BY DEF One
    <3>3. /\ One(router'.task, t) = One(router.task, t)
          /\ Cardinality(Delivered(inbox', world.size, t)) = Cardinality(Delivered(inbox, world.size, t))
          /\ Cardinality(Working(host', t)) = Cardinality(Working(host, t))
          /\ Cardinality(Listed(log', t)) = Cardinality(Listed(log, t))
      BY <1>1
    <3> QED
      BY <1>1, <2>4, <3>1, <3>2, <3>3, Parts DEF IInv
  <2>8. Once'
    BY <1>1, <2>4, <2>7, OnceKept DEF IInv
  <2> QED
    BY <2>4, <2>5, <2>6, <2>8 DEF IInv
<1> QED
  BY <1>4, <1>5

\* The end of input, and what is no task, touch no place of a task.
LEMMA QuitKeeps ==
  ASSUME IInv, Quit
  PROVE  IInv'
<1>1. /\ ingress' = "over"
      /\ UNCHANGED <<world, orchestrator, inbox, router, host, main, raised, asked, log>>
  BY DEF Quit
<1>2. Types'
  BY <1>1 DEF IInv, Types
<1>3. Routable' /\ HostsSurvive'
  BY <1>1 DEF IInv, Routable, HostsSurvive
<1>4. ASSUME NEW t \in Task PROVE Places(t)' <= Places(t)
  BY <1>1, <1>2, Parts DEF IInv
<1>5. Once'
  BY <1>1, <1>2, <1>4, OnceKept DEF IInv
<1> QED
  BY <1>2, <1>3, <1>5 DEF IInv

LEMMA NoiseKeeps ==
  ASSUME IInv, Noise
  PROVE  IInv'
<1>1. /\ orchestrator = <<>>
      /\ UNCHANGED <<world, inbox, router, host, ingress, main, raised, asked, log>>
  BY DEF Noise
<1>2. PICK cmd \in world.noise :
        orchestrator' = Append(orchestrator, [cmd |-> cmd, task |-> 0])
  BY DEF Noise
<1> DEFINE e == [cmd |-> cmd, task |-> 0]
<1>3. e \in Message /\ e.cmd # "task" /\ e.task = 0
  <2>1. cmd \in {"ignored", "broken"}
    BY WorldAssumption DEF IInv, Types, World
  <2> QED
    BY <2>1 DEF Message
<1>4. orchestrator' = Append(orchestrator, e)
  BY <1>2
<1> HIDE DEF e
<1>5. /\ orchestrator' \in Seq(Message) /\ Len(orchestrator') = 1
      /\ orchestrator'[1] = e
  BY <1>1, <1>3, <1>4, AppendProperties, EmptySeq
<1>6. Types'
  <2>1. 1 <= world.size
    BY WorldAssumption DEF IInv, Types, World
  <2> QED
    BY <1>1, <1>5, <2>1 DEF IInv, Types
<1>7. Routable' /\ HostsSurvive'
  BY <1>1, <1>3, <1>5 DEF IInv, Routable, HostsSurvive
<1>8. ASSUME NEW t \in Task PROVE Places(t)' <= Places(t)
  <2>1. Cardinality(Listed(orchestrator', t))
          = Cardinality(Listed(orchestrator, t)) + One(e.task, t)
    BY <1>3, <1>4, ListedAppend DEF IInv, Types
  <2>2. One(e.task, t) = 0
    BY <1>3, NoTask DEF One
  <2>3. /\ One(router'.task, t) = One(router.task, t)
        /\ Cardinality(Delivered(inbox', world.size, t)) = Cardinality(Delivered(inbox, world.size, t))
        /\ Cardinality(Working(host', t)) = Cardinality(Working(host, t))
        /\ Cardinality(Listed(log', t)) = Cardinality(Listed(log, t))
    BY <1>1
  <2> QED
    BY <1>1, <1>6, <2>1, <2>2, <2>3, Parts DEF IInv
<1>9. Once'
  BY <1>1, <1>6, <1>8, OnceKept DEF IInv
<1> QED
  BY <1>6, <1>7, <1>9 DEF IInv

\* The Orchestrator's mailbox without its first message.
LEMMA Taken ==
  ASSUME IInv, orchestrator # <<>>, orchestrator' = Tail(orchestrator), world' = world
  PROVE  /\ Head(orchestrator) \in Message
         /\ Head(orchestrator).cmd = "task" => Head(orchestrator).task \in Task
         /\ orchestrator' \in Seq(Message) /\ Len(orchestrator') <= world.size
         /\ \A i \in 1 .. Len(orchestrator') :
              orchestrator'[i].cmd = "task" => orchestrator'[i].task \in Task
         /\ \A t \in Task :
              Cardinality(Listed(orchestrator', t)) + One(Head(orchestrator).task, t)
                <= Cardinality(Listed(orchestrator, t))
<1> DEFINE n == Len(orchestrator)
<1>1. orchestrator \in Seq(Message) /\ n \in Nat /\ n >= 1
  BY EmptySeq DEF IInv, Types
<1>2. /\ Head(orchestrator) = orchestrator[1] /\ orchestrator[1] \in Message
      /\ orchestrator' \in Seq(Message) /\ Len(orchestrator') = n - 1
      /\ \A i \in 1 .. n - 1 : orchestrator'[i] = orchestrator[i + 1]
  BY <1>1, HeadTailProperties
<1>3. n <= world.size /\ world.size \in Nat
  BY WorldAssumption DEF IInv, Types, World
<1>4. \A i \in 1 .. n : orchestrator[i].cmd = "task" => orchestrator[i].task \in Task
  BY DEF IInv, Routable
<1>5. \A t \in Task :
        Cardinality(Listed(orchestrator', t)) + One(Head(orchestrator).task, t)
          <= Cardinality(Listed(orchestrator, t))
  BY <1>1, ListedTail
<1> HIDE DEF n
<1>6. Len(orchestrator') <= world.size
  BY <1>1, <1>2, <1>3
<1>7. 1 \in 1 .. n /\ \A i \in 1 .. n - 1 : i + 1 \in 1 .. n
  BY <1>1
<1>8. \A i \in 1 .. Len(orchestrator') :
        orchestrator'[i].cmd = "task" => orchestrator'[i].task \in Task
  BY <1>2, <1>4, <1>7
<1> QED
  BY <1>2, <1>4, <1>5, <1>6, <1>7, <1>8

\* The mailbox of a host without its first task.
LEMMA TakenBy ==
  ASSUME IInv, NEW a \in Agent, inbox[a] # <<>>,
         inbox' = [inbox EXCEPT ![a] = Tail(@)], world' = world
  PROVE  /\ Head(inbox[a]) \in Task /\ inbox' \in [Agent -> Seq(Task)]
         /\ \A b \in Agent : Len(inbox'[b]) <= world.size
         /\ \A t \in Task :
              Cardinality(Delivered(inbox', world.size, t)) + One(Head(inbox[a]), t)
                <= Cardinality(Delivered(inbox, world.size, t))
<1>1. inbox[a] \in Seq(Task) /\ Len(inbox[a]) \in Nat /\ world.size \in Nat
      /\ Len(inbox[a]) <= world.size
  BY LenProperties, WorldAssumption DEF IInv, Types, World
<1>2. /\ Head(inbox[a]) \in Task /\ Tail(inbox[a]) \in Seq(Task)
      /\ Len(Tail(inbox[a])) = Len(inbox[a]) - 1
  BY <1>1, HeadTailProperties
<1>3. inbox' \in [Agent -> Seq(Task)]
  BY <1>2 DEF IInv, Types
<1>4. ASSUME NEW b \in Agent PROVE Len(inbox'[b]) <= world.size
  <2>1. CASE b = a
    <3>1. Len(inbox'[b]) = Len(inbox[a]) - 1
      BY <1>2, <2>1 DEF IInv, Types
    <3> QED
      BY <1>1, <3>1
  <2>2. CASE b # a
    BY <2>2 DEF IInv, Types
  <2> QED
    BY <2>1, <2>2
<1>5. ASSUME NEW t \in Task
      PROVE  Cardinality(Delivered(inbox', world.size, t)) + One(Head(inbox[a]), t)
               <= Cardinality(Delivered(inbox, world.size, t))
  <2>1. inbox \in [Agent -> Seq(Task)]
    BY DEF IInv, Types
  <2> QED
    BY <1>1, <2>1, DeliveredTail
<1> QED
  BY <1>2, <1>3, <1>4, <1>5

LEMMA RouterReceivesKeeps ==
  ASSUME IInv, RouterReceives
  PROVE  IInv'
<1>1. /\ router = Idle /\ orchestrator # <<>>
      /\ router' = Head(orchestrator) /\ orchestrator' = Tail(orchestrator)
      /\ UNCHANGED <<world, inbox, host, ingress, main, raised, asked, log>>
  BY DEF RouterReceives
<1> DEFINE e == Head(orchestrator)
<1>2. /\ e \in Message /\ (e.cmd = "task" => e.task \in Task)
      /\ orchestrator' \in Seq(Message) /\ Len(orchestrator') <= world.size
      /\ \A i \in 1 .. Len(orchestrator') :
           orchestrator'[i].cmd = "task" => orchestrator'[i].task \in Task
      /\ \A t \in Task : Cardinality(Listed(orchestrator', t)) + One(e.task, t)
                           <= Cardinality(Listed(orchestrator, t))
  BY <1>1, Taken
<1> HIDE DEF e
<1>3. router' = e
  BY <1>1 DEF e
<1>4. Types'
  BY <1>1, <1>2, <1>3 DEF IInv, Types
<1>5. Routable' /\ HostsSurvive'
  BY <1>1, <1>2, <1>3 DEF IInv, Routable, HostsSurvive
<1>6. ASSUME NEW t \in Task PROVE Places(t)' <= Places(t)
  <2>1. Cardinality(Listed(orchestrator', t)) + One(e.task, t)
          <= Cardinality(Listed(orchestrator, t))
    BY <1>2
  <2>2. One(router.task, t) = 0 /\ One(router'.task, t) = One(e.task, t)
    BY <1>1, <1>3, NoTask
  <2>3. /\ Cardinality(Delivered(inbox', world.size, t)) = Cardinality(Delivered(inbox, world.size, t))
        /\ Cardinality(Working(host', t)) = Cardinality(Working(host, t))
        /\ Cardinality(Listed(log', t)) = Cardinality(Listed(log, t))
    BY <1>1
  <2> QED
    BY <1>1, <1>4, <2>1, <2>2, <2>3, Parts DEF IInv
<1>7. Once'
  BY <1>1, <1>4, <1>6, OnceKept DEF IInv
<1> QED
  BY <1>4, <1>5, <1>7 DEF IInv

LEMMA HostReceivesKeeps ==
  ASSUME IInv, NEW a \in Agent, HostReceives(a)
  PROVE  IInv'
<1> DEFINE e == Head(inbox[a])
           h == [cmd |-> "works", task |-> e]
<1>1. /\ host[a] = Idle /\ inbox[a] # <<>>
      /\ host' = [host EXCEPT ![a] = h]
      /\ inbox' = [inbox EXCEPT ![a] = Tail(@)]
      /\ UNCHANGED <<world, orchestrator, router, ingress, main, raised, asked, log>>
  BY DEF HostReceives
<1>2. /\ e \in Task /\ inbox' \in [Agent -> Seq(Task)]
      /\ \A b \in Agent : Len(inbox'[b]) <= world.size
      /\ \A t \in Task : Cardinality(Delivered(inbox', world.size, t)) + One(e, t)
                           <= Cardinality(Delivered(inbox, world.size, t))
  BY <1>1, TakenBy
<1> HIDE DEF e
<1>3. h \in Busy /\ h.task = e /\ h \notin Stopped
  BY <1>2 DEF Busy, Stopped, Over, Failed
<1> HIDE DEF h
<1>4. Types'
  <2>1. host' \in [Agent -> {Idle, Over, Failed} \cup Busy]
    BY <1>1, <1>3 DEF IInv, Types
  <2> QED
    BY <1>1, <1>2, <2>1 DEF IInv, Types
<1>5. Routable'
  BY <1>1 DEF IInv, Routable
<1>6. HostsSurvive'
  BY <1>1, <1>3 DEF IInv, Types, HostsSurvive
<1>7. ASSUME NEW t \in Task PROVE Places(t)' <= Places(t)
  <2>1. Cardinality(Delivered(inbox', world.size, t)) + One(e, t)
          <= Cardinality(Delivered(inbox, world.size, t))
    BY <1>2
  <2>2. Cardinality(Working(host', t)) + One(host[a].task, t)
          = Cardinality(Working(host, t)) + One(e, t)
    <3>1. (\A b \in Agent \ {a} : host'[b] = host[b]) /\ host'[a] = h
      BY <1>1 DEF IInv, Types
    <3>2. Cardinality(Working(host', t)) + One(host[a].task, t)
            = Cardinality(Working(host, t)) + One(host'[a].task, t)
      BY <3>1, HostChanges
    <3> QED
      BY <1>3, <3>1, <3>2
  <2>3. One(host[a].task, t) = 0 /\ One(e, t) \in Nat
    BY <1>1, NoTask DEF One
  <2>4. /\ Cardinality(Listed(orchestrator', t)) = Cardinality(Listed(orchestrator, t))
        /\ One(router'.task, t) = One(router.task, t)
        /\ Cardinality(Listed(log', t)) = Cardinality(Listed(log, t))
    BY <1>1
  <2>5. /\ Cardinality(Delivered(inbox, world.size, t)) \in Nat
        /\ Cardinality(Delivered(inbox', world.size, t)) \in Nat
        /\ Cardinality(Working(host, t)) \in Nat
        /\ Cardinality(Working(host', t)) \in Nat
    BY <1>1, <1>4, Parts DEF IInv
  <2>6. Cardinality(Delivered(inbox', world.size, t)) + Cardinality(Working(host', t))
          <= Cardinality(Delivered(inbox, world.size, t)) + Cardinality(Working(host, t))
    BY <2>1, <2>2, <2>3, <2>5
  <2> DEFINE x == Cardinality(Listed(orchestrator, t))
             y == One(router.task, t)
             d == Cardinality(Delivered(inbox, world.size, t))
             d2 == Cardinality(Delivered(inbox', world.size, t))
             w == Cardinality(Working(host, t))
             w2 == Cardinality(Working(host', t))
             l == Cardinality(Listed(log, t))
  <2>7. /\ Places(t) = x + y + d + w + l /\ Places(t)' = x + y + d2 + w2 + l
        /\ x \in Nat /\ y \in Nat /\ l \in Nat
    BY <1>1, <1>4, <2>4, Parts DEF IInv
  <2> HIDE DEF x, y, d, d2, w, w2, l
  <2>8. d2 + w2 <= d + w /\ d \in Nat /\ d2 \in Nat /\ w \in Nat /\ w2 \in Nat
    BY <2>5, <2>6 DEF d, d2, w, w2
  <2> QED
    BY <2>7, <2>8
<1>8. Once'
  BY <1>1, <1>4, <1>7, OnceKept DEF IInv
<1> QED
  BY <1>4, <1>5, <1>6, <1>8 DEF IInv

LEMMA BusLosesKeeps ==
  ASSUME IInv, BusLoses
  PROVE  IInv'
<1>1. UNCHANGED <<world, router, host, ingress, main, raised, asked, log>>
  BY DEF BusLoses
<1>2. HostsSurvive'
  BY <1>1 DEF IInv, HostsSurvive
<1>3. CASE orchestrator # <<>> /\ orchestrator' = Tail(orchestrator) /\ inbox' = inbox
  <2>1. /\ orchestrator' \in Seq(Message) /\ Len(orchestrator') <= world.size
        /\ \A i \in 1 .. Len(orchestrator') :
             orchestrator'[i].cmd = "task" => orchestrator'[i].task \in Task
        /\ \A t \in Task :
             Cardinality(Listed(orchestrator', t)) + One(Head(orchestrator).task, t)
               <= Cardinality(Listed(orchestrator, t))
    BY <1>1, <1>3, Taken
  <2>2. Types'
    BY <1>1, <1>3, <2>1 DEF IInv, Types
  <2>3. Routable'
    BY <1>1, <2>1 DEF IInv, Routable
  <2>4. ASSUME NEW t \in Task PROVE Places(t)' <= Places(t)
    <3>1. Cardinality(Listed(orchestrator', t)) + One(Head(orchestrator).task, t)
            <= Cardinality(Listed(orchestrator, t))
      BY <2>1
    <3>2. One(Head(orchestrator).task, t) \in Nat
      BY DEF One
    <3>3. /\ One(router'.task, t) = One(router.task, t)
          /\ Cardinality(Delivered(inbox', world.size, t)) = Cardinality(Delivered(inbox, world.size, t))
          /\ Cardinality(Working(host', t)) = Cardinality(Working(host, t))
          /\ Cardinality(Listed(log', t)) = Cardinality(Listed(log, t))
      BY <1>1, <1>3
    <3> QED
      BY <1>1, <2>2, <3>1, <3>2, <3>3, Parts DEF IInv
  <2>5. Once'
    BY <1>1, <2>2, <2>4, OnceKept DEF IInv
  <2> QED
    BY <1>2, <2>2, <2>3, <2>5 DEF IInv
<1>4. ASSUME NEW a \in Agent, inbox[a] # <<>>, inbox' = [inbox EXCEPT ![a] = Tail(@)],
             orchestrator' = orchestrator
      PROVE  IInv'
  <2>1. /\ inbox' \in [Agent -> Seq(Task)]
        /\ \A b \in Agent : Len(inbox'[b]) <= world.size
        /\ \A t \in Task :
             Cardinality(Delivered(inbox', world.size, t)) + One(Head(inbox[a]), t)
               <= Cardinality(Delivered(inbox, world.size, t))
    BY <1>1, <1>4, TakenBy
  <2>2. Types'
    BY <1>1, <1>4, <2>1 DEF IInv, Types
  <2>3. Routable'
    BY <1>1, <1>4 DEF IInv, Routable
  <2>4. ASSUME NEW t \in Task PROVE Places(t)' <= Places(t)
    <3>1. Cardinality(Delivered(inbox', world.size, t)) + One(Head(inbox[a]), t)
            <= Cardinality(Delivered(inbox, world.size, t))
      BY <2>1
    <3>2. One(Head(inbox[a]), t) \in Nat
      BY DEF One
    <3>3. /\ Cardinality(Listed(orchestrator', t)) = Cardinality(Listed(orchestrator, t))
          /\ One(router'.task, t) = One(router.task, t)
          /\ Cardinality(Working(host', t)) = Cardinality(Working(host, t))
          /\ Cardinality(Listed(log', t)) = Cardinality(Listed(log, t))
      BY <1>1, <1>4
    <3> QED
      BY <1>1, <2>2, <3>1, <3>2, <3>3, Parts DEF IInv
  <2>5. Once'
    BY <1>1, <2>2, <2>4, OnceKept DEF IInv
  <2> QED
    BY <1>2, <2>2, <2>3, <2>5 DEF IInv
<1> QED
  BY <1>3, <1>4 DEF BusLoses

\* Reports are recorded; the router has no task then.
LEMMA RecordKeeps ==
  ASSUME IInv, Record
  PROVE  IInv'
<1>1. /\ router.cmd \in {"done", "failed", "ignored", "broken"}
      /\ log' = IF router.cmd \in {"done", "failed"} THEN Append(log, router) ELSE log
      /\ router' \in {Idle, Failed}
      /\ UNCHANGED <<world, orchestrator, inbox, host, ingress, main, raised, asked>>
  BY DEF Record
<1>2. router \in Message
  BY <1>1 DEF IInv, Types, Idle, Over, Failed
<1>3. log' \in Seq(Message)
  BY <1>1, <1>2, AppendProperties DEF IInv, Types
<1>4. Types'
  BY <1>1, <1>3 DEF IInv, Types
<1>5. Routable' /\ HostsSurvive'
  BY <1>1 DEF IInv, Routable, HostsSurvive, Idle, Failed
<1>6. ASSUME NEW t \in Task PROVE Places(t)' <= Places(t)
  <2>1. One(router'.task, t) = 0
    BY <1>1, NoTask
  <2>2. \/ Cardinality(Listed(log', t)) = Cardinality(Listed(log, t)) + One(router.task, t)
        \/ Cardinality(Listed(log', t)) = Cardinality(Listed(log, t))
    BY <1>1, <1>2, ListedAppend DEF IInv, Types
  <2>3. /\ Cardinality(Listed(orchestrator', t)) = Cardinality(Listed(orchestrator, t))
        /\ Cardinality(Delivered(inbox', world.size, t)) = Cardinality(Delivered(inbox, world.size, t))
        /\ Cardinality(Working(host', t)) = Cardinality(Working(host, t))
    BY <1>1
  <2> DEFINE x == Cardinality(Listed(orchestrator, t))
             y == One(router.task, t)
             d == Cardinality(Delivered(inbox, world.size, t))
             w == Cardinality(Working(host, t))
             l == Cardinality(Listed(log, t))
             l2 == Cardinality(Listed(log', t))
  <2>4. /\ Places(t) = x + y + d + w + l /\ Places(t)' = x + 0 + d + w + l2
        /\ x \in Nat /\ y \in Nat /\ d \in Nat /\ w \in Nat /\ l \in Nat
    BY <1>1, <1>4, <2>1, <2>3, Parts DEF IInv
  <2>5. l2 = l + y \/ l2 = l
    BY <2>2
  <2> HIDE DEF x, y, d, w, l, l2
  <2> QED
    BY <2>4, <2>5
<1>7. Once'
  BY <1>1, <1>4, <1>6, OnceKept DEF IInv
<1> QED
  BY <1>4, <1>5, <1>7 DEF IInv

\* The task goes to the mailbox of its host, or nowhere.
LEMMA RouteTaskKeeps ==
  ASSUME IInv, RouteTask
  PROVE  IInv'
<1> DEFINE e == router.task
           a == Target[e]
<1>1. /\ router.cmd = "task"
      /\ UNCHANGED <<world, orchestrator, host, ingress, main, raised, asked, log>>
      /\ \/ /\ Room(inbox[a]) /\ inbox' = [inbox EXCEPT ![a] = Append(@, e)]
            /\ router' = Idle
         \/ inbox' = inbox /\ router' = Failed
  BY DEF RouteTask, Forwarded
<1>2. e \in Task /\ a \in Agent
  BY <1>1, RouteAssumption DEF IInv, Routable
<1> HIDE DEF a, e
<1>3. /\ inbox' \in [Agent -> Seq(Task)] /\ \A b \in Agent : Len(inbox'[b]) <= world.size
      /\ \A t \in Task :
           \/ Cardinality(Delivered(inbox', world.size, t))
                = Cardinality(Delivered(inbox, world.size, t)) + One(e, t)
           \/ Cardinality(Delivered(inbox', world.size, t))
                = Cardinality(Delivered(inbox, world.size, t))
  <2>1. CASE inbox' = inbox
    BY <2>1 DEF IInv, Types
  <2>2. CASE Room(inbox[a]) /\ inbox' = [inbox EXCEPT ![a] = Append(@, e)]
    <3>1. /\ inbox \in [Agent -> Seq(Task)] /\ inbox[a] \in Seq(Task)
          /\ Len(inbox[a]) \in Nat /\ world.size \in Nat
          /\ Len(inbox[a]) < world.size
      BY <1>2, <2>2, LenProperties, WorldAssumption DEF Room, IInv, Types, World
    <3>2. Append(inbox[a], e) \in Seq(Task) /\ Len(Append(inbox[a], e)) = Len(inbox[a]) + 1
      BY <1>2, <3>1, AppendProperties
    <3>3. inbox' \in [Agent -> Seq(Task)]
      BY <1>2, <2>2, <3>1, <3>2
    <3>4. ASSUME NEW b \in Agent PROVE Len(inbox'[b]) <= world.size
      <4>1. CASE b = a
        <5>1. Len(inbox'[b]) = Len(inbox[a]) + 1
          BY <1>2, <2>2, <3>1, <3>2, <4>1
        <5> QED
          BY <3>1, <5>1
      <4>2. CASE b # a
        BY <2>2, <3>1, <4>2 DEF IInv, Types
      <4> QED
        BY <4>1, <4>2
    <3>5. inbox'[a] = Append(inbox[a], e) /\ \A b \in Agent \ {a} : inbox'[b] = inbox[b]
      BY <1>2, <2>2, <3>1
    <3>6. ASSUME NEW t \in Task
          PROVE  Cardinality(Delivered(inbox', world.size, t))
                   = Cardinality(Delivered(inbox, world.size, t)) + One(e, t)
      BY <1>2, <3>1, <3>3, <3>5, InboxGrows
    <3> QED
      BY <3>3, <3>4, <3>6
  <2> QED
    BY <1>1, <2>1, <2>2
<1>4. router' \in {Idle, Failed}
  BY <1>1
<1>5. Types'
  BY <1>1, <1>3, <1>4 DEF IInv, Types
<1>6. Routable' /\ HostsSurvive'
  BY <1>1, <1>4 DEF IInv, Routable, HostsSurvive, Idle, Failed
<1>7. ASSUME NEW t \in Task PROVE Places(t)' <= Places(t)
  <2>1. One(router'.task, t) = 0
    BY <1>4, NoTask
  <2>2. /\ Cardinality(Listed(orchestrator', t)) = Cardinality(Listed(orchestrator, t))
        /\ Cardinality(Working(host', t)) = Cardinality(Working(host, t))
        /\ Cardinality(Listed(log', t)) = Cardinality(Listed(log, t))
    BY <1>1
  <2> DEFINE x == Cardinality(Listed(orchestrator, t))
             y == One(e, t)
             d == Cardinality(Delivered(inbox, world.size, t))
             d2 == Cardinality(Delivered(inbox', world.size, t))
             w == Cardinality(Working(host, t))
             l == Cardinality(Listed(log, t))
  <2>3. /\ Places(t) = x + y + d + w + l /\ Places(t)' = x + 0 + d2 + w + l
        /\ x \in Nat /\ y \in Nat /\ d \in Nat /\ w \in Nat /\ l \in Nat
    BY <1>1, <1>5, <2>1, <2>2, Parts DEF IInv, e
  <2>4. d2 = d + y \/ d2 = d
    BY <1>3
  <2> HIDE DEF x, y, d, d2, w, l
  <2> QED
    BY <2>3, <2>4
<1>8. Once'
  BY <1>1, <1>5, <1>7, OnceKept DEF IInv
<1> QED
  BY <1>5, <1>6, <1>8 DEF IInv

\* A host that works on a task, or is going to report it, has one.
LEMMA BusyHost ==
  ASSUME IInv, NEW a \in Agent, host[a].cmd \in {"works", "reports"}
  PROVE  host[a] \in Busy /\ host[a].task \in Task
BY DEF IInv, Types, Idle, Over, Failed, Busy

\* A host that goes on with its task, or drops it.
LEMMA HostKeeps ==
  ASSUME IInv, NEW a \in Agent, NEW h \in {Idle} \cup Busy,
         h = Idle \/ h.task = host[a].task,
         host' = [host EXCEPT ![a] = h],
         UNCHANGED <<world, orchestrator, inbox, router, ingress, main, raised,
                     asked, log>>
  PROVE  IInv'
<1>1. host' \in [Agent -> {Idle, Over, Failed} \cup Busy]
  BY DEF IInv, Types
<1>2. (\A b \in Agent \ {a} : host'[b] = host[b]) /\ host'[a] = h
  BY DEF IInv, Types
<1>3. Types'
  BY <1>1 DEF IInv, Types
<1>4. Routable'
  BY DEF IInv, Routable
<1>5. HostsSurvive'
  <2>1. h \notin Stopped
    BY DEF Stopped, Idle, Over, Failed, Busy
  <2> QED
    BY <1>2, <2>1 DEF IInv, HostsSurvive
<1>6. ASSUME NEW t \in Task PROVE Places(t)' <= Places(t)
  <2>1. Cardinality(Working(host', t)) + One(host[a].task, t)
          = Cardinality(Working(host, t)) + One(h.task, t)
    <3>1. Cardinality(Working(host', t)) + One(host[a].task, t)
            = Cardinality(Working(host, t)) + One(host'[a].task, t)
      BY <1>2, HostChanges
    <3> QED
      BY <1>2, <3>1
  <2>2. One(h.task, t) <= One(host[a].task, t)
        /\ One(h.task, t) \in Nat /\ One(host[a].task, t) \in Nat
    <3>1. CASE h = Idle
      BY <3>1, NoTask DEF One
    <3>2. CASE h.task = host[a].task
      BY <3>2 DEF One
    <3> QED
      BY <3>1, <3>2
  <2> DEFINE x == Cardinality(Listed(orchestrator, t))
             y == One(router.task, t)
             d == Cardinality(Delivered(inbox, world.size, t))
             w == Cardinality(Working(host, t))
             w2 == Cardinality(Working(host', t))
             l == Cardinality(Listed(log, t))
  <2>3. /\ Places(t) = x + y + d + w + l /\ Places(t)' = x + y + d + w2 + l
        /\ x \in Nat /\ y \in Nat /\ d \in Nat /\ w \in Nat /\ w2 \in Nat /\ l \in Nat
    BY <1>3, Parts DEF IInv
  <2> HIDE DEF x, y, d, l
  <2>4. w2 <= w
    BY <2>1, <2>2, <2>3
  <2> HIDE DEF w, w2
  <2> QED
    BY <2>3, <2>4
<1>7. Once'
  BY <1>3, <1>6, OnceKept DEF IInv
<1> QED
  BY <1>3, <1>4, <1>5, <1>7 DEF IInv

\* A host that reports its task and has none any more.
LEMMA ReportKeeps ==
  ASSUME IInv, NEW a \in Agent, host[a].cmd \in {"works", "reports"},
         NEW cmd \in {"done", "failed"}, Room(orchestrator),
         orchestrator' = Append(orchestrator, [cmd |-> cmd, task |-> host[a].task]),
         host' = [host EXCEPT ![a] = Idle],
         UNCHANGED <<world, inbox, router, ingress, main, raised, asked, log>>
  PROVE  IInv'
<1> DEFINE e == [cmd |-> cmd, task |-> host[a].task]
<1>1. host[a].task \in Task
  BY BusyHost
<1>2. e \in Message /\ e.cmd # "task" /\ e.task = host[a].task
  BY <1>1 DEF Message
<1>3. orchestrator' = Append(orchestrator, e)
  OBVIOUS
<1> HIDE DEF e
<1>4. /\ orchestrator' \in Seq(Message) /\ Len(orchestrator) \in Nat
      /\ Len(orchestrator') = Len(orchestrator) + 1
      /\ \A i \in 1 .. Len(orchestrator) : orchestrator'[i] = orchestrator[i]
      /\ orchestrator'[Len(orchestrator) + 1] = e
  BY <1>2, <1>3, AppendProperties, LenProperties DEF IInv, Types
<1>5. Len(orchestrator') <= world.size
  BY <1>4, WorldAssumption DEF Room, IInv, Types, World
<1>6. host' \in [Agent -> {Idle, Over, Failed} \cup Busy]
  BY DEF IInv, Types
<1>7. (\A b \in Agent \ {a} : host'[b] = host[b]) /\ host'[a] = Idle
  BY DEF IInv, Types
<1>8. Types'
  BY <1>4, <1>5, <1>6 DEF IInv, Types
<1>9. Routable'
  <2>1. \A i \in 1 .. Len(orchestrator') :
          i \in 1 .. Len(orchestrator) \/ i = Len(orchestrator) + 1
    BY <1>4
  <2> QED
    BY <1>2, <1>4, <2>1 DEF IInv, Routable
<1>10. HostsSurvive'
  <2>1. Idle \notin Stopped
    BY DEF Stopped, Idle, Over, Failed
  <2> QED
    BY <1>7, <2>1 DEF IInv, HostsSurvive
<1>11. ASSUME NEW t \in Task PROVE Places(t)' <= Places(t)
  <2>1. Cardinality(Working(host', t)) + One(host[a].task, t)
          = Cardinality(Working(host, t)) + One(Idle.task, t)
    <3>1. Cardinality(Working(host', t)) + One(host[a].task, t)
            = Cardinality(Working(host, t)) + One(host'[a].task, t)
      BY <1>7, HostChanges
    <3> QED
      BY <1>7, <3>1
  <2>2. Cardinality(Listed(orchestrator', t))
          = Cardinality(Listed(orchestrator, t)) + One(e.task, t)
    BY <1>2, <1>3, ListedAppend DEF IInv, Types
  <2>3. One(Idle.task, t) = 0
    BY NoTask
  <2> DEFINE x == Cardinality(Listed(orchestrator, t))
             x2 == Cardinality(Listed(orchestrator', t))
             y == One(router.task, t)
             d == Cardinality(Delivered(inbox, world.size, t))
             w == Cardinality(Working(host, t))
             w2 == Cardinality(Working(host', t))
             l == Cardinality(Listed(log, t))
             m == One(host[a].task, t)
  <2>4. /\ Places(t) = x + y + d + w + l /\ Places(t)' = x2 + y + d + w2 + l
        /\ x \in Nat /\ x2 \in Nat /\ y \in Nat /\ d \in Nat /\ w \in Nat /\ w2 \in Nat
        /\ l \in Nat
    BY <1>8, Parts DEF IInv
  <2>5. w2 + m = w + 0 /\ x2 = x + m
    BY <1>2, <2>1, <2>2, <2>3
  <2>6. m \in Nat
    BY DEF One
  <2> HIDE DEF x, x2, y, d, w, w2, l, m
  <2> QED
    BY <2>4, <2>5, <2>6
<1>12. Once'
  BY <1>8, <1>11, OnceKept DEF IInv
<1> QED
  BY <1>8, <1>9, <1>10, <1>12 DEF IInv

\* The failure of a host is going to be reported.
LEMMA CaughtKeeps ==
  ASSUME IInv, NEW a \in Agent, host[a].cmd = "works", host' = Caught(a),
         UNCHANGED <<world, orchestrator, inbox, router, ingress, main, raised,
                     asked, log>>
  PROVE  IInv'
<1> DEFINE h == [host[a] EXCEPT !.cmd = "reports"]
<1>1. host[a] \in Busy
  BY BusyHost
<1>2. h \in Busy /\ h.task = host[a].task
  BY <1>1 DEF Busy
<1>3. host' = [host EXCEPT ![a] = h]
  BY DEF Caught, IInv, Types
<1> HIDE DEF h
<1> QED
  BY <1>2, <1>3, HostKeeps

LEMMA HostStepsKeep ==
  ASSUME IInv, NEW a \in Agent, Completes(a) \/ Fails(a) \/ Reports(a)
  PROVE  IInv'
<1>1. CASE Completes(a)
  <2>1. /\ host[a].cmd = "works"
        /\ UNCHANGED <<world, inbox, router, ingress, main, raised, asked, log>>
    BY <1>1 DEF Completes
  <2>2. CASE Room(orchestrator)
    <3>1. /\ orchestrator' = Append(orchestrator, [cmd |-> "done", task |-> host[a].task])
          /\ host' = [host EXCEPT ![a] = Idle]
      BY <1>1, <2>2 DEF Completes
    <3> QED
      BY <2>1, <2>2, <3>1, ReportKeeps
  <2>3. CASE ~Room(orchestrator)
    <3>1. host' = Caught(a) /\ orchestrator' = orchestrator
      BY <1>1, <2>3 DEF Completes
    <3> QED
      BY <2>1, <3>1, CaughtKeeps
  <2> QED
    BY <2>2, <2>3
<1>2. CASE Fails(a)
  <2>1. /\ host[a].cmd = "works" /\ host' = Caught(a)
        /\ UNCHANGED <<world, orchestrator, inbox, router, ingress, main, raised,
                       asked, log>>
    BY <1>2 DEF Fails
  <2> QED
    BY <2>1, CaughtKeeps
<1>3. CASE Reports(a)
  <2>1. /\ host[a].cmd = "reports"
        /\ UNCHANGED <<world, inbox, router, ingress, main, raised, asked, log>>
    BY <1>3 DEF Reports
  <2>2. CASE Room(orchestrator)
    <3>1. /\ orchestrator' = Append(orchestrator, [cmd |-> "failed", task |-> host[a].task])
          /\ host' = [host EXCEPT ![a] = Idle]
      BY <1>3, <2>2 DEF Reports
    <3> QED
      BY <2>1, <2>2, <3>1, ReportKeeps
  <2>3. CASE ~Room(orchestrator)
    <3>1. host' = [host EXCEPT ![a] = Idle] /\ orchestrator' = orchestrator
      BY <1>3, <2>3 DEF Reports, Unreported
    <3> QED
      BY <2>1, <3>1, HostKeeps
  <2> QED
    BY <2>2, <2>3
<1> QED
  BY <1>1, <1>2, <1>3

LEMMA MainWakesKeeps ==
  ASSUME IInv, MainWakes
  PROVE  IInv'
<1>1. /\ main = "waits" /\ main' = "cancels" /\ raised' \in BOOLEAN
      /\ UNCHANGED <<world, orchestrator, inbox, router, host, ingress, asked, log>>
  BY DEF MainWakes
<1>2. Types'
  BY <1>1 DEF IInv, Types
<1>3. Routable' /\ HostsSurvive'
  BY <1>1 DEF IInv, Routable, HostsSurvive
<1>4. ASSUME NEW t \in Task PROVE Places(t)' <= Places(t)
  BY <1>1, <1>2, Parts DEF IInv
<1>5. Once'
  BY <1>1, <1>2, <1>4, OnceKept DEF IInv
<1> QED
  BY <1>2, <1>3, <1>5 DEF IInv

\* When main ends, only the reports are left.
LEMMA MainEndsKeeps ==
  ASSUME IInv, MainEnds
  PROVE  IInv'
<1>1. /\ main' = "over" /\ router' \in {Failed, Over}
      /\ host' = [a \in Agent |-> IF host[a] = Failed THEN Failed ELSE Over]
      /\ ingress' \in {"over", ingress}
      /\ orchestrator' = <<>> /\ inbox' = [a \in Agent |-> <<>>]
      /\ UNCHANGED <<world, raised, asked, log>>
  BY DEF MainEnds
<1>2. <<>> \in Seq(Message) /\ <<>> \in Seq(Task) /\ Len(<<>>) = 0
  BY EmptySeq
<1>3. Types'
  <2>1. world.size \in Nat
    BY WorldAssumption DEF IInv, Types, World
  <2>2. inbox' \in [Agent -> Seq(Task)] /\ \A a \in Agent : Len(inbox'[a]) <= world.size
    BY <1>1, <1>2, <2>1
  <2>3. orchestrator' \in Seq(Message) /\ Len(orchestrator') <= world.size
    BY <1>1, <1>2, <2>1
  <2>4. host' \in [Agent -> {Idle, Over, Failed} \cup Busy]
    BY <1>1
  <2> QED
    BY <1>1, <2>2, <2>3, <2>4 DEF IInv, Types
<1>4. Routable'
  BY <1>1, <1>2 DEF Routable, Over, Failed
<1>5. HostsSurvive'
  BY <1>1 DEF HostsSurvive
<1>6. ASSUME NEW t \in Task PROVE Places(t)' <= Places(t)
  <2>1. Listed(orchestrator', t) = {}
    BY <1>1 DEF Listed
  <2>2. Delivered(inbox', world.size, t) = {}
    BY <1>1 DEF Delivered
  <2>3. Working(host', t) = {}
    BY <1>1 DEF Working, Over, Failed, Task
  <2>4. One(router'.task, t) = 0
    BY <1>1, NoTask
  <2>5. Cardinality({}) = 0
    BY FS_EmptySet
  <2> DEFINE x == Cardinality(Listed(orchestrator, t))
             y == One(router.task, t)
             d == Cardinality(Delivered(inbox, world.size, t))
             w == Cardinality(Working(host, t))
             l == Cardinality(Listed(log, t))
  <2>6. /\ Places(t) = x + y + d + w + l /\ Places(t)' = 0 + 0 + 0 + 0 + l
        /\ x \in Nat /\ y \in Nat /\ d \in Nat /\ w \in Nat /\ l \in Nat
    BY <1>1, <1>3, <2>1, <2>2, <2>3, <2>4, <2>5, Parts DEF IInv
  <2> HIDE DEF x, y, d, w, l
  <2> QED
    BY <2>6
<1>7. Once'
  BY <1>1, <1>3, <1>6, OnceKept DEF IInv
<1> QED
  BY <1>3, <1>4, <1>5, <1>7 DEF IInv

-----------------------------------------------------------------------------
(* Theorems *)

\* Every step keeps the invariant.
LEMMA Inductive ==
  ASSUME IInv, [Next]_vars
  PROVE  IInv'
<1>1. CASE Ask \/ Quit \/ Noise
  BY <1>1, AskKeeps, QuitKeeps, NoiseKeeps
<1>2. CASE RouterReceives \/ BusLoses \/ Record \/ RouteTask
  BY <1>2, RouterReceivesKeeps, BusLosesKeeps, RecordKeeps, RouteTaskKeeps
<1>3. CASE \E a \in Agent : HostReceives(a) \/ Completes(a) \/ Fails(a) \/ Reports(a)
  BY <1>3, HostReceivesKeeps, HostStepsKeep
<1>4. CASE MainWakes \/ MainEnds
  BY <1>4, MainWakesKeeps, MainEndsKeeps
<1>5. CASE UNCHANGED vars
  <2>1. UNCHANGED <<world, orchestrator, inbox, router, host, ingress, main, raised,
                    asked, log>>
    BY <1>5 DEF vars
  <2>2. Types' /\ Routable' /\ HostsSurvive'
    BY <2>1 DEF IInv, Types, Routable, HostsSurvive
  <2>3. Once'
    BY <2>1 DEF IInv, Once, Places
  <2> QED
    BY <2>2, <2>3 DEF IInv
<1> QED
  BY <1>1, <1>2, <1>3, <1>4, <1>5 DEF Next

\* The inductive invariant: types, routes, every task in one place, hosts alive.
THEOREM IInvHolds == Spec => []IInv
<1>1. Init => IInv
  BY InitHolds
<1>2. IInv /\ [Next]_vars => IInv'
  BY Inductive
<1> QED
  BY <1>1, <1>2, PTL DEF Spec

\* Mailboxes keep to their size, and a request is in one place at a time: it is
\* worked on once and reported once, whatever fails, is lost or is refused.
THEOREM AccountedTheorem == Spec => []TasksAreAccounted
<1>1. IInv => TasksAreAccounted
  <2> SUFFICES ASSUME IInv PROVE TasksAreAccounted
    OBVIOUS
  <2>1. TasksAreHandledOnce
    BY DEF IInv, Once, TasksAreHandledOnce
  <2>2. \A i \in DOMAIN orchestrator : orchestrator[i] \in Message
    BY ElementOfSeq, LenProperties DEF IInv, Types
  <2>3. \A i \in DOMAIN log : log[i] \in Message
    BY ElementOfSeq, LenProperties DEF IInv, Types
  <2>4. ASSUME NEW a \in Agent, NEW i \in DOMAIN inbox[a] PROVE inbox[a][i] \in Task
    <3>1. inbox[a] \in Seq(Task)
      BY DEF IInv, Types
    <3> QED
      BY <3>1, ElementOfSeq, LenProperties
  <2>5. TypeOK
    BY <2>2, <2>3, <2>4 DEF IInv, Types, TypeOK, Busy
  <2> QED
    BY <2>1, <2>5 DEF TasksAreAccounted
<1> QED
  BY <1>1, IInvHolds, PTL

\* Hosts survive their failures, also those of their reports.
THEOREM SurviveTheorem == Spec => []HostsSurvive
<1>1. IInv => HostsSurvive
  BY DEF IInv
<1> QED
  BY <1>1, IInvHolds, PTL

=============================================================================
