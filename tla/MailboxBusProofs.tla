-------------------------- MODULE MailboxBusProofs --------------------------
(***************************************************************************)
(* Proofs about MailboxBus: its types, and that it implements LossyFifo,   *)
(* for any agents, any capacity and any number of registrations, calls and *)
(* messages.                                                               *)
(***************************************************************************)
EXTENDS MailboxBus, TLAPS

\* What is taken was accepted, and what is delivered or carried was taken.
Positions ==
  \A c \in Chan :
    /\ taken[c] <= accepted[c]
    /\ \A p \in Given(c) : p <= taken[c]
    /\ \A r \in Call : source[r] = c => carried[r] <= taken[c]

\* Calls are made one after the other, and only a task that has taken a
\* message resolves a future with it.
Calls ==
  \A r \in Call :
    /\ r > calls => task[r] = "unused"
    /\ task[r] = "unused" => carried[r] = 0
    /\ task[r] \in {"unused", "spawned", "waiting", "holding"} => future[r] # "result"
    /\ future[r] = "result" => carried[r] > 0

\* The call an agent awaits is on a channel of its own name, and carries
\* nothing older than what the channel has delivered.
Awaited ==
  \A n \in Name : awaiting[n] # 0 =>
    LET r == awaiting[n] IN
    /\ r <= calls
    /\ task[r] # "unused"
    /\ source[r] \in Chan /\ source[r][1] = n
    /\ \A p \in Given(source[r]) : carried[r] = 0 \/ p < carried[r]

\* The states of an agent that neither polls nor is killed: the only task it
\* has under way is that of the call it awaits, which nobody has cancelled.
Patient == Name \ (Polling \cup Killable)

PatientCalls ==
  \A r \in Call :
    /\ future[r] \in {"result", "failed"} => task[r] = "ended"
    /\ \A n \in Patient :
         (task[r] \in {"spawned", "waiting", "holding", "posted"} /\ source[r][1] = n)
           => (awaiting[n] = r /\ future[r] = "pending")

IInv == TypeOK /\ Positions /\ Calls /\ Awaited

-----------------------------------------------------------------------------
(* Types *)

\* The channel a registered mailbox stands for exists.
LEMMA CurrentIsChannel ==
  ASSUME RegistryTypeOK, NEW n \in open PROVE Current(n) \in Chan
<1>1. n \in Name /\ registrations[n] \in 0 .. MaxRegistrations /\ registrations[n] > 0
  BY DEF RegistryTypeOK
<1>2. registrations[n] \in 1 .. MaxRegistrations
  BY <1>1, BoundAssumption
<1> QED
  BY <1>1, <1>2 DEF Current, Chan

\* Consumers are given positions.
LEMMA GivenPositions ==
  ASSUME ChannelTypeOK, NEW c \in Chan PROVE Given(c) \subseteq Nat
<1>1. delivered[c] \in Seq(Nat)
  BY DEF ChannelTypeOK
<1>2. \A i \in DOMAIN delivered[c] : delivered[c][i] \in Nat
  BY <1>1
<1> QED
  BY <1>2 DEF Given

\* Delivering a message to the consumer of channel d adds it to what that
\* consumer was given, and nothing elsewhere.
LEMMA AppendGiven ==
  ASSUME ChannelTypeOK, NEW d \in Chan, NEW p \in Nat,
         delivered' = [delivered EXCEPT ![d] = Append(@, p)], NEW c \in Chan
  PROVE  Given(c)' = IF c = d THEN Given(c) \cup {p} ELSE Given(c)
<1>1. delivered[c] \in Seq(Nat) /\ delivered[d] \in Seq(Nat)
  BY DEF ChannelTypeOK
<1>2. delivered'[c] = IF c = d THEN Append(delivered[c], p) ELSE delivered[c]
  BY DEF ChannelTypeOK
<1>3. CASE c = d
  <2>1. DOMAIN delivered[c] = 1 .. Len(delivered[c])
    BY <1>1
  <2>2. /\ DOMAIN delivered'[c] = 1 .. Len(delivered[c]) + 1
        /\ \A i \in 1 .. Len(delivered[c]) : delivered'[c][i] = delivered[c][i]
        /\ delivered'[c][Len(delivered[c]) + 1] = p
    BY <1>1, <1>2, <1>3
  <2>3. Len(delivered[c]) \in Nat
    BY <1>1
  <2>4. 1 .. Len(delivered[c]) + 1 = (1 .. Len(delivered[c])) \cup {Len(delivered[c]) + 1}
    BY <2>3
  <2>5. ASSUME NEW x PROVE x \in Given(c)' <=> (x \in Given(c) \/ x = p)
    BY <2>1, <2>2, <2>4 DEF Given
  <2> QED
    BY <1>3, <2>5
<1>4. CASE c # d
  BY <1>2, <1>4 DEF Given
<1> QED
  BY <1>3, <1>4

\* Every variable keeps its type, whatever the agents, the capacity of their
\* mailboxes and the bounds: no method of NativeIPCBus and none of its tasks
\* reads a channel or a call that does not exist.
LEMMA TypeStep == TypeOK /\ [Next]_vars => TypeOK'
<1> SUFFICES ASSUME TypeOK, [Next]_vars PROVE TypeOK'
  OBVIOUS
<1> USE BoundAssumption DEF TypeOK, registryVars, channelVars, callVars
<1>1. ASSUME NEW n \in Name, RegisterMailbox(n) PROVE TypeOK'
  <2>1. RegistryTypeOK'
    <3>1. registrations[n] \in 0 .. MaxRegistrations
      BY DEF RegistryTypeOK
    <3>2. registrations[n] + 1 \in 0 .. MaxRegistrations /\ registrations[n] + 1 > 0
      BY <1>1, <3>1 DEF RegisterMailbox
    <3>3. registrations' \in [Name -> 0 .. MaxRegistrations]
      BY <1>1, <3>2 DEF RegisterMailbox, RegistryTypeOK
    <3>4. \A m \in open' : registrations'[m] > 0
      BY <1>1, <3>2 DEF RegisterMailbox, RegistryTypeOK
    <3> QED
      BY <1>1, <3>3, <3>4 DEF RegisterMailbox, RegistryTypeOK
  <2>2. ChannelTypeOK'
    BY <1>1 DEF RegisterMailbox, ChannelTypeOK
  <2>3. CallTypeOK'
    BY <1>1 DEF RegisterMailbox, CallTypeOK
  <2> QED
    BY <2>1, <2>2, <2>3
<1>2. ASSUME NEW n \in Name, UnregisterMailbox(n) PROVE TypeOK'
  <2>1. RegistryTypeOK'
    BY <1>2 DEF UnregisterMailbox, RegistryTypeOK
  <2>2. ChannelTypeOK'
    BY <1>2 DEF UnregisterMailbox, ChannelTypeOK
  <2>3. CallTypeOK'
    BY <1>2 DEF UnregisterMailbox, CallTypeOK
  <2> QED
    BY <2>1, <2>2, <2>3
<1>3. ASSUME NEW n \in Name, NEW k \in Cap, RegisterCapability(n, k) PROVE TypeOK'
  <2>1. RegistryTypeOK'
    BY <1>3 DEF RegisterCapability, RegistryTypeOK
  <2>2. ChannelTypeOK'
    BY <1>3 DEF RegisterCapability, ChannelTypeOK
  <2>3. CallTypeOK'
    BY <1>3 DEF RegisterCapability, CallTypeOK
  <2> QED
    BY <2>1, <2>2, <2>3
<1>4. ASSUME NEW address \in Name \cup Cap, Send(address) PROVE TypeOK'
  <2>1. RegistryTypeOK'
    BY <1>4 DEF Send, RegistryTypeOK
  <2>2. ChannelTypeOK'
    <3>1. PICK n \in open : accepted' = accepted
               \/ accepted' = [accepted EXCEPT ![Current(n)] = @ + 1]
      BY <1>4 DEF Send
    <3>2. accepted \in [Chan -> Nat] /\ accepted[Current(n)] + 1 \in Nat
      BY CurrentIsChannel DEF ChannelTypeOK
    <3>3. accepted' \in [Chan -> Nat]
      BY <3>1, <3>2
    <3> QED
      BY <1>4, <3>3 DEF Send, ChannelTypeOK
  <2>3. CallTypeOK'
    BY <1>4 DEF Send, CallTypeOK
  <2> QED
    BY <2>1, <2>2, <2>3
<1>5. ASSUME NEW n \in Name, RecvMessage(n) PROVE TypeOK'
  <2>1. RegistryTypeOK'
    BY <1>5 DEF RecvMessage, RegistryTypeOK
  <2>2. ChannelTypeOK'
    BY <1>5 DEF RecvMessage, ChannelTypeOK
  <2>3. CallTypeOK'
    <3>1. calls + 1 \in Call
      BY <1>5 DEF RecvMessage, Call, CallTypeOK
    <3>2. Current(n) \in Chan
      BY <1>5, CurrentIsChannel DEF RecvMessage
    <3> QED
      BY <1>5, <3>1, <3>2 DEF RecvMessage, CallTypeOK, Call
  <2> QED
    BY <2>1, <2>2, <2>3
<1>6. ASSUME NEW r \in Call, TaskQueues(r) PROVE TypeOK'
  <2>1. RegistryTypeOK'
    BY <1>6 DEF TaskQueues, RegistryTypeOK
  <2>2. ChannelTypeOK'
    <3>1. source[r] \in Chan
      BY <1>6 DEF TaskQueues, CallTypeOK
    <3> QED
      BY <1>6, <3>1 DEF TaskQueues, ChannelTypeOK
  <2>3. CallTypeOK'
    BY <1>6 DEF TaskQueues, CallTypeOK
  <2> QED
    BY <2>1, <2>2, <2>3
<1>7. ASSUME NEW r \in Call, TaskTakes(r) PROVE TypeOK'
  <2>1. RegistryTypeOK'
    BY <1>7 DEF TaskTakes, HoldsLock, RegistryTypeOK
  <2>2. ChannelTypeOK'
    <3>1. source[r] \in Chan
      BY <1>7 DEF TaskTakes, HoldsLock, CallTypeOK
    <3> QED
      BY <1>7, <3>1 DEF TaskTakes, HoldsLock, ChannelTypeOK
  <2>3. CallTypeOK'
    <3>1. source[r] \in Chan
      BY <1>7 DEF TaskTakes, HoldsLock, CallTypeOK
    <3>2. taken[source[r]] + 1 \in Nat
      BY <3>1 DEF ChannelTypeOK
    <3> QED
      BY <1>7, <3>2 DEF TaskTakes, HoldsLock, CallTypeOK
  <2> QED
    BY <2>1, <2>2, <2>3
<1>8. ASSUME NEW r \in Call, TaskFindsClosed(r) PROVE TypeOK'
  <2>1. RegistryTypeOK'
    BY <1>8 DEF TaskFindsClosed, HoldsLock, RegistryTypeOK
  <2>2. ChannelTypeOK'
    <3>1. source[r] \in Chan
      BY <1>8 DEF TaskFindsClosed, HoldsLock, CallTypeOK
    <3> QED
      BY <1>8, <3>1 DEF TaskFindsClosed, HoldsLock, ChannelTypeOK
  <2>3. CallTypeOK'
    BY <1>8 DEF TaskFindsClosed, HoldsLock, CallTypeOK
  <2> QED
    BY <2>1, <2>2, <2>3
<1>9. ASSUME NEW r \in Call, TaskPosts(r) PROVE TypeOK'
  <2>1. RegistryTypeOK'
    BY <1>9 DEF TaskPosts, RegistryTypeOK
  <2>2. ChannelTypeOK'
    BY <1>9 DEF TaskPosts, ChannelTypeOK
  <2>3. CallTypeOK'
    BY <1>9 DEF TaskPosts, CallTypeOK
  <2> QED
    BY <2>1, <2>2, <2>3
<1>10. ASSUME NEW r \in Call, LoopRunsCallback(r) PROVE TypeOK'
  <2>1. RegistryTypeOK'
    BY <1>10 DEF LoopRunsCallback, RegistryTypeOK
  <2>2. ChannelTypeOK'
    BY <1>10 DEF LoopRunsCallback, ChannelTypeOK
  <2>3. CallTypeOK'
    BY <1>10 DEF LoopRunsCallback, CallTypeOK
  <2> QED
    BY <2>1, <2>2, <2>3
<1>11. ASSUME NEW n \in Name, ConsumerResumes(n) PROVE TypeOK'
  <2>1. RegistryTypeOK'
    BY <1>11 DEF ConsumerResumes, RegistryTypeOK
  <2>2. ChannelTypeOK'
    <3>1. awaiting[n] \in Call
      BY <1>11 DEF ConsumerResumes, CallTypeOK, Call
    <3>2. carried[awaiting[n]] \in Nat
      BY <3>1 DEF CallTypeOK
    <3>3. \A c \in Chan : Append(delivered[c], carried[awaiting[n]]) \in Seq(Nat)
      BY <3>2 DEF ChannelTypeOK
    <3>4. delivered' \in [Chan -> Seq(Nat)]
      BY <1>11, <3>3 DEF ConsumerResumes, ChannelTypeOK
    <3> QED
      BY <1>11, <3>4 DEF ConsumerResumes, ChannelTypeOK
  <2>3. CallTypeOK'
    BY <1>11 DEF ConsumerResumes, CallTypeOK
  <2> QED
    BY <2>1, <2>2, <2>3
<1>12. ASSUME NEW n \in Name, GivesUp(n) PROVE TypeOK'
  <2>1. RegistryTypeOK'
    BY <1>12 DEF GivesUp, RegistryTypeOK
  <2>2. ChannelTypeOK'
    BY <1>12 DEF GivesUp, ChannelTypeOK
  <2>3. CallTypeOK'
    <3>1. awaiting[n] \in Call
      BY <1>12 DEF GivesUp, CallTypeOK, Call
    <3> QED
      BY <1>12, <3>1 DEF GivesUp, CallTypeOK
  <2> QED
    BY <2>1, <2>2, <2>3
<1>13. CASE UNCHANGED vars
  BY <1>13 DEF vars, RegistryTypeOK, ChannelTypeOK, CallTypeOK
<1> QED
  BY <1>1, <1>2, <1>3, <1>4, <1>5, <1>6, <1>7, <1>8, <1>9, <1>10, <1>11, <1>12, <1>13
     DEF Next, Task, WaitTimesOut, ConsumerKilled

\* Every reachable state of the bus is well typed.
THEOREM TypeCorrect == Spec => []TypeOK
<1>1. Init => TypeOK
  BY BoundAssumption DEF Init, TypeOK, RegistryTypeOK, ChannelTypeOK, CallTypeOK, Call
<1> QED
  BY <1>1, TypeStep, PTL DEF Spec

-----------------------------------------------------------------------------
(* The invariant behind the order of delivery *)

\* Every step keeps what is delivered and carried within what was accepted.
LEMMA PositionsStep == IInv /\ TypeOK' /\ [Next]_vars => Positions'
<1> SUFFICES ASSUME IInv, TypeOK', [Next]_vars PROVE Positions'
  OBVIOUS
<1> USE DEF IInv, registryVars, channelVars, callVars
<1>1. ASSUME NEW n \in Name, RegisterMailbox(n) PROVE Positions'
  BY <1>1 DEF RegisterMailbox, Positions, TypeOK, ChannelTypeOK, CallTypeOK, Given
<1>2. ASSUME NEW n \in Name, UnregisterMailbox(n) PROVE Positions'
  BY <1>2 DEF UnregisterMailbox, Positions, TypeOK, ChannelTypeOK, CallTypeOK, Given
<1>3. ASSUME NEW n \in Name, NEW k \in Cap, RegisterCapability(n, k) PROVE Positions'
  BY <1>3 DEF RegisterCapability, Positions, TypeOK, ChannelTypeOK, CallTypeOK, Given
<1>4. ASSUME NEW address \in Name \cup Cap, Send(address) PROVE Positions'
  <2>1. PICK n \in open : accepted' = accepted
             \/ accepted' = [accepted EXCEPT ![Current(n)] = @ + 1]
    BY <1>4 DEF Send
  <2>2. accepted \in [Chan -> Nat] /\ accepted' \in [Chan -> Nat] /\ taken \in [Chan -> Nat]
    BY DEF TypeOK, ChannelTypeOK
  <2>3. \A c \in Chan : accepted'[c] = accepted[c] \/ accepted'[c] = accepted[c] + 1
    BY <2>1, <2>2
  <2>4. \A c \in Chan : taken[c] <= accepted'[c]
    BY <2>2, <2>3 DEF Positions
  <2>5. UNCHANGED <<taken, delivered, source, carried>>
    BY <1>4 DEF Send
  <2> QED
    BY <2>4, <2>5 DEF Positions, Given
<1>5. ASSUME NEW n \in Name, RecvMessage(n) PROVE Positions'
  <2>1. calls + 1 \in Call /\ carried[calls + 1] = 0
    BY <1>5, BoundAssumption DEF RecvMessage, Calls, Call, TypeOK, CallTypeOK
  <2>2. ASSUME NEW c \in Chan, NEW r \in Call, source'[r] = c PROVE carried[r] <= taken[c]
    <3>1. CASE r = calls + 1
      BY <2>1, <3>1 DEF TypeOK, ChannelTypeOK
    <3>2. CASE r # calls + 1
      BY <1>5, <2>2, <3>2 DEF RecvMessage, Positions, TypeOK, CallTypeOK
    <3> QED
      BY <3>1, <3>2
  <2> QED
    BY <1>5, <2>2 DEF RecvMessage, Positions, Given
<1>6. ASSUME NEW r \in Call, TaskQueues(r) PROVE Positions'
  BY <1>6 DEF TaskQueues, Positions, TypeOK, ChannelTypeOK, CallTypeOK, Given
<1>7. ASSUME NEW r \in Call, TaskTakes(r) PROVE Positions'
  <2> DEFINE c == source[r]
  <2>1. c \in Chan /\ taken[c] < accepted[c]
    BY <1>7 DEF TaskTakes, HoldsLock, TypeOK, CallTypeOK
  <2>2. taken' = [taken EXCEPT ![c] = @ + 1] /\ carried' = [carried EXCEPT ![r] = taken[c] + 1]
    BY <1>7 DEF TaskTakes
  <2> QED
    <3>1. \A d \in Chan : Given(d)' = Given(d) /\ Given(d) \subseteq Nat
      BY <1>7, GivenPositions DEF TaskTakes, Given, TypeOK
    <3> QED
      BY <1>7, <2>1, <2>2, <3>1 DEF TaskTakes, Positions, TypeOK, ChannelTypeOK, CallTypeOK
<1>8. ASSUME NEW r \in Call, TaskFindsClosed(r) PROVE Positions'
  BY <1>8 DEF TaskFindsClosed, Positions, TypeOK, ChannelTypeOK, CallTypeOK, Given
<1>9. ASSUME NEW r \in Call, TaskPosts(r) PROVE Positions'
  BY <1>9 DEF TaskPosts, Positions, TypeOK, ChannelTypeOK, CallTypeOK, Given
<1>10. ASSUME NEW r \in Call, LoopRunsCallback(r) PROVE Positions'
  BY <1>10 DEF LoopRunsCallback, Positions, TypeOK, ChannelTypeOK, CallTypeOK, Given
<1>11. ASSUME NEW n \in Name, ConsumerResumes(n) PROVE Positions'
  <2> DEFINE r == awaiting[n]
  <2>1. r \in Call
    BY <1>11 DEF ConsumerResumes, Call, TypeOK, CallTypeOK
  <2>2. ASSUME NEW c \in Chan, NEW p \in Given(c)' PROVE p <= taken[c]
    <3>1. CASE UNCHANGED delivered
      BY <2>2, <3>1 DEF Positions, Given
    <3>2. CASE delivered' = [delivered EXCEPT ![source[r]] = Append(@, carried[r])]
      <4>1. source[r] \in Chan /\ carried[r] \in Nat
        BY <1>11, <2>1 DEF ConsumerResumes, Awaited, TypeOK, CallTypeOK
      <4>2. Given(c)' = IF c = source[r] THEN Given(c) \cup {carried[r]} ELSE Given(c)
        BY <3>2, <4>1, AppendGiven DEF TypeOK
      <4> QED
        BY <2>1, <2>2, <4>2 DEF Positions
    <3> QED
      BY <1>11, <3>1, <3>2 DEF ConsumerResumes
  <2> QED
    BY <1>11, <2>2 DEF ConsumerResumes, Positions
<1>12. ASSUME NEW n \in Name, GivesUp(n) PROVE Positions'
  BY <1>12 DEF GivesUp, Positions, TypeOK, ChannelTypeOK, CallTypeOK, Given
<1>13. CASE UNCHANGED vars
  BY <1>13 DEF vars, Positions, Given
<1> QED
  BY <1>1, <1>2, <1>3, <1>4, <1>5, <1>6, <1>7, <1>8, <1>9, <1>10, <1>11, <1>12, <1>13
     DEF Next, Task, WaitTimesOut, ConsumerKilled

\* Every step keeps the calls and their futures in order.
LEMMA CallsStep == IInv /\ TypeOK' /\ [Next]_vars => Calls'
<1> SUFFICES ASSUME IInv, TypeOK', [Next]_vars PROVE Calls'
  OBVIOUS
<1> USE DEF IInv, registryVars, channelVars, callVars
<1>1. ASSUME NEW n \in Name, RegisterMailbox(n) PROVE Calls'
  BY <1>1 DEF RegisterMailbox, Calls, TypeOK, ChannelTypeOK, CallTypeOK
<1>2. ASSUME NEW n \in Name, UnregisterMailbox(n) PROVE Calls'
  BY <1>2 DEF UnregisterMailbox, Calls, TypeOK, ChannelTypeOK, CallTypeOK
<1>3. ASSUME NEW n \in Name, NEW k \in Cap, RegisterCapability(n, k) PROVE Calls'
  BY <1>3 DEF RegisterCapability, Calls, TypeOK, ChannelTypeOK, CallTypeOK
<1>4. ASSUME NEW address \in Name \cup Cap, Send(address) PROVE Calls'
  BY <1>4 DEF Send, Calls, TypeOK, ChannelTypeOK, CallTypeOK
<1>5. ASSUME NEW n \in Name, RecvMessage(n) PROVE Calls'
  <2> DEFINE q == calls + 1
  <2>1. q \in Call /\ carried[q] = 0
    BY <1>5, BoundAssumption DEF RecvMessage, Calls, Call, TypeOK, CallTypeOK
  <2>2. ASSUME NEW r \in Call, r # q
        PROVE  task'[r] = task[r] /\ future'[r] = future[r] /\ (r > calls' => r > calls)
    BY <1>5, <2>2 DEF RecvMessage, Call, TypeOK, CallTypeOK
  <2>3. task'[q] = "spawned" /\ future'[q] = "pending" /\ calls' = q /\ carried' = carried
    BY <1>5, <2>1 DEF RecvMessage, TypeOK, CallTypeOK
  <2>4. ASSUME NEW r \in Call PROVE ~ r > r
    BY DEF Call
  <2> QED
    BY <2>1, <2>2, <2>3, <2>4 DEF Calls
<1>6. ASSUME NEW r \in Call, TaskQueues(r) PROVE Calls'
  BY <1>6 DEF TaskQueues, Calls, TypeOK, ChannelTypeOK, CallTypeOK
<1>7. ASSUME NEW r \in Call, TaskTakes(r) PROVE Calls'
  <2>1. task[r] = "waiting" /\ source[r] \in Chan
    BY <1>7 DEF TaskTakes, HoldsLock, TypeOK, CallTypeOK
  <2>2. taken[source[r]] + 1 > 0
    BY <2>1 DEF TypeOK, ChannelTypeOK
  <2> QED
    BY <1>7, <2>1, <2>2 DEF TaskTakes, Calls, TypeOK, CallTypeOK
<1>8. ASSUME NEW r \in Call, TaskFindsClosed(r) PROVE Calls'
  BY <1>8 DEF TaskFindsClosed, HoldsLock, Calls, TypeOK, CallTypeOK
<1>9. ASSUME NEW r \in Call, TaskPosts(r) PROVE Calls'
  BY <1>9 DEF TaskPosts, Calls, TypeOK, ChannelTypeOK, CallTypeOK
<1>10. ASSUME NEW r \in Call, LoopRunsCallback(r) PROVE Calls'
  BY <1>10 DEF LoopRunsCallback, Calls, TypeOK, ChannelTypeOK, CallTypeOK
<1>11. ASSUME NEW n \in Name, ConsumerResumes(n) PROVE Calls'
  BY <1>11 DEF ConsumerResumes, Calls, TypeOK, ChannelTypeOK, CallTypeOK
<1>12. ASSUME NEW n \in Name, GivesUp(n) PROVE Calls'
  BY <1>12 DEF GivesUp, Calls, TypeOK, ChannelTypeOK, CallTypeOK
<1>13. CASE UNCHANGED vars
  BY <1>13 DEF vars, Calls, Given
<1> QED
  BY <1>1, <1>2, <1>3, <1>4, <1>5, <1>6, <1>7, <1>8, <1>9, <1>10, <1>11, <1>12, <1>13
     DEF Next, Task, WaitTimesOut, ConsumerKilled

\* Every step keeps the awaited call of an agent ahead of what it was given.
LEMMA AwaitedStep == IInv /\ TypeOK' /\ [Next]_vars => Awaited'
<1> SUFFICES ASSUME IInv, TypeOK', [Next]_vars PROVE Awaited'
  OBVIOUS
<1> USE DEF IInv, registryVars, channelVars, callVars
<1>1. ASSUME NEW n \in Name, RegisterMailbox(n) PROVE Awaited'
  BY <1>1 DEF RegisterMailbox, Awaited, TypeOK, ChannelTypeOK, CallTypeOK, Given
<1>2. ASSUME NEW n \in Name, UnregisterMailbox(n) PROVE Awaited'
  BY <1>2 DEF UnregisterMailbox, Awaited, TypeOK, ChannelTypeOK, CallTypeOK, Given
<1>3. ASSUME NEW n \in Name, NEW k \in Cap, RegisterCapability(n, k) PROVE Awaited'
  BY <1>3 DEF RegisterCapability, Awaited, TypeOK, ChannelTypeOK, CallTypeOK, Given
<1>4. ASSUME NEW address \in Name \cup Cap, Send(address) PROVE Awaited'
  <2>1. UNCHANGED <<awaiting, calls, task, source, delivered, carried>>
    BY <1>4 DEF Send
  <2> QED
    BY <2>1 DEF Awaited, Given
<1>5. ASSUME NEW n \in Name, RecvMessage(n) PROVE Awaited'
  <2> DEFINE q == calls + 1
  <2>1. q \in Call /\ carried[q] = 0 /\ Current(n) \in Chan
    BY <1>5, CurrentIsChannel, BoundAssumption
       DEF RecvMessage, Calls, Call, TypeOK, CallTypeOK
  <2>2. /\ awaiting' = [awaiting EXCEPT ![n] = q] /\ calls' = q
        /\ task' = [task EXCEPT ![q] = "spawned"]
        /\ source' = [source EXCEPT ![q] = Current(n)]
        /\ delivered' = delivered /\ carried' = carried
    BY <1>5 DEF RecvMessage
  <2> SUFFICES ASSUME NEW m \in Name, awaiting'[m] # 0
               PROVE  LET r == awaiting'[m] IN
                      /\ r <= calls' /\ task'[r] # "unused"
                      /\ source'[r] \in Chan /\ source'[r][1] = m
                      /\ \A p \in Given(source'[r]) : carried'[r] = 0 \/ p < carried'[r]
    BY SMTT(60), <2>2 DEF Awaited, Given
  <2>3. CASE m = n
    <3>1. awaiting'[m] = q /\ source'[q] = Current(n) /\ task'[q] = "spawned"
      BY <2>1, <2>2, <2>3 DEF TypeOK, CallTypeOK
    <3> QED
      BY <2>1, <2>2, <2>3, <3>1 DEF Current, Call
  <2>4. CASE m # n
    <3>1. awaiting'[m] = awaiting[m] /\ awaiting[m] \in Call /\ awaiting[m] <= calls
      BY <2>2, <2>4 DEF Awaited, Call, TypeOK, CallTypeOK
    <3>2. awaiting[m] # q /\ awaiting[m] <= q
      BY <3>1 DEF Call, TypeOK, CallTypeOK
    <3>3. task'[awaiting[m]] = task[awaiting[m]] /\ source'[awaiting[m]] = source[awaiting[m]]
      BY <2>2, <3>1, <3>2 DEF TypeOK, CallTypeOK
    <3> QED
      BY <2>2, <3>1, <3>2, <3>3 DEF Awaited
  <2> QED
    BY <2>3, <2>4
<1>6. ASSUME NEW r \in Call, TaskQueues(r) PROVE Awaited'
  BY <1>6 DEF TaskQueues, Awaited, TypeOK, ChannelTypeOK, CallTypeOK, Given
<1>7. ASSUME NEW r \in Call, TaskTakes(r) PROVE Awaited'
  <2> DEFINE c == source[r]
  <2>1. c \in Chan /\ task[r] = "waiting" /\ taken[c] \in Nat
    BY <1>7 DEF TaskTakes, HoldsLock, TypeOK, CallTypeOK, ChannelTypeOK
  <2>2. carried' = [carried EXCEPT ![r] = taken[c] + 1] /\ task' = [task EXCEPT ![r] = "holding"]
    BY <1>7 DEF TaskTakes
  <2>3. \A p \in Given(c) : p < taken[c] + 1
    BY <2>1, GivenPositions DEF Positions, TypeOK, ChannelTypeOK
  <2>4. carried'[r] = taken[c] + 1
    BY <2>2 DEF TypeOK, CallTypeOK
  <2>5. \A q \in Call \ {r} : carried'[q] = carried[q] /\ task'[q] = task[q]
    BY <2>2 DEF TypeOK, CallTypeOK
  <2>6. task'[r] # "unused"
    BY <2>2 DEF TypeOK, CallTypeOK
  <2> SUFFICES ASSUME NEW n \in Name, awaiting[n] # 0
               PROVE  LET q == awaiting[n] IN
                      /\ q <= calls /\ task'[q] # "unused"
                      /\ source[q] \in Chan /\ source[q][1] = n
                      /\ \A p \in Given(source[q]) : carried'[q] = 0 \/ p < carried'[q]
    BY SMTT(60), <1>7 DEF TaskTakes, Awaited, Given
  <2>7. awaiting[n] \in Call
    BY DEF Call, TypeOK, CallTypeOK
  <2>8. CASE awaiting[n] = r
    BY <2>3, <2>4, <2>6, <2>8 DEF Awaited
  <2>9. CASE awaiting[n] # r
    BY <2>5, <2>7, <2>9 DEF Awaited
  <2> QED
    BY <2>8, <2>9
<1>8. ASSUME NEW r \in Call, TaskFindsClosed(r) PROVE Awaited'
  BY <1>8 DEF TaskFindsClosed, Awaited, TypeOK, ChannelTypeOK, CallTypeOK, Given
<1>9. ASSUME NEW r \in Call, TaskPosts(r) PROVE Awaited'
  BY <1>9 DEF TaskPosts, Awaited, TypeOK, ChannelTypeOK, CallTypeOK, Given
<1>10. ASSUME NEW r \in Call, LoopRunsCallback(r) PROVE Awaited'
  BY <1>10 DEF LoopRunsCallback, Awaited, TypeOK, ChannelTypeOK, CallTypeOK, Given
<1>11. ASSUME NEW n \in Name, ConsumerResumes(n) PROVE Awaited'
  BY <1>11 DEF ConsumerResumes, Awaited, TypeOK, ChannelTypeOK, CallTypeOK, Given
<1>12. ASSUME NEW n \in Name, GivesUp(n) PROVE Awaited'
  BY <1>12 DEF GivesUp, Awaited, TypeOK, ChannelTypeOK, CallTypeOK, Given
<1>13. CASE UNCHANGED vars
  BY <1>13 DEF vars, Awaited, Given
<1> QED
  BY <1>1, <1>2, <1>3, <1>4, <1>5, <1>6, <1>7, <1>8, <1>9, <1>10, <1>11, <1>12, <1>13
     DEF Next, Task, WaitTimesOut, ConsumerKilled

\* The invariant holds of every reachable state.
THEOREM Invariance == Spec => []IInv
<1>1. Init => IInv
  <2>1. Init => TypeOK
    BY BoundAssumption DEF Init, TypeOK, RegistryTypeOK, ChannelTypeOK, CallTypeOK, Call
  <2> QED
    BY <2>1 DEF Init, IInv, Positions, Calls, Awaited, Given
<1>2. IInv /\ [Next]_vars => IInv'
  BY TypeStep, PositionsStep, CallsStep, AwaitedStep DEF IInv
<1> QED
  BY <1>1, <1>2, PTL DEF Spec

-----------------------------------------------------------------------------
(* The mailbox implements LossyFifo *)

\* send_message adds at most one message, at the end of one channel.
LEMMA SendRefines ==
  ASSUME IInv, NEW address \in Name \cup Cap, Send(address)
  PROVE  [Fifo!Next]_(Fifo!vars)
<1>1. PICK n \in open : \/ accepted' = accepted
                        \/ accepted' = [accepted EXCEPT ![Current(n)] = @ + 1]
  BY DEF Send
<1>2. Current(n) \in Chan /\ delivered' = delivered
  BY CurrentIsChannel DEF Send, IInv, TypeOK
<1> QED
  BY <1>1, <1>2 DEF Fifo!Next, Fifo!Accept, Fifo!vars

\* The agent is given the message its call carries, which is newer than every
\* message of the channel it was given before.
LEMMA ResumeRefines ==
  ASSUME IInv, NEW n \in Name, ConsumerResumes(n)
  PROVE  [Fifo!Next]_(Fifo!vars)
<1> DEFINE r == awaiting[n]
           c == source[r]
<1>1. CASE future[r] = "failed"
  BY <1>1 DEF ConsumerResumes, Fifo!vars
<1>2. CASE future[r] # "failed"
  <2>1. r \in Call /\ r # 0 /\ future[r] = "result"
    BY <1>2 DEF ConsumerResumes, Call, IInv, TypeOK, CallTypeOK
  <2>2. c \in Chan /\ carried[r] > 0
    BY <2>1 DEF Awaited, Calls, IInv
  <2>3. /\ carried[r] \in Nat /\ taken[c] \in Nat /\ accepted[c] \in Nat
        /\ carried[r] <= taken[c] /\ taken[c] <= accepted[c]
    BY <2>1, <2>2 DEF Positions, IInv, TypeOK, ChannelTypeOK, CallTypeOK
  <2>4. carried[r] \in 1 .. accepted[c]
    BY <2>2, <2>3
  <2>5. \A i \in DOMAIN delivered[c] : delivered[c][i] < carried[r]
    BY <2>1, <2>2, <2>3 DEF Awaited, Given, IInv
  <2>6. delivered' = [delivered EXCEPT ![c] = Append(@, carried[r])] /\ accepted' = accepted
    BY <1>2 DEF ConsumerResumes
  <2>7. Fifo!Deliver(c)
    BY <2>4, <2>5, <2>6 DEF Fifo!Deliver
  <2> QED
    BY <2>2, <2>7 DEF Fifo!Next
<1> QED
  BY <1>1, <1>2

\* For every set of agents, every capacity and every way timeouts and kills
\* fall, a channel of NativeIPCBus gives its messages in the order in which it
\* accepted them and none of them twice.
THEOREM ImplementsFifo == Spec => FifoSpec
<1>1. Init => Fifo!Init
  BY DEF Init, Fifo!Init
<1>2. IInv /\ [Next]_vars => [Fifo!Next]_(Fifo!vars)
  <2> SUFFICES ASSUME IInv, [Next]_vars PROVE [Fifo!Next]_(Fifo!vars)
    OBVIOUS
  <2> USE DEF Fifo!vars, registryVars, channelVars, callVars
  <2>1. ASSUME NEW n \in Name,
               RegisterMailbox(n) \/ UnregisterMailbox(n) \/ RecvMessage(n) \/ GivesUp(n)
        PROVE  UNCHANGED Fifo!vars
    BY <2>1 DEF RegisterMailbox, UnregisterMailbox, RecvMessage, GivesUp
  <2>2. ASSUME NEW n \in Name, NEW k \in Cap, RegisterCapability(n, k)
        PROVE  UNCHANGED Fifo!vars
    BY <2>2 DEF RegisterCapability
  <2>3. ASSUME NEW r \in Call, Task(r) \/ LoopRunsCallback(r) PROVE UNCHANGED Fifo!vars
    BY <2>3 DEF Task, TaskQueues, TaskTakes, TaskFindsClosed, TaskPosts, LoopRunsCallback
  <2>4. CASE UNCHANGED vars
    BY <2>4 DEF vars
  <2> QED
    BY <2>1, <2>2, <2>3, <2>4, SendRefines, ResumeRefines
       DEF Next, WaitTimesOut, ConsumerKilled
<1> QED
  BY <1>1, <1>2, Invariance, PTL DEF Spec, FifoSpec, Fifo!Spec

-----------------------------------------------------------------------------
(* Names and capabilities *)

\* unregister_mailbox leaves nothing under the name for the agent that takes
\* it next, for any sequence of registrations, capabilities and messages.
THEOREM CapabilitiesFollowMailboxes == Spec => []CapabilitiesHaveMailboxes
<1>1. Init => CapabilitiesHaveMailboxes
  BY DEF Init, CapabilitiesHaveMailboxes
<1>2. TypeOK /\ CapabilitiesHaveMailboxes /\ [Next]_vars => CapabilitiesHaveMailboxes'
  <2> SUFFICES ASSUME TypeOK, CapabilitiesHaveMailboxes, [Next]_vars
               PROVE  CapabilitiesHaveMailboxes'
    OBVIOUS
  <2> USE DEF TypeOK, RegistryTypeOK, CapabilitiesHaveMailboxes, registryVars
  <2>1. ASSUME NEW n \in Name, RegisterMailbox(n) PROVE CapabilitiesHaveMailboxes'
    BY <2>1 DEF RegisterMailbox
  <2>2. ASSUME NEW n \in Name, UnregisterMailbox(n) PROVE CapabilitiesHaveMailboxes'
    BY <2>2 DEF UnregisterMailbox
  <2>3. ASSUME NEW n \in Name, NEW k \in Cap, RegisterCapability(n, k)
        PROVE  CapabilitiesHaveMailboxes'
    BY <2>3 DEF RegisterCapability
  <2>4. ASSUME NEW address \in Name \cup Cap, Send(address)
        PROVE  CapabilitiesHaveMailboxes'
    BY <2>4 DEF Send
  <2>5. ASSUME NEW n \in Name, RecvMessage(n) \/ ConsumerResumes(n) \/ GivesUp(n)
        PROVE  CapabilitiesHaveMailboxes'
    BY <2>5 DEF RecvMessage, ConsumerResumes, GivesUp
  <2>6. ASSUME NEW r \in Call, Task(r) \/ LoopRunsCallback(r)
        PROVE  CapabilitiesHaveMailboxes'
    BY <2>6 DEF Task, TaskQueues, TaskTakes, TaskFindsClosed, TaskPosts, LoopRunsCallback
  <2>7. CASE UNCHANGED vars
    BY <2>7 DEF vars
  <2> QED
    BY <2>1, <2>2, <2>3, <2>4, <2>5, <2>6, <2>7 DEF Next, WaitTimesOut, ConsumerKilled
<1> QED
  BY <1>1, <1>2, TypeCorrect, PTL DEF Spec

-----------------------------------------------------------------------------
(* Agents that wait patiently lose nothing *)

\* Only a timeout and a kill leave a task of recv_message behind.
LEMMA PatientCallsStep == IInv /\ PatientCalls /\ [Next]_vars => PatientCalls'
<1> SUFFICES ASSUME IInv, PatientCalls, [Next]_vars PROVE PatientCalls'
  OBVIOUS
<1> USE DEF IInv, registryVars, channelVars, callVars, TypeOK
<1>1. ASSUME NEW n \in Name, RegisterMailbox(n) PROVE PatientCalls'
  BY <1>1 DEF RegisterMailbox, PatientCalls, CallTypeOK
<1>2. ASSUME NEW n \in Name, UnregisterMailbox(n) PROVE PatientCalls'
  BY <1>2 DEF UnregisterMailbox, PatientCalls, CallTypeOK
<1>3. ASSUME NEW n \in Name, NEW k \in Cap, RegisterCapability(n, k) PROVE PatientCalls'
  BY <1>3 DEF RegisterCapability, PatientCalls, CallTypeOK
<1>4. ASSUME NEW address \in Name \cup Cap, Send(address) PROVE PatientCalls'
  <2>1. UNCHANGED <<task, source, future, awaiting>>
    BY <1>4 DEF Send
  <2> QED
    BY <2>1 DEF PatientCalls
<1>5. ASSUME NEW n \in Name, RecvMessage(n) PROVE PatientCalls'
  <2> DEFINE q == calls + 1
  <2>1. /\ task' = [task EXCEPT ![q] = "spawned"] /\ source' = [source EXCEPT ![q] = Current(n)]
        /\ future' = [future EXCEPT ![q] = "pending"]
        /\ awaiting' = [awaiting EXCEPT ![n] = q] /\ awaiting[n] = 0
    BY <1>5 DEF RecvMessage
  <2>2. q \in Call /\ Current(n)[1] = n
    BY <1>5, BoundAssumption DEF RecvMessage, Call, CallTypeOK, Current
  <2>3. task'[q] = "spawned" /\ future'[q] = "pending" /\ source'[q] = Current(n) /\ awaiting'[n] = q
    BY <2>1, <2>2 DEF CallTypeOK
  <2>4. ASSUME NEW r \in Call, r # q
        PROVE  task'[r] = task[r] /\ future'[r] = future[r] /\ source'[r] = source[r]
    BY <2>1, <2>4 DEF CallTypeOK
  <2>5. ASSUME NEW r \in Call, NEW m \in Patient, awaiting[m] = r PROVE awaiting'[m] = r
    BY <2>1, <2>5 DEF CallTypeOK, Call, Patient
  <2> QED
    BY <2>2, <2>3, <2>4, <2>5 DEF PatientCalls
<1>6. ASSUME NEW r \in Call, TaskQueues(r) PROVE PatientCalls'
  <2>1. task[r] = "spawned" /\ task' = [task EXCEPT ![r] = "waiting"]
        /\ UNCHANGED <<source, future, awaiting>>
    BY <1>6 DEF TaskQueues
  <2> QED
    BY <2>1 DEF PatientCalls, CallTypeOK
<1>7. ASSUME NEW r \in Call, TaskTakes(r) PROVE PatientCalls'
  BY <1>7 DEF TaskTakes, HoldsLock, PatientCalls, CallTypeOK
<1>8. ASSUME NEW r \in Call, TaskFindsClosed(r) PROVE PatientCalls'
  BY <1>8 DEF TaskFindsClosed, HoldsLock, PatientCalls, CallTypeOK
<1>9. ASSUME NEW r \in Call, TaskPosts(r) PROVE PatientCalls'
  BY <1>9 DEF TaskPosts, PatientCalls, CallTypeOK
<1>10. ASSUME NEW r \in Call, LoopRunsCallback(r) PROVE PatientCalls'
  BY <1>10 DEF LoopRunsCallback, PatientCalls, CallTypeOK
<1>11. ASSUME NEW n \in Name, ConsumerResumes(n) PROVE PatientCalls'
  <2>1. awaiting[n] \in Call /\ task[awaiting[n]] = "ended"
    BY <1>11 DEF ConsumerResumes, PatientCalls, Call, CallTypeOK
  <2>2. awaiting' = [awaiting EXCEPT ![n] = 0] /\ UNCHANGED <<task, source, future>>
    BY <1>11 DEF ConsumerResumes
  <2>3. ASSUME NEW r \in Call, task[r] # "ended", NEW m \in Patient, awaiting[m] = r
        PROVE  awaiting'[m] = r
    BY <2>1, <2>2, <2>3 DEF CallTypeOK, Patient
  <2> QED
    BY <2>2, <2>3 DEF PatientCalls
<1>12. ASSUME NEW n \in Name, n \in Polling \cup Killable, GivesUp(n) PROVE PatientCalls'
  <2>1. awaiting[n] \in Call
    BY <1>12 DEF GivesUp, Call, CallTypeOK
  <2>2. source[awaiting[n]][1] = n
    BY <2>1, <1>12 DEF GivesUp, Awaited
  <2>3. /\ awaiting' = [awaiting EXCEPT ![n] = 0] /\ UNCHANGED <<task, source>>
        /\ future' = [future EXCEPT ![awaiting[n]] = IF @ = "pending" THEN "cancelled" ELSE @]
    BY <1>12 DEF GivesUp
  <2>4. ASSUME NEW r \in Call PROVE future'[r] \in {"result", "failed"} => future[r] = future'[r]
    BY <2>1, <2>3 DEF CallTypeOK
  <2>5. ASSUME NEW r \in Call, NEW m \in Patient, source[r][1] = m
        PROVE  awaiting'[m] = awaiting[m] /\ future'[r] = future[r]
    BY <1>12, <2>1, <2>2, <2>3, <2>5 DEF CallTypeOK, Patient
  <2> QED
    BY <2>3, <2>4, <2>5 DEF PatientCalls
<1>13. CASE UNCHANGED vars
  BY <1>13 DEF vars, PatientCalls
<1> QED
  BY <1>1, <1>2, <1>3, <1>4, <1>5, <1>6, <1>7, <1>8, <1>9, <1>10, <1>11, <1>12, <1>13
     DEF Next, Task, WaitTimesOut, ConsumerKilled

\* A step that leaves taken alone keeps the property if the calls of patient
\* agents that have a message in hand keep it or deliver it.
LEMMA KeptInHand ==
  ASSUME PatientConsumersLoseNothing, taken' = taken,
         \A c \in Chan : Given(c) \subseteq Given(c)',
         \A r \in Call :
           (InHand(r) /\ source[r] \in Chan /\ source[r][1] \notin Polling \cup Killable)
             => \/ \A c \in Chan : c = source[r] => carried[r] \in Given(c)'
                \/ carried[r] = 0
                \/ source'[r] = source[r] /\ carried'[r] = carried[r] /\ InHand(r)'
  PROVE  PatientConsumersLoseNothing'
<1> SUFFICES ASSUME NEW c \in Chan, c[1] \notin Polling \cup Killable, NEW p \in 1 .. taken[c]
             PROVE  p \in Given(c)' \/ \E r \in Call : source'[r] = c /\ carried'[r] = p /\ InHand(r)'
  BY DEF PatientConsumersLoseNothing
<1>1. CASE p \in Given(c)
  BY <1>1
<1>2. CASE \E r \in Call : source[r] = c /\ carried[r] = p /\ InHand(r)
  <2>1. PICK r \in Call : source[r] = c /\ carried[r] = p /\ InHand(r)
    BY <1>2
  <2>2. p # 0
    OBVIOUS
  <2> QED
    BY <2>1, <2>2
<1> QED
  BY <1>1, <1>2 DEF PatientConsumersLoseNothing

\* Every step of the bus keeps what patient agents are owed.
LEMMA PatientStep ==
  IInv /\ PatientCalls /\ PatientConsumersLoseNothing /\ [Next]_vars
    => PatientConsumersLoseNothing'
<1> SUFFICES ASSUME IInv, PatientCalls, PatientConsumersLoseNothing, [Next]_vars
             PROVE  PatientConsumersLoseNothing'
  OBVIOUS
<1> USE DEF IInv, registryVars, channelVars, callVars, TypeOK
<1>1. ASSUME NEW n \in Name, RegisterMailbox(n) PROVE PatientConsumersLoseNothing'
  BY <1>1 DEF RegisterMailbox, PatientConsumersLoseNothing, InHand, Given
<1>2. ASSUME NEW n \in Name, UnregisterMailbox(n) PROVE PatientConsumersLoseNothing'
  BY <1>2 DEF UnregisterMailbox, PatientConsumersLoseNothing, InHand, Given
<1>3. ASSUME NEW n \in Name, NEW k \in Cap, RegisterCapability(n, k) PROVE PatientConsumersLoseNothing'
  BY <1>3 DEF RegisterCapability, PatientConsumersLoseNothing, InHand, Given
<1>4. ASSUME NEW address \in Name \cup Cap, Send(address) PROVE PatientConsumersLoseNothing'
  <2>1. UNCHANGED <<taken, delivered, task, source, carried, future, awaiting>>
    BY <1>4 DEF Send
  <2> QED
    BY <2>1 DEF PatientConsumersLoseNothing, InHand, Given
<1>5. ASSUME NEW n \in Name, RecvMessage(n) PROVE PatientConsumersLoseNothing'
  <2>1. /\ task' = [task EXCEPT ![calls + 1] = "spawned"]
        /\ source' = [source EXCEPT ![calls + 1] = Current(n)]
        /\ future' = [future EXCEPT ![calls + 1] = "pending"]
        /\ awaiting' = [awaiting EXCEPT ![n] = calls + 1] /\ awaiting[n] = 0
        /\ UNCHANGED <<taken, delivered, carried>>
    BY <1>5 DEF RecvMessage
  <2>2. calls + 1 \in Call
    BY <1>5, BoundAssumption DEF RecvMessage, Call, CallTypeOK
  <2>3. ASSUME NEW r \in Call, InHand(r)
        PROVE  source'[r] = source[r] /\ InHand(r)'
    <3>1. PICK m \in Name : awaiting[m] = r
      BY <2>3 DEF InHand
    <3>2. r # calls + 1 /\ m # n
      BY <2>1, <3>1 DEF Awaited, Call, CallTypeOK
    <3>3. /\ task'[r] = task[r] /\ future'[r] = future[r] /\ source'[r] = source[r]
          /\ awaiting'[m] = r
      BY <2>1, <3>1, <3>2 DEF CallTypeOK
    <3> QED
      BY <2>3, <3>3 DEF InHand
  <2> QED
    BY <2>1, <2>3, KeptInHand DEF Given
<1>6. ASSUME NEW r \in Call, TaskQueues(r) PROVE PatientConsumersLoseNothing'
  <2>1. /\ task[r] = "spawned" /\ task' = [task EXCEPT ![r] = "waiting"]
        /\ UNCHANGED <<taken, delivered, source, carried, future, awaiting>>
    BY <1>6 DEF TaskQueues
  <2>2. ASSUME NEW q \in Call, InHand(q) PROVE InHand(q)'
    BY <2>1, <2>2 DEF InHand, CallTypeOK
  <2> QED
    BY <2>1, <2>2, KeptInHand DEF Given
<1>7. ASSUME NEW r \in Call, TaskTakes(r) PROVE PatientConsumersLoseNothing'
  <2> DEFINE d == source[r]
  <2>1. /\ task[r] = "waiting" /\ task' = [task EXCEPT ![r] = "holding"]
        /\ carried' = [carried EXCEPT ![r] = taken[d] + 1]
        /\ taken' = [taken EXCEPT ![d] = @ + 1]
        /\ UNCHANGED <<delivered, source, future, awaiting>>
    BY <1>7 DEF TaskTakes, HoldsLock
  <2>2. d \in Chan /\ taken[d] \in Nat
    BY <2>1 DEF CallTypeOK, ChannelTypeOK
  <2>3. ASSUME NEW q \in Call, InHand(q) PROVE InHand(q)' /\ carried'[q] = carried[q]
    <3>1. q # r
      BY <2>1, <2>3 DEF InHand, Calls
    <3> QED
      BY <2>1, <2>3, <3>1 DEF InHand, CallTypeOK
  <2> SUFFICES ASSUME NEW c \in Chan, c[1] \notin Polling \cup Killable,
                      NEW p \in 1 .. taken'[c]
               PROVE  p \in Given(c)
                      \/ \E q \in Call : source[q] = c /\ carried'[q] = p /\ InHand(q)'
    BY <2>1 DEF PatientConsumersLoseNothing, Given
  <2>4. CASE p \in 1 .. taken[c]
    BY <2>3, <2>4 DEF PatientConsumersLoseNothing
  <2>5. CASE p \notin 1 .. taken[c]
    <3>1. taken[c] \in Nat /\ taken'[c] = IF c = d THEN taken[c] + 1 ELSE taken[c]
      BY <2>1, <2>2 DEF ChannelTypeOK
    <3>2. c = d /\ p = taken[d] + 1
      BY <2>5, <3>1
    <3>3. carried'[r] = p /\ task'[r] = "holding"
      BY <2>1, <3>2 DEF CallTypeOK
    <3>4. c[1] \in Patient
      BY DEF Chan, Patient
    <3>5. awaiting[c[1]] = r
      BY <2>1, <3>2, <3>4 DEF PatientCalls
    <3> QED
      BY <2>1, <3>2, <3>3, <3>4, <3>5 DEF InHand, Patient
  <2> QED
    BY <2>4, <2>5
<1>8. ASSUME NEW r \in Call, TaskFindsClosed(r) PROVE PatientConsumersLoseNothing'
  <2>1. /\ task[r] = "waiting" /\ task' = [task EXCEPT ![r] = "holding"]
        /\ UNCHANGED <<taken, delivered, source, carried, future, awaiting>>
    BY <1>8 DEF TaskFindsClosed, HoldsLock
  <2>2. ASSUME NEW q \in Call, InHand(q) PROVE InHand(q)'
    BY <2>1, <2>2 DEF InHand, CallTypeOK
  <2> QED
    BY <2>1, <2>2, KeptInHand DEF Given
<1>9. ASSUME NEW r \in Call, TaskPosts(r) PROVE PatientConsumersLoseNothing'
  <2>1. /\ task[r] = "holding"
        /\ task' = [task EXCEPT ![r] = IF future[r] = "cancelled" THEN "ended" ELSE "posted"]
        /\ UNCHANGED <<taken, delivered, source, carried, future, awaiting>>
    BY <1>9 DEF TaskPosts
  <2>2. ASSUME NEW q \in Call, InHand(q), source[q] \in Chan,
               source[q][1] \notin Polling \cup Killable
        PROVE  InHand(q)'
    <3>1. CASE q # r
      BY <2>1, <2>2, <3>1 DEF InHand, CallTypeOK
    <3>2. CASE q = r
      <4>1. source[r][1] \in Patient
        BY <2>2, <3>2 DEF Chan, Patient
      <4>2. future[r] = "pending"
        BY <2>1, <4>1 DEF PatientCalls
      <4>3. task'[r] = "posted"
        BY <2>1, <4>2 DEF CallTypeOK
      <4> QED
        BY <2>1, <2>2, <3>2, <4>3 DEF InHand
    <3> QED
      BY <3>1, <3>2
  <2> QED
    BY <2>1, <2>2, KeptInHand DEF Given
<1>10. ASSUME NEW r \in Call, LoopRunsCallback(r) PROVE PatientConsumersLoseNothing'
  <2>1. /\ task[r] = "posted" /\ task' = [task EXCEPT ![r] = "ended"]
        /\ future' = [future EXCEPT ![r] = IF @ # "pending" THEN @
                                   ELSE IF carried[r] = 0 THEN "failed" ELSE "result"]
        /\ UNCHANGED <<taken, delivered, source, carried, awaiting>>
    BY <1>10 DEF LoopRunsCallback
  <2>2. ASSUME NEW q \in Call, InHand(q), source[q] \in Chan,
               source[q][1] \notin Polling \cup Killable, carried[q] # 0
        PROVE  InHand(q)'
    <3>1. CASE q # r
      BY <2>1, <2>2, <3>1 DEF InHand, CallTypeOK
    <3>2. CASE q = r
      <4>1. source[r][1] \in Patient
        BY <2>2, <3>2 DEF Chan, Patient
      <4>2. future[r] = "pending"
        BY <2>1, <4>1 DEF PatientCalls
      <4>3. future'[r] = "result"
        BY <2>1, <2>2, <3>2, <4>2 DEF CallTypeOK
      <4> QED
        BY <2>1, <2>2, <3>2, <4>3 DEF InHand
    <3> QED
      BY <3>1, <3>2
  <2> QED
    BY <2>1, <2>2, KeptInHand DEF Given
<1>11. ASSUME NEW n \in Name, ConsumerResumes(n) PROVE PatientConsumersLoseNothing'
  <2> DEFINE r == awaiting[n]
  <2>1. r \in Call /\ r # 0 /\ future[r] \in {"result", "failed"} /\ task[r] = "ended"
    BY <1>11 DEF ConsumerResumes, Call, CallTypeOK, PatientCalls
  <2>2. source[r] \in Chan
    BY <2>1 DEF Awaited
  <2>3. /\ awaiting' = [awaiting EXCEPT ![n] = 0]
        /\ UNCHANGED <<taken, task, source, carried, future>>
    BY <1>11 DEF ConsumerResumes
  <2>4. CASE future[r] = "failed"
    <3>1. delivered' = delivered
      BY <1>11, <2>4 DEF ConsumerResumes
    <3>2. ASSUME NEW q \in Call, InHand(q) PROVE InHand(q)'
      <4>1. q # r
        BY <2>1, <2>4, <3>2 DEF InHand
      <4> QED
        BY <2>3, <3>2, <4>1 DEF InHand, CallTypeOK
    <3> QED
      BY <2>3, <3>1, <3>2, KeptInHand DEF Given
  <2>5. CASE future[r] # "failed"
    <3>1. delivered' = [delivered EXCEPT ![source[r]] = Append(@, carried[r])]
      BY <1>11, <2>5 DEF ConsumerResumes
    <3>2. carried[r] \in Nat
      BY <2>1 DEF CallTypeOK
    <3>3. \A c \in Chan : Given(c)' = IF c = source[r] THEN Given(c) \cup {carried[r]} ELSE Given(c)
      BY <2>2, <3>1, <3>2, AppendGiven
    <3>4. ASSUME NEW q \in Call, InHand(q), q # r PROVE InHand(q)'
      BY <2>3, <3>4 DEF InHand, CallTypeOK
    <3> QED
      BY <2>3, <3>3, <3>4, KeptInHand
  <2> QED
    BY <2>4, <2>5
<1>12. ASSUME NEW n \in Name, n \in Polling \cup Killable, GivesUp(n) PROVE PatientConsumersLoseNothing'
  <2> DEFINE r == awaiting[n]
  <2>1. r \in Call /\ source[r][1] = n
    BY <1>12 DEF GivesUp, Call, CallTypeOK, Awaited
  <2>2. /\ awaiting' = [awaiting EXCEPT ![n] = 0]
        /\ future' = [future EXCEPT ![r] = IF @ = "pending" THEN "cancelled" ELSE @]
        /\ UNCHANGED <<taken, delivered, task, source, carried>>
    BY <1>12 DEF GivesUp
  <2>3. ASSUME NEW q \in Call, InHand(q), source[q][1] \notin Polling \cup Killable
        PROVE  InHand(q)'
    <3>1. q # r
      BY <1>12, <2>1, <2>3
    <3> QED
      BY <2>1, <2>2, <2>3, <3>1 DEF InHand, CallTypeOK
  <2> QED
    BY <2>2, <2>3, KeptInHand DEF Given
<1>13. CASE UNCHANGED vars
  BY <1>13 DEF vars, PatientConsumersLoseNothing, InHand, Given
<1> QED
  BY <1>1, <1>2, <1>3, <1>4, <1>5, <1>6, <1>7, <1>8, <1>9, <1>10, <1>11, <1>12, <1>13
     DEF Next, Task, WaitTimesOut, ConsumerKilled

\* Whatever polling and killed agents do, the messages of an agent that waits
\* in recv_message without a timeout reach it: a message is lost only through a
\* call its own receiver has given up.
THEOREM PatientAgentsLoseNothing == Spec => []PatientConsumersLoseNothing
<1>1. Init => PatientCalls /\ PatientConsumersLoseNothing
  BY DEF Init, PatientCalls, PatientConsumersLoseNothing
<1>2. IInv /\ PatientCalls /\ PatientConsumersLoseNothing /\ [Next]_vars
        => PatientCalls' /\ PatientConsumersLoseNothing'
  BY PatientCallsStep, PatientStep
<1> QED
  BY <1>1, <1>2, Invariance, PTL DEF Spec
=============================================================================
