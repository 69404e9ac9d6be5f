------------------------- MODULE AgentRequestProofs -------------------------
(***************************************************************************)
(* Proofs about AgentRequest: its types, that every request is a one-shot  *)
(* call, and that answers reach the callers that wait for them, for any    *)
(* agents, worlds and number of requests.                                  *)
(***************************************************************************)
EXTENDS AgentRequest, SequenceTheorems, TLAPS

State == {"new", "waiting", "refused", "answered", "timeout", "abandoned"}
\* The requests that are on their way or were.
Sent == {r \in DOMAIN call : state[r] \notin {"new", "refused"}}

Types ==
  /\ world \in Worlds /\ alive \in SUBSET Agent
  /\ mailbox \in [Agent -> Seq(Message)]
  /\ stack \in [Agent -> Seq(Frame)]
  /\ stale \in [Agent -> Nat]
  /\ call \in Seq([caller : Agent, target : Agent, timed : BOOLEAN])
  /\ Len(call) <= MaxRequests
  /\ state \in [Req -> State]
  /\ replied \in [Req -> BOOLEAN]

\* A request that has not been made is new.
Numbered == \A r \in Req : r > Len(call) => state[r] = "new"

\* What is on the bus is about a request that was sent, and an answer was given.
Mail ==
  \A a \in Agent : \A i \in 1 .. Len(mailbox[a]) :
    LET m == mailbox[a][i] IN
    /\ m.about \in Sent
    /\ m.type = "task_response" => replied[m.about]

\* An agent owes answers to requests that were sent to it.
Owed ==
  \A a \in Agent : \A i \in 1 .. Len(stack[a]) :
    LET f == stack[a][i] IN f.what = "handle" /\ f.owes # 0 => f.owes \in Sent

\* A frame that waits belongs to a request that waits, and no other frame does.
Waiting ==
  \A a \in Agent : \A i \in 1 .. Len(stack[a]) :
    LET f == stack[a][i] IN
    f.what = "wait" =>
      /\ f.for \in DOMAIN call /\ state[f.for] = "waiting"
      /\ call[f.for].caller = a
      /\ \A j \in 1 .. Len(stack[a]) :
           stack[a][j].what = "wait" /\ stack[a][j].for = f.for => j = i

IInv == Types /\ Numbered /\ Mail /\ Owed /\ Waiting

-----------------------------------------------------------------------------
(* Sequences, mailboxes and stacks *)

\* Front and Last of a sequence that is not empty.
LEMMA FrontLast ==
  ASSUME NEW S, NEW s \in Seq(S), s # <<>>
  PROVE  /\ Len(s) \in Nat /\ Len(s) > 0
         /\ Last(s) = s[Len(s)] /\ Last(s) \in S
         /\ Front(s) \in Seq(S) /\ Len(Front(s)) = Len(s) - 1
         /\ \A i \in 1 .. Len(s) - 1 : Front(s)[i] = s[i]
<1>1. Len(s) \in Nat /\ Len(s) > 0
  OBVIOUS
<1>2. Last(s) = s[Len(s)] /\ Last(s) \in S
  BY <1>1 DEF Last
<1>3. \A i \in 1 .. Len(s) - 1 : s[i] \in S
  BY <1>1
<1>4. /\ Front(s) \in Seq(S)
      /\ Len(Front(s)) = IF 1 <= Len(s) - 1 THEN Len(s) - 1 - 1 + 1 ELSE 0
      /\ \A i \in 1 .. Len(s) - 1 - 1 + 1 : Front(s)[i] = s[1 + i - 1]
  BY <1>1, <1>3, SubSeqProperties DEF Front
<1>5. Len(Front(s)) = Len(s) - 1
  <2> DEFINE n == Len(s) - 1
  <2>1. n \in Nat
    BY <1>1
  <2>2. Len(Front(s)) = IF 1 <= n THEN n - 1 + 1 ELSE 0
    BY <1>4
  <2> HIDE DEF n
  <2>3. Len(Front(s)) = n
    BY <2>1, <2>2
  <2> QED
    BY <2>3 DEF n
<1>6. \A i \in 1 .. Len(s) - 1 : Front(s)[i] = s[i]
  BY <1>1, <1>4
<1> QED
  BY <1>1, <1>2, <1>4, <1>5, <1>6

\* Every place of a sequence over a set holds an element of it.
LEMMA ElementOf ==
  ASSUME NEW S, NEW s \in Seq(S), NEW i \in 1 .. Len(s)
  PROVE  s[i] \in S
OBVIOUS

\* Calls are made in the order of their numbers.
LEMMA CallsAreRequests ==
  ASSUME Types
  PROVE  /\ Len(call) \in Nat /\ DOMAIN call = 1 .. Len(call)
         /\ DOMAIN call \subseteq Req /\ Sent \subseteq Req
<1>1. call \in Seq([caller : Agent, target : Agent, timed : BOOLEAN])
  BY DEF Types
<1>2. Len(call) \in Nat /\ DOMAIN call = 1 .. Len(call)
  BY <1>1
<1>3. Len(call) <= MaxRequests /\ MaxRequests \in Nat
  BY BoundAssumption DEF Types
<1>4. DOMAIN call \subseteq Req
  BY <1>2, <1>3 DEF Req
<1> QED
  BY <1>2, <1>4 DEF Sent

\* Delivering a message adds it to one mailbox at most.
LEMMA DeliverAdds ==
  ASSUME Types, NEW t \in Agent, NEW m \in Message, Deliver(t, m)
  PROVE  /\ mailbox' \in [Agent -> Seq(Message)] /\ stale' \in [Agent -> Nat]
         /\ \A a \in Agent : \A i \in 1 .. Len(mailbox'[a]) :
              \/ i \in 1 .. Len(mailbox[a]) /\ mailbox'[a][i] = mailbox[a][i]
              \/ mailbox'[a][i] = m
<1>1. CASE stale[t] > 0
  <2>1. mailbox' = mailbox /\ stale' = [stale EXCEPT ![t] = @ - 1]
    BY <1>1 DEF Deliver
  <2>2. stale[t] - 1 \in Nat
    BY <1>1 DEF Types
  <2>3. stale' \in [Agent -> Nat]
    BY <2>1, <2>2 DEF Types
  <2> QED
    BY <2>1, <2>3 DEF Types
<1>2. CASE ~(stale[t] > 0)
  <2>1. mailbox[t] \in Seq(Message) /\ stale' = stale
        /\ mailbox' = [mailbox EXCEPT ![t] = Append(@, m)]
    BY <1>2 DEF Deliver, Types
  <2>2. mailbox' \in [Agent -> Seq(Message)]
    BY <2>1 DEF Types
  <2>3. \A a \in Agent : mailbox'[a] = IF a = t THEN Append(mailbox[t], m) ELSE mailbox[a]
    BY <2>1 DEF Types
  <2>4. \A i \in 1 .. Len(Append(mailbox[t], m)) :
          \/ i \in 1 .. Len(mailbox[t]) /\ Append(mailbox[t], m)[i] = mailbox[t][i]
          \/ Append(mailbox[t], m)[i] = m
    BY <2>1
  <2> QED
    BY <2>1, <2>2, <2>3, <2>4 DEF Types
<1> QED
  BY <1>1, <1>2

\* A call adds a frame at the top of one stack.
LEMMA PushAdds ==
  ASSUME Types, NEW a \in Agent, NEW f \in Frame, Push(a, f)
  PROVE  /\ stack' \in [Agent -> Seq(Frame)]
         /\ \A b \in Agent : \A i \in 1 .. Len(stack'[b]) :
              \/ i \in 1 .. Len(stack[b]) /\ stack'[b][i] = stack[b][i]
              \/ b = a /\ i = Len(stack[a]) + 1 /\ stack'[b][i] = f
<1>1. stack[a] \in Seq(Frame)
  BY DEF Types
<1>2. stack' = [stack EXCEPT ![a] = Append(stack[a], f)]
  BY DEF Push
<1>3. \A b \in Agent : stack'[b] = IF b = a THEN Append(stack[a], f) ELSE stack[b]
  BY <1>2 DEF Types
<1>4. stack' \in [Agent -> Seq(Frame)]
  BY <1>1, <1>2 DEF Types
<1>5. \A i \in 1 .. Len(Append(stack[a], f)) :
        \/ i \in 1 .. Len(stack[a]) /\ Append(stack[a], f)[i] = stack[a][i]
        \/ i = Len(stack[a]) + 1 /\ Append(stack[a], f)[i] = f
  BY <1>1
<1> QED
  BY <1>3, <1>4, <1>5

\* Returning removes the frame at the top of one stack.
LEMMA PopRemoves ==
  ASSUME Types, NEW a \in Agent, stack[a] # <<>>, Pop(a)
  PROVE  /\ stack' \in [Agent -> Seq(Frame)]
         /\ Len(stack[a]) \in Nat /\ Len(stack[a]) > 0
         /\ Top(a) = stack[a][Len(stack[a])] /\ Top(a) \in Frame
         /\ \A b \in Agent : \A i \in 1 .. Len(stack'[b]) :
              /\ i \in 1 .. Len(stack[b]) /\ stack'[b][i] = stack[b][i]
              /\ b = a => i # Len(stack[a])
<1>1. stack[a] \in Seq(Frame)
  BY DEF Types
<1>2. stack' = [stack EXCEPT ![a] = Front(stack[a])]
  BY DEF Pop
<1>3. \A b \in Agent : stack'[b] = IF b = a THEN Front(stack[a]) ELSE stack[b]
  BY <1>2 DEF Types
<1>4. /\ Len(stack[a]) \in Nat /\ Len(stack[a]) > 0
      /\ Last(stack[a]) = stack[a][Len(stack[a])] /\ Last(stack[a]) \in Frame
      /\ Front(stack[a]) \in Seq(Frame) /\ Len(Front(stack[a])) = Len(stack[a]) - 1
      /\ \A i \in 1 .. Len(stack[a]) - 1 : Front(stack[a])[i] = stack[a][i]
  BY <1>1, FrontLast
<1>5. stack' \in [Agent -> Seq(Frame)]
  BY <1>2, <1>4 DEF Types
<1>6. Top(a) = stack[a][Len(stack[a])] /\ Top(a) \in Frame
  BY <1>4 DEF Top
<1>7. ASSUME NEW b \in Agent, NEW i \in 1 .. Len(stack'[b])
      PROVE  /\ i \in 1 .. Len(stack[b]) /\ stack'[b][i] = stack[b][i]
             /\ b = a => i # Len(stack[a])
  BY <1>3, <1>4
<1> QED
  BY <1>4, <1>5, <1>6, <1>7

-----------------------------------------------------------------------------
(* What a step has to show for the parts of the invariant. *)

\* Messages stay true as long as what was issued and answered stays so.
LEMMA MailKept ==
  ASSUME Types, Mail, mailbox' \in [Agent -> Seq(Message)],
         Sent \subseteq Sent',
         \A q \in Req : replied[q] => replied'[q],
         \A a \in Agent : \A i \in 1 .. Len(mailbox'[a]) :
           \/ \E j \in 1 .. Len(mailbox[a]) : mailbox'[a][i] = mailbox[a][j]
           \/ /\ mailbox'[a][i].about \in Sent'
              /\ mailbox'[a][i].type = "task_response" => replied'[mailbox'[a][i].about]
  PROVE  Mail'
<1>1. SUFFICES ASSUME NEW a \in Agent, NEW i \in 1 .. Len(mailbox'[a])
               PROVE  /\ mailbox'[a][i].about \in Sent'
                      /\ mailbox'[a][i].type = "task_response"
                           => replied'[mailbox'[a][i].about]
  BY DEF Mail
<1>2. CASE \E j \in 1 .. Len(mailbox[a]) : mailbox'[a][i] = mailbox[a][j]
  <2>1. PICK j \in 1 .. Len(mailbox[a]) : mailbox'[a][i] = mailbox[a][j]
    BY <1>2
  <2>2. mailbox[a][j] \in Message
    BY DEF Types
  <2>3. mailbox[a][j].about \in Req
    BY <2>2 DEF Message
  <2>4. /\ mailbox[a][j].about \in Sent
        /\ mailbox[a][j].type = "task_response" => replied[mailbox[a][j].about]
    BY DEF Mail
  <2> QED
    BY <2>1, <2>3, <2>4
<1> QED
  BY <1>2

\* So do the debts of frames; what is new owes nothing or to an issued request.
LEMMA OwedKept ==
  ASSUME Types, Owed,
         Sent \subseteq Sent',
         \A a \in Agent : \A i \in 1 .. Len(stack'[a]) :
           \/ i \in 1 .. Len(stack[a]) /\ stack'[a][i] = stack[a][i]
           \/ stack'[a][i].what = "handle" /\ stack'[a][i].owes # 0
                => stack'[a][i].owes \in Sent'
  PROVE  Owed'
<1>1. SUFFICES ASSUME NEW a \in Agent, NEW i \in 1 .. Len(stack'[a]),
                      stack'[a][i].what = "handle", stack'[a][i].owes # 0
               PROVE  stack'[a][i].owes \in Sent'
  BY DEF Owed
<1>2. CASE i \in 1 .. Len(stack[a]) /\ stack'[a][i] = stack[a][i]
  BY <1>1, <1>2 DEF Owed
<1> QED
  BY <1>1, <1>2

\* And the waits, when no frame that waits is new and those that remain belong
\* to requests that still wait.
LEMMA WaitingKept ==
  ASSUME Types, Waiting,
         \A q \in DOMAIN call : q \in DOMAIN call' /\ call'[q] = call[q],
         \A a \in Agent : \A i \in 1 .. Len(stack'[a]) :
           stack'[a][i].what = "wait" =>
             /\ i \in 1 .. Len(stack[a]) /\ stack'[a][i] = stack[a][i]
             /\ state'[stack'[a][i].for] = "waiting"
  PROVE  Waiting'
<1>1. SUFFICES ASSUME NEW a \in Agent, NEW i \in 1 .. Len(stack'[a]),
                      stack'[a][i].what = "wait"
               PROVE  LET f == stack'[a][i] IN
                      /\ f.for \in DOMAIN call' /\ state'[f.for] = "waiting"
                      /\ call'[f.for].caller = a
                      /\ \A j \in 1 .. Len(stack'[a]) :
                           stack'[a][j].what = "wait" /\ stack'[a][j].for = f.for
                             => j = i
  BY DEF Waiting
<1>2. /\ i \in 1 .. Len(stack[a]) /\ stack'[a][i] = stack[a][i]
      /\ state'[stack'[a][i].for] = "waiting"
  BY <1>1
<1>3. /\ stack[a][i].for \in DOMAIN call /\ call[stack[a][i].for].caller = a
      /\ \A j \in 1 .. Len(stack[a]) :
           stack[a][j].what = "wait" /\ stack[a][j].for = stack[a][i].for => j = i
  BY <1>1, <1>2 DEF Waiting
<1>4. ASSUME NEW j \in 1 .. Len(stack'[a]), stack'[a][j].what = "wait",
             stack'[a][j].for = stack'[a][i].for
      PROVE  j = i
  BY <1>2, <1>3, <1>4
<1> QED
  BY <1>2, <1>3, <1>4

-----------------------------------------------------------------------------
(* The steps.  Each keeps the invariant and is, for every request, a step of  *)
(* OneShotCall.                                                               *)

OneShotSteps ==
  \A q \in Req : [Promise(q)!Next]_(Promise(q)!vars)

\* A step that leaves the requests alone.
LEMMA NoRequestSteps ==
  ASSUME UNCHANGED <<state, replied>> PROVE OneShotSteps
BY DEF OneShotSteps, Promise!vars

\* A request that ends while it waits.
LEMMA WaitEnds ==
  ASSUME Types, NEW q \in Req, state[q] = "waiting",
         NEW how \in {"timeout", "answered"}, how = "answered" => replied[q],
         state' = [state EXCEPT ![q] = how], UNCHANGED <<replied, call>>
  PROVE  /\ OneShotSteps /\ Sent \subseteq Sent'
         /\ state' \in [Req -> State] /\ (Numbered => Numbered')
<1>1. \A r \in Req : state'[r] = IF r = q THEN how ELSE state[r]
  BY DEF Types
<1>2. state' \in [Req -> State]
  BY DEF Types, State
<1>3. Sent \subseteq Sent'
  <2> SUFFICES ASSUME NEW r \in Sent PROVE r \in Sent'
    OBVIOUS
  <2>1. r \in DOMAIN call /\ state[r] \notin {"new", "refused"}
    BY DEF Sent
  <2>2. r \in Req
    BY <2>1, CallsAreRequests
  <2> QED
    BY <1>1, <2>1, <2>2 DEF Sent
<1>4. Numbered => Numbered'
  BY <1>1 DEF Numbered
<1>5. ASSUME NEW r \in Req PROVE [Promise(r)!Next]_(Promise(r)!vars)
  <2>1. CASE r # q
    BY <1>1, <2>1 DEF Promise!vars
  <2>2. CASE r = q /\ how = "timeout"
    BY <1>1, <2>2 DEF Promise!Next, Promise!GiveUp
  <2>3. CASE r = q /\ how = "answered"
    BY <1>1, <2>3 DEF Promise!Next, Promise!Answer
  <2> QED
    BY <2>1, <2>2, <2>3
<1> QED
  BY <1>2, <1>3, <1>4, <1>5 DEF OneShotSteps

\* A step that leaves requests alone keeps what is known of them.
LEMMA SentStays ==
  ASSUME UNCHANGED <<state, call>> PROVE Sent' = Sent /\ (Numbered => Numbered')
BY DEF Sent, Numbered

\* request: its number is new, so no frame waits for it and no message is about
\* it; the one frame and the one message it adds belong to a request that waits.
LEMMA RequestKeeps ==
  ASSUME IInv, NEW a \in Agent, NEW t \in Agent, NEW timed \in world.timed,
         Request(a, t, timed)
  PROVE  IInv' /\ OneShotSteps
<1> DEFINE r == Len(call) + 1
           m == [type |-> "task_request", about |-> r]
           f == [what |-> "wait", for |-> r]
           c == [caller |-> a, target |-> t, timed |-> timed]
<1>1. Types /\ Numbered /\ Mail /\ Owed /\ Waiting
  BY DEF IInv
<1>2. Len(call) \in Nat /\ DOMAIN call = 1 .. Len(call) /\ r \in Req /\ r \notin DOMAIN call
  BY <1>1, CallsAreRequests DEF Request
<1>3. r <= MaxRequests
  BY <1>2, BoundAssumption DEF Req
<1>4. state[r] = "new"
  BY <1>1, <1>2 DEF Numbered
<1>5. timed \in BOOLEAN
  BY <1>1, WorldAssumption DEF Types, World
<1>6. call' = Append(call, c) /\ c \in [caller : Agent, target : Agent, timed : BOOLEAN]
  BY <1>5 DEF Request
<1>7. call \in Seq([caller : Agent, target : Agent, timed : BOOLEAN])
  BY <1>1 DEF Types
<1>8. /\ call' \in Seq([caller : Agent, target : Agent, timed : BOOLEAN])
      /\ Len(call') = r /\ DOMAIN call' = 1 .. r /\ call'[r] = c
      /\ \A q \in DOMAIN call : q \in DOMAIN call' /\ call'[q] = call[q]
  BY <1>2, <1>6, <1>7
<1>9. PICK s \in {"waiting", "refused"} : state' = [state EXCEPT ![r] = s]
  BY DEF Request
<1>10. /\ state' \in [Req -> State]
       /\ \A q \in Req : state'[q] = IF q = r THEN s ELSE state[q]
  BY <1>1, <1>2, <1>9 DEF Types, State
<1>11. Sent \subseteq Sent'
  <2> SUFFICES ASSUME NEW q \in Sent PROVE q \in Sent'
    OBVIOUS
  <2>1. q \in DOMAIN call /\ q \in Req /\ q # r
    BY <1>1, <1>2, CallsAreRequests DEF Sent
  <2> QED
    BY <1>8, <1>10, <2>1 DEF Sent
<1>12. Numbered'
  BY <1>1, <1>2, <1>8, <1>10 DEF Numbered, Req
<1>13. OneShotSteps
  <2> SUFFICES ASSUME NEW q \in Req PROVE [Promise(q)!Next]_(Promise(q)!vars)
    BY DEF OneShotSteps
  <2>1. replied' = replied
    BY DEF Request
  <2>2. CASE q = r
    BY <1>4, <1>10, <2>1, <2>2 DEF Promise!Next, Promise!Issue
  <2>3. CASE q # r
    BY <1>10, <2>1, <2>3 DEF Promise!vars
  <2> QED
    BY <2>2, <2>3
<1>14. world' = world /\ alive' = alive /\ replied' = replied
  BY DEF Request
<1>15. CASE Routable(t)
  <2>1. Deliver(t, m) /\ Push(a, f) /\ state'[r] = "waiting"
    BY <1>1, <1>2, <1>15 DEF Request, Types
  <2>2. m \in Message /\ f \in Frame
    BY <1>2 DEF Message, Frame
  <2>3. /\ mailbox' \in [Agent -> Seq(Message)] /\ stale' \in [Agent -> Nat]
        /\ \A b \in Agent : \A i \in 1 .. Len(mailbox'[b]) :
             \/ i \in 1 .. Len(mailbox[b]) /\ mailbox'[b][i] = mailbox[b][i]
             \/ mailbox'[b][i] = m
    BY <1>1, <2>1, <2>2, DeliverAdds
  <2>4. /\ stack' \in [Agent -> Seq(Frame)]
        /\ \A b \in Agent : \A i \in 1 .. Len(stack'[b]) :
             \/ i \in 1 .. Len(stack[b]) /\ stack'[b][i] = stack[b][i]
             \/ b = a /\ i = Len(stack[a]) + 1 /\ stack'[b][i] = f
    BY <1>1, <2>1, <2>2, PushAdds
  <2>5. Types'
    BY <1>1, <1>3, <1>8, <1>10, <1>14, <2>3, <2>4 DEF Types
  <2>6. r \in Sent'
    BY <1>2, <1>8, <2>1 DEF Sent
  <2>7. Mail'
    <3>1. \A q \in Req : replied[q] => replied'[q]
      BY <1>14
    <3>2. \A b \in Agent : \A i \in 1 .. Len(mailbox'[b]) :
            \/ \E j \in 1 .. Len(mailbox[b]) : mailbox'[b][i] = mailbox[b][j]
            \/ /\ mailbox'[b][i].about \in Sent'
               /\ mailbox'[b][i].type = "task_response" => replied'[mailbox'[b][i].about]
      <4> SUFFICES ASSUME NEW b \in Agent, NEW i \in 1 .. Len(mailbox'[b]),
                          ~ \E j \in 1 .. Len(mailbox[b]) : mailbox'[b][i] = mailbox[b][j]
                   PROVE  /\ mailbox'[b][i].about \in Sent'
                          /\ mailbox'[b][i].type # "task_response"
        OBVIOUS
      <4>1. mailbox'[b][i] = m
        BY <2>3
      <4> QED
        BY <2>6, <4>1
    <3> QED
      BY <1>1, <1>11, <2>3, <3>1, <3>2, MailKept
  <2>8. Owed'
    BY <1>1, <1>11, <2>4, OwedKept
  <2>9. Waiting'
    <3> SUFFICES ASSUME NEW b \in Agent, NEW i \in 1 .. Len(stack'[b]),
                        stack'[b][i].what = "wait"
                 PROVE  /\ stack'[b][i].for \in DOMAIN call'
                        /\ state'[stack'[b][i].for] = "waiting"
                        /\ call'[stack'[b][i].for].caller = b
                        /\ \A j \in 1 .. Len(stack'[b]) :
                             stack'[b][j].what = "wait"
                               /\ stack'[b][j].for = stack'[b][i].for => j = i
      BY DEF Waiting
    <3>1. ASSUME NEW k \in 1 .. Len(stack[b]), stack[b][k].what = "wait"
          PROVE  /\ stack[b][k].for \in DOMAIN call /\ stack[b][k].for \in Req
                 /\ stack[b][k].for # r /\ state[stack[b][k].for] = "waiting"
                 /\ call[stack[b][k].for].caller = b
                 /\ \A j \in 1 .. Len(stack[b]) :
                      stack[b][j].what = "wait" /\ stack[b][j].for = stack[b][k].for
                        => j = k
      BY <1>1, <1>2, <3>1, CallsAreRequests DEF Waiting
    <3>2. CASE i \in 1 .. Len(stack[b]) /\ stack'[b][i] = stack[b][i]
      <4>1. stack[b][i].what = "wait"
        BY <3>2
      <4>2. \A j \in 1 .. Len(stack'[b]) :
              stack'[b][j].what = "wait" /\ stack'[b][j].for = stack'[b][i].for => j = i
        BY <2>4, <3>1, <3>2, <4>1
      <4> QED
        BY <1>8, <1>10, <3>1, <3>2, <4>1, <4>2
    <3>3. CASE b = a /\ i = Len(stack[a]) + 1 /\ stack'[b][i] = f
      <4>1. ASSUME NEW j \in 1 .. Len(stack'[b]), stack'[b][j].what = "wait",
                   stack'[b][j].for = stack'[b][i].for
            PROVE  j = i
        <5>1. stack'[b][j].for = r
          BY <3>3, <4>1
        <5>2. CASE j \in 1 .. Len(stack[b]) /\ stack'[b][j] = stack[b][j]
          BY <3>1, <4>1, <5>1, <5>2
        <5>3. CASE j = Len(stack[a]) + 1
          BY <3>3, <5>3
        <5> QED
          BY <2>4, <5>2, <5>3
      <4> QED
        BY <1>2, <1>8, <2>1, <3>3, <4>1
    <3> QED
      BY <2>4, <3>2, <3>3
  <2> QED
    BY <1>12, <1>13, <2>5, <2>7, <2>8, <2>9 DEF IInv
<1>16. CASE ~Routable(t)
  <2>1. UNCHANGED <<mailbox, stale, stack>>
    BY <1>16 DEF Request
  <2>2. Types'
    BY <1>1, <1>3, <1>8, <1>10, <1>14, <2>1 DEF Types
  <2>3. Mail'
    BY <1>1, <1>11, <1>14, <2>1 DEF Mail
  <2>4. Owed'
    BY <1>1, <1>11, <2>1 DEF Owed
  <2>5. Waiting'
    <3>1. ASSUME NEW b \in Agent, NEW i \in 1 .. Len(stack'[b]),
                 stack'[b][i].what = "wait"
          PROVE  /\ i \in 1 .. Len(stack[b]) /\ stack'[b][i] = stack[b][i]
                 /\ state'[stack'[b][i].for] = "waiting"
      <4>1. stack[b][i].for \in DOMAIN call /\ state[stack[b][i].for] = "waiting"
        BY <1>1, <2>1, <3>1 DEF Waiting
      <4>2. stack[b][i].for \in Req /\ stack[b][i].for # r
        BY <1>1, <1>2, <4>1, CallsAreRequests
      <4> QED
        BY <1>10, <2>1, <4>1, <4>2
    <3> QED
      BY <1>1, <1>8, <3>1, WaitingKept
  <2> QED
    BY <1>12, <1>13, <2>2, <2>3, <2>4, <2>5 DEF IInv
<1> QED
  BY <1>15, <1>16

\* reply: the answer is to a request that was sent, and only the first one of
\* a request makes a difference to it.
LEMMA ReplyKeeps ==
  ASSUME IInv, NEW a \in Agent, Reply(a)
  PROVE  IInv' /\ OneShotSteps
<1> DEFINE n == Len(stack[a])
           r == Top(a).owes
           back == call[r].caller
           m == [type |-> "task_response", about |-> r]
<1>1. Types /\ Numbered /\ Mail /\ Owed /\ Waiting
  BY DEF IInv
<1>2. stack[a] \in Seq(Frame) /\ stack[a] # <<>> /\ Top(a).what = "handle" /\ r # 0
  BY <1>1 DEF Types, Reply, Executes
<1>3. n \in Nat /\ n \in 1 .. Len(stack[a]) /\ Top(a) = stack[a][n]
  <2>1. Len(stack[a]) \in Nat /\ Len(stack[a]) > 0 /\ Last(stack[a]) = stack[a][Len(stack[a])]
    BY <1>2, FrontLast
  <2> QED
    BY <2>1 DEF Top
<1>4. r \in Sent
  BY <1>1, <1>2, <1>3 DEF Owed
<1>5. r \in Req /\ r \in DOMAIN call /\ state[r] \notin {"new", "refused"}
  BY <1>1, <1>4, CallsAreRequests DEF Sent
<1>6. back \in Agent
  <2>1. call \in Seq([caller : Agent, target : Agent, timed : BOOLEAN])
    BY <1>1 DEF Types
  <2>2. r \in 1 .. Len(call)
    BY <1>1, <1>5, CallsAreRequests
  <2>3. call[r] \in [caller : Agent, target : Agent, timed : BOOLEAN]
    BY <2>1, <2>2, ElementOf
  <2> QED
    BY <2>3
<1>7. world' = world /\ alive' = alive /\ call' = call /\ state' = state
  BY DEF Reply
<1>8. Sent' = Sent /\ Numbered'
  BY <1>1, <1>7, SentStays
<1>9. PICK f \in Frame : /\ f.what = "handle" /\ f.owes = 0
                         /\ stack' = [stack EXCEPT ![a] = [stack[a] EXCEPT ![n] = f]]
  <2> DEFINE f == [stack[a][n] EXCEPT !.owes = 0]
  <2>1. stack[a][n] \in Frame
    BY <1>2, <1>3
  <2>2. stack[a][n] \in [what : {"handle"}, owes : Req \cup {0}]
    BY <1>2, <1>3, <2>1 DEF Frame
  <2>3. f \in [what : {"handle"}, owes : Req \cup {0}] /\ f.owes = 0 /\ f.what = "handle"
    BY <2>2
  <2>4. f \in Frame
    BY <2>3 DEF Frame
  <2>5. stack' = [stack EXCEPT ![a] = [stack[a] EXCEPT ![n] = f]]
    BY DEF Reply
  <2> QED
    BY <2>3, <2>4, <2>5
<1>10. /\ stack' \in [Agent -> Seq(Frame)]
       /\ \A b \in Agent : \A i \in 1 .. Len(stack'[b]) :
            \/ i \in 1 .. Len(stack[b]) /\ stack'[b][i] = stack[b][i]
            \/ stack'[b][i] = f
  <2>1. [stack[a] EXCEPT ![n] = f] \in Seq(Frame)
    BY <1>2, <1>3
  <2>2. \A i \in 1 .. Len([stack[a] EXCEPT ![n] = f]) :
          \/ /\ i \in 1 .. Len(stack[a])
             /\ [stack[a] EXCEPT ![n] = f][i] = stack[a][i]
          \/ [stack[a] EXCEPT ![n] = f][i] = f
    BY <1>2, <1>3
  <2>3. \A b \in Agent :
          stack'[b] = IF b = a THEN [stack[a] EXCEPT ![n] = f] ELSE stack[b]
    BY <1>1, <1>9 DEF Types
  <2>4. stack' \in [Agent -> Seq(Frame)]
    BY <1>1, <1>9, <2>1 DEF Types
  <2> QED
    BY <2>2, <2>3, <2>4
<1>11. Owed'
  <2>1. \A b \in Agent : \A i \in 1 .. Len(stack'[b]) :
          \/ i \in 1 .. Len(stack[b]) /\ stack'[b][i] = stack[b][i]
          \/ stack'[b][i].what = "handle" /\ stack'[b][i].owes # 0
               => stack'[b][i].owes \in Sent'
    BY <1>9, <1>10
  <2> QED
    BY <1>1, <1>8, <2>1, OwedKept
<1>12. Waiting'
  <2>1. ASSUME NEW b \in Agent, NEW i \in 1 .. Len(stack'[b]),
               stack'[b][i].what = "wait"
        PROVE  /\ i \in 1 .. Len(stack[b]) /\ stack'[b][i] = stack[b][i]
               /\ state'[stack'[b][i].for] = "waiting"
    <3>1. stack'[b][i] # f
      BY <1>9, <2>1
    <3>2. i \in 1 .. Len(stack[b]) /\ stack'[b][i] = stack[b][i]
      BY <1>10, <3>1
    <3> QED
      BY <1>1, <1>7, <2>1, <3>2 DEF Waiting
  <2>2. \A q \in DOMAIN call : q \in DOMAIN call' /\ call'[q] = call[q]
    BY <1>7
  <2> QED
    BY <1>1, <2>1, <2>2, WaitingKept
<1>13. CASE Routable(back)
  <2>1. replied' = [replied EXCEPT ![r] = TRUE] /\ Deliver(back, m)
    BY <1>13 DEF Reply
  <2>2. m \in Message
    BY <1>5 DEF Message
  <2>3. /\ mailbox' \in [Agent -> Seq(Message)] /\ stale' \in [Agent -> Nat]
        /\ \A b \in Agent : \A i \in 1 .. Len(mailbox'[b]) :
             \/ i \in 1 .. Len(mailbox[b]) /\ mailbox'[b][i] = mailbox[b][i]
             \/ mailbox'[b][i] = m
    BY <1>1, <1>6, <2>1, <2>2, DeliverAdds
  <2>4. /\ replied' \in [Req -> BOOLEAN] /\ replied'[r] = TRUE
        /\ \A q \in Req : q # r => replied'[q] = replied[q]
    BY <1>1, <1>5, <2>1 DEF Types
  <2>5. Types'
    BY <1>1, <1>7, <1>10, <2>3, <2>4 DEF Types
  <2>6. Mail'
    <3>1. \A q \in Req : replied[q] => replied'[q]
      BY <2>4
    <3>2. \A b \in Agent : \A i \in 1 .. Len(mailbox'[b]) :
            \/ \E j \in 1 .. Len(mailbox[b]) : mailbox'[b][i] = mailbox[b][j]
            \/ /\ mailbox'[b][i].about \in Sent'
               /\ mailbox'[b][i].type = "task_response" => replied'[mailbox'[b][i].about]
      BY <1>4, <1>8, <2>3, <2>4
    <3> QED
      BY <1>1, <1>8, <2>3, <3>1, <3>2, MailKept
  <2>7. OneShotSteps
    <3> SUFFICES ASSUME NEW q \in Req PROVE [Promise(q)!Next]_(Promise(q)!vars)
      BY DEF OneShotSteps
    <3>1. CASE q # r
      BY <1>7, <2>4, <3>1 DEF Promise!vars
    <3>2. CASE q = r /\ replied[r]
      <4>1. replied[r] = TRUE
        BY <1>1, <1>5, <3>2 DEF Types
      <4> QED
        BY <1>7, <2>4, <3>2, <4>1 DEF Promise!vars
    <3>3. CASE q = r /\ ~replied[r]
      BY <1>5, <1>7, <2>4, <3>3 DEF Promise!Next, Promise!Reply
    <3> QED
      BY <3>1, <3>2, <3>3
  <2> QED
    BY <1>8, <1>11, <1>12, <2>5, <2>6, <2>7 DEF IInv
<1>14. CASE ~Routable(back)
  <2>1. UNCHANGED <<replied, mailbox, stale>>
    BY <1>14 DEF Reply
  <2>2. Types'
    BY <1>1, <1>7, <1>10, <2>1 DEF Types
  <2>3. Mail'
    BY <1>1, <1>8, <2>1 DEF Mail
  <2>4. OneShotSteps
    BY <1>7, <2>1, NoRequestSteps
  <2> QED
    BY <1>8, <1>11, <1>12, <2>2, <2>3, <2>4 DEF IInv
<1> QED
  BY <1>13, <1>14

\* A frame that is left waits for nothing.
LEMMA ReturnsKeeps ==
  ASSUME IInv, NEW a \in Agent, Returns(a)
  PROVE  IInv' /\ OneShotSteps
<1>1. Types /\ Numbered /\ Mail /\ Owed /\ Waiting
  BY DEF IInv
<1>2. stack[a] # <<>> /\ Pop(a)
      /\ UNCHANGED <<world, alive, mailbox, stale, call, state, replied>>
  BY DEF Returns, Executes
<1>3. /\ stack' \in [Agent -> Seq(Frame)]
      /\ \A b \in Agent : \A i \in 1 .. Len(stack'[b]) :
           i \in 1 .. Len(stack[b]) /\ stack'[b][i] = stack[b][i]
  BY <1>1, <1>2, PopRemoves
<1>4. Sent' = Sent /\ Numbered'
  BY <1>1, <1>2, SentStays
<1>5. Types'
  BY <1>1, <1>2, <1>3 DEF Types
<1>6. Mail'
  BY <1>1, <1>2, <1>4 DEF Mail
<1>7. Owed'
  BY <1>1, <1>3, <1>4, OwedKept
<1>8. Waiting'
  <2>1. ASSUME NEW b \in Agent, NEW i \in 1 .. Len(stack'[b]),
               stack'[b][i].what = "wait"
        PROVE  /\ i \in 1 .. Len(stack[b]) /\ stack'[b][i] = stack[b][i]
               /\ state'[stack'[b][i].for] = "waiting"
    BY <1>1, <1>2, <1>3, <2>1 DEF Waiting
  <2> QED
    BY <1>1, <1>2, <2>1, WaitingKept
<1> QED
  BY <1>2, <1>4, <1>5, <1>6, <1>7, <1>8, NoRequestSteps DEF IInv

\* The innermost request of an agent is over: no other frame waited for it.
LEMMA InnermostEnds ==
  ASSUME IInv, NEW a \in Agent, stack[a] # <<>>, Top(a).what = "wait", Pop(a),
         NEW how \in {"timeout", "answered"},
         how = "answered" => replied[Top(a).for],
         state' = [state EXCEPT ![Top(a).for] = how], UNCHANGED <<replied, call>>
  PROVE  /\ OneShotSteps /\ Sent \subseteq Sent'
         /\ state' \in [Req -> State] /\ stack' \in [Agent -> Seq(Frame)]
         /\ Numbered' /\ Owed' /\ Waiting'
<1> DEFINE n == Len(stack[a])
           r == Top(a).for
<1>1. Types /\ Numbered /\ Owed /\ Waiting
  BY DEF IInv
<1>2. /\ stack' \in [Agent -> Seq(Frame)]
      /\ n \in Nat /\ n > 0 /\ Top(a) = stack[a][n]
      /\ \A b \in Agent : \A i \in 1 .. Len(stack'[b]) :
           /\ i \in 1 .. Len(stack[b]) /\ stack'[b][i] = stack[b][i]
           /\ b = a => i # n
  BY <1>1, PopRemoves
<1>3. /\ r \in DOMAIN call /\ state[r] = "waiting" /\ call[r].caller = a
      /\ \A j \in 1 .. n :
           stack[a][j].what = "wait" /\ stack[a][j].for = r => j = n
  BY <1>1, <1>2 DEF Waiting
<1>4. r \in Req
  BY <1>1, <1>3, CallsAreRequests
<1>5. /\ OneShotSteps /\ Sent \subseteq Sent'
      /\ state' \in [Req -> State] /\ Numbered'
  BY <1>1, <1>3, <1>4, WaitEnds
<1>6. Owed'
  BY <1>1, <1>2, <1>5, OwedKept
<1>7. Waiting'
  <2>1. ASSUME NEW b \in Agent, NEW i \in 1 .. Len(stack'[b]),
               stack'[b][i].what = "wait"
        PROVE  /\ i \in 1 .. Len(stack[b]) /\ stack'[b][i] = stack[b][i]
               /\ state'[stack'[b][i].for] = "waiting"
    <3>1. /\ i \in 1 .. Len(stack[b]) /\ stack'[b][i] = stack[b][i]
          /\ b = a => i # n
      BY <1>2
    <3>2. /\ stack[b][i].for \in DOMAIN call /\ state[stack[b][i].for] = "waiting"
          /\ call[stack[b][i].for].caller = b
      BY <1>1, <2>1, <3>1 DEF Waiting
    <3>3. stack[b][i].for # r
      BY <1>3, <2>1, <3>1, <3>2
    <3>4. stack[b][i].for \in Req
      BY <1>1, <3>2, CallsAreRequests
    <3> QED
      BY <1>1, <3>1, <3>2, <3>3, <3>4 DEF Types
  <2>2. \A q \in DOMAIN call : q \in DOMAIN call' /\ call'[q] = call[q]
    OBVIOUS
  <2> QED
    BY <1>1, <2>1, <2>2, WaitingKept
<1> QED
  BY <1>2, <1>5, <1>6, <1>7

\* A message leaves the mailbox of its receiver.
LEMMA TailRemoves ==
  ASSUME Types, NEW a \in Agent, mailbox[a] # <<>>,
         mailbox' = [mailbox EXCEPT ![a] = Tail(@)]
  PROVE  /\ Head(mailbox[a]) = mailbox[a][1] /\ 1 \in 1 .. Len(mailbox[a])
         /\ Head(mailbox[a]) \in Message
         /\ mailbox' \in [Agent -> Seq(Message)]
         /\ \A b \in Agent : \A i \in 1 .. Len(mailbox'[b]) :
              \E j \in 1 .. Len(mailbox[b]) : mailbox'[b][i] = mailbox[b][j]
<1>1. mailbox[a] \in Seq(Message) /\ mailbox' = [mailbox EXCEPT ![a] = Tail(mailbox[a])]
  BY DEF Types
<1>2. /\ Head(mailbox[a]) = mailbox[a][1] /\ 1 \in 1 .. Len(mailbox[a])
      /\ Head(mailbox[a]) \in Message /\ Tail(mailbox[a]) \in Seq(Message)
  BY <1>1
<1>3. mailbox' \in [Agent -> Seq(Message)]
  BY <1>1, <1>2 DEF Types
<1>4. \A i \in 1 .. Len(Tail(mailbox[a])) :
        i + 1 \in 1 .. Len(mailbox[a]) /\ Tail(mailbox[a])[i] = mailbox[a][i + 1]
  BY <1>1
<1>5. \A b \in Agent :
        mailbox'[b] = IF b = a THEN Tail(mailbox[a]) ELSE mailbox[b]
  BY <1>1 DEF Types
<1>6. ASSUME NEW b \in Agent, NEW i \in 1 .. Len(mailbox'[b])
      PROVE  \E j \in 1 .. Len(mailbox[b]) : mailbox'[b][i] = mailbox[b][j]
  <2>1. CASE b = a
    BY <1>4, <1>5, <1>6, <2>1
  <2>2. CASE b # a
    BY <1>5, <1>6, <2>2
  <2> QED
    BY <2>1, <2>2
<1> QED
  BY <1>2, <1>3, <1>6

\* An answer ends the innermost request when it is the answer to this request,
\* which then was given; every other message is handled.
LEMMA ReceiveKeeps ==
  ASSUME IInv, NEW a \in Agent, Receive(a)
  PROVE  IInv' /\ OneShotSteps
<1> DEFINE m == Head(mailbox[a])
<1>1. Types /\ Numbered /\ Mail /\ Owed /\ Waiting
  BY DEF IInv
<1>2. /\ mailbox[a] # <<>> /\ mailbox' = [mailbox EXCEPT ![a] = Tail(@)]
      /\ world' = world /\ alive' = alive /\ stale' = stale
      /\ call' = call /\ replied' = replied
  BY DEF Receive
<1>3. /\ m = mailbox[a][1] /\ 1 \in 1 .. Len(mailbox[a]) /\ m \in Message
      /\ mailbox' \in [Agent -> Seq(Message)]
      /\ \A b \in Agent : \A i \in 1 .. Len(mailbox'[b]) :
           \E j \in 1 .. Len(mailbox[b]) : mailbox'[b][i] = mailbox[b][j]
  BY <1>1, <1>2, TailRemoves
<1>4. m.about \in Sent /\ (m.type = "task_response" => replied[m.about])
  BY <1>1, <1>3 DEF Mail
<1>5. \A q \in Req : replied[q] => replied'[q]
  BY <1>2
<1>6. CASE stack[a] # <<>> /\ Matches(m, Top(a).for)
  <2> DEFINE r == Top(a).for
  <2>1. /\ Pop(a) /\ Top(a).what = "wait" /\ stack[a] # <<>>
        /\ state' = [state EXCEPT ![r] = "answered"]
    BY <1>6 DEF Receive, Receives
  <2>2. m.type = "task_response" /\ m.about = r
    BY <1>6 DEF Matches
  <2>3. replied[r]
    BY <1>4, <2>2
  <2>4. /\ OneShotSteps /\ Sent \subseteq Sent'
        /\ state' \in [Req -> State] /\ stack' \in [Agent -> Seq(Frame)]
        /\ Numbered' /\ Owed' /\ Waiting'
    BY <1>2, <2>1, <2>3, InnermostEnds
  <2>5. Mail'
    BY <1>1, <1>3, <1>5, <2>4, MailKept
  <2>6. Types'
    BY <1>1, <1>2, <1>3, <2>4 DEF Types
  <2> QED
    BY <2>4, <2>5, <2>6 DEF IInv
<1>7. CASE ~(stack[a] # <<>> /\ Matches(m, Top(a).for))
  <2> DEFINE f == [what |-> "handle",
                   owes |-> IF m.type = "task_request" THEN m.about ELSE 0]
  <2>1. Push(a, f) /\ state' = state
    BY <1>7 DEF Receive, OnMessage
  <2>2. f \in Frame
    <3>1. m.about \in Req
      BY <1>3 DEF Message
    <3> QED
      BY <3>1 DEF Frame
  <2>3. /\ stack' \in [Agent -> Seq(Frame)]
        /\ \A b \in Agent : \A i \in 1 .. Len(stack'[b]) :
             \/ i \in 1 .. Len(stack[b]) /\ stack'[b][i] = stack[b][i]
             \/ b = a /\ i = Len(stack[a]) + 1 /\ stack'[b][i] = f
    BY <1>1, <2>1, <2>2, PushAdds
  <2>4. Sent' = Sent /\ Numbered'
    BY <1>1, <1>2, <2>1, SentStays
  <2>5. f.what = "handle" /\ (f.owes # 0 => f.owes \in Sent')
    BY <1>4, <2>4
  <2>6. Owed'
    <3>1. \A b \in Agent : \A i \in 1 .. Len(stack'[b]) :
            \/ i \in 1 .. Len(stack[b]) /\ stack'[b][i] = stack[b][i]
            \/ stack'[b][i].what = "handle" /\ stack'[b][i].owes # 0
                 => stack'[b][i].owes \in Sent'
      BY <2>3, <2>5
    <3> QED
      BY <1>1, <2>4, <3>1, OwedKept
  <2>7. Waiting'
    <3>1. ASSUME NEW b \in Agent, NEW i \in 1 .. Len(stack'[b]),
                 stack'[b][i].what = "wait"
          PROVE  /\ i \in 1 .. Len(stack[b]) /\ stack'[b][i] = stack[b][i]
                 /\ state'[stack'[b][i].for] = "waiting"
      <4>1. stack'[b][i] # f
        BY <2>5, <3>1
      <4>2. i \in 1 .. Len(stack[b]) /\ stack'[b][i] = stack[b][i]
        BY <2>3, <4>1
      <4> QED
        BY <1>1, <2>1, <3>1, <4>2 DEF Waiting
    <3>2. \A q \in DOMAIN call : q \in DOMAIN call' /\ call'[q] = call[q]
      BY <1>2
    <3> QED
      BY <1>1, <3>1, <3>2, WaitingKept
  <2>8. Mail'
    BY <1>1, <1>3, <1>5, <2>4, MailKept
  <2>9. Types'
    BY <1>1, <1>2, <1>3, <2>1, <2>3 DEF Types
  <2> QED
    BY <1>2, <2>1, <2>4, <2>6, <2>7, <2>8, <2>9, NoRequestSteps DEF IInv
<1> QED
  BY <1>6, <1>7

\* A task that is left behind is one more message that can be lost.
LEMMA LeavesTaskTypes ==
  ASSUME Types, NEW a \in Agent, LeavesTask(a) \/ UNCHANGED stale
  PROVE  stale' \in [Agent -> Nat]
<1>1. stale \in [Agent -> Nat]
  BY DEF Types
<1>2. CASE LeavesTask(a)
  <2>1. stale' = [stale EXCEPT ![a] = stale[a] + 1]
    BY <1>2 DEF LeavesTask
  <2>2. stale[a] + 1 \in Nat
    BY <1>1
  <2> QED
    BY <1>1, <2>1, <2>2
<1> QED
  BY <1>1, <1>2

\* The polling loop of run changes nothing but the receives it left behind.
LEMMA PollTimesOutKeeps ==
  ASSUME IInv, NEW a \in Agent, PollTimesOut(a)
  PROVE  IInv' /\ OneShotSteps
<1>1. /\ LeavesTask(a)
      /\ UNCHANGED <<world, alive, mailbox, stack, call, state, replied>>
  BY DEF PollTimesOut
<1>2. Types /\ Numbered /\ Mail /\ Owed /\ Waiting
  BY DEF IInv
<1>3. Types'
  <2>1. stale' \in [Agent -> Nat]
    BY <1>1, <1>2, LeavesTaskTypes
  <2> QED
    BY <1>1, <1>2, <2>1 DEF Types
<1>4. Sent' = Sent /\ Numbered'
  BY <1>1, <1>2, SentStays
<1>5. Mail' /\ Owed' /\ Waiting'
  BY <1>1, <1>2, <1>4 DEF Mail, Owed, Waiting
<1> QED
  BY <1>1, <1>3, <1>4, <1>5, NoRequestSteps DEF IInv

\* The deadline of the innermost request ends this request alone.
LEMMA RequestTimesOutKeeps ==
  ASSUME IInv, NEW a \in Agent, RequestTimesOut(a)
  PROVE  IInv' /\ OneShotSteps
<1>1. Types /\ Mail
  BY DEF IInv
<1>2. /\ stack[a] # <<>> /\ Top(a).what = "wait" /\ Pop(a)
      /\ state' = [state EXCEPT ![Top(a).for] = "timeout"]
      /\ LeavesTask(a) \/ UNCHANGED stale
      /\ UNCHANGED <<world, alive, mailbox, call, replied>>
  BY DEF RequestTimesOut, Receives
<1>3. /\ OneShotSteps /\ Sent \subseteq Sent'
      /\ state' \in [Req -> State] /\ stack' \in [Agent -> Seq(Frame)]
      /\ Numbered' /\ Owed' /\ Waiting'
  BY <1>2, InnermostEnds
<1>4. stale' \in [Agent -> Nat]
  BY <1>1, <1>2, LeavesTaskTypes
<1>5. Types'
  BY <1>1, <1>2, <1>3, <1>4 DEF Types
<1>6. Mail'
  BY <1>1, <1>2, <1>3 DEF Mail
<1> QED
  BY <1>3, <1>5, <1>6 DEF IInv

\* A killed agent abandons the requests it made, and only them: a frame of
\* another agent that waits belongs to a request of that agent.
LEMMA KillKeeps ==
  ASSUME IInv, NEW a \in Agent, Kill(a)
  PROVE  IInv' /\ OneShotSteps
<1>1. Types /\ Numbered /\ Mail /\ Owed /\ Waiting
  BY DEF IInv
<1>2. /\ mailbox' = [mailbox EXCEPT ![a] = <<>>]
      /\ stack' = [stack EXCEPT ![a] = <<>>]
      /\ stale' = [stale EXCEPT ![a] = 0]
      /\ alive' = alive \ {a} /\ world' = world /\ call' = call /\ replied' = replied
  BY DEF Kill
<1>3. \A q \in Req : state'[q] = IF state[q] = "waiting" /\ call[q].caller = a
                                 THEN "abandoned" ELSE state[q]
  BY DEF Kill
<1>4. state' \in [Req -> State]
  <2>1. \A q \in Req : state[q] \in State
    BY <1>1 DEF Types
  <2>2. "abandoned" \in State
    BY DEF State
  <2> QED
    BY <2>1, <2>2 DEF Kill
<1>5. Sent \subseteq Sent'
  <2> SUFFICES ASSUME NEW q \in Sent PROVE q \in Sent'
    OBVIOUS
  <2>1. q \in DOMAIN call /\ q \in Req /\ state[q] \notin {"new", "refused"}
    BY <1>1, CallsAreRequests DEF Sent
  <2> QED
    BY <1>2, <1>3, <2>1 DEF Sent
<1>6. Numbered'
  BY <1>1, <1>2, <1>3 DEF Numbered
<1>7. /\ mailbox' \in [Agent -> Seq(Message)]
      /\ \A b \in Agent : \A i \in 1 .. Len(mailbox'[b]) :
           \E j \in 1 .. Len(mailbox[b]) : mailbox'[b][i] = mailbox[b][j]
  <2>1. \A b \in Agent : mailbox'[b] = IF b = a THEN <<>> ELSE mailbox[b]
    BY <1>1, <1>2 DEF Types
  <2>2. mailbox' \in [Agent -> Seq(Message)]
    BY <1>1, <1>2 DEF Types
  <2> QED
    BY SMTT(60), <2>1, <2>2
<1>8. /\ stack' \in [Agent -> Seq(Frame)]
      /\ \A b \in Agent : \A i \in 1 .. Len(stack'[b]) :
           b # a /\ i \in 1 .. Len(stack[b]) /\ stack'[b][i] = stack[b][i]
  <2>1. \A b \in Agent : stack'[b] = IF b = a THEN <<>> ELSE stack[b]
    BY <1>1, <1>2 DEF Types
  <2>2. stack' \in [Agent -> Seq(Frame)]
    BY <1>1, <1>2 DEF Types
  <2> QED
    BY <2>1, <2>2
<1>9. Types'
  <2>1. alive' \in SUBSET Agent /\ stale' \in [Agent -> Nat]
    BY <1>1, <1>2 DEF Types
  <2> QED
    BY <1>1, <1>2, <1>4, <1>7, <1>8, <2>1 DEF Types
<1>10. Mail'
  BY <1>1, <1>2, <1>5, <1>7, MailKept
<1>11. Owed'
  BY <1>1, <1>5, <1>8, OwedKept
<1>12. Waiting'
  <2>1. ASSUME NEW b \in Agent, NEW i \in 1 .. Len(stack'[b]),
               stack'[b][i].what = "wait"
        PROVE  /\ i \in 1 .. Len(stack[b]) /\ stack'[b][i] = stack[b][i]
               /\ state'[stack'[b][i].for] = "waiting"
    <3>1. b # a /\ i \in 1 .. Len(stack[b]) /\ stack'[b][i] = stack[b][i]
      BY <1>8
    <3>2. /\ stack[b][i].for \in DOMAIN call /\ state[stack[b][i].for] = "waiting"
          /\ call[stack[b][i].for].caller = b
      BY <1>1, <2>1, <3>1 DEF Waiting
    <3>3. stack[b][i].for \in Req
      BY <1>1, <3>2, CallsAreRequests
    <3> QED
      BY <1>3, <3>1, <3>2, <3>3
  <2>2. \A q \in DOMAIN call : q \in DOMAIN call' /\ call'[q] = call[q]
    BY <1>2
  <2> QED
    BY <1>1, <2>1, <2>2, WaitingKept
<1>13. OneShotSteps
  <2> SUFFICES ASSUME NEW q \in Req PROVE [Promise(q)!Next]_(Promise(q)!vars)
    BY DEF OneShotSteps
  <2>1. CASE state'[q] = state[q]
    BY <1>2, <2>1 DEF Promise!vars
  <2>2. CASE state[q] = "waiting" /\ state'[q] = "abandoned"
    BY <1>2, <2>2 DEF Promise!Next, Promise!GiveUp
  <2> QED
    BY <1>3, <2>1, <2>2
<1> QED
  BY <1>6, <1>9, <1>10, <1>11, <1>12, <1>13 DEF IInv

-----------------------------------------------------------------------------
(* The specification *)

\* At the start nothing is asked and nothing is on the bus.
LEMMA InitHolds ==
  ASSUME Init PROVE IInv /\ \A q \in Req : Promise(q)!Init
<1>1. Types
  <2>1. stack \in [Agent -> Seq(Frame)]
    <3>1. [what |-> "start"] \in Frame
      BY DEF Frame
    <3>2. <<[what |-> "start"]>> \in Seq(Frame)
      BY <3>1
    <3> QED
      BY <3>2 DEF Init
  <2>2. call \in Seq([caller : Agent, target : Agent, timed : BOOLEAN]) /\ Len(call) = 0
    BY DEF Init
  <2>3. Len(call) <= MaxRequests
    BY <2>2, BoundAssumption
  <2>4. /\ mailbox \in [Agent -> Seq(Message)] /\ stale \in [Agent -> Nat]
        /\ state \in [Req -> State] /\ replied \in [Req -> BOOLEAN]
    BY DEF Init, State
  <2> QED
    BY <2>1, <2>2, <2>3, <2>4 DEF Types, Init
<1>2. Numbered /\ Mail
  BY DEF Numbered, Mail, Init
<1>3. Owed /\ Waiting
  <2>1. \A a \in Agent : \A i \in 1 .. Len(stack[a]) : stack[a][i].what = "start"
    BY DEF Init
  <2> QED
    BY <2>1 DEF Owed, Waiting
<1>4. \A q \in Req : Promise(q)!Init
  BY DEF Init, Promise!Init
<1> QED
  BY <1>1, <1>2, <1>3, <1>4 DEF IInv

\* A step of any agent keeps the invariant and the promise of every request.
LEMMA NextKeeps ==
  ASSUME IInv, [Next]_vars PROVE IInv' /\ OneShotSteps
<1>1. CASE Next
  <2>1. PICK a \in Agent :
          \/ \E t \in Agent, timed \in world.timed : Request(a, t, timed)
          \/ Reply(a) \/ Returns(a) \/ Receive(a) \/ PollTimesOut(a)
          \/ RequestTimesOut(a) \/ Kill(a)
    BY <1>1 DEF Next
  <2>2. CASE \E t \in Agent, timed \in world.timed : Request(a, t, timed)
    BY <2>2, RequestKeeps
  <2>3. CASE Reply(a)
    BY <2>3, ReplyKeeps
  <2>4. CASE Returns(a)
    BY <2>4, ReturnsKeeps
  <2>5. CASE Receive(a)
    BY <2>5, ReceiveKeeps
  <2>6. CASE PollTimesOut(a)
    BY <2>6, PollTimesOutKeeps
  <2>7. CASE RequestTimesOut(a)
    BY <2>7, RequestTimesOutKeeps
  <2>8. CASE Kill(a)
    BY <2>8, KillKeeps
  <2> QED
    BY <2>1, <2>2, <2>3, <2>4, <2>5, <2>6, <2>7, <2>8
<1>2. CASE UNCHANGED vars
  <2>1. UNCHANGED <<world, alive, mailbox, stack, stale, call, state, replied>>
    BY <1>2 DEF vars
  <2>2. Sent' = Sent
    BY <2>1 DEF Sent
  <2>3. IInv'
    BY <2>1, <2>2 DEF IInv, Types, Numbered, Mail, Owed, Waiting
  <2> QED
    BY <2>1, <2>3, NoRequestSteps
<1> QED
  BY <1>1, <1>2

\* Whatever agents, worlds and bounds: messages, frames and requests fit
\* together in every state of AgentProcess.request, reply and run.
THEOREM RequestsFit == Spec => []IInv
<1>1. Init => IInv
  BY InitHolds
<1>2. IInv /\ [Next]_vars => IInv'
  BY NextKeeps
<1> QED
  BY <1>1, <1>2, PTL DEF Spec

\* Every request is a one-shot call: the agents implement OneShotCall for each
\* of them, with interleaved requests, lost messages, timeouts and kills.
THEOREM RequestsImplementOneShotCall == Spec => RequestsAreOneShot
<1>1. Init => \A r \in Req : Promise(r)!Init
  BY InitHolds
<1>2. IInv /\ [Next]_vars =>
        [\A r \in Req : [Promise(r)!Next]_(Promise(r)!vars)]_<<state, replied>>
  BY NextKeeps DEF OneShotSteps
<1>3. Spec => []IInv
  BY RequestsFit
<1> QED
  BY <1>1, <1>2, <1>3, PTL DEF Spec, RequestsAreOneShot

-----------------------------------------------------------------------------
(* Answers reach those who wait for them *)

\* Queues and abandoned receives are bounded, and a bus that loses nothing has
\* no abandoned receives.
Bounds ==
  \A a \in Agent : /\ stale[a] <= MaxStale /\ Len(mailbox[a]) <= world.capacity
                   /\ ~world.lossy => stale[a] = 0

\* A request waits in a frame of its caller.
Framed ==
  \A q \in Req : state[q] = "waiting" => q \in DOMAIN call /\ Waits(call[q].caller, q)

\* Of two requests an agent waits for, the inner one is the later one.
Ordered ==
  \A a \in Agent : \A i, j \in 1 .. Len(stack[a]) :
    i < j /\ stack[a][i].what = "wait" /\ stack[a][j].what = "wait"
      => stack[a][i].for < stack[a][j].for

\* Only a request that was made is answered.
RepliesAreMade == \A q \in Req : replied[q] => state[q] # "new"

More == Bounds /\ Framed /\ Ordered /\ RepliesAreMade /\ AnswersAreKept

\* A stack has a length, and its frames that wait are known by what they wait for.
LEMMA Frames ==
  ASSUME Types, NEW a \in Agent
  PROVE  /\ Len(stack[a]) \in Nat /\ DOMAIN stack[a] = 1 .. Len(stack[a])
         /\ \A i \in 1 .. Len(stack[a]) :
              /\ stack[a][i] \in Frame
              /\ \A q : stack[a][i] = [what |-> "wait", for |-> q]
                          <=> stack[a][i].what = "wait" /\ stack[a][i].for = q
<1>1. stack[a] \in Seq(Frame)
  BY DEF Types
<1>2. Len(stack[a]) \in Nat /\ DOMAIN stack[a] = 1 .. Len(stack[a])
  BY <1>1, LenProperties
<1>3. ASSUME NEW i \in 1 .. Len(stack[a])
      PROVE  /\ stack[a][i] \in Frame
             /\ \A q : stack[a][i] = [what |-> "wait", for |-> q]
                         <=> stack[a][i].what = "wait" /\ stack[a][i].for = q
  <2>1. stack[a][i] \in Frame
    BY <1>1, ElementOfSeq
  <2>2. stack[a][i].what = "wait" => stack[a][i] \in [what : {"wait"}, for : Req]
    BY <2>1 DEF Frame
  <2>3. stack[a][i].what = "wait" =>
          stack[a][i] = [what |-> stack[a][i].what, for |-> stack[a][i].for]
    BY <2>2
  <2> QED
    BY <2>1, <2>3
<1> QED
  BY <1>2, <1>3

\* Frames stay ordered when none that waits is new.
LEMMA OrderedKept ==
  ASSUME Ordered,
         \A b \in Agent : \A i \in 1 .. Len(stack'[b]) : stack'[b][i].what = "wait" =>
           i \in 1 .. Len(stack[b]) /\ stack'[b][i] = stack[b][i]
  PROVE  Ordered'
BY DEF Ordered

\* Waiting requests keep their frames when only frames go whose request ends.
LEMMA FramedKept ==
  ASSUME Types, Types', Framed, call' = call,
         \A q \in Req : state'[q] = "waiting" => state[q] = "waiting",
         \A b \in Agent : \A i \in 1 .. Len(stack[b]) :
           stack[b][i].what = "wait" /\ state'[stack[b][i].for] = "waiting" =>
             i \in 1 .. Len(stack'[b]) /\ stack'[b][i] = stack[b][i]
  PROVE  Framed'
<1> SUFFICES ASSUME NEW q \in Req, state'[q] = "waiting"
             PROVE  q \in DOMAIN call' /\ Waits(call[q].caller, q)'
  BY DEF Framed, Waits
<1>1. q \in DOMAIN call /\ Waits(call[q].caller, q)
  BY DEF Framed
<1> DEFINE b == call[q].caller
<1>2. b \in Agent
  <2>1. call[q] \in [caller : Agent, target : Agent, timed : BOOLEAN]
    BY <1>1, CallsAreRequests, ElementOf DEF Types
  <2> QED
    BY <2>1
<1>3. PICK i \in 1 .. Len(stack[b]) : stack[b][i] = [what |-> "wait", for |-> q]
  BY <1>1, <1>2, Frames DEF Waits
<1>4. i \in 1 .. Len(stack'[b]) /\ stack'[b][i] = stack[b][i]
  BY <1>2, <1>3
<1>5. DOMAIN stack'[b] = 1 .. Len(stack'[b])
  <2>1. stack'[b] \in Seq(Frame)
    BY <1>2 DEF Types
  <2> QED
    BY <2>1, LenProperties
<1> QED
  BY <1>1, <1>3, <1>4, <1>5 DEF Waits

\* Answers are kept by a step that takes no message from a waiting caller, when
\* a request that it answers has the answer delivered.
LEMMA AnswersKept ==
  ASSUME Types, Types', Numbered, AnswersAreKept, world' = world,
         \A q \in DOMAIN call : q \in DOMAIN call' /\ call'[q] = call[q],
         \A q \in Req : state[q] # "new" => state'[q] # "new",
         \A q \in Req : state'[q] = "waiting" /\ replied'[q] /\ ~world.lossy =>
           /\ state[q] = "waiting"
           /\ \/ replied[q] /\ \A i \in 1 .. Len(mailbox[call[q].caller]) :
                   \E j \in 1 .. Len(mailbox'[call[q].caller]) :
                     mailbox'[call[q].caller][j] = mailbox[call[q].caller][i]
              \/ \E j \in 1 .. Len(mailbox'[call[q].caller]) :
                   mailbox'[call[q].caller][j] = [type |-> "task_response", about |-> q]
  PROVE  AnswersAreKept'
<1> SUFFICES ASSUME NEW q \in Req, state'[q] = "waiting", replied'[q], ~world.lossy
             PROVE  \/ \E j \in DOMAIN mailbox'[call'[q].caller] :
                         Matches(mailbox[call[q].caller][j], q)'
                    \/ \E s \in Req : s > q /\ state'[s] # "new"
                                      /\ call'[s].caller = call'[q].caller
  BY DEF AnswersAreKept, Matches
<1>1. /\ DOMAIN call = 1 .. Len(call) /\ Len(call) \in Nat
      /\ \A s \in Req : state[s] # "new" => s \in DOMAIN call
  BY CallsAreRequests DEF Numbered, Req
<1>2. state[q] = "waiting" /\ q \in DOMAIN call /\ call'[q] = call[q]
  BY <1>1
<1> DEFINE a == call[q].caller
<1>3. a \in Agent
  <2>1. call[q] \in [caller : Agent, target : Agent, timed : BOOLEAN]
    BY <1>1, <1>2, ElementOf DEF Types
  <2> QED
    BY <2>1
<1>4. /\ DOMAIN mailbox[a] = 1 .. Len(mailbox[a])
      /\ DOMAIN mailbox'[a] = 1 .. Len(mailbox'[a])
  <2>1. mailbox[a] \in Seq(Message) /\ mailbox'[a] \in Seq(Message)
    BY <1>3 DEF Types
  <2> QED
    BY <2>1, LenProperties
<1>5. CASE /\ replied[q]
           /\ \A i \in 1 .. Len(mailbox[a]) : \E j \in 1 .. Len(mailbox'[a]) :
                mailbox'[a][j] = mailbox[a][i]
  <2>1. \/ \E i \in DOMAIN mailbox[a] : Matches(mailbox[a][i], q)
        \/ \E s \in Req : s > q /\ state[s] # "new" /\ call[s].caller = a
    BY <1>2, <1>5 DEF AnswersAreKept
  <2>2. CASE \E i \in DOMAIN mailbox[a] : Matches(mailbox[a][i], q)
    BY <1>2, <1>4, <1>5, <2>2 DEF Matches
  <2>3. CASE \E s \in Req : s > q /\ state[s] # "new" /\ call[s].caller = a
    BY <1>1, <1>2, <2>3
  <2> QED
    BY <2>1, <2>2, <2>3
<1>6. CASE \E j \in 1 .. Len(mailbox'[a]) :
             mailbox'[a][j] = [type |-> "task_response", about |-> q]
  BY <1>2, <1>4, <1>6 DEF Matches
<1> QED
  BY <1>5, <1>6

\* A message that is routed finds room, or is taken by an abandoned receive,
\* which a bus that loses nothing does not have.
LEMMA DeliverFits ==
  ASSUME Types, Bounds, NEW t \in Agent, NEW m \in Message, Routable(t), Deliver(t, m),
         world' = world
  PROVE  /\ Bounds'
         /\ \A a \in Agent : \A i \in 1 .. Len(mailbox[a]) :
              i \in 1 .. Len(mailbox'[a]) /\ mailbox'[a][i] = mailbox[a][i]
         /\ ~world.lossy => \E j \in 1 .. Len(mailbox'[t]) : mailbox'[t][j] = m
<1>1. /\ world.capacity \in Nat /\ MaxStale \in Nat
      /\ \A a \in Agent : stale[a] \in Nat /\ mailbox[a] \in Seq(Message)
                          /\ Len(mailbox[a]) \in Nat
  BY WorldAssumption, BoundAssumption, LenProperties DEF Types, World
<1>2. CASE stale[t] > 0
  <2>1. mailbox' = mailbox /\ stale' = [stale EXCEPT ![t] = @ - 1] /\ world.lossy
    BY <1>1, <1>2 DEF Deliver, Bounds
  <2>2. \A a \in Agent : stale'[a] <= MaxStale
    BY <1>1, <1>2, <2>1 DEF Bounds, Types
  <2> QED
    BY <1>1, <2>1, <2>2 DEF Bounds
<1>3. CASE ~(stale[t] > 0)
  <2>1. /\ mailbox' = [mailbox EXCEPT ![t] = Append(@, m)] /\ stale' = stale
        /\ Len(mailbox[t]) < world.capacity
    BY <1>3 DEF Deliver, Routable
  <2>2. /\ mailbox'[t] = Append(mailbox[t], m)
        /\ \A a \in Agent : a # t => mailbox'[a] = mailbox[a]
    BY <2>1 DEF Types
  <2>3. /\ Len(mailbox'[t]) = Len(mailbox[t]) + 1
        /\ \A i \in 1 .. Len(mailbox[t]) : mailbox'[t][i] = mailbox[t][i]
        /\ mailbox'[t][Len(mailbox[t]) + 1] = m
    BY <1>1, <2>2, AppendProperties
  <2>4. Bounds'
    BY <1>1, <2>1, <2>2, <2>3 DEF Bounds
  <2>5. Len(mailbox[t]) + 1 \in 1 .. Len(mailbox'[t])
    BY <1>1, <2>3
  <2>6. \A a \in Agent : \A i \in 1 .. Len(mailbox[a]) :
          i \in 1 .. Len(mailbox'[a]) /\ mailbox'[a][i] = mailbox[a][i]
    BY <1>1, <2>2, <2>3
  <2> QED
    BY <2>3, <2>4, <2>5, <2>6
<1> QED
  BY <1>2, <1>3

\* request: the new frame is the innermost and its request the latest; the
\* request has no answer yet.
LEMMA RequestKeepsMore ==
  ASSUME IInv, IInv', More, NEW a \in Agent, NEW t \in Agent, NEW timed \in world.timed,
         Request(a, t, timed)
  PROVE  More'
<1> DEFINE r == Len(call) + 1
           c == [caller |-> a, target |-> t, timed |-> timed]
           m == [type |-> "task_request", about |-> r]
<1> USE DEF IInv, More
<1>1. /\ Len(call) \in Nat /\ DOMAIN call = 1 .. Len(call) /\ DOMAIN call \subseteq Req
      /\ r \in Req /\ r \notin DOMAIN call /\ state[r] = "new"
      /\ \A q \in DOMAIN call : q < r
  BY CallsAreRequests DEF Request, Numbered
<1>2. /\ call' = Append(call, c)
      /\ world' = world /\ alive' = alive /\ replied' = replied
  BY DEF Request
<1>3. call'[r] = c /\ DOMAIN call' = 1 .. r
      /\ \A q \in DOMAIN call : q \in DOMAIN call' /\ call'[q] = call[q]
  <2>1. call \in Seq([caller : Agent, target : Agent, timed : BOOLEAN])
    BY DEF Types
  <2> QED
    BY <1>1, <1>2, <2>1
<1>4. PICK s \in {"waiting", "refused"} : state' = [state EXCEPT ![r] = s]
  BY DEF Request
<1>5. \A q \in Req : state'[q] = IF q = r THEN s ELSE state[q]
  BY <1>1, <1>4 DEF Types
<1>6. ~replied[r]
  BY <1>1 DEF RepliesAreMade
<1>7. RepliesAreMade'
  BY <1>2, <1>5 DEF RepliesAreMade
<1>8. CASE Routable(t)
  <2>1. Deliver(t, m) /\ Push(a, [what |-> "wait", for |-> r]) /\ m \in Message
    BY <1>1, <1>8 DEF Request, Message
  <2> HIDE DEF m
  <2>2. /\ Bounds'
        /\ \A b \in Agent : \A i \in 1 .. Len(mailbox[b]) :
              i \in 1 .. Len(mailbox'[b]) /\ mailbox'[b][i] = mailbox[b][i]
    BY <1>2, <1>8, <2>1, DeliverFits
  <2>3. stack[a] \in Seq(Frame) /\ [what |-> "wait", for |-> r] \in Frame
    BY <1>1 DEF Types, Frame
  <2>4. /\ stack'[a] = Append(stack[a], [what |-> "wait", for |-> r])
        /\ \A b \in Agent : b # a => stack'[b] = stack[b]
    BY <2>1 DEF Push, Types
  <2>5. /\ Len(stack[a]) \in Nat /\ Len(stack'[a]) = Len(stack[a]) + 1
        /\ \A i \in 1 .. Len(stack[a]) : stack'[a][i] = stack[a][i]
        /\ stack'[a][Len(stack[a]) + 1] = [what |-> "wait", for |-> r]
    BY <2>3, <2>4, AppendProperties, LenProperties
  <2>6. Ordered'
    <3> SUFFICES ASSUME NEW b \in Agent, NEW i \in 1 .. Len(stack'[b]),
                        NEW j \in 1 .. Len(stack'[b]), i < j,
                        stack'[b][i].what = "wait", stack'[b][j].what = "wait"
                 PROVE  stack'[b][i].for < stack'[b][j].for
      BY DEF Ordered
    <3>1. CASE b # a \/ j # Len(stack[a]) + 1
      <4>1. /\ i \in 1 .. Len(stack[b]) /\ stack'[b][i] = stack[b][i]
            /\ j \in 1 .. Len(stack[b]) /\ stack'[b][j] = stack[b][j]
        <5>1. CASE b # a
          BY <2>4, <5>1
        <5>2. CASE b = a
          <6>1. i \in 1 .. Len(stack[a]) /\ j \in 1 .. Len(stack[a])
            BY <2>5, <3>1, <5>2
          <6> QED
            BY <2>5, <5>2, <6>1
        <5> QED
          BY <5>1, <5>2
      <4> QED
        BY <4>1 DEF Ordered
    <3>2. CASE b = a /\ j = Len(stack[a]) + 1
      <4>1. i \in 1 .. Len(stack[a]) /\ stack'[a][i] = stack[a][i] /\ stack'[a][j].for = r
        BY <2>5, <3>2
      <4>2. stack[a][i].for \in DOMAIN call
        BY <3>2, <4>1 DEF Waiting
      <4> QED
        BY <1>1, <3>2, <4>1, <4>2
    <3> QED
      BY <3>1, <3>2
  <2>7. Framed'
    <3> SUFFICES ASSUME NEW q \in Req, state'[q] = "waiting"
                 PROVE  q \in DOMAIN call' /\ \E i \in DOMAIN stack'[call'[q].caller] :
                          stack'[call'[q].caller][i] = [what |-> "wait", for |-> q]
      BY DEF Framed, Waits
    <3>1. \A b \in Agent : DOMAIN stack'[b] = 1 .. Len(stack'[b])
      <4> SUFFICES ASSUME NEW b \in Agent PROVE DOMAIN stack'[b] = 1 .. Len(stack'[b])
        OBVIOUS
      <4>1. stack'[b] \in Seq(Frame)
        BY DEF Types
      <4> QED
        BY <4>1, LenProperties
    <3>2. CASE q = r
      <4>1. Len(stack[a]) + 1 \in DOMAIN stack'[a]
        BY <2>5, <3>1
      <4>2. r \in DOMAIN call' /\ call'[r].caller = a
        BY <1>1, <1>3
      <4> HIDE DEF r
      <4> QED
        BY <2>5, <3>2, <4>1, <4>2
    <3>3. CASE q # r
      <4>1. q \in DOMAIN call /\ Waits(call[q].caller, q)
        BY <1>5, <3>3 DEF Framed
      <4>2. call[q].caller \in Agent
        <5>1. call[q] \in [caller : Agent, target : Agent, timed : BOOLEAN]
          BY <1>1, <4>1, ElementOf DEF Types
        <5> QED
          BY <5>1
      <4>3. PICK i \in 1 .. Len(stack[call[q].caller]) :
              stack[call[q].caller][i] = [what |-> "wait", for |-> q]
        BY <4>1, <4>2, Frames DEF Waits
      <4>4. /\ i \in DOMAIN stack'[call[q].caller]
            /\ stack'[call[q].caller][i] = stack[call[q].caller][i]
        BY <2>4, <2>5, <3>1, <4>2, <4>3
      <4> QED
        BY <1>3, <4>1, <4>3, <4>4
    <3> QED
      BY <3>2, <3>3
  <2>8. AnswersAreKept'
    <3>1. ASSUME NEW q \in Req, state'[q] = "waiting", replied'[q]
          PROVE  /\ state[q] = "waiting" /\ replied[q]
                 /\ \A i \in 1 .. Len(mailbox[call[q].caller]) :
                      \E j \in 1 .. Len(mailbox'[call[q].caller]) :
                        mailbox'[call[q].caller][j] = mailbox[call[q].caller][i]
      <4>1. state[q] = "waiting" /\ replied[q]
        BY <1>2, <1>5, <1>6, <3>1
      <4>2. q \in DOMAIN call
        BY <4>1 DEF Framed
      <4>3. call[q] \in [caller : Agent, target : Agent, timed : BOOLEAN]
        BY <1>1, <4>2, ElementOf DEF Types
      <4> QED
        BY <2>2, <4>1, <4>3
    <3>2. \A q \in Req : state[q] # "new" => state'[q] # "new"
      BY <1>5
    <3> QED
      BY <1>2, <1>3, <3>1, <3>2, AnswersKept
  <2> QED
    BY <1>7, <2>2, <2>6, <2>7, <2>8
<1>9. CASE ~Routable(t)
  <2>1. /\ mailbox' = mailbox /\ stale' = stale /\ stack' = stack
        /\ \A q \in Req : state'[q] = IF q = r THEN "refused" ELSE state[q]
    BY <1>1, <1>9 DEF Request, Types
  <2>2. Bounds' /\ Ordered'
    BY <1>2, <2>1 DEF Bounds, Ordered
  <2>3. Framed'
    <3> SUFFICES ASSUME NEW q \in Req, state'[q] = "waiting"
                 PROVE  q \in DOMAIN call' /\ \E i \in DOMAIN stack'[call'[q].caller] :
                          stack'[call'[q].caller][i] = [what |-> "wait", for |-> q]
      BY DEF Framed, Waits
    <3>1. state[q] = "waiting"
      BY <2>1
    <3>2. q \in DOMAIN call /\ Waits(call[q].caller, q)
      BY <3>1 DEF Framed
    <3>3. q \in DOMAIN call' /\ call'[q] = call[q]
      BY <1>1, <1>3, <3>2
    <3> QED
      BY <2>1, <3>2, <3>3 DEF Waits
  <2>4. AnswersAreKept'
    <3>1. ASSUME NEW q \in Req, state'[q] = "waiting"
          PROVE  state[q] = "waiting"
      BY <2>1, <3>1
    <3>2. \A q \in Req : state[q] # "new" => state'[q] # "new"
      BY <1>5
    <3> QED
      BY <1>2, <1>3, <2>1, <3>1, <3>2, AnswersKept
  <2> QED
    BY <1>7, <2>2, <2>3, <2>4
<1> QED
  BY <1>8, <1>9

\* reply: the answer is delivered, or the request stays without one.
LEMMA ReplyKeepsMore ==
  ASSUME IInv, IInv', More, NEW a \in Agent, Reply(a)
  PROVE  More'
<1> DEFINE n == Len(stack[a])
           r == Top(a).owes
           back == call[r].caller
           m == [type |-> "task_response", about |-> r]
<1> USE DEF IInv, More
<1>1. /\ stack[a] \in Seq(Frame) /\ stack[a] # <<>> /\ Top(a).what = "handle" /\ r # 0
      /\ world' = world /\ alive' = alive /\ call' = call /\ state' = state
  BY DEF Types, Reply, Executes
<1>2. n \in Nat /\ n \in 1 .. Len(stack[a]) /\ Top(a) = stack[a][n]
  <2>1. Len(stack[a]) \in Nat /\ Len(stack[a]) > 0 /\ Last(stack[a]) = stack[a][Len(stack[a])]
    BY <1>1, FrontLast
  <2> QED
    BY <2>1 DEF Top
<1>3. r \in Sent /\ r \in Req /\ r \in DOMAIN call /\ state[r] # "new"
  <2>1. r \in Sent
    BY <1>1, <1>2 DEF Owed
  <2> QED
    BY <2>1, CallsAreRequests DEF Sent
<1>4. back \in Agent
  <2>1. call[r] \in [caller : Agent, target : Agent, timed : BOOLEAN]
    BY <1>3, CallsAreRequests, ElementOf DEF Types
  <2> QED
    BY <2>1
<1>5. stack' = [stack EXCEPT ![a][n].owes = 0]
  BY DEF Reply
<1>6. \A b \in Agent : /\ Len(stack'[b]) = Len(stack[b])
                       /\ \A i \in 1 .. Len(stack[b]) :
                            \/ stack'[b][i] = stack[b][i]
                            \/ stack[b][i].what # "wait" /\ stack'[b][i].what # "wait"
  <2> DEFINE f == [stack[a][n] EXCEPT !.owes = 0]
  <2>1. /\ \A b \in Agent : b # a => stack'[b] = stack[b]
        /\ stack'[a] = [stack[a] EXCEPT ![n] = f]
    BY <1>5 DEF Types
  <2>2. stack[a][n] \in [what : {"handle"}, owes : Req \cup {0}]
    BY <1>1, <1>2, ElementOf DEF Frame
  <2>3. f.what # "wait" /\ stack[a][n].what # "wait"
    BY <2>2
  <2> HIDE DEF f, n
  <2>4. Len(stack'[a]) = Len(stack[a]) /\ stack'[a][n] = f
        /\ \A i \in 1 .. Len(stack[a]) : i # n => stack'[a][i] = stack[a][i]
    BY <1>1, <1>2, <2>1
  <2>5. stack'[a][n].what # "wait" /\ stack[a][n].what # "wait"
    BY <2>3, <2>4
  <2>6. ASSUME NEW i \in 1 .. Len(stack[a])
        PROVE  \/ stack'[a][i] = stack[a][i]
               \/ stack[a][i].what # "wait" /\ stack'[a][i].what # "wait"
    <3>1. CASE i = n
      BY <2>5, <3>1
    <3>2. CASE i # n
      BY <2>4, <3>2
    <3> QED
      BY <3>1, <3>2
  <2> QED
    BY <2>1, <2>4, <2>6
<1>7. Ordered'
  BY <1>6, OrderedKept
<1>8. Framed'
  BY <1>1, <1>6, FramedKept
<1> HIDE DEF n, r, back
<1>9. CASE Routable(back)
  <2>1. replied' = [replied EXCEPT ![r] = TRUE] /\ Deliver(back, m) /\ m \in Message
    BY <1>3, <1>9 DEF Reply, Message, r, back
  <2>2. /\ Bounds'
        /\ \A b \in Agent : \A i \in 1 .. Len(mailbox[b]) :
             i \in 1 .. Len(mailbox'[b]) /\ mailbox'[b][i] = mailbox[b][i]
        /\ ~world.lossy => \E j \in 1 .. Len(mailbox'[back]) : mailbox'[back][j] = m
    <3> HIDE DEF m
    <3> QED
      BY <1>1, <1>4, <1>9, <2>1, DeliverFits
  <2>3. \A q \in Req : replied'[q] = (replied[q] \/ q = r)
    BY <1>3, <2>1 DEF Types
  <2>4. RepliesAreMade'
    BY <1>1, <1>3, <2>3 DEF RepliesAreMade
  <2>5. AnswersAreKept'
    <3>1. ASSUME NEW q \in Req, state'[q] = "waiting", replied'[q], ~world.lossy
          PROVE  \/ replied[q] /\ \A i \in 1 .. Len(mailbox[call[q].caller]) :
                      \E j \in 1 .. Len(mailbox'[call[q].caller]) :
                        mailbox'[call[q].caller][j] = mailbox[call[q].caller][i]
                 \/ \E j \in 1 .. Len(mailbox'[call[q].caller]) :
                      mailbox'[call[q].caller][j] = [type |-> "task_response", about |-> q]
      <4>1. CASE q = r
        BY <2>2, <3>1, <4>1 DEF back
      <4>2. CASE q # r
        <5>1. replied[q] /\ q \in DOMAIN call
          BY <1>1, <2>3, <3>1, <4>2 DEF Framed
        <5>2. call[q] \in [caller : Agent, target : Agent, timed : BOOLEAN]
          BY <5>1, CallsAreRequests, ElementOf DEF Types
        <5> QED
          BY <2>2, <5>1, <5>2
      <4> QED
        BY <4>1, <4>2
    <3> QED
      BY <1>1, <3>1, AnswersKept
  <2> QED
    BY <1>7, <1>8, <2>2, <2>4, <2>5
<1>10. CASE ~Routable(back)
  <2>1. replied' = replied /\ mailbox' = mailbox /\ stale' = stale
    BY <1>10 DEF Reply, r, back
  <2>2. Bounds' /\ RepliesAreMade'
    BY <1>1, <2>1 DEF Bounds, RepliesAreMade
  <2>3. AnswersAreKept'
    BY <1>1, <2>1 DEF AnswersAreKept, Matches
  <2> QED
    BY <1>7, <1>8, <2>2, <2>3
<1> QED
  BY <1>9, <1>10

\* A frame is left that waits for nothing.
LEMMA ReturnsKeepsMore ==
  ASSUME IInv, IInv', More, NEW a \in Agent, Returns(a)
  PROVE  More'
<1> USE DEF IInv, More
<1>1. /\ stack[a] # <<>> /\ Top(a).what # "wait" /\ Pop(a)
      /\ UNCHANGED <<world, alive, mailbox, stale, call, state, replied>>
  BY DEF Returns, Executes
<1>2. /\ stack[a] \in Seq(Frame) /\ Len(stack[a]) \in Nat /\ Len(stack[a]) > 0
      /\ Top(a) = stack[a][Len(stack[a])]
      /\ stack'[a] = Front(stack[a]) /\ \A b \in Agent : b # a => stack'[b] = stack[b]
  BY <1>1, FrontLast DEF Types, Pop, Top
<1>3. /\ Len(stack'[a]) = Len(stack[a]) - 1
      /\ \A i \in 1 .. Len(stack[a]) - 1 : stack'[a][i] = stack[a][i]
  BY <1>1, <1>2, FrontLast
<1>4. \A b \in Agent : /\ \A i \in 1 .. Len(stack'[b]) :
                            i \in 1 .. Len(stack[b]) /\ stack'[b][i] = stack[b][i]
                       /\ \A i \in 1 .. Len(stack[b]) : stack[b][i].what = "wait" =>
                            i \in 1 .. Len(stack'[b]) /\ stack'[b][i] = stack[b][i]
  BY <1>1, <1>2, <1>3
<1>5. Ordered' /\ Framed'
  BY <1>1, <1>4, OrderedKept, FramedKept
<1>6. Bounds' /\ RepliesAreMade' /\ AnswersAreKept'
  BY <1>1 DEF Bounds, RepliesAreMade, AnswersAreKept, Matches
<1> QED
  BY <1>5, <1>6

\* The innermost request of an agent is over, and its frame is left.
LEMMA InnermostEndsFramed ==
  ASSUME IInv, IInv', More, NEW a \in Agent, stack[a] # <<>>, Top(a).what = "wait", Pop(a),
         NEW how \in {"timeout", "answered"},
         state' = [state EXCEPT ![Top(a).for] = how], UNCHANGED <<replied, call>>
  PROVE  /\ Top(a).for \in Req /\ state[Top(a).for] = "waiting"
         /\ \A q \in Req : state'[q] = IF q = Top(a).for THEN how ELSE state[q]
         /\ Ordered' /\ Framed' /\ RepliesAreMade'
<1> USE DEF IInv, More
<1>1. /\ stack[a] \in Seq(Frame) /\ Len(stack[a]) \in Nat /\ Len(stack[a]) > 0
      /\ Top(a) = stack[a][Len(stack[a])]
      /\ stack'[a] = Front(stack[a]) /\ \A b \in Agent : b # a => stack'[b] = stack[b]
  BY FrontLast DEF Types, Pop, Top
<1>2. /\ Len(stack'[a]) = Len(stack[a]) - 1
      /\ \A i \in 1 .. Len(stack[a]) - 1 : stack'[a][i] = stack[a][i]
  BY <1>1, FrontLast
<1>3. Top(a).for \in Req /\ state[Top(a).for] = "waiting" /\ call[Top(a).for].caller = a
  <2>1. Len(stack[a]) \in 1 .. Len(stack[a])
    BY <1>1
  <2> QED
    BY <1>1, <2>1, CallsAreRequests DEF Waiting
<1>4. \A q \in Req : state'[q] = IF q = Top(a).for THEN how ELSE state[q]
  BY <1>3 DEF Types
<1>5. \A b \in Agent : \A i \in 1 .. Len(stack'[b]) :
        i \in 1 .. Len(stack[b]) /\ stack'[b][i] = stack[b][i]
  BY <1>1, <1>2
<1>6. ASSUME NEW b \in Agent, NEW i \in 1 .. Len(stack[b]), stack[b][i].what = "wait",
             state'[stack[b][i].for] = "waiting"
      PROVE  i \in 1 .. Len(stack'[b]) /\ stack'[b][i] = stack[b][i]
  <2>1. stack[b][i].for \in Req
    BY <1>6, CallsAreRequests DEF Waiting
  <2>2. ~(b = a /\ i = Len(stack[a]))
    BY <1>1, <1>4, <1>6, <2>1
  <2> QED
    BY <1>1, <1>2, <2>2
<1>7. Ordered'
  BY <1>5, OrderedKept
<1>8. Framed'
  BY <1>4, <1>6, FramedKept
<1>9. RepliesAreMade'
  BY <1>4 DEF RepliesAreMade
<1> QED
  BY <1>3, <1>4, <1>7, <1>8, <1>9

\* Of the waiting requests of an agent the innermost is the latest.
LEMMA InnermostIsLatest ==
  ASSUME IInv, More, NEW q \in Req, state[q] = "waiting"
  PROVE  /\ q \in DOMAIN call /\ call[q].caller \in Agent
         /\ stack[call[q].caller] # <<>>
         /\ Top(call[q].caller).what = "wait" /\ q # Top(call[q].caller).for =>
              /\ Top(call[q].caller).for \in Req /\ q < Top(call[q].caller).for
              /\ state[Top(call[q].caller).for] = "waiting"
              /\ call[Top(call[q].caller).for].caller = call[q].caller
<1> DEFINE a == call[q].caller
<1> USE DEF IInv, More
<1>1. q \in DOMAIN call /\ Waits(a, q)
  BY DEF Framed
<1>2. a \in Agent
  <2>1. call[q] \in [caller : Agent, target : Agent, timed : BOOLEAN]
    BY <1>1, CallsAreRequests, ElementOf DEF Types
  <2> QED
    BY <2>1
<1> HIDE DEF a
<1>3. PICK i \in 1 .. Len(stack[a]) : stack[a][i] = [what |-> "wait", for |-> q]
  BY <1>1, <1>2, Frames DEF Waits
<1>4. stack[a] \in Seq(Frame) /\ stack[a] # <<>>
  <2>1. stack[a] \in Seq(Frame) /\ Len(stack[a]) \in Nat
    BY <1>2, Frames DEF Types
  <2> QED
    BY <1>3, <2>1
<1>5. Len(stack[a]) \in Nat /\ Len(stack[a]) > 0 /\ Top(a) = stack[a][Len(stack[a])]
  BY <1>4, FrontLast DEF Top
<1>6. ASSUME Top(a).what = "wait", q # Top(a).for
      PROVE  /\ Top(a).for \in Req /\ q < Top(a).for
             /\ state[Top(a).for] = "waiting" /\ call[Top(a).for].caller = a
  <2>1. Len(stack[a]) \in 1 .. Len(stack[a])
    BY <1>5
  <2>2. i < Len(stack[a])
    BY <1>3, <1>5, <1>6
  <2>3. q < Top(a).for
    BY <1>2, <1>3, <1>5, <1>6, <2>1, <2>2 DEF Ordered
  <2>4. /\ Top(a).for \in DOMAIN call /\ state[Top(a).for] = "waiting"
        /\ call[Top(a).for].caller = a
    BY <1>2, <1>5, <1>6, <2>1 DEF Waiting
  <2> QED
    BY <2>3, <2>4, CallsAreRequests
<1> QED
  BY <1>1, <1>2, <1>4, <1>6 DEF a

\* The loop of the innermost request takes a message: if it is the answer to
\* another waiting request of the agent, that request is not the latest.
LEMMA ReceiveKeepsMore ==
  ASSUME IInv, IInv', More, NEW a \in Agent, Receive(a)
  PROVE  More'
<1> DEFINE m == Head(mailbox[a])
<1> USE DEF IInv, More
<1>1. /\ mailbox[a] # <<>> /\ mailbox' = [mailbox EXCEPT ![a] = Tail(@)]
      /\ UNCHANGED <<world, alive, stale, call, replied>>
      /\ stack[a] # <<>> => Top(a).what = "wait"
      /\ mailbox[a] \in Seq(Message) /\ stack[a] \in Seq(Frame)
  BY DEF Receive, Receives, Types
<1>2. /\ m = mailbox[a][1] /\ Len(mailbox[a]) \in Nat /\ Len(mailbox[a]) > 0
      /\ Len(mailbox'[a]) = Len(mailbox[a]) - 1
      /\ \A i \in 1 .. Len(mailbox[a]) - 1 : mailbox'[a][i] = mailbox[a][i + 1]
      /\ \A b \in Agent : b # a => mailbox'[b] = mailbox[b]
  <2>1. /\ mailbox'[a] = Tail(mailbox[a])
        /\ \A b \in Agent : b # a => mailbox'[b] = mailbox[b]
    BY <1>1 DEF Types
  <2>2. /\ m = mailbox[a][1] /\ Len(mailbox[a]) \in Nat /\ Len(mailbox[a]) > 0
        /\ Len(Tail(mailbox[a])) = Len(mailbox[a]) - 1
        /\ \A i \in 1 .. Len(mailbox[a]) - 1 : Tail(mailbox[a])[i] = mailbox[a][i + 1]
    BY <1>1
  <2> QED
    BY <2>1, <2>2
<1>3. Bounds'
  <2>1. world.capacity \in Nat
    BY WorldAssumption DEF Types, World
  <2> QED
    BY <1>1, <1>2, <2>1 DEF Bounds
<1> DEFINE mine == stack[a] # <<>> /\ Matches(m, Top(a).for)
<1>4. /\ Ordered' /\ Framed' /\ RepliesAreMade'
      /\ \A q \in Req : /\ state'[q] = "waiting" => state[q] = "waiting"
                        /\ state[q] # "new" => state'[q] # "new"
                        /\ mine /\ q = Top(a).for => state'[q] # "waiting"
  <2>1. CASE mine
    <3>1. Pop(a) /\ state' = [state EXCEPT ![Top(a).for] = "answered"]
      BY <2>1 DEF Receive
    <3>2. /\ Top(a).for \in Req /\ state[Top(a).for] = "waiting"
          /\ \A q \in Req : state'[q] = IF q = Top(a).for THEN "answered" ELSE state[q]
          /\ Ordered' /\ Framed' /\ RepliesAreMade'
      BY <1>1, <2>1, <3>1, InnermostEndsFramed
    <3> QED
      BY <3>2
  <2>2. CASE ~mine
    <3>1. OnMessage(a, m) /\ state' = state
      BY <2>2 DEF Receive
    <3> DEFINE f == [what |-> "handle",
                     owes |-> IF m.type = "task_request" THEN m.about ELSE 0]
    <3>2. f \in Frame /\ Push(a, f) /\ f.what # "wait"
      <4>1. m \in Message
        BY <1>1, <1>2, ElementOf
      <4>2. f \in [what : {"handle"}, owes : Req \cup {0}]
        BY <4>1 DEF Message
      <4> QED
        BY <3>1, <4>2 DEF Frame, OnMessage
    <3> HIDE DEF f
    <3>3. /\ stack'[a] = Append(stack[a], f)
          /\ \A b \in Agent : b # a => stack'[b] = stack[b]
      BY <3>2 DEF Push, Types
    <3>4. /\ Len(stack[a]) \in Nat /\ Len(stack'[a]) = Len(stack[a]) + 1
          /\ \A i \in 1 .. Len(stack[a]) : stack'[a][i] = stack[a][i]
          /\ stack'[a][Len(stack[a]) + 1] = f
      BY <1>1, <3>2, <3>3, AppendProperties, LenProperties
    <3>5. ASSUME NEW b \in Agent
          PROVE  /\ \A i \in 1 .. Len(stack'[b]) : stack'[b][i].what = "wait" =>
                      i \in 1 .. Len(stack[b]) /\ stack'[b][i] = stack[b][i]
                 /\ \A i \in 1 .. Len(stack[b]) :
                      i \in 1 .. Len(stack'[b]) /\ stack'[b][i] = stack[b][i]
      <4>1. CASE b = a
        BY <3>2, <3>4, <4>1
      <4>2. CASE b # a
        BY <3>3, <4>2
      <4> QED
        BY <4>1, <4>2
    <3>6. Ordered' /\ Framed'
      BY <1>1, <3>1, <3>5, OrderedKept, FramedKept
    <3>7. RepliesAreMade'
      BY <1>1, <3>1 DEF RepliesAreMade
    <3>8. mine /\ TRUE => FALSE
      BY <2>2
    <3> QED
      BY <3>1, <3>6, <3>7, <3>8
  <2> QED
    BY <2>1, <2>2
<1>5. AnswersAreKept'
  <2> SUFFICES ASSUME NEW q \in Req, state'[q] = "waiting", replied[q], ~world.lossy
               PROVE  \/ \E i \in DOMAIN mailbox'[call[q].caller] :
                           mailbox'[call[q].caller][i]
                             = [type |-> "task_response", about |-> q]
                      \/ \E s \in Req : s > q /\ state'[s] # "new"
                                        /\ call[s].caller = call[q].caller
    BY <1>1 DEF AnswersAreKept, Matches
  <2>1. /\ state[q] = "waiting" /\ call[q].caller \in Agent
        /\ stack[call[q].caller] # <<>>
    BY <1>4, InnermostIsLatest
  <2>2. \/ \E i \in DOMAIN mailbox[call[q].caller] :
             mailbox[call[q].caller][i] = [type |-> "task_response", about |-> q]
        \/ \E s \in Req : s > q /\ state[s] # "new" /\ call[s].caller = call[q].caller
    BY <2>1 DEF AnswersAreKept, Matches
  <2>3. CASE \E s \in Req : s > q /\ state[s] # "new" /\ call[s].caller = call[q].caller
    BY <1>4, <2>3
  <2>4. CASE call[q].caller # a
    BY <1>2, <1>4, <2>1, <2>2, <2>4
  <2>5. CASE call[q].caller = a /\ \E i \in DOMAIN mailbox[a] :
               mailbox[a][i] = [type |-> "task_response", about |-> q]
    <3>1. PICK i \in 1 .. Len(mailbox[a]) :
            mailbox[a][i] = [type |-> "task_response", about |-> q]
      BY <1>1, <2>5
    <3>2. CASE i = 1
      <4>1. Matches(m, q)
        BY <1>2, <3>1, <3>2 DEF Matches
      <4>2. q # Top(a).for
        BY <1>4, <2>1, <2>5, <4>1
      <4>3. Top(a).for \in Req /\ q < Top(a).for /\ state[Top(a).for] = "waiting"
            /\ call[Top(a).for].caller = a
        BY <1>1, <2>1, <2>5, <4>2, InnermostIsLatest
      <4>4. Top(a).for > q /\ state'[Top(a).for] # "new"
        BY <1>4, <4>3 DEF Req
      <4> QED
        BY <2>5, <4>3, <4>4
    <3>3. CASE i # 1
      <4>1. /\ i - 1 \in 1 .. Len(mailbox'[a]) /\ i - 1 \in 1 .. Len(mailbox[a]) - 1
            /\ (i - 1) + 1 = i
        BY <1>2, <3>3
      <4>2. mailbox'[a][i - 1] = mailbox[a][i]
        BY <1>2, <4>1
      <4>3. DOMAIN mailbox'[a] = 1 .. Len(mailbox'[a])
        <5>1. mailbox'[a] \in Seq(Message)
          BY DEF Types
        <5> QED
          BY <5>1, LenProperties
      <4> QED
        BY <2>5, <3>1, <4>1, <4>2, <4>3
    <3> QED
      BY <3>2, <3>3
  <2> QED
    BY <2>2, <2>3, <2>4, <2>5
<1> QED
  BY <1>3, <1>4, <1>5

\* A task is left behind only by a bus that loses messages.
LEMMA StaleKept ==
  ASSUME Types, Bounds, NEW a \in Agent, LeavesTask(a) \/ UNCHANGED stale,
         UNCHANGED <<world, mailbox>>
  PROVE  Bounds'
<1>1. CASE LeavesTask(a)
  <2>1. stale' = [stale EXCEPT ![a] = stale[a] + 1] /\ world.lossy /\ stale[a] < MaxStale
    BY <1>1 DEF LeavesTask
  <2>2. \A b \in Agent : stale'[b] = IF b = a THEN stale[a] + 1 ELSE stale[b]
    BY <2>1 DEF Types
  <2>3. stale[a] + 1 <= MaxStale
    BY <2>1, BoundAssumption DEF Types
  <2> QED
    BY <2>1, <2>2, <2>3 DEF Bounds
<1>2. CASE UNCHANGED stale
  BY <1>2 DEF Bounds
<1> QED
  BY <1>1, <1>2

\* The polling of run.
LEMMA PollTimesOutKeepsMore ==
  ASSUME IInv, IInv', More, NEW a \in Agent, PollTimesOut(a)
  PROVE  More'
<1> USE DEF IInv, More
<1>1. LeavesTask(a) /\ UNCHANGED <<world, alive, mailbox, stack, call, state, replied>>
  BY DEF PollTimesOut
<1>2. Bounds'
  BY <1>1, StaleKept
<1>3. Framed' /\ Ordered' /\ RepliesAreMade' /\ AnswersAreKept'
  BY <1>1 DEF Framed, Waits, Ordered, RepliesAreMade, AnswersAreKept, Matches
<1> QED
  BY <1>2, <1>3

\* A request that times out waits no more for its answer.
LEMMA RequestTimesOutKeepsMore ==
  ASSUME IInv, IInv', More, NEW a \in Agent, RequestTimesOut(a)
  PROVE  More'
<1> USE DEF IInv, More
<1>1. /\ stack[a] # <<>> /\ Top(a).what = "wait" /\ Pop(a)
      /\ state' = [state EXCEPT ![Top(a).for] = "timeout"]
      /\ LeavesTask(a) \/ UNCHANGED stale
      /\ UNCHANGED <<world, alive, mailbox, call, replied>>
  BY DEF RequestTimesOut, Receives
<1>2. /\ state[Top(a).for] = "waiting"
      /\ \A q \in Req : state'[q] = IF q = Top(a).for THEN "timeout" ELSE state[q]
      /\ Ordered' /\ Framed' /\ RepliesAreMade'
  BY <1>1, InnermostEndsFramed
<1>3. Bounds'
  BY <1>1, StaleKept
<1>4. AnswersAreKept'
  BY <1>1, <1>2, AnswersKept
<1> QED
  BY <1>2, <1>3, <1>4

\* The requests of a killed agent wait no more; the others lose nothing.
LEMMA KillKeepsMore ==
  ASSUME IInv, IInv', More, NEW a \in Agent, Kill(a)
  PROVE  More'
<1> USE DEF IInv, More
<1>1. /\ stale' = [stale EXCEPT ![a] = 0] /\ stack' = [stack EXCEPT ![a] = <<>>]
      /\ mailbox' = [mailbox EXCEPT ![a] = <<>>]
      /\ UNCHANGED <<world, call, replied>>
      /\ state' = [r \in Req |->
           IF state[r] = "waiting" /\ call[r].caller = a THEN "abandoned" ELSE state[r]]
  BY DEF Kill
<1>2. /\ stack'[a] = <<>> /\ mailbox'[a] = <<>> /\ stale'[a] = 0
      /\ \A b \in Agent : b # a => stack'[b] = stack[b] /\ mailbox'[b] = mailbox[b]
                                   /\ stale'[b] = stale[b]
  BY <1>1 DEF Types
<1>3. /\ \A q \in Req : state'[q] = "waiting" =>
            /\ state[q] = "waiting" /\ call[q].caller # a /\ q \in DOMAIN call
      /\ \A q \in Req : state[q] # "new" => state'[q] # "new"
  BY <1>1 DEF Framed
<1>4. Bounds'
  <2>1. world.capacity \in Nat /\ MaxStale \in Nat /\ Len(<<>>) = 0
    BY WorldAssumption, BoundAssumption DEF Types, World
  <2> QED
    BY <1>1, <1>2, <2>1 DEF Bounds
<1>5. Ordered'
  BY <1>2, OrderedKept
<1>6. Framed'
  <2>1. ASSUME NEW b \in Agent, NEW i \in 1 .. Len(stack[b]), stack[b][i].what = "wait",
               state'[stack[b][i].for] = "waiting"
        PROVE  b # a
    <3>1. stack[b][i].for \in Req /\ call[stack[b][i].for].caller = b
      BY <2>1, CallsAreRequests DEF Waiting
    <3> QED
      BY <1>3, <2>1, <3>1
  <2> QED
    BY <1>1, <1>2, <1>3, <2>1, FramedKept
<1>7. RepliesAreMade'
  BY <1>1, <1>3 DEF RepliesAreMade
<1>8. AnswersAreKept'
  <2>1. ASSUME NEW q \in Req, state'[q] = "waiting"
        PROVE  mailbox'[call[q].caller] = mailbox[call[q].caller]
    <3>1. call[q] \in [caller : Agent, target : Agent, timed : BOOLEAN]
      BY <1>3, <2>1, CallsAreRequests, ElementOf DEF Types
    <3> QED
      BY <1>2, <1>3, <2>1, <3>1
  <2> QED
    BY <1>1, <1>3, <2>1, AnswersKept
<1> QED
  BY <1>4, <1>5, <1>6, <1>7, <1>8

\* A step of any agent.
LEMMA NextKeepsMore ==
  ASSUME IInv, IInv', More, [Next]_vars PROVE More'
<1>1. CASE Next
  <2>1. PICK a \in Agent :
          \/ \E t \in Agent, timed \in world.timed : Request(a, t, timed)
          \/ Reply(a) \/ Returns(a) \/ Receive(a) \/ PollTimesOut(a)
          \/ RequestTimesOut(a) \/ Kill(a)
    BY <1>1 DEF Next
  <2>2. CASE \E t \in Agent, timed \in world.timed : Request(a, t, timed)
    BY <2>2, RequestKeepsMore
  <2>3. CASE Reply(a) \/ Returns(a) \/ Receive(a)
    BY <2>3, ReplyKeepsMore, ReturnsKeepsMore, ReceiveKeepsMore
  <2>4. CASE PollTimesOut(a) \/ RequestTimesOut(a) \/ Kill(a)
    BY <2>4, PollTimesOutKeepsMore, RequestTimesOutKeepsMore, KillKeepsMore
  <2> QED
    BY <2>1, <2>2, <2>3, <2>4
<1>2. CASE UNCHANGED vars
  BY <1>2 DEF vars, More, Bounds, Framed, Waits, Ordered, RepliesAreMade, AnswersAreKept,
              Matches
<1> QED
  BY <1>1, <1>2

\* No request waits at the start.
LEMMA InitHoldsMore ==
  ASSUME Init PROVE More
<1>1. /\ \A a \in Agent : mailbox[a] = <<>> /\ stale[a] = 0
                          /\ stack[a] = <<[what |-> "start"]>>
      /\ \A q \in Req : state[q] = "new" /\ ~replied[q]
  BY DEF Init
<1>2. Bounds
  <2>1. world.capacity \in Nat /\ MaxStale \in Nat /\ Len(<<>>) = 0
    BY WorldAssumption, BoundAssumption DEF Init, World
  <2> QED
    BY <1>1, <2>1 DEF Bounds
<1>3. Framed /\ RepliesAreMade /\ AnswersAreKept
  BY <1>1 DEF Framed, RepliesAreMade, AnswersAreKept
<1>4. Ordered
  <2>1. ASSUME NEW a \in Agent PROVE Len(stack[a]) = 1
    <3>1. Len(<<[what |-> "start"]>>) = 1
      OBVIOUS
    <3> QED
      BY <1>1, <3>1
  <2> QED
    BY <2>1 DEF Ordered
<1> QED
  BY <1>2, <1>3, <1>4 DEF More

\* Answers reach their waiters: for any agents and worlds, a request waits in a
\* frame of its caller, and an answer given to it is in its caller's mailbox
\* unless the bus lost it or a later request of the caller may have taken it.
THEOREM AnswersTheorem == Spec => []AnswersReachWaiters
<1>1. Init => More
  BY InitHoldsMore
<1>2. IInv /\ IInv' /\ More /\ [Next]_vars => More'
  BY NextKeepsMore
<1>3. IInv /\ More => AnswersReachWaiters
  <2> SUFFICES ASSUME IInv, More PROVE AnswersReachWaiters
    OBVIOUS
  <2> USE DEF IInv, More
  <2>1. \A a \in Agent : /\ \A i \in DOMAIN mailbox[a] : mailbox[a][i] \in Message
                         /\ \A i \in DOMAIN stack[a] : stack[a][i] \in Frame
    BY DEF Types
  <2>2. stale \in [Agent -> 0 .. MaxStale]
    BY BoundAssumption DEF Types, Bounds
  <2>3. ASSUME NEW r \in DOMAIN call
        PROVE  call[r] \in [caller : Agent, target : Agent, timed : BOOLEAN]
    BY CallsAreRequests, ElementOf DEF Types
  <2>4. ASSUME NEW r \in Req, r \in DOMAIN call, Waits(call[r].caller, r)
        PROVE  state[r] = "waiting"
    <3>1. call[r].caller \in Agent
      BY <2>3, <2>4
    <3>2. PICK i \in 1 .. Len(stack[call[r].caller]) :
            stack[call[r].caller][i] = [what |-> "wait", for |-> r]
      BY <2>4, <3>1, Frames DEF Waits
    <3> QED
      BY <3>1, <3>2 DEF Waiting
  <2>5. TypeOK
    BY <2>1, <2>2, <2>3, <2>4 DEF TypeOK, Types, Bounds, Framed
  <2> QED
    BY <2>5 DEF AnswersReachWaiters
<1>4. Spec => []IInv
  BY RequestsFit
<1> QED
  BY <1>1, <1>2, <1>3, <1>4, PTL DEF Spec
=============================================================================
