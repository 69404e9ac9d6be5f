---------------------------- MODULE AgentRequest ----------------------------
(***************************************************************************)
(* AgentProcess.request, reply and the receiving loop of run               *)
(* (kernel/process.py), over route_ipc_message and a bus that may lose the *)
(* message after a receive that timed out (module MailboxBus).             *)
(*                                                                         *)
(* While an agent waits for an answer it handles whatever else it receives *)
(* in on_message, which may make requests of its own: its waits are a      *)
(* stack, and only the innermost one receives.  All requests implement     *)
(* OneShotCall.                                                            *)
(***************************************************************************)
EXTENDS Naturals, Sequences, FiniteSets, SequencesExt

CONSTANTS
  Agent,
  Worlds,       \* the programs and buses looked at
  \* Bounds of the model:
  MaxRequests,
  MaxStale      \* receives of an agent that timed out and still take a message

\* What the agents are like: whether on_message makes requests, whether requests
\* have a timeout, whether agents are killed, whether a timed-out receive costs
\* a message; and mailbox_size.
World == [nesting : BOOLEAN, timed : SUBSET BOOLEAN, kills : BOOLEAN,
          lossy : BOOLEAN, capacity : Nat \ {0}]

ASSUME WorldAssumption == Worlds \subseteq World
ASSUME BoundAssumption == MaxRequests \in Nat /\ MaxStale \in Nat

\* correlation_id: requests are numbered as they are made.
Req == 1 .. MaxRequests

VARIABLES
  world,
  alive,     \* agents whose process is STARTING or RUNNING
  mailbox,   \* messages on the bus, by receiver
  stack,     \* the frames of an agent, innermost last; none: the loop of run
  stale,     \* abandoned receives waiting for a message, by agent
  call,      \* the arguments of a request
  state,     \* what has become of it
  replied    \* requests that were given an answer

vars == <<world, alive, mailbox, stack, stale, call, state, replied>>

Message == [type : {"task_request", "task_response"}, about : Req]

\* on_start; on_message, which still owes an answer to a request or owes none;
\* and request, waiting for the answer to its own.
Frame == [what : {"start"}] \cup [what : {"handle"}, owes : Req \cup {0}]
         \cup [what : {"wait"}, for : Req]

Init ==
  /\ world \in Worlds
  /\ alive = Agent
  /\ mailbox = [a \in Agent |-> <<>>]
  /\ stack = [a \in Agent |-> <<[what |-> "start"]>>]
  /\ stale = [a \in Agent |-> 0]
  /\ call = <<>>
  /\ state = [r \in Req |-> "new"]
  /\ replied = [r \in Req |-> FALSE]

(***************************************************************************)
(* Definitions used by the steps.                                          *)
(***************************************************************************)
Top(a) == Last(stack[a])
Push(a, f) == stack' = [stack EXCEPT ![a] = Append(@, f)]
Pop(a) == stack' = [stack EXCEPT ![a] = Front(@)]

\* Code of the agent runs, or the agent waits for a message.
Executes(a) == a \in alive /\ stack[a] # <<>> /\ Top(a).what # "wait"
Receives(a) == a \in alive /\ (stack[a] # <<>> => Top(a).what = "wait")

\* route_ipc_message: the target is alive and its mailbox has room.
Routable(t) ==
  t \in alive /\ (stale[t] > 0 \/ Len(mailbox[t]) < world.capacity)

\* The bus: an abandoned receive takes the message first.
Deliver(t, m) ==
  IF stale[t] > 0
  THEN stale' = [stale EXCEPT ![t] = @ - 1] /\ UNCHANGED mailbox
  ELSE mailbox' = [mailbox EXCEPT ![t] = Append(@, m)] /\ UNCHANGED stale

\* Mutants: any answer will do; an answer is taken for one only in the loop of
\* the request that was made last.
Matches_AnyAnswer(m, r) == m.type = "task_response"
Matches_Newest(m, r) == m = [type |-> "task_response", about |-> Len(call)]

\* request: the correlation_id and the type of an answer.
Matches(m, r) == m = [type |-> "task_response", about |-> r]

\* on_message runs in the loop that received the message.
OnMessage(a, m) ==
  Push(a, [what |-> "handle",
           owes |-> IF m.type = "task_request" THEN m.about ELSE 0])

\* Mutant: only a request that can still be answered times out.
MayTimeOut_TargetAlive(r) == call[r].timed /\ call[r].target \in alive
MayTimeOut(r) == call[r].timed

\* A receive that has timed out on an empty mailbox leaves its task behind.
LeavesTask(a) ==
  /\ world.lossy /\ mailbox[a] = <<>> /\ stale[a] < MaxStale
  /\ stale' = [stale EXCEPT ![a] = @ + 1]

(***************************************************************************)
(* The steps of an agent.                                                  *)
(***************************************************************************)
Request(a, t, timed) ==
  LET r == Len(call) + 1 IN
  /\ Executes(a) /\ r \in Req
  /\ Top(a).what = "start" \/ world.nesting
  /\ call' = Append(call, [caller |-> a, target |-> t, timed |-> timed])
  /\ IF Routable(t)
     THEN /\ state' = [state EXCEPT ![r] = "waiting"]
          /\ Deliver(t, [type |-> "task_request", about |-> r])
          /\ Push(a, [what |-> "wait", for |-> r])
     ELSE /\ state' = [state EXCEPT ![r] = "refused"]
          /\ UNCHANGED <<mailbox, stale, stack>>
  /\ UNCHANGED <<world, alive, replied>>

\* reply: when the route refuses the answer, the error goes to the replier and
\* the caller of request hears nothing.
Reply(a) ==
  /\ Executes(a) /\ Top(a).what = "handle" /\ Top(a).owes # 0
  /\ LET r == Top(a).owes
         back == call[r].caller
     IN IF Routable(back)
        THEN /\ replied' = [replied EXCEPT ![r] = TRUE]
             /\ Deliver(back, [type |-> "task_response", about |-> r])
        ELSE UNCHANGED <<replied, mailbox, stale>>
  /\ stack' = [stack EXCEPT ![a][Len(stack[a])].owes = 0]
  /\ UNCHANGED <<world, alive, call, state>>

\* on_start or on_message is over.
Returns(a) ==
  /\ Executes(a) /\ (Top(a).what = "handle" => Top(a).owes = 0)
  /\ Pop(a)
  /\ UNCHANGED <<world, alive, mailbox, stale, call, state, replied>>

\* The innermost loop gets a message: its answer, or one for on_message.
Receive(a) ==
  /\ Receives(a) /\ mailbox[a] # <<>>
  /\ mailbox' = [mailbox EXCEPT ![a] = Tail(@)]
  /\ LET m == Head(mailbox[a]) IN
     IF stack[a] # <<>> /\ Matches(m, Top(a).for)
     THEN /\ state' = [state EXCEPT ![Top(a).for] = "answered"]
          /\ Pop(a)
     ELSE OnMessage(a, m) /\ UNCHANGED state
  /\ UNCHANGED <<world, alive, stale, call, replied>>

\* The polling of run.
PollTimesOut(a) ==
  /\ Receives(a) /\ stack[a] = <<>> /\ mailbox[a] = <<>>
  /\ LeavesTask(a)
  /\ UNCHANGED <<world, alive, mailbox, stack, call, state, replied>>

\* The deadline of the innermost request, in receive or before it; those
\* further out wait for it.
RequestTimesOut(a) ==
  /\ Receives(a) /\ stack[a] # <<>> /\ MayTimeOut(Top(a).for)
  /\ state' = [state EXCEPT ![Top(a).for] = "timeout"]
  /\ Pop(a)
  /\ LeavesTask(a) \/ UNCHANGED stale
  /\ UNCHANGED <<world, alive, mailbox, call, replied>>

\* ProcessRegistry.kill: the task is cancelled, the mailbox unregistered.
Kill(a) ==
  /\ world.kills /\ a \in alive
  /\ alive' = alive \ {a}
  /\ mailbox' = [mailbox EXCEPT ![a] = <<>>]
  /\ stack' = [stack EXCEPT ![a] = <<>>]
  /\ stale' = [stale EXCEPT ![a] = 0]
  /\ state' = [r \in Req |->
       IF state[r] = "waiting" /\ call[r].caller = a THEN "abandoned"
       ELSE state[r]]
  /\ UNCHANGED <<world, call, replied>>

Next ==
  \E a \in Agent :
    \/ \E t \in Agent, timed \in world.timed : Request(a, t, timed)
    \/ Reply(a) \/ Returns(a) \/ Receive(a) \/ PollTimesOut(a)
    \/ RequestTimesOut(a) \/ Kill(a)

\* The event loop runs what is ready and fires its timers; handlers answer the
\* requests they are given and return.
Fairness ==
  \A a \in Agent : /\ WF_vars(Reply(a)) /\ WF_vars(Returns(a))
                   /\ WF_vars(Receive(a)) /\ WF_vars(RequestTimesOut(a))
Spec == Init /\ [][Next]_vars /\ Fairness

(***************************************************************************)
(* Properties.                                                             *)
(***************************************************************************)
Waits(a, r) == \E i \in DOMAIN stack[a] : stack[a][i] = [what |-> "wait", for |-> r]

\* The values a run may hold; a request waits where its caller's frame is.
TypeOK ==
  /\ world \in Worlds /\ alive \subseteq Agent
  /\ \A a \in Agent :
       /\ \A i \in DOMAIN mailbox[a] : mailbox[a][i] \in Message
       /\ Len(mailbox[a]) <= world.capacity
       /\ \A i \in DOMAIN stack[a] : stack[a][i] \in Frame
  /\ stale \in [Agent -> 0 .. MaxStale]
  /\ Len(call) <= MaxRequests
  /\ \A r \in DOMAIN call :
       call[r] \in [caller : Agent, target : Agent, timed : BOOLEAN]
  /\ \A r \in Req : state[r] = "waiting" <=>
                      r \in DOMAIN call /\ Waits(call[r].caller, r)
  /\ replied \in [Req -> BOOLEAN]

\* Every request is a one-shot call: request returns an answer only when its
\* target gave one to this request (tests/test_ipc_protocol.py).
Promise(r) == INSTANCE OneShotCall WITH state <- state[r], replied <- replied[r]
RequestsAreOneShot ==
  /\ \A r \in Req : Promise(r)!Init
  /\ [][\A r \in Req : [Promise(r)!Next]_(Promise(r)!vars)]_<<state, replied>>

\* An answer that was sent to a waiting caller is not lost on the way to it,
\* unless the bus lost it, or the caller made another request while it waited,
\* which may have received it and left it to on_message.
AnswersAreKept ==
  \A r \in Req : state[r] = "waiting" /\ replied[r] /\ ~world.lossy =>
    LET a == call[r].caller IN
    \/ \E i \in DOMAIN mailbox[a] : Matches(mailbox[a][i], r)
    \/ \E s \in Req : s > r /\ state[s] # "new" /\ call[s].caller = a

\* Where every request has a timeout every request ends, whatever happens to
\* its target and whatever its caller handles meanwhile.
TimedRequestsEnd ==
  \A r \in Req :
    (world.timed = {TRUE} /\ state[r] = "waiting") ~> state[r] # "waiting"

\* Where nobody is killed, nothing is lost, mailboxes have room and on_message
\* makes no requests, every request is answered or times out: agents that ask
\* each other in a circle, or themselves, do not wait for ever.
Gentle ==
  /\ ~world.kills /\ ~world.lossy /\ ~world.nesting
  /\ world.capacity >= 2 * MaxRequests
CirclesAreAnswered ==
  \A r \in Req : (Gentle /\ state[r] = "waiting") ~> state[r] \in {"answered", "timeout"}

\* A request ends: by its timeout in any case, by its answer in a gentle world.
RequestsEnd == TimedRequestsEnd /\ CirclesAreAnswered

\* Requests, frames and mailboxes fit together, and what was answered to a
\* waiting caller is on its way to it.
AnswersReachWaiters == TypeOK /\ AnswersAreKept
=============================================================================
