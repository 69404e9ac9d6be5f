----------------------------- MODULE MailboxBus -----------------------------
(***************************************************************************)
(* The mailbox transport of Agent OS: NativeIPCBus and RustKernel          *)
(* (src/ipc.rs), with the way Python consumes it, one awaited              *)
(* recv_message at a time per agent (kernel/process.py).                   *)
(*                                                                         *)
(* Every method of the two classes holds the interpreter lock from start   *)
(* to end, so a method is one step.  Beside them run, on the threads of    *)
(* the tokio runtime, one task for each call of recv_message: it queues on *)
(* the mutex of the receiver, takes a message and asks the event loop, by  *)
(* call_soon_threadsafe, to resolve the asyncio future of the call.        *)
(* Whoever awaits the future may give up at any point in between.          *)
(*                                                                         *)
(* A channel is made at every registration of a mailbox; tokio's channel   *)
(* is a bounded FIFO, so a message is its position in the channel and the  *)
(* buffer of channel c holds the positions above taken[c].                 *)
(***************************************************************************)
EXTENDS Naturals, Sequences

CONSTANTS
  Name,              \* agent names, ordered as the strings of a BTreeSet
  Cap,               \* capabilities
  Capacity,          \* buffer_size of every mailbox
  Polling,           \* agents that receive under a timeout
  Killable,          \* agents whose coroutine may be cancelled
  \* Bounds of the model:
  MaxRegistrations,  \* registrations of one name
  MaxCalls,          \* calls of recv_message
  MaxAccepted        \* messages one channel accepts

ASSUME NameAssumption == Name \subseteq Nat
\* register_mailbox refuses a buffer_size of zero.
ASSUME CapacityAssumption == Capacity \in Nat \ {0}
ASSUME BoundAssumption == MaxRegistrations \in Nat /\ MaxCalls \in Nat

Chan == Name \X (1 .. MaxRegistrations)
Call == 1 .. MaxCalls
NoChan == <<>>

VARIABLES
  open,          \* the keys of senders and receivers
  registrations, \* mailboxes a name has had; the last is the one in the maps
  routing,       \* routing_methods, "none" where the map has no entry
  registered,    \* registered_agents
  routable,      \* capability_agents
  accepted,      \* messages try_send has put in a channel
  taken,         \* messages receiver.recv() has taken out of it
  delivered,     \* positions the consumer of a channel has been given, in turn
  lockQueue,     \* the tasks at the receiver's mutex, its holder first
  calls,         \* calls of recv_message so far
  task,          \* where the tokio task of a call is
  source,        \* the channel whose receiver the task has a handle of
  carried,       \* the position the task has taken, 0 for none
  future,        \* the asyncio future of a call
  awaiting       \* the call an agent awaits, 0 for none

registryVars == <<open, registrations, routing, registered, routable>>
channelVars == <<accepted, taken, delivered, lockQueue>>
callVars == <<calls, task, source, carried, future>>
vars == <<registryVars, channelVars, callVars, awaiting>>

RegistryTypeOK ==
  /\ open \subseteq Name
  /\ registrations \in [Name -> 0 .. MaxRegistrations]
  /\ \A n \in open : registrations[n] > 0
  /\ routing \in [Name -> {"none", "Direct", "Semantic Fallback"}]
  /\ registered \subseteq Name
  /\ routable \in [Cap -> SUBSET Name]

ChannelTypeOK ==
  /\ accepted \in [Chan -> Nat]
  /\ taken \in [Chan -> Nat]
  /\ delivered \in [Chan -> Seq(Nat)]
  /\ lockQueue \in [Chan -> Seq(Call)]

CallTypeOK ==
  /\ calls \in 0 .. MaxCalls
  /\ task \in [Call -> {"unused", "spawned", "waiting", "holding", "posted", "ended"}]
  /\ source \in [Call -> Chan \cup {NoChan}]
  /\ \A r \in Call : task[r] # "unused" => source[r] \in Chan
  /\ carried \in [Call -> Nat]
  /\ future \in [Call -> {"none", "pending", "result", "failed", "cancelled"}]
  /\ awaiting \in [Name -> 0 .. MaxCalls]

TypeOK == RegistryTypeOK /\ ChannelTypeOK /\ CallTypeOK

Init ==
  /\ open = {} /\ registered = {}
  /\ registrations = [n \in Name |-> 0]
  /\ routing = [n \in Name |-> "none"]
  /\ routable = [k \in Cap |-> {}]
  /\ accepted = [c \in Chan |-> 0] /\ taken = [c \in Chan |-> 0]
  /\ delivered = [c \in Chan |-> <<>>]
  /\ lockQueue = [c \in Chan |-> <<>>]
  /\ calls = 0
  /\ task = [r \in Call |-> "unused"]
  /\ source = [r \in Call |-> NoChan]
  /\ carried = [r \in Call |-> 0]
  /\ future = [r \in Call |-> "none"]
  /\ awaiting = [n \in Name |-> 0]

\* The channel whose ends the maps hold under the name of a registered agent.
Current(n) == <<n, registrations[n]>>

\* No sender is left: the map's was the only one that outlives a call.
Closed(c) == c[1] \notin open \/ Current(c[1]) # c

-----------------------------------------------------------------------------
(* Registration *)

\* Mutant: a name that registers again is given the channel it had before.
RegisterMailbox_ReusesChannel(n) ==
  /\ n \notin open
  /\ open' = open \cup {n}
  /\ routing' = [routing EXCEPT ![n] = "Direct"]
  /\ registered' = registered \cup {n}
  /\ UNCHANGED <<registrations, routable, channelVars, callVars, awaiting>>

RegisterMailbox(n) ==
  /\ n \notin open
  /\ registrations[n] < MaxRegistrations
  /\ open' = open \cup {n}
  /\ registrations' = [registrations EXCEPT ![n] = @ + 1]
  /\ routing' = [routing EXCEPT ![n] = "Direct"]
  /\ registered' = registered \cup {n}
  /\ UNCHANGED <<routable, channelVars, callVars, awaiting>>

\* Mutant: the kernel keeps the capabilities of an agent it unregisters.
UnregisterMailbox_KeepsCapabilities(n) ==
  /\ n \in open
  /\ open' = open \ {n}
  /\ routing' = [routing EXCEPT ![n] = "none"]
  /\ registered' = registered \ {n}
  /\ UNCHANGED <<registrations, routable, channelVars, callVars, awaiting>>

\* A task that has a handle of the receiver keeps it alive; messages in the
\* buffer of a receiver nobody has a handle of are dropped with it.
UnregisterMailbox(n) ==
  /\ n \in open
  /\ open' = open \ {n}
  /\ routing' = [routing EXCEPT ![n] = "none"]
  /\ registered' = registered \ {n}
  /\ routable' = [k \in Cap |-> routable[k] \ {n}]
  /\ UNCHANGED <<registrations, channelVars, callVars, awaiting>>

\* Every caller registers the mailbox of the agent first.
RegisterCapability(n, k) ==
  /\ n \in open
  /\ routable' = [routable EXCEPT ![k] = @ \cup {n}]
  /\ registered' = registered \cup {n}
  /\ UNCHANGED <<open, registrations, routing, channelVars, callVars, awaiting>>

-----------------------------------------------------------------------------
(* Sending *)

Candidates(address) ==
  IF address \in Cap THEN routable[address] \cap open ELSE {}

\* resolve_delivery: the agent of that name, or else the first agent, in the
\* order of their names, that has the capability and a mailbox.
Resolves(address, n, method) ==
  \/ address \in open /\ n = address /\ method = "Direct"
  \/ /\ address \notin open /\ method = "Semantic Fallback"
     /\ n \in Candidates(address)
     /\ \A m \in Candidates(address) : n <= m

\* The routing method is recorded before the message is known to fit.  A full
\* mailbox refuses the message and the sender gets an exception.
Send(address) ==
  \E n \in open, method \in {"Direct", "Semantic Fallback"} :
    LET c == Current(n) IN
    /\ Resolves(address, n, method)
    /\ accepted[c] < MaxAccepted
    /\ routing' = [routing EXCEPT ![n] = method]
    /\ accepted' = IF accepted[c] - taken[c] < Capacity
                   THEN [accepted EXCEPT ![c] = @ + 1] ELSE accepted
    /\ UNCHANGED <<open, registrations, registered, routable, taken, delivered,
                   lockQueue, callVars, awaiting>>

-----------------------------------------------------------------------------
(* Receiving: the tokio task of a call, and the event loop *)

RecvMessage(n) ==
  LET r == calls + 1 IN
  /\ n \in open /\ awaiting[n] = 0
  /\ calls < MaxCalls
  /\ calls' = r
  /\ task' = [task EXCEPT ![r] = "spawned"]
  /\ source' = [source EXCEPT ![r] = Current(n)]
  /\ future' = [future EXCEPT ![r] = "pending"]
  /\ awaiting' = [awaiting EXCEPT ![n] = r]
  /\ UNCHANGED <<registryVars, channelVars, carried>>

\* Workers first poll the tasks in any order; the mutex is fair from there on.
TaskQueues(r) ==
  /\ task[r] = "spawned"
  /\ lockQueue' = [lockQueue EXCEPT ![source[r]] = Append(@, r)]
  /\ task' = [task EXCEPT ![r] = "waiting"]
  /\ UNCHANGED <<registryVars, accepted, taken, delivered, calls, source, carried,
                 future, awaiting>>

HoldsLock(r) ==
  /\ task[r] = "waiting"
  /\ lockQueue[source[r]] # <<>> /\ Head(lockQueue[source[r]]) = r

\* Mutant: the message is read but left in the channel.
TaskTakes_Peeks(r) ==
  LET c == source[r] IN
  /\ HoldsLock(r) /\ taken[c] < accepted[c]
  /\ carried' = [carried EXCEPT ![r] = taken[c] + 1]
  /\ lockQueue' = [lockQueue EXCEPT ![c] = Tail(@)]
  /\ task' = [task EXCEPT ![r] = "holding"]
  /\ UNCHANGED <<registryVars, accepted, taken, delivered, calls, source, future, awaiting>>

\* receiver.recv() yields a message and the guard of the mutex is dropped.
TaskTakes(r) ==
  LET c == source[r] IN
  /\ HoldsLock(r) /\ taken[c] < accepted[c]
  /\ taken' = [taken EXCEPT ![c] = @ + 1]
  /\ carried' = [carried EXCEPT ![r] = taken[c] + 1]
  /\ lockQueue' = [lockQueue EXCEPT ![c] = Tail(@)]
  /\ task' = [task EXCEPT ![r] = "holding"]
  /\ UNCHANGED <<registryVars, accepted, delivered, calls, source, future, awaiting>>

\* Mutant: the task ends without dropping the guard of the mutex.
TaskFindsClosed_KeepsLock(r) ==
  /\ HoldsLock(r) /\ taken[source[r]] = accepted[source[r]] /\ Closed(source[r])
  /\ task' = [task EXCEPT ![r] = "holding"]
  /\ UNCHANGED <<registryVars, channelVars, calls, source, carried, future, awaiting>>

\* receiver.recv() yields None: the channel is empty and has no sender.
TaskFindsClosed(r) ==
  LET c == source[r] IN
  /\ HoldsLock(r) /\ taken[c] = accepted[c] /\ Closed(c)
  /\ lockQueue' = [lockQueue EXCEPT ![c] = Tail(@)]
  /\ task' = [task EXCEPT ![r] = "holding"]
  /\ UNCHANGED <<registryVars, accepted, taken, delivered, calls, source, carried,
                 future, awaiting>>

\* schedule_future_result and schedule_future_exception: a future that is
\* cancelled is left alone, and what the task carries goes with the task.
TaskPosts(r) ==
  /\ task[r] = "holding"
  /\ task' = [task EXCEPT ![r] = IF future[r] = "cancelled" THEN "ended" ELSE "posted"]
  /\ UNCHANGED <<registryVars, channelVars, calls, source, carried, future, awaiting>>

\* The loop runs set_result or set_exception, which raises InvalidStateError
\* on a future that was cancelled meanwhile.
LoopRunsCallback(r) ==
  /\ task[r] = "posted"
  /\ task' = [task EXCEPT ![r] = "ended"]
  /\ future' = [future EXCEPT ![r] = IF @ # "pending" THEN @
                                     ELSE IF carried[r] = 0 THEN "failed" ELSE "result"]
  /\ UNCHANGED <<registryVars, channelVars, calls, source, carried, awaiting>>

-----------------------------------------------------------------------------
(* The agent that awaits the call *)

\* Mutant: the agent drops the message of a call that ended with one.
ConsumerResumes_Drops(n) ==
  LET r == awaiting[n] IN
  /\ r # 0 /\ future[r] \in {"result", "failed"}
  /\ awaiting' = [awaiting EXCEPT ![n] = 0]
  /\ UNCHANGED <<registryVars, channelVars, callVars>>

ConsumerResumes(n) ==
  LET r == awaiting[n] IN
  /\ r # 0 /\ future[r] \in {"result", "failed"}
  /\ awaiting' = [awaiting EXCEPT ![n] = 0]
  /\ delivered' = IF future[r] = "failed" THEN delivered
                  ELSE [delivered EXCEPT ![source[r]] = Append(@, carried[r])]
  /\ UNCHANGED <<registryVars, accepted, taken, lockQueue, callVars>>

\* The await ends without an answer.  Only a future that is still pending can
\* be cancelled; from Python 3.12 on the answer of one that is done is dropped.
GivesUp(n) ==
  LET r == awaiting[n] IN
  /\ r # 0
  /\ awaiting' = [awaiting EXCEPT ![n] = 0]
  /\ future' = [future EXCEPT ![r] = IF @ = "pending" THEN "cancelled" ELSE @]
  /\ UNCHANGED <<registryVars, channelVars, calls, task, source, carried>>

\* asyncio.wait_for around recv_message.
WaitTimesOut(n) == n \in Polling /\ GivesUp(n)

\* task.cancel() in ProcessRegistry.kill.
ConsumerKilled(n) == n \in Killable /\ GivesUp(n)

-----------------------------------------------------------------------------
Task(r) == TaskQueues(r) \/ TaskTakes(r) \/ TaskFindsClosed(r) \/ TaskPosts(r)

Next ==
  \/ \E n \in Name : \/ RegisterMailbox(n) \/ UnregisterMailbox(n)
                     \/ RecvMessage(n) \/ ConsumerResumes(n)
                     \/ WaitTimesOut(n) \/ ConsumerKilled(n)
  \/ \E n \in Name, k \in Cap : RegisterCapability(n, k)
  \/ \E address \in Name \cup Cap : Send(address)
  \/ \E r \in Call : Task(r) \/ LoopRunsCallback(r)

Spec == Init /\ [][Next]_vars

\* The tokio runtime polls every task that is ready and the event loop runs
\* every callback it was given.  Nothing forces a message, a call or a timeout.
FairSpec ==
  /\ Spec
  /\ \A r \in Call : WF_vars(Task(r)) /\ WF_vars(LoopRunsCallback(r))
  /\ \A n \in Name : WF_vars(ConsumerResumes(n))

-----------------------------------------------------------------------------
(* Properties *)

\* The messages of a channel that its consumer has been given.
Given(c) == {delivered[c][i] : i \in DOMAIN delivered[c]}

\* The call still brings its message to whoever awaits it.
InHand(r) ==
  /\ \E n \in Name : awaiting[n] = r
  /\ task[r] \in {"holding", "posted"} \/ future[r] = "result"

\* recv_message loses no message of an agent that neither receives under a
\* timeout nor is killed: what has been taken is delivered or on its way.  Of
\* the other agents it does lose messages, to the tasks of abandoned calls.
PatientConsumersLoseNothing ==
  \A c \in Chan : c[1] \notin Polling \cup Killable =>
    \A p \in 1 .. taken[c] :
      p \in Given(c) \/ \E r \in Call : source[r] = c /\ carried[r] = p /\ InHand(r)

\* A capability leads to agents that registered it with the mailbox they have
\* now: unregister_mailbox forgets it together with the mailbox, so that the
\* agent that takes the name next does not inherit it.
CapabilitiesHaveMailboxes ==
  /\ \A k \in Cap : routable[k] \subseteq open
  /\ open \subseteq registered
  /\ \A n \in Name : n \in open <=> routing[n] # "none"

\* An agent that waits patiently in recv_message is answered once a message is
\* there for it or its mailbox has been unregistered.
PatientCallsAreAnswered ==
  \A n \in Name \ (Polling \cup Killable), r \in Call :
    (awaiting[n] = r /\ (Closed(source[r]) \/ taken[source[r]] < accepted[source[r]]))
      ~> awaiting[n] # r

\* The tokio tasks that calls given up have left at the mutex of a mailbox, one
\* for every timeout, all end once the mailbox is unregistered.
TasksEndWithTheirMailbox ==
  \A r \in Call :
    (task[r] # "unused" /\ Closed(source[r])) ~> task[r] = "ended"

\* Neither a patient caller nor a task that was left behind waits for ever.
WaitsEnd == PatientCallsAreAnswered /\ TasksEndWithTheirMailbox

\* The mailbox promises its users what LossyFifo says.
Fifo == INSTANCE LossyFifo

FifoSpec == Fifo!Spec
=============================================================================
