---------------------------- MODULE ControlPlane ----------------------------
(***************************************************************************)
(* The control plane of main.py with the agents of the manifest: the       *)
(* router of the Orchestrator's mailbox, one host per agent, the ingress   *)
(* of standard input, the dashboard, and main, which ends all of them when *)
(* the first one ends.                                                     *)
(*                                                                         *)
(* Coroutines of one event loop: an action is what happens between two     *)
(* suspensions, and the bus's own threads move messages at any time.       *)
(* Mailboxes are those of MailboxBus: bounded, in order, and a poll that   *)
(* times out may cost a message (LossyFifo).                               *)
(***************************************************************************)
EXTENDS Naturals, Sequences, FiniteSets, SequencesExt

CONSTANTS
  Agent,      \* of the manifest
  Target,     \* DynamicAgentRegistry.route, by task
  Worlds,
  MaxTasks    \* bound: requests of the user

Task == 1 .. MaxTasks

\* DEFAULT_MAILBOX_SIZE; whether polls cost messages; whether an agent sends
\* the router what it ignores or what is JSON but no object.
World == [size : Nat \ {0}, lossy : BOOLEAN, noise : SUBSET {"ignored", "broken"}]

ASSUME WorldAssumption == Worlds \subseteq World
ASSUME RouteAssumption == MaxTasks \in Nat /\ Target \in [Task -> Agent]
ASSUME AgentAssumption == IsFiniteSet(Agent)

VARIABLES
  world,
  orchestrator,  \* the Orchestrator's mailbox
  inbox,         \* mailboxes of the agents: tasks
  router,        \* the message it has received, or how it is
  host,          \* of an agent: what it does, and with which task
  ingress,       \* optional_stdin_ingress
  main,          \* waiting, or at which point of its finally
  raised,        \* whether main ends with an exception
  asked,         \* number of requests of the user
  log            \* the reports recorded in the Orchestrator's memory

vars == <<world, orchestrator, inbox, router, host, ingress, main, raised,
          asked, log>>

Message == [cmd : {"task", "done", "failed", "ignored", "broken"}, task : Task \cup {0}]
Idle == [cmd |-> "idle", task |-> 0]
Over == [cmd |-> "over", task |-> 0]
Failed == [cmd |-> "raised", task |-> 0]

Init ==
  /\ world \in Worlds
  /\ orchestrator = <<>> /\ inbox = [a \in Agent |-> <<>>]
  /\ router = Idle /\ host = [a \in Agent |-> Idle]
  /\ ingress = "runs" /\ main = "waits" /\ raised = FALSE
  /\ asked = 0 /\ log = <<>>

(***************************************************************************)
(* Definitions used by the steps.                                          *)
(***************************************************************************)
\* bus.send_message raises where there is none.
Room(q) == Len(q) < world.size

\* No coroutine runs between the two sends of a host, or once it is cancelled.
Free == main # "cancels" /\ \A a \in Agent : host[a].cmd # "reports"

\* Mutant: the failure is only written to the log file.
Caught_Silently(a) == [host EXCEPT ![a] = Idle]
\* except Exception: the failure is going to be reported.
Caught(a) == [host EXCEPT ![a].cmd = "reports"]

\* Mutant: the report of a failure is sent unprotected.
Unreported_Raises == Failed
\* contextlib.suppress around the second report: the host sleeps as usual.
Unreported == Idle

\* A task of main that has ended, by itself or by an exception.
Stopped == {Over, Failed}
SomeoneEnded ==
  router \in Stopped \/ ingress # "runs" \/ \E a \in Agent : host[a] \in Stopped

\* Mutant: main waits for a failure only.
WakesMain_Errors ==
  router = Failed \/ ingress = "raised" \/ \E a \in Agent : host[a] = Failed
\* asyncio.wait(..., FIRST_COMPLETED)
WakesMain == SomeoneEnded

(***************************************************************************)
(* optional_stdin_ingress, and the agents that write to the Orchestrator.  *)
(***************************************************************************)
\* A line of the user; the RuntimeError of a full mailbox is not caught.
Ask ==
  /\ Free /\ ingress = "runs" /\ asked < MaxTasks
  /\ asked' = asked + 1
  /\ IF Room(orchestrator)
     THEN /\ orchestrator' = Append(orchestrator, [cmd |-> "task", task |-> asked + 1])
          /\ UNCHANGED ingress
     ELSE ingress' = "raised" /\ UNCHANGED orchestrator
  /\ UNCHANGED <<world, inbox, router, host, main, raised, log>>

\* End of file, or of the dashboard, or SIGINT.
Quit ==
  /\ Free /\ ingress = "runs" /\ ingress' = "over"
  /\ UNCHANGED <<world, orchestrator, inbox, router, host, main, raised, asked, log>>

\* Bound of the model: another agent writes only when nothing else waits for the
\* router.
Noise ==
  /\ Free /\ main = "waits" /\ orchestrator = <<>>
  /\ \E cmd \in world.noise :
       orchestrator' = Append(orchestrator, [cmd |-> cmd, task |-> 0])
  /\ UNCHANGED <<world, inbox, router, host, ingress, main, raised, asked, log>>

(***************************************************************************)
(* The bus: it hands a message to the coroutine that waits for one, or to  *)
(* a receive that nobody waits for any more.                               *)
(***************************************************************************)
RouterReceives ==
  /\ router = Idle /\ orchestrator # <<>>
  /\ router' = Head(orchestrator) /\ orchestrator' = Tail(orchestrator)
  /\ UNCHANGED <<world, inbox, host, ingress, main, raised, asked, log>>

HostReceives(a) ==
  /\ host[a] = Idle /\ inbox[a] # <<>>
  /\ host' = [host EXCEPT ![a] = [cmd |-> "works", task |-> Head(inbox[a])]]
  /\ inbox' = [inbox EXCEPT ![a] = Tail(@)]
  /\ UNCHANGED <<world, orchestrator, router, ingress, main, raised, asked, log>>

BusLoses ==
  /\ world.lossy
  /\ \/ /\ orchestrator # <<>> /\ orchestrator' = Tail(orchestrator)
        /\ UNCHANGED inbox
     \/ \E a \in Agent :
          /\ inbox[a] # <<>> /\ inbox' = [inbox EXCEPT ![a] = Tail(@)]
          /\ UNCHANGED orchestrator
  /\ UNCHANGED <<world, router, host, ingress, main, raised, asked, log>>

(***************************************************************************)
(* orchestration_router.                                                   *)
(***************************************************************************)
\* Reports are recorded, other commands ignored; get of a payload that is not
\* an object raises, outside of the try.
Record ==
  /\ Free /\ router.cmd \in {"done", "failed", "ignored", "broken"}
  /\ log' = IF router.cmd \in {"done", "failed"} THEN Append(log, router) ELSE log
  /\ router' = IF router.cmd = "broken" THEN Failed ELSE Idle
  /\ UNCHANGED <<world, orchestrator, inbox, host, ingress, main, raised, asked>>

\* Mutant: a message is routed again when the router comes back to it.
Forwarded_Kept == router
Forwarded == Idle

\* So does the send to a host whose mailbox is full.
RouteTask ==
  /\ Free /\ router.cmd = "task"
  /\ LET a == Target[router.task] IN
     IF Room(inbox[a])
     THEN /\ inbox' = [inbox EXCEPT ![a] = Append(@, router.task)]
          /\ router' = Forwarded
     ELSE router' = Failed /\ UNCHANGED inbox
  /\ UNCHANGED <<world, orchestrator, host, ingress, main, raised, asked, log>>

(***************************************************************************)
(* universal_agent_host: the answer of the model arrives, its code blocks  *)
(* are compiled and run, and the Orchestrator is told.                     *)
(***************************************************************************)
Completes(a) ==
  /\ Free /\ host[a].cmd = "works"
  /\ IF Room(orchestrator)
     THEN /\ orchestrator' = Append(orchestrator, [cmd |-> "done", task |-> host[a].task])
          /\ host' = [host EXCEPT ![a] = Idle]
     ELSE host' = Caught(a) /\ UNCHANGED orchestrator
  /\ UNCHANGED <<world, inbox, router, ingress, main, raised, asked, log>>

\* The model, the compiler or the sandbox raises, or there is no code.
Fails(a) ==
  /\ Free /\ host[a].cmd = "works"
  /\ host' = Caught(a)
  /\ UNCHANGED <<world, orchestrator, inbox, router, ingress, main, raised,
                 asked, log>>

\* The except clause: a failure is reported, if there is room for it by now.
Reports(a) ==
  /\ host[a].cmd = "reports"
  /\ IF Room(orchestrator)
     THEN /\ orchestrator' = Append(orchestrator, [cmd |-> "failed", task |-> host[a].task])
          /\ host' = [host EXCEPT ![a] = Idle]
     ELSE host' = [host EXCEPT ![a] = Unreported] /\ UNCHANGED orchestrator
  /\ UNCHANGED <<world, inbox, router, ingress, main, raised, asked, log>>

(***************************************************************************)
(* main.                                                                   *)
(***************************************************************************)
\* It raises the exception of a task that is done, sets the stop event, shuts
\* the kernel down and cancels every task; what fails from now on is gathered.
MainWakes ==
  /\ Free /\ main = "waits" /\ WakesMain
  /\ main' = "cancels"
  /\ raised' = (router = Failed \/ ingress = "raised" \/ \E a \in Agent : host[a] = Failed)
  /\ UNCHANGED <<world, orchestrator, inbox, router, host, ingress, asked, log>>

\* The tasks are cancelled where they are suspended, and the mailboxes drained.
MainEnds ==
  /\ main = "cancels" /\ main' = "over"
  /\ router' = IF router = Failed THEN Failed ELSE Over
  /\ host' = [a \in Agent |-> IF host[a] = Failed THEN Failed ELSE Over]
  /\ ingress' = IF ingress = "runs" THEN "over" ELSE ingress
  /\ orchestrator' = <<>> /\ inbox' = [a \in Agent |-> <<>>]
  /\ UNCHANGED <<world, raised, asked, log>>

Next ==
  \/ Ask \/ Quit \/ Noise
  \/ RouterReceives \/ BusLoses \/ Record \/ RouteTask
  \/ \E a \in Agent : HostReceives(a) \/ Completes(a) \/ Fails(a) \/ Reports(a)
  \/ MainWakes \/ MainEnds

\* The event loop and the bus's threads run; calls of the model end or raise.
Fairness ==
  /\ WF_vars(RouterReceives) /\ WF_vars(Record) /\ WF_vars(RouteTask)
  /\ WF_vars(MainWakes) /\ WF_vars(MainEnds)
  /\ \A a \in Agent : WF_vars(HostReceives(a)) /\ WF_vars(Completes(a) \/ Fails(a))
                      /\ WF_vars(Reports(a))
Spec == Init /\ [][Next]_vars /\ Fairness

(***************************************************************************)
(* Properties.                                                             *)
(***************************************************************************)
\* The values a run may hold; mailboxes keep to their size.
TypeOK ==
  /\ world \in Worlds
  /\ \A i \in DOMAIN orchestrator : orchestrator[i] \in Message
  /\ Len(orchestrator) <= world.size
  /\ \A a \in Agent :
       /\ Len(inbox[a]) <= world.size
       /\ \A i \in DOMAIN inbox[a] : inbox[a][i] \in Task
       /\ host[a] \in {Idle, Over, Failed} \cup [cmd : {"works", "reports"}, task : Task]
  /\ router \in {Idle, Over, Failed} \cup Message
  /\ ingress \in {"runs", "over", "raised"} /\ main \in {"waits", "cancels", "over"}
  /\ raised \in BOOLEAN /\ asked \in 0 .. MaxTasks
  /\ \A i \in DOMAIN log : log[i] \in Message

\* Where a task is: waiting for the router or with it, waiting for a host or
\* with it, or in a report.
Places(t) ==
  Cardinality({i \in DOMAIN orchestrator : orchestrator[i].task = t})
  + (IF router.task = t THEN 1 ELSE 0)
  + Cardinality({p \in Agent \X (1 .. world.size) :
                   p[2] \in DOMAIN inbox[p[1]] /\ inbox[p[1]][p[2]] = t})
  + Cardinality({a \in Agent : host[a].task = t})
  + Cardinality({i \in DOMAIN log : log[i].task = t})

\* A request is worked on once and reported once, whatever fails on the way.  (A
\* task that was completed may be reported failed, when the first report found
\* the mailbox full.)
TasksAreHandledOnce == \A t \in Task : Places(t) <= 1

\* Mailboxes keep to their size, and no task is in two places.
TasksAreAccounted == TypeOK /\ TasksAreHandledOnce

\* Hosts survive every failure of theirs: they end when main ends.
HostsSurvive == \A a \in Agent : host[a] \in Stopped => main = "over"

\* Where mailboxes have room and lose nothing, every request of the user is
\* reported, unless the system is stopped or broken by a message.
RequestsAreReported ==
  \A t \in Task :
    (asked >= t /\ world.size > MaxTasks + 1 /\ ~world.lossy) ~>
      (main # "waits" \/ \E i \in DOMAIN log : log[i].task = t)

\* The first task to end takes all others with it.
EndsTogether == SomeoneEnded ~> (main = "over")
=============================================================================
