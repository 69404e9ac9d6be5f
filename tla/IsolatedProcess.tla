-------------------------- MODULE IsolatedProcess --------------------------
(***************************************************************************)
(* One agent in a process of its own: _run_path_isolated, _monitor_child,  *)
(* _bridge_child_ipc and kill of ProcessRegistry (kernel/process.py) on    *)
(* the side of the host, run_child and IsolatedBus                         *)
(* (kernel/process_runner.py) on the side of the child, and the four       *)
(* multiprocessing queues between them.                                    *)
(*                                                                         *)
(* The child runs in parallel with the host, so it takes steps between any *)
(* two of the host's.  A put into a queue counts from when it can be read. *)
(* One caller kills the process; module ProcessRegistry has the            *)
(* supervisors and concurrent kills.                                       *)
(***************************************************************************)
EXTENDS Naturals, Sequences, SequencesExt

CONSTANTS
  Sizes,         \* values of mailbox_size looked at
  BreakingSets,  \* and sets of messages of the child that parse_message breaks on
  \* Bounds of the model:
  MaxSent,       \* messages of the child
  MaxArrivals    \* messages for it

ASSUME SizeAssumption == Sizes \subseteq Nat \ {0}
ASSUME BoundAssumption == MaxSent \in Nat /\ MaxArrivals \in Nat

VARIABLES
  setup,     \* mailbox_size, whether it has a supervisor, the breaking messages
  child,     \* phase and exit code of the operating system's process, and
             \* whether run_child has caught an exception
  status, inbox, outbox,   \* the queues; shutdown_queue is stop
  stop,
  sent,      \* number of messages the child has put into outbox
  start,     \* where _run_path_isolated is
  state,     \* of the record, "none" while it is not in _records
  monitor,   \* where _monitor_child is
  mailbox,   \* of the host's bus: messages are numbered as they arrive
  arrived, forwarded,  \* their number, and those that were put into inbox
  routed,    \* messages of the child handed to route_ipc_message
  killer,    \* where kill is
  replaced   \* who has asked for a replacement of the process

vars == <<setup, child, status, inbox, outbox, stop, sent, start, state,
          monitor, mailbox, arrived, forwarded, routed, killer, replaced>>
host == <<start, state, monitor, mailbox, arrived, forwarded, routed, killer,
          replaced, stop>>

Message == 1 .. MaxSent
Ended == {"CRASHED", "EXITED"}

Init ==
  /\ setup \in [size : Sizes, supervised : BOOLEAN, breaking : BreakingSets]
  /\ child = [phase |-> "loading", code |-> 0, raised |-> FALSE]
  /\ status = <<>> /\ inbox = <<>> /\ outbox = <<>> /\ stop = FALSE /\ sent = 0
  /\ start = "waits" /\ state = "none" /\ monitor = "none"
  /\ mailbox = <<>> /\ arrived = 0 /\ forwarded = <<>> /\ routed = <<>>
  /\ killer = "none" /\ replaced = <<>>

(***************************************************************************)
(* The child.                                                              *)
(***************************************************************************)
Tells(type, phase, raised) ==
  /\ status' = Append(status, type)
  /\ child' = [child EXCEPT !.phase = phase, !.raised = raised]
  /\ UNCHANGED <<setup, inbox, outbox, sent, host>>

ChildReady == child.phase = "loading" /\ Tells("ready", "running", FALSE)

\* run_child catches everything: the exit code is 0 after a crash, too.
ChildRaises ==
  child.phase \in {"loading", "running"} /\ Tells("crashed", "ended", TRUE)
ChildReturns == child.phase = "running" /\ Tells("exited", "ended", FALSE)

\* IsolatedBus: send_message raises when outbox is full, and so may the agent.
ChildSends ==
  /\ child.phase = "running" /\ sent < MaxSent /\ Len(outbox) < setup.size
  /\ sent' = sent + 1 /\ outbox' = Append(outbox, sent + 1)
  /\ UNCHANGED <<setup, child, status, inbox, host>>
ChildReceives ==
  /\ child.phase = "running" /\ inbox # <<>> /\ inbox' = Tail(inbox)
  /\ UNCHANGED <<setup, child, status, outbox, sent, host>>

\* The interpreter flushes the queues and exits; or something ends it.
ChildDies ==
  /\ child.phase # "dead"
  /\ \E code \in IF child.phase = "ended" THEN {0, 1} ELSE {1} :
       child' = [child EXCEPT !.phase = "dead", !.code = code]
  /\ UNCHANGED <<setup, status, inbox, outbox, sent, host>>

Child == ChildReady \/ ChildRaises \/ ChildReturns \/ ChildSends
         \/ ChildReceives \/ ChildDies

(***************************************************************************)
(* Definitions used by the steps of the host.                              *)
(***************************************************************************)
\* join(timeout) may end with the child alive.
JoinTimesOut == TRUE

\* child.terminate, and the join after it.
Terminated ==
  IF child.phase = "dead" THEN child ELSE [child EXCEPT !.phase = "dead", !.code = 1]

\* _stop_child, and the same in kill, after the stop was put into the queue.
Joined == /\ child.phase = "dead" \/ JoinTimesOut
          /\ child' = Terminated

\* Mutant: the loop goes on while the process is being stopped.
Watches_Stopping == state \in {"RUNNING", "STOPPING"}
\* The condition of the loop of _monitor_child.
Watches == state = "RUNNING"

\* Mutant: the monitor relies on the status queue.
Gone_Never == FALSE
\* not child.is_alive()
Gone == child.phase = "dead"

\* The exit code of a child that has said nothing.
Verdict == IF child.code = 0 THEN "EXITED" ELSE "CRASHED"

\* Mutant: whatever the child reports, it has exited.
Reported_Exited(type) == "EXITED"
Reported(type) == IF type = "crashed" THEN "CRASHED" ELSE "EXITED"

\* child_inbox.put_nowait
Fits == Len(inbox) < setup.size

\* The messages of the outbox up to the first that breaks the bridge.
Sound == LET bad == {i \in DOMAIN outbox : outbox[i] \in setup.breaking} IN
         IF bad = {} THEN outbox
         ELSE SubSeq(outbox, 1, (CHOOSE i \in bad : \A j \in bad : i <= j) - 1)
\* Mutant: everything is parsed before anything is routed.
Routable_Batch == IF Sound = outbox THEN outbox ELSE <<>>
Routable == Sound

(***************************************************************************)
(* _run_path_isolated.                                                     *)
(***************************************************************************)
Registers ==
  /\ start = "waits" /\ status # <<>> /\ Head(status) = "ready"
  /\ status' = Tail(status)
  /\ start' = "done" /\ state' = "RUNNING" /\ monitor' = "polls"
  /\ UNCHANGED <<setup, child, inbox, outbox, stop, sent, mailbox, arrived,
                 forwarded, routed, killer, replaced>>

\* The child is not ready in time; or it is, with metadata that are refused, a
\* name that has been taken or a supervisor that has ended; or it has crashed.
StartFails ==
  /\ start = "waits"
  /\ \/ status = <<>> /\ start' = "stops" /\ UNCHANGED status
     \/ /\ status # <<>> /\ status' = Tail(status)
        /\ start' = IF Head(status) = "crashed" THEN "buries" ELSE "stops"
  /\ stop' = TRUE
  /\ UNCHANGED <<setup, child, inbox, outbox, sent, state, monitor, mailbox,
                 arrived, forwarded, routed, killer, replaced>>

\* _stop_child; the record of a crashed child is kept for its supervisor, if
\* that still runs.
StartGivenUp ==
  /\ start \in {"stops", "buries"} /\ Joined
  /\ start' = "done"
  /\ \/ /\ start = "buries" /\ setup.supervised
        /\ state' = "CRASHED" /\ replaced' = Append(replaced, "start")
     \/ state' = "none" /\ UNCHANGED replaced
  /\ UNCHANGED <<setup, status, inbox, outbox, stop, sent, monitor, mailbox,
                 arrived, forwarded, routed, killer>>

\* The application shuts down: no handler of _run_path_isolated runs.
StartCancelled ==
  /\ start \in {"waits", "stops", "buries"} /\ start' = "cancelled"
  /\ UNCHANGED <<setup, child, status, inbox, outbox, stop, sent, state,
                 monitor, mailbox, arrived, forwarded, routed, killer, replaced>>

(***************************************************************************)
(* _monitor_child and _bridge_child_ipc.  The monitor is polling the       *)
(* status, waiting for a message of the bus, looking after the child       *)
(* (with no suspension since that message), asleep, or waiting for the     *)
(* lock to clean up.                                                       *)
(***************************************************************************)
MonitorPolls ==
  /\ monitor = "polls"
  /\ IF ~Watches THEN monitor' = "over" /\ UNCHANGED <<state, status>>
     ELSE IF status = <<>> THEN monitor' = "bridges" /\ UNCHANGED <<state, status>>
     ELSE /\ status' = Tail(status)
          /\ monitor' = "cleans"
          /\ state' = Reported(Head(status))
  /\ UNCHANGED <<setup, child, inbox, outbox, stop, sent, start, mailbox,
                 arrived, forwarded, routed, killer, replaced>>

\* A message for the child, or none within 0.01 s; and all of its messages.
\* What is neither caught nor routed ends the task, and the record stays.
MonitorBridges ==
  /\ monitor = "bridges"
  /\ IF mailbox # <<>>
     THEN /\ mailbox' = Tail(mailbox)
          /\ IF Fits THEN /\ inbox' = Append(inbox, Head(mailbox))
                          /\ forwarded' = Append(forwarded, Head(mailbox))
             ELSE UNCHANGED <<inbox, forwarded>>
     ELSE UNCHANGED <<mailbox, inbox, forwarded>>
  /\ routed' = routed \o Routable
  /\ IF Sound = outbox THEN outbox' = <<>> /\ monitor' = "looks"
     ELSE /\ outbox' = SubSeq(outbox, Len(Sound) + 2, Len(outbox))
          /\ monitor' = "broken"
  /\ UNCHANGED <<setup, child, status, stop, sent, start, state, arrived,
                 killer, replaced>>

MonitorLooks ==
  /\ monitor = "looks"
  /\ IF Gone THEN /\ monitor' = IF Watches THEN "cleans" ELSE "over"
                  /\ state' = IF Watches THEN Verdict ELSE state
     ELSE monitor' = "sleeps" /\ UNCHANGED state
  /\ UNCHANGED <<setup, child, status, inbox, outbox, stop, sent, start,
                 mailbox, arrived, forwarded, routed, killer, replaced>>

MonitorWakes ==
  /\ monitor = "sleeps" /\ monitor' = "polls"
  /\ UNCHANGED <<setup, child, status, inbox, outbox, stop, sent, start, state,
                 mailbox, arrived, forwarded, routed, killer, replaced>>

\* _cleanup_locked and _handle_terminal_process.
MonitorCleans ==
  /\ monitor = "cleans" /\ monitor' = "over"
  /\ mailbox' = <<>>
  /\ replaced' = IF setup.supervised THEN Append(replaced, "monitor") ELSE replaced
  /\ UNCHANGED <<setup, child, status, inbox, outbox, stop, sent, start, state,
                 arrived, forwarded, routed, killer>>

Monitor == MonitorPolls \/ MonitorBridges \/ MonitorLooks \/ MonitorWakes
           \/ MonitorCleans

(***************************************************************************)
(* kill, and the other agents.                                             *)
(***************************************************************************)
KillAsks ==
  /\ killer = "none" /\ state = "RUNNING" /\ monitor # "looks"
  /\ killer' = "joins" /\ state' = "STOPPING" /\ stop' = TRUE
  /\ UNCHANGED <<setup, child, status, inbox, outbox, sent, start, monitor,
                 mailbox, arrived, forwarded, routed, replaced>>

\* The monitor is cancelled where it is suspended.
KillJoins ==
  /\ killer = "joins" /\ monitor # "looks" /\ Joined
  /\ killer' = "cleans" /\ monitor' = "over"
  /\ UNCHANGED <<setup, status, inbox, outbox, stop, sent, start, state,
                 mailbox, arrived, forwarded, routed, replaced>>

\* With the default auto_restart a supervised process is replaced.
KillCleans ==
  /\ killer = "cleans" /\ killer' = "done"
  /\ state' = "KILLED" /\ mailbox' = <<>>
  /\ \/ setup.supervised /\ replaced' = Append(replaced, "kill")
     \/ UNCHANGED replaced
  /\ UNCHANGED <<setup, child, status, inbox, outbox, stop, sent, start,
                 monitor, arrived, forwarded, routed>>

\* route_ipc_message to this process.
Arrive ==
  /\ state = "RUNNING" /\ monitor # "looks"
  /\ arrived < MaxArrivals /\ Len(mailbox) < setup.size
  /\ arrived' = arrived + 1 /\ mailbox' = Append(mailbox, arrived + 1)
  /\ UNCHANGED <<setup, child, status, inbox, outbox, stop, sent, start, state,
                 monitor, forwarded, routed, killer, replaced>>

Next ==
  \/ Child \/ Monitor
  \/ Registers \/ StartFails \/ StartGivenUp \/ StartCancelled
  \/ KillAsks \/ KillJoins \/ KillCleans \/ Arrive

\* The host's event loop turns and its timers fire.  The child owes nothing.
Fairness == WF_vars(Monitor) /\ WF_vars(KillJoins) /\ WF_vars(KillCleans)
Spec == Init /\ [][Next]_vars /\ Fairness

(***************************************************************************)
(* Properties.                                                             *)
(***************************************************************************)
\* The values a run may hold; queues keep to their size.
TypeOK ==
  /\ setup \in [size : Sizes, supervised : BOOLEAN, breaking : BreakingSets]
  /\ child \in [phase : {"loading", "running", "ended", "dead"}, code : {0, 1},
                raised : BOOLEAN]
  /\ \A i \in DOMAIN status : status[i] \in {"ready", "crashed", "exited"}
  /\ Len(inbox) <= setup.size /\ Len(outbox) <= setup.size
  /\ stop \in BOOLEAN /\ sent \in 0 .. MaxSent /\ arrived \in 0 .. MaxArrivals
  /\ start \in {"waits", "stops", "buries", "done", "cancelled"}
  /\ state \in {"none", "RUNNING", "STOPPING", "KILLED"} \cup Ended
  /\ monitor \in {"none", "polls", "bridges", "looks", "sleeps", "cleans",
                  "over", "broken"}
  /\ killer \in {"none", "joins", "cleans", "done"}

\* The bridge repeats and reorders nothing of what the child has sent, and loses
\* at most the one message that breaks it (what is in outbox when the monitor
\* ends stays there); the child gets its messages in the order they arrived.
MessagesAreKept ==
  LET kept == routed \o outbox
      lost == {m \in 1 .. sent : ~Contains(kept, m)}
  IN /\ lost \subseteq setup.breaking /\ \A m, n \in lost : m = n
     /\ \A i, j \in DOMAIN kept : i < j => kept[i] < kept[j]
     /\ \A i, j \in DOMAIN forwarded : i < j => forwarded[i] < forwarded[j]

\* The monitor, kill and a failed start together replace a process once.
OneReplacement == Len(replaced) <= 1

\* Once a process has been killed or its start has failed, its child is gone;
\* only a start that is cancelled leaves it behind.
ChildrenAreOwned ==
  state = "KILLED" \/ (start = "done" /\ state = "none") => child.phase = "dead"

\* Of a supervised child there is one process: it is replaced once, and the
\* child of a process that was given up is gone.
NoChildTooMany == TypeOK /\ OneReplacement /\ ChildrenAreOwned

\* No process is recorded as crashed whose child has ended well.
CrashesAreTrue ==
  state = "CRASHED" => child.raised \/ (child.phase = "dead" /\ child.code # 0)

\* An exception of the child is recorded as an exit only while its report of it
\* lies unread in the queue: the child has raised and ended between the
\* monitor's look into the queue and its look at the process, with exit code 0.
\* (docs/architecture.md says Crashed, and a transient process is not restarted.)
ExitsAreTrue == state = "EXITED" /\ child.raised => Contains(status, "crashed")

\* The state a process ends in tells how its child has ended.
EndsAreTrue == CrashesAreTrue /\ ExitsAreTrue

\* The record does not stay RUNNING when the child has ended, unless a message
\* has broken the monitor.  (list_processes would not notice either: it leaves
\* records that have a monitor task alone.)
EndIsNoticed ==
  (child.phase = "dead" /\ state = "RUNNING") ~>
    (state # "RUNNING" \/ monitor = "broken")

\* kill ends, whatever the child does.
KillEnds == (state = "STOPPING") ~> (state = "KILLED")

\* Whether the child ends or is made to end, the record of the process ends too.
ProcessesEnd == EndIsNoticed /\ KillEnds
=============================================================================
