--------------------------- MODULE ProcessRegistry ---------------------------
(***************************************************************************)
(* The process registry of Agent OS with its supervision trees             *)
(* (ProcessRegistry, kernel/process.py) for processes of the in-process    *)
(* mode: every agent is an asyncio task on the registry's event loop.      *)
(*                                                                         *)
(* A coroutine gives up the loop only where it suspends: in kill at the    *)
(* await of the task (and at sleep(0) after a restart), in the terminal    *)
(* handler at the backoff.  The registry's asyncio.Lock is never held      *)
(* across one of these points, so it never makes anybody wait and is left  *)
(* out.  `loop' is the coroutine that holds the loop; its calls of kill    *)
(* and of the terminal handler are the frames on its stack, innermost      *)
(* first.  The coroutines are the tasks of the processes, named by their   *)
(* pid, and the clients, which stand for whoever else calls the registry.  *)
(***************************************************************************)
EXTENDS Naturals, Sequences, FiniteSets

CONSTANTS
  Name,                \* process names; one script and one class each
  NoName, Client, Idle,
  \* Attributes of the AgentProcess classes and of their children:
  Strategy,            \* supervisor_strategy
  MaxRestarts,         \* max_restarts
  Backoff,             \* whether restart_backoff_seconds is positive
  ChildPolicy,         \* restart_policy given to spawn_child
  \* What the environment may do:
  Commands,            \* the methods the clients call
  Endings,             \* how run() may end unasked: "returns", "raises"
  StopMayFail,         \* run() may raise once it has been asked to stop
  WindowPasses,        \* restart_window_seconds may elapse between failures
  AdoptsSupervised,    \* monitor_child is called for somebody else's child
  ParentsMayBeStarting,\* children are attached before the parent has run
  Boot,                \* processes running initially, in the order of pids
  \* Bounds of the model:
  MaxPid, MaxCalls

None == 0
Pid == 1 .. MaxPid
Coroutine == Pid \cup Client
Policies == {"permanent", "transient", "temporary"}
Origins == {"caller", "kill", "handler"}

ASSUME BoundAssumption == MaxPid \in Nat /\ MaxCalls \in Nat
ASSUME NameAssumption == NoName \notin Name
ASSUME CoroutineAssumption == Client \cap Nat = {} /\ Idle \notin Nat \cup Client
ASSUME AttributeAssumption ==
  /\ Strategy \in [Name -> {"one_for_one", "one_for_all", "rest_for_one"}]
  /\ MaxRestarts \in [Name -> Nat \ {0}]
  /\ Backoff \in [Name -> BOOLEAN]
  /\ ChildPolicy \in [Name -> Policies]
ASSUME BootAssumption ==
  /\ Boot \in Seq([name : Name, parent : Pid \cup {None}, children : Seq(Pid)])
  /\ Len(Boot) <= MaxPid

VARIABLES
  records,    \* _records: a record for every pid that was ever allocated
  byName,     \* _by_name
  mailboxes,  \* the pid that registered the mailbox of a name on the bus
  nextPid,    \* _next_pid
  task,       \* record.task: where the asyncio task of a process is
  cancelled,  \* task.cancel() was called and CancelledError not yet raised
  loop,       \* the coroutine that holds the event loop, or Idle
  stack,      \* the frames of kill and _handle_terminal_process
  calls,      \* calls a client may still make
  \* History variables:
  origin,     \* why a process was started and in place of which
  contested   \* names a process of which was torn down twice at a time

registryVars == <<records, byName, mailboxes, nextPid>>
vars == <<registryVars, task, cancelled, loop, stack, calls, origin, contested>>

States == {"none", "starting", "running", "stopping",
           "exited", "crashed", "killed"}
Terminal == {"exited", "crashed", "killed"}
Record == [state : States, name : Name \cup {NoName}, policy : Policies,
           parent : Pid \cup {None}, children : Seq(Pid),
           resources : BOOLEAN, stop : BOOLEAN, history : Nat,
           escalated : BOOLEAN]
\* pid: the process to kill, or the one whose end is handled.  todo: children
\* to kill, then processes to restart.  flag: auto_restart; whether the
\* process had children.  aux: the task being cancelled; the supervisor.
Fields == [op : {"kill", "handle"}, pid : Pid,
           at : {"enter", "children", "cancel", "await", "tail",
                 "next", "backoff", "check", "restart"},
           todo : Seq(Pid), flag : BOOLEAN, aux : Pid \cup {None}]
Frame == {f \in Fields : f.at \in {"backoff", "check", "restart"} => f.todo # <<>>}

Members(s) == {s[i] : i \in 1 .. Len(s)}
IndexOf(s, x) == CHOOSE i \in 1 .. Len(s) : s[i] = x
\* Mutant: only a killed process counts as ended.
Active_NotKilled(p) == records[p].state \notin {"none", "killed"}

Active(p) == records[p].state \in {"starting", "running", "stopping"}
Live(p) == p # None /\ records[p].state \in {"starting", "running"}
Top(c) == Head(stack[c])
At(c, op, at) ==
  /\ stack[c] # <<>>
  /\ Top(c).op = op
  /\ Top(c).at = at
\* Somebody is past the guard of kill(p) and has not killed p yet.
BeingKilled(p) ==
  \E c \in Coroutine : \E i \in 1 .. Len(stack[c]) :
    /\ stack[c][i].op = "kill"
    /\ stack[c][i].pid = p
    /\ stack[c][i].at \notin {"enter", "tail"}

NewRecord(n, pol, par) ==
  [state |-> "starting", name |-> n, policy |-> pol, parent |-> par,
   children |-> <<>>, resources |-> TRUE, stop |-> FALSE, history |-> 0,
   escalated |-> FALSE]
NoRecord == [NewRecord(NoName, "permanent", None) EXCEPT
               !.state = "none", !.resources = FALSE]
NewKill(p, auto) ==
  [op |-> "kill", pid |-> p, at |-> "enter", todo |-> <<>>, flag |-> auto,
   aux |-> None]
NewHandler(p) ==
  [op |-> "handle", pid |-> p, at |-> "children",
   todo |-> records[p].children, flag |-> records[p].children # <<>>,
   aux |-> None]

\* Boot is a state run_path and spawn_child lead to: no name is taken twice, and
\* parents and lists of children tell the same tree.
ASSUME BootTreeAssumption ==
  \A p, q \in 1 .. Len(Boot) :
    /\ Boot[p].name = Boot[q].name => p = q
    /\ Boot[q].parent \in 0 .. Len(Boot)
    /\ q \in Members(Boot[p].children) <=> Boot[q].parent = p
    /\ Members(Boot[p].children) \subseteq 1 .. Len(Boot)
    /\ \A i, j \in 1 .. Len(Boot[p].children) :
         Boot[p].children[i] = Boot[p].children[j] => i = j

Booted(p) == p <= Len(Boot)
\* The registry at work: the processes of Boot have been started and run.
\* With an empty Boot this is ProcessRegistry.__init__.
Init ==
  /\ records = [p \in Pid |->
       IF Booted(p)
       THEN [NewRecord(Boot[p].name,
                       IF Boot[p].parent = None THEN "permanent"
                                                ELSE ChildPolicy[Boot[p].name],
                       Boot[p].parent) EXCEPT
               !.state = "running", !.children = Boot[p].children]
       ELSE NoRecord]
  /\ byName = [n \in Name |->
       IF \E p \in Pid : Booted(p) /\ Boot[p].name = n
       THEN CHOOSE p \in Pid : Booted(p) /\ Boot[p].name = n
       ELSE None]
  /\ mailboxes = byName
  /\ nextPid = Len(Boot) + 1
  /\ task = [p \in Pid |-> IF Booted(p) THEN "body" ELSE "none"]
  /\ cancelled = [p \in Pid |-> FALSE]
  /\ loop = Idle
  /\ stack = [c \in Coroutine |-> <<>>]
  /\ calls = [c \in Client |-> MaxCalls]
  /\ origin = [p \in Pid |-> [replaces |-> None, under |-> None, by |-> "caller"]]
  /\ contested = {}

(***************************************************************************)
(* Helpers that run under the lock, as functions of the records r.         *)
(***************************************************************************)
Without(s, x) ==
  IF x \in Members(s)
  THEN SubSeq(s, 1, IndexOf(s, x) - 1) \o SubSeq(s, IndexOf(s, x) + 1, Len(s))
  ELSE s

Unlinked(r, p) ==
  IF r[p].parent = None THEN r
  ELSE [r EXCEPT ![r[p].parent].children = Without(@, p), ![p].parent = None]

\* Mutants: a restarted process never enters the list; a new child does not.
Linked_OnlyAppends(r, par, old, q) ==
  IF par = None \/ old # None THEN r
  ELSE [r EXCEPT ![par].children = Append(@, q)]

\* The new process q takes the place of old in its supervisor's list.
Linked(r, par, old, q) ==
  IF par = None THEN r
  ELSE [r EXCEPT ![par].children =
          IF old \in Members(@) THEN [@ EXCEPT ![IndexOf(@, old)] = q]
                                ELSE Append(@, q)]

Cleaned(r, p) == [r EXCEPT ![p].resources = FALSE]
NamesAfterCleanup(p) == [byName EXCEPT ![records[p].name] = None]
\* Mutant: the mailbox is not unregistered.
MailboxesAfterCleanup_None(p) == mailboxes

MailboxesAfterCleanup(p) ==
  IF records[p].resources THEN [mailboxes EXCEPT ![records[p].name] = None]
                          ELSE mailboxes

Launchable(names, boxes, n) == names[n] = None /\ boxes[n] = None

\* Mutant: the pid is not counted up.
Launch_KeepsPid(r, names, boxes, n, pol, par, old, by) ==
  /\ Launchable(names, boxes, n)
  /\ nextPid <= MaxPid
  /\ records' = Linked([r EXCEPT ![nextPid] = NewRecord(n, pol, par)],
                       par, old, nextPid)
  /\ byName' = [names EXCEPT ![n] = nextPid]
  /\ mailboxes' = [boxes EXCEPT ![n] = nextPid]
  /\ task' = [task EXCEPT ![nextPid] = "created"]
  /\ UNCHANGED <<nextPid, origin>>

\* _run_path_in_process for the script of n, then the tail of _restart_child
\* when old # None.  The name may be in use; registering the mailbox may fail,
\* and the rollback then removes the mailbox of that name.
Launch(r, names, boxes, n, pol, par, old, by) ==
  \/ /\ names[n] # None
     /\ records' = r
     /\ byName' = names
     /\ mailboxes' = boxes
     /\ UNCHANGED <<nextPid, task, origin>>
  \/ /\ names[n] = None
     /\ boxes[n] # None
     /\ nextPid <= MaxPid
     /\ records' = r
     /\ byName' = names
     /\ mailboxes' = [boxes EXCEPT ![n] = None]
     /\ nextPid' = nextPid + 1
     /\ UNCHANGED <<task, origin>>
  \/ /\ Launchable(names, boxes, n)
     /\ nextPid <= MaxPid
     /\ records' = Linked([r EXCEPT ![nextPid] = NewRecord(n, pol, par)],
                          par, old, nextPid)
     /\ byName' = [names EXCEPT ![n] = nextPid]
     /\ mailboxes' = [boxes EXCEPT ![n] = nextPid]
     /\ task' = [task EXCEPT ![nextPid] = "created"]
     /\ origin' = [origin EXCEPT ![nextPid] =
                     [replaces |-> old, under |-> par, by |-> by]]
     /\ nextPid' = nextPid + 1

Goto(c, f) == stack' = [stack EXCEPT ![c] = <<f>> \o Tail(@)]
Call(c, f, g) == stack' = [stack EXCEPT ![c] = <<g, f>> \o Tail(@)]
Return(c) == stack' = [stack EXCEPT ![c] = Tail(@)]

(***************************************************************************)
(* The tasks of the processes: _run_process around AgentProcess.run.       *)
(***************************************************************************)
StartTask(p) ==
  /\ loop = Idle
  /\ task[p] = "created"
  /\ ~cancelled[p]
  /\ records' = [records EXCEPT ![p].state = "running"]
  /\ task' = [task EXCEPT ![p] = "body"]
  /\ UNCHANGED <<byName, mailboxes, nextPid, cancelled, loop, stack, calls,
                 origin, contested>>

\* Cancelled before its first step, the coroutine never runs.
TaskNeverRuns(p) ==
  /\ loop = Idle
  /\ task[p] = "created"
  /\ cancelled[p]
  /\ task' = [task EXCEPT ![p] = "done"]
  /\ cancelled' = [cancelled EXCEPT ![p] = FALSE]
  /\ UNCHANGED <<registryVars, loop, stack, calls, origin, contested>>

\* CancelledError leaves run(), or run() ends by itself while stopping.
BodyStops(p) ==
  /\ loop = Idle
  /\ task[p] = "body"
  /\ \/ cancelled[p]
     \/ records[p].stop /\ records[p].state = "stopping"
  /\ task' = [task EXCEPT ![p] = "done"]
  /\ cancelled' = [cancelled EXCEPT ![p] = FALSE]
  /\ UNCHANGED <<registryVars, loop, stack, calls, origin, contested>>

\* run() ends in a way _run_process calls terminal: the resources go and the
\* task goes on to handle its own end.
BodyEnds(p, end) ==
  /\ records' = [Cleaned(records, p) EXCEPT ![p].state = end]
  /\ byName' = NamesAfterCleanup(p)
  /\ mailboxes' = MailboxesAfterCleanup(p)
  /\ task' = [task EXCEPT ![p] = "handler"]
  /\ cancelled' = [cancelled EXCEPT ![p] = FALSE]
  /\ stack' = [stack EXCEPT ![p] = <<NewHandler(p)>>]
  /\ loop' = p
  /\ contested' = IF BeingKilled(p) THEN contested \cup {records[p].name}
                                    ELSE contested
  /\ UNCHANGED <<nextPid, calls, origin>>

BodyReturns(p) ==
  /\ loop = Idle
  /\ task[p] = "body"
  /\ ~cancelled[p]
  /\ "returns" \in Endings \/ records[p].stop
  /\ records[p].state # "stopping"
  /\ BodyEnds(p, "exited")

\* on_start, on_message or, when the process is asked to stop, on_stop raises.
BodyRaises(p) ==
  /\ loop = Idle
  /\ task[p] = "body"
  /\ "raises" \in Endings
  /\ records[p].stop => StopMayFail
  /\ BodyEnds(p, "crashed")

\* The coroutine that holds the loop has no call left: a task is done.
LoopFreed(c) ==
  /\ loop = c
  /\ stack[c] = <<>>
  /\ task' = IF c \in Pid THEN [task EXCEPT ![c] = "done"] ELSE task
  /\ loop' = Idle
  /\ UNCHANGED <<registryVars, cancelled, stack, calls, origin, contested>>

(***************************************************************************)
(* kill                                                                    *)
(***************************************************************************)
\* An unknown or terminal process: KeyError and RuntimeError end the call.
KillRefused(c) ==
  /\ loop = c
  /\ At(c, "kill", "enter")
  /\ ~Active(Top(c).pid)
  /\ Return(c)
  /\ UNCHANGED <<registryVars, task, cancelled, loop, calls, origin, contested>>

\* Mutants: a crashed or exited process may be killed; the children are not.
KillEnters_Ended(c) ==
  LET p == Top(c).pid
  IN /\ loop = c
     /\ At(c, "kill", "enter")
     /\ records[p].state \notin {"none", "killed"}
     /\ records' = [records EXCEPT ![p].state = "stopping", ![p].stop = TRUE]
     /\ Goto(c, [Top(c) EXCEPT !.at = "children", !.todo = records[p].children,
                               !.aux = p])
     /\ UNCHANGED <<byName, mailboxes, nextPid, task, cancelled, loop, calls,
                    origin, contested>>
KillEnters_ChildrenSpared(c) ==
  LET p == Top(c).pid
  IN /\ loop = c
     /\ At(c, "kill", "enter")
     /\ Active(p)
     /\ records' = [records EXCEPT ![p].state = "stopping", ![p].stop = TRUE]
     /\ Goto(c, [Top(c) EXCEPT !.at = "children", !.aux = p])
     /\ UNCHANGED <<byName, mailboxes, nextPid, task, cancelled, loop, calls,
                    origin, contested>>

KillEnters(c) ==
  LET p == Top(c).pid
  IN /\ loop = c
     /\ At(c, "kill", "enter")
     /\ Active(p)
     /\ records' = [records EXCEPT ![p].state = "stopping", ![p].stop = TRUE]
     /\ Goto(c, [Top(c) EXCEPT !.at = "children", !.todo = records[p].children,
                               !.aux = p])
     /\ contested' = IF BeingKilled(p) THEN contested \cup {records[p].name}
                                       ELSE contested
     /\ UNCHANGED <<byName, mailboxes, nextPid, task, cancelled, loop, calls,
                    origin>>

\* kill and _terminate_children_of_terminal_parent kill the children in turn.
KillsChild(c) ==
  /\ loop = c
  /\ stack[c] # <<>>
  /\ Top(c).at = "children"
  /\ Top(c).todo # <<>>
  /\ Call(c, [Top(c) EXCEPT !.todo = Tail(@)], NewKill(Head(Top(c).todo), FALSE))
  /\ UNCHANGED <<registryVars, task, cancelled, loop, calls, origin, contested>>

\* task.cancel() reaches, through the tasks that are waited for, the one that
\* is not itself waiting for a task.
KillCancels(c) ==
  LET u == Top(c).aux
      awaits == u \in Pid /\ At(u, "kill", "await")
  IN /\ loop = c
     /\ At(c, "kill", "children") \/ At(c, "kill", "cancel")
     /\ Top(c).at = "children" => Top(c).todo = <<>>
     /\ IF awaits
        THEN /\ Goto(c, [Top(c) EXCEPT !.at = "cancel", !.aux = Top(u).pid])
             /\ UNCHANGED <<cancelled, loop>>
        ELSE /\ Goto(c, [Top(c) EXCEPT !.at = "await"])
             /\ cancelled' = [cancelled EXCEPT ![u] = task[u] # "done"]
             /\ loop' = IF task[Top(c).pid] = "done" THEN c ELSE Idle
     /\ UNCHANGED <<registryVars, task, calls, origin, contested>>

\* The task is done: the process is killed, and restarted if its supervisor
\* lives.  An exception of _restart_child ends the call before the unlink.
KillFinishes(c) ==
  LET p == Top(c).pid
      n == records[p].name
      sup == records[p].parent
      r == [Cleaned(records, p) EXCEPT ![p].state = "killed",
                                       ![p].children = <<>>]
      names == NamesAfterCleanup(p)
      boxes == MailboxesAfterCleanup(p)
  IN /\ loop \in {c, Idle}
     /\ At(c, "kill", "await")
     /\ task[p] = "done"
     /\ IF Top(c).flag /\ Live(sup)
        THEN /\ Launch(r, names, boxes, n, records[p].policy, sup, p, "kill")
             /\ IF Launchable(names, boxes, n)
                THEN /\ Goto(c, [Top(c) EXCEPT !.at = "tail"])
                     /\ loop' = Idle
                ELSE /\ Return(c)
                     /\ loop' = c
        ELSE /\ records' = Unlinked(r, p)
             /\ byName' = names
             /\ mailboxes' = boxes
             /\ Return(c)
             /\ loop' = c
             /\ UNCHANGED <<nextPid, task, origin>>
     /\ UNCHANGED <<cancelled, calls, contested>>

\* After sleep(0): the replaced process leaves the tree.
KillUnlinks(c) ==
  /\ loop = Idle
  /\ At(c, "kill", "tail")
  /\ records' = Unlinked(records, Top(c).pid)
  /\ Return(c)
  /\ loop' = c
  /\ UNCHANGED <<byName, mailboxes, nextPid, task, cancelled, calls, origin,
                 contested>>

(***************************************************************************)
(* _handle_terminal_process, in the task of the process that has ended     *)
(***************************************************************************)
PolicyAllows(q, failed) ==
  \/ records[q].policy = "permanent"
  \/ records[q].policy = "transient" /\ records[failed].state = "crashed"

\* Mutant: only what was started after the failed child.
Affected_After(sup, p) ==
  LET list == records[sup].children
  IN IF p \notin Members(list) \/ Strategy[records[sup].name] = "one_for_one" THEN <<p>>
     ELSE SubSeq(list, IndexOf(list, p) + 1, Len(list))

Affected(sup, p) ==
  LET list == records[sup].children
      strategy == Strategy[records[sup].name]
  IN IF p \notin Members(list) \/ strategy = "one_for_one" THEN <<p>>
     ELSE IF strategy = "one_for_all" THEN list
     ELSE SubSeq(list, IndexOf(list, p), Len(list))

\* Candidates are kept in the list of the affected and skipped later.
Candidates(sup, p) ==
  {q \in Members(Affected(sup, p)) : PolicyAllows(q, p)}
\* Mutant: a failure counts once, however many restarts it causes.
Attempts_One(sup, p) == 1

Attempts(sup, p) == Cardinality(Candidates(sup, p))

\* Children the kills have left keep running without a parent.
Orphaned(p) ==
  [q \in Pid |->
     IF q = p THEN [records[q] EXCEPT !.children = <<>>]
     ELSE IF q \in Members(records[p].children)
          THEN [records[q] EXCEPT !.parent = None]
          ELSE records[q]]

HandlerDecides(c) ==
  LET sup == records[c].parent
      r == IF Top(c).flag THEN Orphaned(c) ELSE records
      n == Attempts(sup, c)
  IN /\ loop = c
     /\ At(c, "handle", "children")
     /\ Top(c).todo = <<>>
     /\ \/ /\ ~Live(sup)
           /\ records' = r
           /\ Return(c)
        \/ /\ Live(sup)
           /\ Candidates(sup, c) = {}
           /\ records' = Unlinked(r, c)
           /\ Return(c)
        \/ /\ Live(sup)
           /\ Candidates(sup, c) # {}
           /\ \E kept \in IF WindowPasses THEN 0 .. records[sup].history
                                          ELSE {records[sup].history} :
                IF kept + n > MaxRestarts[records[sup].name]
                THEN /\ records' = [Unlinked(r, c) EXCEPT ![sup].history = kept,
                                                          ![sup].escalated = TRUE]
                     /\ Return(c)
                ELSE /\ records' = [r EXCEPT ![sup].history = kept + n]
                     /\ Goto(c, [Top(c) EXCEPT !.at = "next", !.aux = sup,
                                               !.todo = Affected(sup, c)])
     /\ UNCHANGED <<byName, mailboxes, nextPid, task, cancelled, loop, calls,
                    origin, contested>>

HandlerNext(c) ==
  LET sup == Top(c).aux
  IN /\ loop = c
     /\ At(c, "handle", "next")
     /\ \/ /\ Top(c).todo = <<>>
           /\ Return(c)
           /\ UNCHANGED loop
        \/ /\ Top(c).todo # <<>>
           /\ ~PolicyAllows(Head(Top(c).todo), c)
           /\ Goto(c, [Top(c) EXCEPT !.todo = Tail(@)])
           /\ UNCHANGED loop
        \/ /\ Top(c).todo # <<>>
           /\ PolicyAllows(Head(Top(c).todo), c)
           /\ IF Backoff[records[sup].name]
              THEN /\ Goto(c, [Top(c) EXCEPT !.at = "backoff"])
                   /\ loop' = Idle
              ELSE /\ Goto(c, [Top(c) EXCEPT !.at = "check"])
                   /\ UNCHANGED loop
     /\ UNCHANGED <<registryVars, task, cancelled, calls, origin, contested>>

\* The backoff is over, or a second kill has cancelled the handler in it.
HandlerWakes(c) ==
  /\ loop = Idle
  /\ At(c, "handle", "backoff")
  /\ IF cancelled[c] THEN Return(c) ELSE Goto(c, [Top(c) EXCEPT !.at = "check"])
  /\ cancelled' = [cancelled EXCEPT ![c] = FALSE]
  /\ loop' = c
  /\ UNCHANGED <<registryVars, task, calls, origin, contested>>

\* `break', or the candidate is killed before it is started again.
HandlerChecks(c) ==
  LET q == Head(Top(c).todo)
      sup == Top(c).aux
  IN /\ loop = c
     /\ At(c, "handle", "check")
     /\ IF ~Live(sup) \/ records[q].parent # sup
        THEN Return(c)
        ELSE IF Active(q)
        THEN Call(c, [Top(c) EXCEPT !.at = "restart"], NewKill(q, FALSE))
        ELSE Goto(c, [Top(c) EXCEPT !.at = "restart"])
     /\ UNCHANGED <<registryVars, task, cancelled, loop, calls, origin,
                    contested>>

HandlerRestarts(c) ==
  LET q == Head(Top(c).todo)
      n == records[q].name
      sup == Top(c).aux
      ok == Launchable(byName, mailboxes, n)
  IN /\ loop = c
     /\ At(c, "handle", "restart")
     /\ IF ~Live(sup)
        THEN /\ Return(c)
             /\ UNCHANGED <<registryVars, task, origin>>
        ELSE /\ Launch(IF ok THEN records
                             ELSE [records EXCEPT ![sup].escalated = TRUE],
                       byName, mailboxes, n, records[q].policy, sup, q, "handler")
             /\ IF ok THEN Goto(c, [Top(c) EXCEPT !.at = "next", !.todo = Tail(@)])
                      ELSE Return(c)
     /\ UNCHANGED <<cancelled, loop, calls, contested>>

(***************************************************************************)
(* Calls of the clients                                                    *)
(***************************************************************************)
Calls(c, command) ==
  /\ loop = Idle
  /\ command \in Commands
  /\ stack[c] = <<>>
  /\ calls[c] > 0
  /\ calls' = [calls EXCEPT ![c] = @ - 1]

\* A call that fails because the name is in use changes nothing.
RunPath(c, n) ==
  /\ Calls(c, "run_path")
  /\ byName[n] = None
  /\ Launch(records, byName, mailboxes, n, "permanent", None, None, "caller")
  /\ UNCHANGED <<cancelled, loop, stack, contested>>

SpawnChild(c, par, n) ==
  /\ Calls(c, "spawn_child")
  /\ Live(par)
  /\ records[par].state = "running" \/ ParentsMayBeStarting
  /\ Launch(IF Launchable(byName, mailboxes, n) THEN records
            ELSE [records EXCEPT ![par].escalated = TRUE],
            byName, mailboxes, n, ChildPolicy[n], par, None, "caller")
  /\ UNCHANGED <<cancelled, loop, stack, contested>>

\* The callers keep the tree acyclic and attach only to a live parent.
MonitorChild(c, par, q) ==
  /\ Calls(c, "monitor_child")
  /\ Live(par)
  /\ records[par].state = "running" \/ ParentsMayBeStarting
  /\ Live(q)
  /\ q # par /\ records[q].children = <<>>
  /\ records[q].parent = None \/ AdoptsSupervised
  /\ records' = [records EXCEPT
       ![q].parent = par,
       ![par].children = IF q \in Members(@) THEN @ ELSE Append(@, q)]
  /\ UNCHANGED <<byName, mailboxes, nextPid, task, cancelled, loop, stack,
                 origin, contested>>

\* kill of the shell and of the dashboard, and terminate_child, which is a
\* kill when the process is in the caller's list.
Kill(c, p) ==
  /\ \/ Calls(c, "kill")
     \/ /\ Calls(c, "terminate_child")
        /\ \E par \in Pid : p \in Members(records[par].children)
  /\ stack' = [stack EXCEPT ![c] = <<NewKill(p, TRUE)>>]
  /\ loop' = c
  /\ UNCHANGED <<registryVars, task, cancelled, origin, contested>>

ClientStep ==
  \E c \in Client :
    \/ \E n \in Name : RunPath(c, n)
    \/ \E par \in Pid, n \in Name : SpawnChild(c, par, n)
    \/ \E par, q \in Pid : MonitorChild(c, par, q)
    \/ \E p \in Pid : Kill(c, p)

\* What the agents' own code does unasked.
AgentStep ==
  \E p \in Pid :
    \/ ~records[p].stop /\ BodyReturns(p)
    \/ BodyRaises(p)

\* An agent that is asked to stop does: its loop reads stop_event at every
\* turn, and CancelledError is raised at its next await.
TaskStep ==
  \E p \in Pid :
    \/ StartTask(p)
    \/ TaskNeverRuns(p)
    \/ BodyStops(p)
    \/ records[p].stop /\ BodyReturns(p)

CallStep ==
  \E c \in Coroutine :
    \/ LoopFreed(c)
    \/ KillRefused(c)
    \/ KillEnters(c)
    \/ KillsChild(c)
    \/ KillCancels(c)
    \/ KillFinishes(c)
    \/ KillUnlinks(c)

HandlerStep ==
  \E p \in Pid :
    \/ HandlerDecides(p)
    \/ HandlerNext(p)
    \/ HandlerWakes(p)
    \/ HandlerChecks(p)
    \/ HandlerRestarts(p)

Next == ClientStep \/ AgentStep \/ TaskStep \/ CallStep \/ HandlerStep

\* The event loop never rests while a coroutine is ready to run, and an agent
\* that has been cancelled comes to an end.
Fairness == WF_vars(TaskStep \/ CallStep \/ HandlerStep)

Spec == Init /\ [][Next]_vars
FairSpec == Spec /\ Fairness

(***************************************************************************)
(* Properties                                                              *)
(***************************************************************************)
\* Every variable keeps to its type, and only allocated pids have records.
TypeOK ==
  /\ records \in [Pid -> Record]
  /\ byName \in [Name -> Pid \cup {None}]
  /\ mailboxes \in [Name -> Pid \cup {None}]
  /\ nextPid \in 1 .. MaxPid + 1
  /\ \A p \in Pid : records[p].state # "none" => p < nextPid
  /\ task \in [Pid -> {"none", "created", "body", "handler", "done"}]
  /\ cancelled \in [Pid -> BOOLEAN]
  /\ loop \in Coroutine \cup {Idle}
  /\ stack \in [Coroutine -> Seq(Frame)]
  /\ calls \in [Client -> 0 .. MaxCalls]
  /\ origin \in [Pid -> [replaces : Pid \cup {None}, under : Pid \cup {None},
                         by : Origins]]
  /\ contested \subseteq Name \cup {NoName}

\* The indexes agree with the records: a process that has not ended is found
\* under its name and owns the mailbox messages for it are sent to, and a
\* mailbox belongs to such a process.  Names of which a process was torn down
\* by two coroutines at once are excepted: cleanup goes by name and forgets
\* whose name it is.
NamesFollowProcesses ==
  /\ \A p \in Pid :
       Active(p) /\ records[p].name \notin contested =>
         byName[records[p].name] = p /\ mailboxes[records[p].name] = p
  /\ \A n \in Name \ contested : mailboxes[n] # None =>
       Active(mailboxes[n]) /\ records[mailboxes[n]].name = n

\* parent_pid and child_pids are two views of one tree: a process that has not
\* ended is in the list of its parent and in no other.
TreeIsConsistent ==
  \A p, q \in Pid : Active(q) =>
    (q \in Members(records[p].children) <=> records[q].parent = p)

\* Termination cascades: a process outlives its supervisor only while the kill
\* or the terminal handler of the supervisor is still killing the children.
NoChildSurvives ==
  \A q \in Pid :
    LET p == records[q].parent
    IN Active(q) /\ p # None =>
         \/ Live(p)
         \/ \E c \in Coroutine : \E i \in 1 .. Len(stack[c]) :
              stack[c][i].pid = p /\ stack[c][i].at = "children"

\* The tree is the same from both sides, and ends with its root.
TreeIsKept == TreeIsConsistent /\ NoChildSurvives

\* Names, mailboxes and child lists lead to the processes that are there.
IndexesFollowProcesses == TreeIsConsistent /\ NamesFollowProcesses

\* Restarts by the terminal handler never start a temporary process again (a
\* kill does); while the window lasts they stay within the budget the
\* supervisor has recorded.
RestartsWithinBudget ==
  \A s \in Pid :
    LET restarts == {q \in Pid : origin[q].by = "handler" /\ origin[q].under = s}
    IN /\ \A q \in restarts : records[origin[q].replaces].policy # "temporary"
       /\ ~WindowPasses =>
            /\ Cardinality(restarts) <= records[s].history
            /\ records[s].name # NoName =>
                 records[s].history <= MaxRestarts[records[s].name]

\* A record that has reached a terminal state never becomes active again:
\* nothing but the kill in progress may still relabel it.
TerminalIsFinal ==
  [][\A p \in Pid : records[p].state \in Terminal =>
       records'[p].state \in {records[p].state, "killed"}]_vars

\* A permanent child that has ended is not forgotten: as long as a live
\* supervisor lists it, its end is being handled, a restart of it is pending,
\* or the supervisor has escalated.
PermanentChildrenAreAttended ==
  \A s \in Pid : Live(s) /\ ~records[s].escalated =>
    \A q \in Members(records[s].children) :
      \/ Active(q)
      \/ records[q].policy # "permanent"
      \/ task[q] = "handler"
      \/ \E c \in Coroutine : \E i \in 1 .. Len(stack[c]) :
           \/ q \in Members(stack[c][i].todo)
           \/ stack[c][i].op = "kill" /\ stack[c][i].pid = q

\* Every kill a client calls returns and every terminal handler comes to its
\* end, although they wait for the tasks they cancel and for each other.
CallsReturn ==
  \A c \in Coroutine : stack[c] # <<>> ~> stack[c] = <<>>

=============================================================================
