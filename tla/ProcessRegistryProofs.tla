------------------------ MODULE ProcessRegistryProofs ------------------------
(***************************************************************************)
(* Proofs about ProcessRegistry, for any tree of processes, any attributes *)
(* of their classes, any callers and any number of pids and calls: its     *)
(* types, that a process which has ended stays ended, that names and       *)
(* mailboxes lead to the processes that are there, that restarts stay      *)
(* within the budgets of the supervisors, and, with callers that attach    *)
(* only unsupervised children and only to processes that run, that the     *)
(* tree of processes is kept and permanent children are attended.          *)
(***************************************************************************)
EXTENDS ProcessRegistry, SequenceTheorems, FiniteSetTheorems, TLAPS

\* A task belongs to a process that was started, and one that has not come to
\* the end of run() to a process that has not ended.
TasksHaveProcesses ==
  \A p \in Pid :
    /\ task[p] # "none" => records[p].state # "none"
    /\ task[p] \in {"created", "body"} => Active(p)

\* The only task that holds the loop or waits in a call is one that handles
\* the end of its process.
HandlersHaveTasks ==
  \A p \in Pid : (loop = p \/ stack[p] # <<>>) => task[p] = "handler"

IInv == TypeOK /\ TasksHaveProcesses /\ HandlersHaveTasks

\* What a step may do to a process that has ended, as in TerminalIsFinal.
EndedStays ==
  \A p \in Pid : records[p].state \in Terminal =>
    records'[p].state \in {records[p].state, "killed"}

Names == Name \cup {NoName}
Records == [Pid -> Record]
Indexes == [Name -> Pid \cup {None}]
Stacks == [Coroutine -> Seq(Frame)]
Tasks == [Pid -> {"none", "created", "body", "handler", "done"}]
OriginRecords == [Pid -> [replaces : Pid \cup {None}, under : Pid \cup {None},
                          by : Origins]]
\* Only pids that were allocated have records in r.
Allocated(r) == \A p \in Pid : r[p].state # "none" => p < nextPid
SameStates(r, t) == \A p \in Pid : t[p].state = r[p].state

-----------------------------------------------------------------------------
(* Sequences of pids *)

\* The members of a list of pids are pids.
LEMMA MembersType ==
  ASSUME NEW s \in Seq(Pid) PROVE Members(s) \subseteq Pid
BY ElementOfSeq DEF Members

\* The index of a member is one of the list's, and holds the member.
LEMMA IndexOfMember ==
  ASSUME NEW s \in Seq(Pid), NEW x \in Members(s)
  PROVE  IndexOf(s, x) \in 1 .. Len(s) /\ s[IndexOf(s, x)] = x
<1>1. \E i \in 1 .. Len(s) : s[i] = x
  BY DEF Members
<1> QED
  BY <1>1 DEF IndexOf

\* Taking a member out of a list leaves a list.
LEMMA WithoutType ==
  ASSUME NEW s \in Seq(Pid), NEW x PROVE Without(s, x) \in Seq(Pid)
<1>1. CASE x \notin Members(s)
  BY <1>1 DEF Without
<1>2. CASE x \in Members(s)
  <2> DEFINE i == IndexOf(s, x)
  <2>1. i \in 1 .. Len(s) /\ Len(s) \in Nat
    BY <1>2, IndexOfMember, LenProperties
  <2>2. \A j \in 1 .. Len(s) : s[j] \in Pid
    BY ElementOfSeq
  <2> HIDE DEF i
  <2>3. i - 1 \in Int /\ i + 1 \in Int /\ Len(s) \in Int /\ 1 \in Int
    BY <2>1
  <2>4. (\A j \in 1 .. i - 1 : s[j] \in Pid) /\ (\A j \in i + 1 .. Len(s) : s[j] \in Pid)
    BY <2>1, <2>2
  <2>5. SubSeq(s, 1, i - 1) \in Seq(Pid)
    BY <2>3, <2>4, SubSeqProperties
  <2>6. SubSeq(s, i + 1, Len(s)) \in Seq(Pid)
    BY <2>3, <2>4, SubSeqProperties
  <2>7. SubSeq(s, 1, i - 1) \o SubSeq(s, i + 1, Len(s)) \in Seq(Pid)
    BY <2>5, <2>6, ConcatProperties
  <2> QED
    BY <1>2, <2>7 DEF Without, i
<1> QED
  BY <1>1, <1>2

\* Adding to a list, or replacing a member of it, leaves a list.
LEMMA ReplacedType ==
  ASSUME NEW s \in Seq(Pid), NEW old, NEW q \in Pid
  PROVE  (IF old \in Members(s) THEN [s EXCEPT ![IndexOf(s, old)] = q]
                                ELSE Append(s, q)) \in Seq(Pid)
<1>1. CASE old \in Members(s)
  BY <1>1, IndexOfMember, ExceptSeq
<1>2. CASE old \notin Members(s)
  BY <1>2
<1> QED
  BY <1>1, <1>2

-----------------------------------------------------------------------------
(* Records *)

\* Unlinking a process changes the shape of the tree, and no state.
LEMMA UnlinkedType ==
  ASSUME NEW r \in Records, NEW p \in Pid
  PROVE  Unlinked(r, p) \in Records /\ SameStates(r, Unlinked(r, p))
<1>1. CASE r[p].parent = None
  BY <1>1 DEF Unlinked, SameStates
<1>2. CASE r[p].parent # None
  <2> DEFINE par == r[p].parent
             list == Without(r[par].children, p)
             r1 == [r EXCEPT ![par].children = list]
  <2>1. par \in Pid
    BY <1>2 DEF Records, Record
  <2>2. r[par].children \in Seq(Pid)
    BY <2>1 DEF Records, Record
  <2>3. list \in Seq(Pid)
    BY <2>2, WithoutType
  <2> HIDE DEF list
  <2>4. r1 \in Records /\ SameStates(r, r1)
    BY ZenonT(60), <2>1, <2>3 DEF Records, Record, SameStates
  <2>5. Unlinked(r, p) = [r1 EXCEPT ![p].parent = None]
    BY <1>2 DEF Unlinked, list
  <2> HIDE DEF r1
  <2>6. None \in Pid \cup {None}
    OBVIOUS
  <2> QED
    BY ZenonT(60), <2>4, <2>5, <2>6 DEF Records, Record, SameStates
<1> QED
  BY <1>1, <1>2

\* Linking a process changes the list of its parent, and no state.
LEMMA LinkedType ==
  ASSUME NEW r \in Records, NEW par \in Pid \cup {None}, NEW old, NEW q \in Pid
  PROVE  Linked(r, par, old, q) \in Records /\ SameStates(r, Linked(r, par, old, q))
<1>1. CASE par = None
  BY <1>1 DEF Linked, SameStates
<1>2. CASE par # None
  <2> DEFINE s == r[par].children
             list == IF old \in Members(s) THEN [s EXCEPT ![IndexOf(s, old)] = q]
                                           ELSE Append(s, q)
  <2>1. par \in Pid
    BY <1>2
  <2>2. s \in Seq(Pid)
    BY <2>1 DEF Records, Record
  <2>3. list \in Seq(Pid)
    BY <2>2, ReplacedType
  <2>4. Linked(r, par, old, q) = [r EXCEPT ![par] = [r[par] EXCEPT !.children = list]]
    BY <1>2 DEF Linked
  <2> HIDE DEF list
  <2>5. r[par] \in Record
    BY <2>1 DEF Records
  <2>6. /\ [r[par] EXCEPT !.children = list] \in Record
        /\ [r[par] EXCEPT !.children = list].state = r[par].state
    BY <2>3, <2>5 DEF Record
  <2> QED
    BY <2>1, <2>4, <2>6 DEF Records, SameStates
<1> QED
  BY <1>1, <1>2

\* Releasing the resources of a process changes no state.
LEMMA CleanedType ==
  ASSUME NEW r \in Records, NEW p \in Pid
  PROVE  Cleaned(r, p) \in Records /\ SameStates(r, Cleaned(r, p))
BY DEF Cleaned, Records, Record, SameStates

\* Orphaning the children of a process changes no state.
LEMMA OrphanedType ==
  ASSUME records \in Records, NEW p \in Pid
  PROVE  Orphaned(p) \in Records /\ SameStates(records, Orphaned(p))
<1>1. <<>> \in Seq(Pid) /\ None \in Pid \cup {None}
  BY EmptySeq
<1> QED
  BY <1>1 DEF Orphaned, Records, Record, SameStates

\* The record of a new process.
LEMMA NewRecordType ==
  ASSUME NEW n \in Names, NEW pol \in Policies, NEW par \in Pid \cup {None}
  PROVE  NewRecord(n, pol, par) \in Record
<1>1. <<>> \in Seq(Pid)
  BY EmptySeq
<1> QED
  BY <1>1 DEF NewRecord, Record, States, Names

\* Giving up names and mailboxes by the name of a process keeps the indexes.
LEMMA CleanupTypes ==
  ASSUME byName \in Indexes, mailboxes \in Indexes, NEW p \in Pid
  PROVE  NamesAfterCleanup(p) \in Indexes /\ MailboxesAfterCleanup(p) \in Indexes
BY DEF NamesAfterCleanup, MailboxesAfterCleanup, Indexes

\* What Launch leaves behind: one new process at most, started, under the pid
\* that was next, and nothing else changes its state.
Launches(r) ==
  /\ records' \in Records
  /\ byName' \in Indexes
  /\ mailboxes' \in Indexes
  /\ nextPid' \in 1 .. MaxPid + 1
  /\ task' \in Tasks
  /\ origin' \in OriginRecords
  /\ Allocated(records)'
  /\ \A p \in Pid :
       \/ records'[p].state = r[p].state /\ task'[p] = task[p]
       \/ /\ p = nextPid
          /\ records'[p].state = "starting"
          /\ task'[p] = "created"

LEMMA LaunchType ==
  ASSUME TypeOK, NEW r \in Records, Allocated(r), NEW names \in Indexes,
         NEW boxes \in Indexes, NEW n \in Names, NEW pol \in Policies,
         NEW par \in Pid \cup {None}, NEW old \in Pid \cup {None},
         NEW by \in Origins, Launch(r, names, boxes, n, pol, par, old, by)
  PROVE  Launches(r)
<1>1. /\ nextPid \in 1 .. MaxPid + 1
      /\ task \in Tasks
      /\ origin \in OriginRecords
  BY DEF TypeOK, Tasks, OriginRecords
<1>2. CASE /\ records' = r
           /\ byName' = names
           /\ mailboxes' = boxes
           /\ UNCHANGED <<nextPid, task, origin>>
  BY <1>1, <1>2 DEF Launches, Allocated
<1>3. CASE /\ nextPid <= MaxPid
           /\ records' = r
           /\ byName' = names
           /\ mailboxes' = [boxes EXCEPT ![n] = None]
           /\ nextPid' = nextPid + 1
           /\ UNCHANGED <<task, origin>>
  <2>1. mailboxes' \in Indexes
    BY <1>3 DEF Indexes
  <2>2. nextPid' \in 1 .. MaxPid + 1
    BY <1>1, <1>3, BoundAssumption
  <2>3. Allocated(records)'
    BY <1>1, <1>3 DEF Allocated, Pid
  <2> QED
    BY <1>1, <1>3, <2>1, <2>2, <2>3 DEF Launches
<1>4. CASE /\ nextPid <= MaxPid
           /\ records' = Linked([r EXCEPT ![nextPid] = NewRecord(n, pol, par)],
                                par, old, nextPid)
           /\ byName' = [names EXCEPT ![n] = nextPid]
           /\ mailboxes' = [boxes EXCEPT ![n] = nextPid]
           /\ task' = [task EXCEPT ![nextPid] = "created"]
           /\ origin' = [origin EXCEPT ![nextPid] =
                           [replaces |-> old, under |-> par, by |-> by]]
           /\ nextPid' = nextPid + 1
  <2> DEFINE r1 == [r EXCEPT ![nextPid] = NewRecord(n, pol, par)]
  <2>1. nextPid \in Pid
    BY <1>1, <1>4 DEF Pid
  <2>2. NewRecord(n, pol, par) \in Record
    BY NewRecordType
  <2>3. NewRecord(n, pol, par).state = "starting"
    BY DEF NewRecord
  <2>4. /\ r1 \in Records
        /\ \A p \in Pid : r1[p].state = IF p = nextPid THEN "starting" ELSE r[p].state
    BY <2>1, <2>2, <2>3 DEF Records
  <2> HIDE DEF r1
  <2>5. Linked(r1, par, old, nextPid) \in Records /\ SameStates(r1, Linked(r1, par, old, nextPid))
    BY <2>1, <2>4, LinkedType
  <2>6. records' = Linked(r1, par, old, nextPid)
    BY <1>4 DEF r1
  <2>7. /\ records' \in Records
        /\ \A p \in Pid :
             records'[p].state = IF p = nextPid THEN "starting" ELSE r[p].state
    BY <2>4, <2>5, <2>6 DEF SameStates
  <2>8. byName' \in Indexes /\ mailboxes' \in Indexes
    BY <1>4, <2>1 DEF Indexes
  <2>9. nextPid' \in 1 .. MaxPid + 1
    BY <1>1, <1>4, BoundAssumption
  <2>10. task' \in Tasks /\ \A p \in Pid :
           task'[p] = IF p = nextPid THEN "created" ELSE task[p]
    BY <1>1, <1>4, <2>1 DEF Tasks
  <2>11. origin' \in OriginRecords
    BY <1>1, <1>4 DEF OriginRecords
  <2>12. Allocated(records)'
    <3>1. ASSUME NEW p \in Pid, records'[p].state # "none" PROVE p < nextPid'
      <4>1. p = nextPid \/ p < nextPid
        BY <2>7, <3>1 DEF Allocated
      <4>2. p \in Nat /\ nextPid \in Nat
        BY <1>1, BoundAssumption DEF Pid
      <4> QED
        BY <1>4, <4>1, <4>2
    <3> QED
      BY <3>1 DEF Allocated
  <2>13. \A p \in Pid :
           \/ records'[p].state = r[p].state /\ task'[p] = task[p]
           \/ /\ p = nextPid
              /\ records'[p].state = "starting"
              /\ task'[p] = "created"
    BY <2>7, <2>10
  <2> QED
    BY <2>7, <2>8, <2>9, <2>10, <2>11, <2>12, <2>13 DEF Launches
<1> QED
  BY <1>2, <1>3, <1>4 DEF Launch

-----------------------------------------------------------------------------
(* The stacks of the coroutines *)

\* The innermost call of a coroutine, and what is left when it returns.
LEMMA TopType ==
  ASSUME TypeOK, NEW c \in Coroutine, stack[c] # <<>>
  PROVE  Top(c) \in Frame /\ Tail(stack[c]) \in Seq(Frame)
<1>1. stack[c] \in Seq(Frame)
  BY DEF TypeOK
<1> QED
  BY <1>1, HeadTailProperties DEF Top

\* The coroutine c is in a call, and may make, change or end the innermost one.
InCall(c) ==
  /\ stack' \in Stacks
  /\ \A d \in Coroutine : d # c => stack'[d] = stack[d]

\* Changing the innermost call, making one from it and returning from it all
\* leave the calls of the other coroutines alone.
LEMMA GotoType ==
  ASSUME TypeOK, NEW c \in Coroutine, stack[c] # <<>>, NEW f \in Frame, Goto(c, f)
  PROVE  InCall(c)
<1>1. Tail(stack[c]) \in Seq(Frame)
  BY TopType
<1>2. <<f>> \in Seq(Frame)
  OBVIOUS
<1>3. <<f>> \o Tail(stack[c]) \in Seq(Frame)
  BY <1>1, <1>2, ConcatProperties
<1>4. stack' = [stack EXCEPT ![c] = <<f>> \o Tail(stack[c])]
  BY DEF Goto
<1>5. stack \in Stacks
  BY DEF TypeOK, Stacks
<1> QED
  BY <1>3, <1>4, <1>5 DEF InCall, Stacks

LEMMA CallType ==
  ASSUME TypeOK, NEW c \in Coroutine, stack[c] # <<>>, NEW f \in Frame,
         NEW g \in Frame, Call(c, f, g)
  PROVE  InCall(c)
<1>1. Tail(stack[c]) \in Seq(Frame)
  BY TopType
<1>2. <<g, f>> \in Seq(Frame)
  OBVIOUS
<1>3. <<g, f>> \o Tail(stack[c]) \in Seq(Frame)
  BY <1>1, <1>2, ConcatProperties
<1>4. stack' = [stack EXCEPT ![c] = <<g, f>> \o Tail(stack[c])]
  BY DEF Call
<1>5. stack \in Stacks
  BY DEF TypeOK, Stacks
<1> QED
  BY <1>3, <1>4, <1>5 DEF InCall, Stacks

LEMMA ReturnType ==
  ASSUME TypeOK, NEW c \in Coroutine, stack[c] # <<>>, Return(c)
  PROVE  InCall(c)
<1>1. Tail(stack[c]) \in Seq(Frame)
  BY TopType
<1>2. stack' = [stack EXCEPT ![c] = Tail(stack[c])]
  BY DEF Return
<1>3. stack \in Stacks
  BY DEF TypeOK, Stacks
<1> QED
  BY <1>1, <1>2, <1>3 DEF InCall, Stacks

\* The frames with which kill and the terminal handler begin.
LEMMA NewFrameTypes ==
  ASSUME TypeOK, NEW p \in Pid
  PROVE  /\ \A auto \in BOOLEAN : NewKill(p, auto) \in Frame
         /\ NewHandler(p) \in Frame
<1>1. <<>> \in Seq(Pid) /\ None \in Pid \cup {None}
  BY EmptySeq
<1>2. records[p].children \in Seq(Pid)
  BY DEF TypeOK, Record
<1>3. ASSUME NEW auto \in BOOLEAN PROVE NewKill(p, auto) \in Frame
  BY <1>1 DEF NewKill, Frame, Fields
<1>4. NewHandler(p) \in Frame
  BY <1>1, <1>2 DEF NewHandler, Frame, Fields
<1> QED
  BY <1>3, <1>4

-----------------------------------------------------------------------------
(* The invariant, in parts *)

RegistryTypes ==
  /\ records \in Records
  /\ byName \in Indexes
  /\ mailboxes \in Indexes
  /\ nextPid \in 1 .. MaxPid + 1
  /\ Allocated(records)

TaskTypes ==
  /\ task \in Tasks
  /\ cancelled \in [Pid -> BOOLEAN]
  /\ loop \in Coroutine \cup {Idle}
  /\ stack \in Stacks

OtherTypes ==
  /\ calls \in [Client -> 0 .. MaxCalls]
  /\ origin \in OriginRecords
  /\ contested \subseteq Names

LEMMA TypeParts == TypeOK <=> RegistryTypes /\ TaskTypes /\ OtherTypes
BY DEF TypeOK, RegistryTypes, TaskTypes, OtherTypes, Records, Indexes, Allocated,
       Tasks, Stacks, OriginRecords, Names

LEMMA TypePartsNext == TypeOK' <=> RegistryTypes' /\ TaskTypes' /\ OtherTypes'
BY DEF TypeOK, RegistryTypes, TaskTypes, OtherTypes, Records, Indexes, Allocated,
       Tasks, Stacks, OriginRecords, Names

\* A step that changes neither a task nor the state of a record.
LEMMA StatesKept ==
  ASSUME IInv, UNCHANGED task, SameStates(records, records')
  PROVE  TasksHaveProcesses' /\ EndedStays
BY DEF IInv, TasksHaveProcesses, EndedStays, SameStates, Active

\* A step that changes no record keeps the types of the registry.
LEMMA RegistryKept ==
  ASSUME TypeOK, UNCHANGED registryVars
  PROVE  RegistryTypes' /\ SameStates(records, records')
BY TypeParts DEF RegistryTypes, registryVars, Allocated, SameStates

\* A step that changes the records but no state keeps them allocated.
LEMMA RecordsKept ==
  ASSUME TypeOK, records' \in Records, SameStates(records, records'),
         UNCHANGED <<byName, mailboxes, nextPid>>
  PROVE  RegistryTypes'
BY TypeParts DEF RegistryTypes, Allocated, SameStates

\* A step of a coroutine in a call takes the loop, keeps it or gives it up.
LEMMA HandlersKept ==
  ASSUME IInv, NEW c \in Coroutine, stack[c] # <<>>, InCall(c),
         loop' \in {loop, c, Idle},
         \A p \in Pid : task[p] = "handler" => task'[p] = "handler"
  PROVE  HandlersHaveTasks'
<1> SUFFICES ASSUME NEW p \in Pid, loop' = p \/ stack'[p] # <<>>
             PROVE  task'[p] = "handler"
  BY DEF HandlersHaveTasks
<1>1. p \in Coroutine /\ p # Idle
  BY BoundAssumption, CoroutineAssumption DEF Coroutine, Pid
<1>2. loop = p \/ p = c \/ stack[p] # <<>>
  BY <1>1 DEF InCall
<1>3. loop = p \/ stack[p] # <<>>
  BY <1>2
<1> QED
  BY <1>3 DEF IInv, HandlersHaveTasks

\* What every step must do.
Keeps == IInv' /\ EndedStays

\* A step of the coroutine c in a call that leaves tasks and states alone.
LEMMA CallStepKeeps ==
  ASSUME IInv, NEW c \in Coroutine, stack[c] # <<>>, InCall(c),
         loop' \in {loop, c, Idle}, RegistryTypes', OtherTypes',
         cancelled' \in [Pid -> BOOLEAN],
         UNCHANGED task, SameStates(records, records')
  PROVE  Keeps
<1>1. HandlersHaveTasks'
  BY HandlersKept
<1>2. TasksHaveProcesses' /\ EndedStays
  BY StatesKept
<1>3. TaskTypes'
  BY TypeParts DEF IInv, TaskTypes, InCall
<1> QED
  BY <1>1, <1>2, <1>3, TypePartsNext DEF Keeps, IInv

-----------------------------------------------------------------------------
(* The tasks of the processes *)

LEMMA StartTaskKeeps ==
  ASSUME IInv, NEW p \in Pid, StartTask(p) PROVE Keeps
<1> USE DEF StartTask
<1>1. /\ records \in Records /\ task \in Tasks
      /\ records[p].state # "none"
      /\ records[p].state \notin Terminal
  BY TypeParts DEF IInv, RegistryTypes, TaskTypes, TasksHaveProcesses, Active, Terminal
<1>2. /\ records' \in Records
      /\ \A q \in Pid : records'[q].state = IF q = p THEN "running" ELSE records[q].state
  BY SMTT(60), <1>1 DEF Records, Record, States
<1>3. /\ task' \in Tasks
      /\ \A q \in Pid : task'[q] = IF q = p THEN "body" ELSE task[q]
  BY <1>1 DEF Tasks
<1>4. RegistryTypes'
  BY <1>1, <1>2, TypeParts DEF IInv, RegistryTypes, Allocated
<1>5. TaskTypes' /\ OtherTypes'
  BY <1>3, TypeParts DEF IInv, TaskTypes, OtherTypes
<1>6. TasksHaveProcesses'
  BY <1>2, <1>3 DEF IInv, TasksHaveProcesses, Active
<1>7. HandlersHaveTasks'
  BY <1>3 DEF IInv, HandlersHaveTasks
<1>8. EndedStays
  BY <1>1, <1>2 DEF EndedStays
<1> QED
  BY <1>4, <1>5, <1>6, <1>7, <1>8, TypePartsNext DEF Keeps, IInv

\* A task that has not handled the end of its process comes to its own end.
LEMMA TaskDoneKeeps ==
  ASSUME IInv, NEW p \in Pid, task[p] \in {"created", "body"},
         task' = [task EXCEPT ![p] = "done"],
         cancelled' = [cancelled EXCEPT ![p] = FALSE],
         UNCHANGED <<registryVars, loop, stack, calls, origin, contested>>
  PROVE  Keeps
<1>1. /\ task' \in Tasks
      /\ \A q \in Pid : task'[q] = IF q = p THEN "done" ELSE task[q]
  BY TypeParts DEF IInv, TaskTypes, Tasks
<1>2. RegistryTypes' /\ SameStates(records, records')
  BY RegistryKept DEF IInv
<1>3. TaskTypes' /\ OtherTypes'
  BY <1>1, TypeParts DEF IInv, TaskTypes, OtherTypes
<1>4. TasksHaveProcesses'
  BY <1>1, <1>2 DEF IInv, TasksHaveProcesses, SameStates, Active
<1>5. HandlersHaveTasks'
  BY <1>1 DEF IInv, HandlersHaveTasks
<1>6. EndedStays
  BY <1>2 DEF EndedStays, SameStates
<1> QED
  BY <1>2, <1>3, <1>4, <1>5, <1>6, TypePartsNext DEF Keeps, IInv

LEMMA TaskNeverRunsKeeps ==
  ASSUME IInv, NEW p \in Pid, TaskNeverRuns(p) PROVE Keeps
BY TaskDoneKeeps DEF TaskNeverRuns

LEMMA BodyStopsKeeps ==
  ASSUME IInv, NEW p \in Pid, BodyStops(p) PROVE Keeps
BY TaskDoneKeeps DEF BodyStops

LEMMA BodyEndsKeeps ==
  ASSUME IInv, NEW p \in Pid, task[p] = "body", NEW end \in {"exited", "crashed"},
         BodyEnds(p, end)
  PROVE  Keeps
<1> USE DEF BodyEnds
<1>1. /\ records \in Records /\ byName \in Indexes /\ mailboxes \in Indexes
      /\ task \in Tasks /\ stack \in Stacks
      /\ records[p].state # "none"
      /\ records[p].state \notin Terminal
      /\ records[p].name \in Names
  BY TypeParts DEF IInv, RegistryTypes, TaskTypes, TasksHaveProcesses, Active, Terminal,
                   Records, Record, Names
<1>2. Cleaned(records, p) \in Records /\ SameStates(records, Cleaned(records, p))
  BY <1>1, CleanedType
<1>3. /\ records' \in Records
      /\ \A q \in Pid : records'[q].state = IF q = p THEN end ELSE records[q].state
  BY ZenonT(60), <1>2 DEF Records, Record, States, SameStates
<1>4. /\ task' \in Tasks
      /\ \A q \in Pid : task'[q] = IF q = p THEN "handler" ELSE task[q]
  BY <1>1 DEF Tasks
<1>5. byName' \in Indexes /\ mailboxes' \in Indexes
  BY <1>1, CleanupTypes
<1>6. RegistryTypes'
  BY <1>1, <1>3, <1>5, TypeParts DEF IInv, RegistryTypes, Allocated
<1>7. /\ p \in Coroutine
      /\ stack' \in Stacks
      /\ \A q \in Pid : q # p => stack'[q] = stack[q]
  <2>1. <<NewHandler(p)>> \in Seq(Frame)
    BY NewFrameTypes DEF IInv
  <2> QED
    BY <1>1, <2>1 DEF Stacks, Coroutine
<1>8. TaskTypes'
  BY <1>4, <1>7, TypeParts DEF IInv, TaskTypes
<1>9. OtherTypes'
  BY <1>1, TypeParts DEF IInv, OtherTypes
<1>10. TasksHaveProcesses'
  BY <1>3, <1>4 DEF IInv, TasksHaveProcesses, Active
<1>11. HandlersHaveTasks'
  BY <1>4, <1>7 DEF IInv, HandlersHaveTasks
<1>12. EndedStays
  BY <1>1, <1>3 DEF EndedStays
<1> QED
  BY <1>6, <1>8, <1>9, <1>10, <1>11, <1>12, TypePartsNext DEF Keeps, IInv

LEMMA BodyReturnsKeeps ==
  ASSUME IInv, NEW p \in Pid, BodyReturns(p) PROVE Keeps
BY BodyEndsKeeps DEF BodyReturns

LEMMA BodyRaisesKeeps ==
  ASSUME IInv, NEW p \in Pid, BodyRaises(p) PROVE Keeps
BY BodyEndsKeeps DEF BodyRaises

LEMMA LoopFreedKeeps ==
  ASSUME IInv, NEW c \in Coroutine, LoopFreed(c) PROVE Keeps
<1> USE DEF LoopFreed
<1>1. RegistryTypes' /\ SameStates(records, records')
  BY RegistryKept DEF IInv
<1>2. /\ task' \in Tasks
      /\ \A q \in Pid : task'[q] = IF q = c THEN "done" ELSE task[q]
  BY TypeParts DEF IInv, TaskTypes, Tasks
<1>3. TaskTypes' /\ OtherTypes'
  BY <1>2, TypeParts DEF IInv, TaskTypes, OtherTypes
<1>4. c \in Pid => task[c] = "handler"
  BY DEF IInv, HandlersHaveTasks
<1>5. TasksHaveProcesses'
  BY <1>1, <1>2, <1>4 DEF IInv, TasksHaveProcesses, SameStates, Active
<1>6. HandlersHaveTasks'
  <2>1. \A q \in Pid : loop' # q
    BY CoroutineAssumption, BoundAssumption DEF Pid
  <2>2. \A q \in Pid : stack'[q] # <<>> => q # c
    OBVIOUS
  <2> QED
    BY <1>2, <2>1, <2>2 DEF IInv, HandlersHaveTasks
<1>7. EndedStays
  BY <1>1 DEF EndedStays, SameStates
<1> QED
  BY <1>1, <1>3, <1>5, <1>6, <1>7, TypePartsNext DEF Keeps, IInv

-----------------------------------------------------------------------------
(* kill *)

\* The records before a new process is started: as they were, but for
\* processes that were killed once their task was done.
TornDown(r) ==
  /\ r \in Records
  /\ \A p \in Pid :
       \/ r[p].state = records[p].state
       \/ r[p].state = "killed" /\ task[p] = "done"

LEMMA TornDownAllocated ==
  ASSUME IInv, NEW r, TornDown(r) PROVE r \in Records /\ Allocated(r)
BY TypeParts DEF IInv, TornDown, RegistryTypes, Allocated, TasksHaveProcesses

LEMMA LaunchKeeps ==
  ASSUME IInv, NEW r, TornDown(r), Launches(r)
  PROVE  /\ TasksHaveProcesses'
         /\ EndedStays
         /\ RegistryTypes'
         /\ task' \in Tasks
         /\ origin' \in OriginRecords
         /\ \A p \in Pid : task[p] = "handler" => task'[p] = "handler"
<1>1. \A p \in Pid : p = nextPid => records[p].state = "none" /\ task[p] = "none"
  <2>1. \A p \in Pid : p = nextPid => ~(p < nextPid)
    BY BoundAssumption DEF Pid
  <2>2. \A p \in Pid : p = nextPid => records[p].state = "none"
    BY <2>1, TypeParts DEF IInv, RegistryTypes, Allocated
  <2> QED
    BY <2>2 DEF IInv, TasksHaveProcesses
<1>2. \A p \in Pid :
        \/ records'[p].state = r[p].state /\ task'[p] = task[p]
        \/ /\ p = nextPid
           /\ records'[p].state = "starting"
           /\ task'[p] = "created"
  BY DEF Launches
<1>3. TasksHaveProcesses'
  BY <1>1, <1>2 DEF TornDown, IInv, TasksHaveProcesses, Active
<1>4. EndedStays
  BY <1>1, <1>2 DEF TornDown, EndedStays, Terminal
<1>5. \A p \in Pid : task[p] = "handler" => task'[p] = "handler"
  BY <1>1, <1>2
<1> QED
  BY <1>3, <1>4, <1>5 DEF Launches, RegistryTypes

\* Records that are torn down in place of a launch.
LEMMA TornDownKeeps ==
  ASSUME IInv, TornDown(records'), UNCHANGED <<nextPid, task>>
  PROVE  TasksHaveProcesses' /\ EndedStays /\ Allocated(records)'
<1>1. \A p \in Pid :
        \/ records'[p].state = records[p].state
        \/ records'[p].state = "killed" /\ task[p] = "done"
  BY DEF TornDown
<1>2. TasksHaveProcesses'
  BY <1>1 DEF IInv, TasksHaveProcesses, Active
<1>3. EndedStays
  BY <1>1 DEF EndedStays
<1>4. Allocated(records)'
  BY <1>1, TypeParts DEF IInv, RegistryTypes, Allocated, TasksHaveProcesses
<1> QED
  BY <1>2, <1>3, <1>4

LEMMA KillRefusedKeeps ==
  ASSUME IInv, NEW c \in Coroutine, KillRefused(c) PROVE Keeps
<1> USE DEF KillRefused
<1>1. stack[c] # <<>>
  BY DEF At
<1>2. InCall(c)
  BY <1>1, ReturnType DEF IInv
<1>3. RegistryTypes' /\ SameStates(records, records')
  BY RegistryKept DEF IInv
<1>4. OtherTypes' /\ cancelled' \in [Pid -> BOOLEAN]
  BY TypeParts DEF IInv, OtherTypes, TaskTypes
<1> QED
  BY <1>1, <1>2, <1>3, <1>4, CallStepKeeps

LEMMA KillEntersKeeps ==
  ASSUME IInv, NEW c \in Coroutine, KillEnters(c) PROVE Keeps
<1> DEFINE p == Top(c).pid
           f == [Top(c) EXCEPT !.at = "children", !.todo = records[p].children,
                               !.aux = p]
<1>1. stack[c] # <<>>
  BY DEF KillEnters, At
<1>2. Top(c) \in Fields /\ p \in Pid
  BY <1>1, TopType DEF IInv, Frame, Fields
<1>3. /\ records \in Records
      /\ records[p].children \in Seq(Pid)
      /\ records[p].name \in Names
  BY <1>2, TypeParts DEF IInv, RegistryTypes, Records, Record, Names
<1>4. f \in Frame
  BY <1>2, <1>3 DEF Frame, Fields
<1>5. Goto(c, f)
  BY DEF KillEnters
<1>6. InCall(c)
  BY <1>1, <1>4, <1>5, GotoType DEF IInv
<1>7. Active(p) /\ records' = [records EXCEPT ![p].state = "stopping", ![p].stop = TRUE]
  BY DEF KillEnters
<1> HIDE DEF f, p
<1>8. /\ records' \in Records
      /\ \A q \in Pid : records'[q].state = IF q = p THEN "stopping" ELSE records[q].state
  BY ZenonT(60), <1>2, <1>3, <1>7 DEF Records, Record, States
<1>9. RegistryTypes'
  BY <1>7, <1>8, TypeParts DEF IInv, KillEnters, RegistryTypes, Allocated, Active
<1>10. contested' \subseteq Names
  BY <1>3, TypeParts DEF IInv, KillEnters, OtherTypes, p
<1>11. TaskTypes' /\ OtherTypes'
  BY <1>6, <1>10, TypeParts DEF IInv, KillEnters, TaskTypes, OtherTypes, InCall
<1>12. UNCHANGED <<task, loop>>
  BY DEF KillEnters
<1>13. HandlersHaveTasks'
  BY <1>1, <1>6, <1>12, HandlersKept
<1>14. TasksHaveProcesses'
  <2>1. \A q \in Pid : task'[q] = task[q]
    BY <1>12
  <2>2. \A q \in Pid : /\ records[q].state # "none" => records'[q].state # "none"
                       /\ Active(q) => records'[q].state \in {"starting", "running", "stopping"}
    BY <1>8 DEF Active
  <2> QED
    BY <2>1, <2>2 DEF IInv, TasksHaveProcesses, Active
<1>15. EndedStays
  BY <1>7, <1>8 DEF EndedStays, Active, Terminal
<1> QED
  BY <1>9, <1>11, <1>13, <1>14, <1>15, TypePartsNext DEF Keeps, IInv

LEMMA KillsChildKeeps ==
  ASSUME IInv, NEW c \in Coroutine, KillsChild(c) PROVE Keeps
<1> USE DEF KillsChild
<1> DEFINE f == [Top(c) EXCEPT !.todo = Tail(@)]
           q == Head(Top(c).todo)
<1>1. Top(c) \in Fields /\ Top(c).todo \in Seq(Pid)
  BY TopType DEF IInv, Frame, Fields
<1>2. q \in Pid /\ Tail(Top(c).todo) \in Seq(Pid)
  BY <1>1, HeadTailProperties
<1>3. f \in Frame
  BY <1>1, <1>2 DEF Frame, Fields
<1>4. NewKill(q, FALSE) \in Frame
  BY <1>2, NewFrameTypes DEF IInv
<1>5. InCall(c)
  BY <1>3, <1>4, CallType DEF IInv
<1>6. RegistryTypes' /\ SameStates(records, records')
  BY RegistryKept DEF IInv
<1>7. OtherTypes' /\ cancelled' \in [Pid -> BOOLEAN]
  BY TypeParts DEF IInv, OtherTypes, TaskTypes
<1> QED
  BY <1>5, <1>6, <1>7, CallStepKeeps

LEMMA KillCancelsKeeps ==
  ASSUME IInv, NEW c \in Coroutine, KillCancels(c) PROVE Keeps
<1> DEFINE u == Top(c).aux
           awaits == u \in Pid /\ At(u, "kill", "await")
           f == [Top(c) EXCEPT !.at = "cancel", !.aux = Top(u).pid]
           g == [Top(c) EXCEPT !.at = "await"]
<1>1. stack[c] # <<>>
  BY DEF KillCancels, At
<1>2. Top(c) \in Fields /\ u \in Pid \cup {None}
  BY <1>1, TopType DEF IInv, Frame, Fields
<1>3. RegistryTypes' /\ SameStates(records, records') /\ OtherTypes' /\ UNCHANGED task
  <2>1. UNCHANGED registryVars /\ UNCHANGED <<task, calls, origin, contested>>
    BY DEF KillCancels
  <2> QED
    BY <2>1, RegistryKept, TypeParts DEF IInv, OtherTypes
<1>4. CASE awaits
  <2>1. u \in Coroutine /\ stack[u] # <<>>
    BY <1>4 DEF At, Coroutine
  <2>2. Top(u) \in Frame
    BY <2>1, TopType DEF IInv
  <2>3. f \in Frame
    BY <1>2, <2>2 DEF Frame, Fields
  <2>4. Goto(c, f) /\ UNCHANGED <<cancelled, loop>>
    BY <1>4 DEF KillCancels
  <2>5. InCall(c)
    BY <1>1, <2>3, <2>4, GotoType DEF IInv
  <2>6. cancelled' \in [Pid -> BOOLEAN]
    BY <2>4, TypeParts DEF IInv, TaskTypes
  <2> QED
    BY <1>1, <1>3, <2>4, <2>5, <2>6, CallStepKeeps
<1>5. CASE ~awaits
  <2>1. g \in Frame
    BY <1>2 DEF Frame, Fields
  <2>2. /\ Goto(c, g)
        /\ cancelled' = [cancelled EXCEPT ![u] = task[u] # "done"]
        /\ loop' = IF task[Top(c).pid] = "done" THEN c ELSE Idle
    BY <1>5 DEF KillCancels
  <2>3. InCall(c)
    BY <1>1, <2>1, <2>2, GotoType DEF IInv
  <2>4. cancelled' \in [Pid -> BOOLEAN]
    BY <2>2, TypeParts DEF IInv, TaskTypes
  <2>5. loop' \in {loop, c, Idle}
    BY <2>2
  <2> QED
    BY <1>1, <1>3, <2>3, <2>4, <2>5, CallStepKeeps
<1> QED
  BY <1>4, <1>5

LEMMA KillUnlinksKeeps ==
  ASSUME IInv, NEW c \in Coroutine, KillUnlinks(c) PROVE Keeps
<1> USE DEF KillUnlinks
<1>1. stack[c] # <<>>
  BY DEF At
<1>2. Top(c).pid \in Pid
  BY <1>1, TopType DEF IInv, Frame, Fields
<1>3. InCall(c)
  BY <1>1, ReturnType DEF IInv
<1>4. records' \in Records /\ SameStates(records, records')
  BY <1>2, UnlinkedType, TypeParts DEF IInv, RegistryTypes
<1>5. RegistryTypes'
  BY <1>4, RecordsKept DEF IInv
<1>6. OtherTypes' /\ cancelled' \in [Pid -> BOOLEAN]
  BY TypeParts DEF IInv, OtherTypes, TaskTypes
<1> QED
  BY <1>1, <1>3, <1>4, <1>5, <1>6, CallStepKeeps

LEMMA KillFinishesKeeps ==
  ASSUME IInv, NEW c \in Coroutine, KillFinishes(c) PROVE Keeps
<1> DEFINE p == Top(c).pid
           n == records[p].name
           sup == records[p].parent
           r == [Cleaned(records, p) EXCEPT ![p].state = "killed",
                                            ![p].children = <<>>]
           names == NamesAfterCleanup(p)
           boxes == MailboxesAfterCleanup(p)
           f == [Top(c) EXCEPT !.at = "tail"]
<1>1. stack[c] # <<>> /\ task[p] = "done"
  BY DEF KillFinishes, At
<1>2. Top(c) \in Fields /\ p \in Pid
  BY <1>1, TopType DEF IInv, Frame, Fields
<1>3. /\ records \in Records /\ byName \in Indexes /\ mailboxes \in Indexes
      /\ n \in Names /\ sup \in Pid \cup {None} /\ records[p].policy \in Policies
  BY <1>2, TypeParts DEF IInv, RegistryTypes, Records, Record, Names
<1>4. TornDown(r)
  <2>1. Cleaned(records, p) \in Records /\ SameStates(records, Cleaned(records, p))
    BY <1>2, <1>3, CleanedType
  <2> DEFINE k == Cleaned(records, p)
             e == <<>>
             last == [k[p] EXCEPT !.state = "killed", !.children = e]
  <2>2. e \in Seq(Pid)
    BY EmptySeq
  <2>3. r = [k EXCEPT ![p] = last]
    BY <1>2, <2>1 DEF Records, Record
  <2> HIDE DEF k, e
  <2>4. k[p] \in Record
    BY <1>2, <2>1 DEF Records, k
  <2>5. last \in Record /\ last.state = "killed"
    BY <2>2, <2>4 DEF Record, States
  <2> HIDE DEF last, r
  <2>6. /\ r \in Records
        /\ \A q \in Pid : r[q].state = IF q = p THEN "killed" ELSE records[q].state
    BY <1>2, <2>1, <2>3, <2>5 DEF Records, SameStates, k
  <2> QED
    BY <1>1, <2>6 DEF TornDown
<1>5. r \in Records /\ Allocated(r)
  BY <1>4, TornDownAllocated
<1>6. names \in Indexes /\ boxes \in Indexes
  BY <1>2, <1>3, CleanupTypes
<1>7. f \in Frame
  BY <1>2 DEF Frame, Fields
<1>8. UNCHANGED <<cancelled, calls, contested>>
  BY DEF KillFinishes
<1> HIDE DEF r, names, boxes, f
<1>9. CASE Top(c).flag /\ Live(sup)
  <2>1. /\ Launch(r, names, boxes, n, records[p].policy, sup, p, "kill")
        /\ \/ Goto(c, f) /\ loop' = Idle
           \/ Return(c) /\ loop' = c
    BY <1>9 DEF KillFinishes, r, names, boxes, f
  <2>2. "kill" \in Origins /\ p \in Pid \cup {None}
    BY <1>2 DEF Origins
  <2>3. Launches(r)
    BY <1>3, <1>5, <1>6, <2>1, <2>2, LaunchType DEF IInv
  <2>4. /\ TasksHaveProcesses' /\ EndedStays
        /\ RegistryTypes' /\ task' \in Tasks /\ origin' \in OriginRecords
        /\ \A q \in Pid : task[q] = "handler" => task'[q] = "handler"
    BY <1>4, <2>3, LaunchKeeps
  <2>5. InCall(c) /\ loop' \in {loop, c, Idle}
    BY <1>1, <1>7, <2>1, GotoType, ReturnType DEF IInv
  <2>6. HandlersHaveTasks'
    BY <1>1, <2>4, <2>5, HandlersKept
  <2>7. TaskTypes' /\ OtherTypes'
    BY <1>8, <2>4, <2>5, TypeParts DEF IInv, TaskTypes, OtherTypes, InCall
  <2> QED
    BY <2>4, <2>6, <2>7, TypePartsNext DEF Keeps, IInv
<1>10. CASE ~(Top(c).flag /\ Live(sup))
  <2>1. /\ records' = Unlinked(r, p)
        /\ byName' = names
        /\ mailboxes' = boxes
        /\ Return(c)
        /\ loop' = c
        /\ UNCHANGED <<nextPid, task, origin>>
    BY <1>10 DEF KillFinishes, r, names, boxes
  <2>2. records' \in Records /\ SameStates(r, records')
    BY <1>2, <1>5, <2>1, UnlinkedType
  <2>3. TornDown(records')
    BY <1>4, <2>2 DEF TornDown, SameStates
  <2>4. TasksHaveProcesses' /\ EndedStays /\ Allocated(records)'
    BY <2>1, <2>3, TornDownKeeps
  <2>5. InCall(c)
    BY <1>1, <2>1, ReturnType DEF IInv
  <2>6. HandlersHaveTasks'
    BY <1>1, <2>1, <2>5, HandlersKept
  <2>7. RegistryTypes'
    BY <1>6, <2>1, <2>2, <2>4, TypeParts DEF IInv, RegistryTypes
  <2>8. TaskTypes' /\ OtherTypes'
    BY <1>8, <2>1, <2>5, TypeParts DEF IInv, TaskTypes, OtherTypes, InCall
  <2> QED
    BY <2>4, <2>6, <2>7, <2>8, TypePartsNext DEF Keeps, IInv
<1> QED
  BY <1>9, <1>10

-----------------------------------------------------------------------------
(* The terminal handler *)

\* The candidates for a restart can be counted.
LEMMA AttemptsType ==
  ASSUME TypeOK, NEW sup \in Pid, NEW p \in Pid
  PROVE  Affected(sup, p) \in Seq(Pid) /\ Attempts(sup, p) \in Nat
<1> DEFINE s == records[sup].children
<1>1. s \in Seq(Pid)
  BY DEF TypeOK, Record
<1>2. Affected(sup, p) \in Seq(Pid)
  <2>1. <<p>> \in Seq(Pid)
    OBVIOUS
  <2>2. ASSUME p \in Members(s) PROVE SubSeq(s, IndexOf(s, p), Len(s)) \in Seq(Pid)
    <3>1. IndexOf(s, p) \in 1 .. Len(s) /\ Len(s) \in Nat
      BY <1>1, <2>2, IndexOfMember, LenProperties
    <3>2. \A i \in 1 .. Len(s) : s[i] \in Pid
      BY <1>1, ElementOfSeq
    <3>3. \A i \in IndexOf(s, p) .. Len(s) : s[i] \in Pid
      BY <3>1, <3>2
    <3> QED
      BY <3>1, <3>3, SubSeqProperties
  <2> QED
    BY <1>1, <2>1, <2>2 DEF Affected
<1>3. Candidates(sup, p) \subseteq Pid
  BY <1>2, MembersType DEF Candidates
<1>4. IsFiniteSet(Pid)
  BY BoundAssumption, FS_Interval DEF Pid
<1>5. IsFiniteSet(Candidates(sup, p))
  BY <1>3, <1>4, FS_Subset
<1> QED
  BY <1>2, <1>5, FS_CardinalityType DEF Attempts

\* Noting a failure at the supervisor changes no state.
LEMMA CountedType ==
  ASSUME NEW r \in Records, NEW sup, NEW h \in Nat
  PROVE  /\ [r EXCEPT ![sup].history = h] \in Records
         /\ SameStates(r, [r EXCEPT ![sup].history = h])
BY DEF Records, Record, SameStates

LEMMA EscalatedType ==
  ASSUME NEW r \in Records, NEW sup
  PROVE  /\ [r EXCEPT ![sup].escalated = TRUE] \in Records
         /\ SameStates(r, [r EXCEPT ![sup].escalated = TRUE])
BY DEF Records, Record, SameStates

LEMMA GivenUpType ==
  ASSUME NEW r \in Records, NEW sup, NEW h \in Nat
  PROVE  /\ [r EXCEPT ![sup].history = h, ![sup].escalated = TRUE] \in Records
         /\ SameStates(r, [r EXCEPT ![sup].history = h, ![sup].escalated = TRUE])
BY ZenonT(60) DEF Records, Record, SameStates

LEMMA HandlerDecidesKeeps ==
  ASSUME IInv, NEW c \in Pid, HandlerDecides(c) PROVE Keeps
<1> DEFINE sup == records[c].parent
           r == IF Top(c).flag THEN Orphaned(c) ELSE records
           n == Attempts(sup, c)
           f == [Top(c) EXCEPT !.at = "next", !.aux = sup, !.todo = Affected(sup, c)]
<1>1. c \in Coroutine /\ stack[c] # <<>>
  BY DEF HandlerDecides, At, Coroutine
<1>2. Top(c) \in Fields
  BY <1>1, TopType DEF IInv, Frame
<1>3. records \in Records /\ sup \in Pid \cup {None}
  BY TypeParts DEF IInv, RegistryTypes, Records, Record
<1>4. r \in Records /\ SameStates(records, r)
  BY <1>3, OrphanedType DEF SameStates
<1>5. Unlinked(r, c) \in Records /\ SameStates(records, Unlinked(r, c))
  BY <1>4, UnlinkedType DEF SameStates
<1>6. /\ UNCHANGED <<byName, mailboxes, nextPid, task>>
      /\ UNCHANGED <<cancelled, calls, origin, contested>>
      /\ loop' \in {loop, c, Idle}
  BY DEF HandlerDecides
<1>7. OtherTypes' /\ cancelled' \in [Pid -> BOOLEAN]
  BY <1>6, TypeParts DEF IInv, OtherTypes, TaskTypes
<1> HIDE DEF r
<1>8. SUFFICES records' \in Records /\ SameStates(records, records') /\ InCall(c)
  BY <1>1, <1>6, <1>7, RecordsKept, CallStepKeeps DEF IInv
<1>9. CASE /\ records' = r \/ records' = Unlinked(r, c)
           /\ Return(c)
  BY <1>1, <1>4, <1>5, <1>9, ReturnType DEF IInv
<1>10. CASE /\ Live(sup)
            /\ \E kept \in IF WindowPasses THEN 0 .. records[sup].history
                                           ELSE {records[sup].history} :
                 IF kept + n > MaxRestarts[records[sup].name]
                 THEN /\ records' = [Unlinked(r, c) EXCEPT ![sup].history = kept,
                                                           ![sup].escalated = TRUE]
                      /\ Return(c)
                 ELSE /\ records' = [r EXCEPT ![sup].history = kept + n]
                      /\ Goto(c, f)
  <2>1. sup \in Pid
    BY <1>3, <1>10 DEF Live
  <2>2. Affected(sup, c) \in Seq(Pid) /\ n \in Nat
    BY <2>1, AttemptsType DEF IInv
  <2>3. records[sup].history \in Nat
    BY <1>3, <2>1 DEF Records, Record
  <2>4. f \in Frame
    BY <1>2, <2>1, <2>2 DEF Frame, Fields
  <2> HIDE DEF n, f
  <2>5. PICK kept \in Nat :
          \/ /\ records' = [Unlinked(r, c) EXCEPT ![sup].history = kept,
                                                  ![sup].escalated = TRUE]
             /\ Return(c)
          \/ /\ records' = [r EXCEPT ![sup].history = kept + n]
             /\ Goto(c, f)
    <3>1. (IF WindowPasses THEN 0 .. records[sup].history
                           ELSE {records[sup].history}) \subseteq Nat
      BY <2>3
    <3> QED
      BY <1>10, <3>1
  <2>6. CASE /\ records' = [Unlinked(r, c) EXCEPT ![sup].history = kept,
                                                  ![sup].escalated = TRUE]
             /\ Return(c)
    <3> DEFINE u == Unlinked(r, c)
    <3>1. u \in Records /\ SameStates(records, u)
      BY <1>5
    <3>2. records' = [u EXCEPT ![sup].history = kept, ![sup].escalated = TRUE]
      BY <2>6
    <3> HIDE DEF u
    <3>3. records' \in Records /\ SameStates(u, records')
      BY <3>1, <3>2, GivenUpType
    <3>4. InCall(c)
      BY <1>1, <2>6, ReturnType DEF IInv
    <3> QED
      BY <3>1, <3>3, <3>4 DEF SameStates
  <2>7. CASE records' = [r EXCEPT ![sup].history = kept + n] /\ Goto(c, f)
    <3>1. kept + n \in Nat
      BY <2>2
    <3>2. records' \in Records /\ SameStates(r, records')
      BY <1>4, <2>7, <3>1, CountedType
    <3>3. InCall(c)
      BY <1>1, <2>4, <2>7, GotoType DEF IInv
    <3> QED
      BY <1>4, <3>2, <3>3 DEF SameStates
  <2> QED
    BY <2>5, <2>6, <2>7
<1> QED
  BY <1>9, <1>10 DEF HandlerDecides, r

LEMMA HandlerNextKeeps ==
  ASSUME IInv, NEW c \in Pid, HandlerNext(c) PROVE Keeps
<1> DEFINE f == [Top(c) EXCEPT !.todo = Tail(@)]
           g == [Top(c) EXCEPT !.at = "backoff"]
           h == [Top(c) EXCEPT !.at = "check"]
<1>1. c \in Coroutine /\ stack[c] # <<>> /\ Top(c).at = "next"
  BY DEF HandlerNext, At, Coroutine
<1>2. Top(c) \in Fields /\ Top(c).todo \in Seq(Pid)
  BY <1>1, TopType DEF IInv, Frame, Fields
<1>3. UNCHANGED registryVars /\ UNCHANGED <<task, cancelled, calls, origin, contested>>
  BY DEF HandlerNext
<1>4. RegistryTypes' /\ SameStates(records, records')
  BY <1>3, RegistryKept DEF IInv
<1>5. OtherTypes' /\ cancelled' \in [Pid -> BOOLEAN]
  BY <1>3, TypeParts DEF IInv, OtherTypes, TaskTypes
<1>6. ASSUME Top(c).todo # <<>> PROVE f \in Frame /\ g \in Frame /\ h \in Frame
  <2>1. Tail(Top(c).todo) \in Seq(Pid)
    BY <1>2, <1>6, HeadTailProperties
  <2> QED
    BY <1>1, <1>2, <1>6, <2>1 DEF Frame, Fields
<1>7. /\ loop' \in {loop, c, Idle}
      /\ \/ Return(c)
         \/ Top(c).todo # <<>> /\ (Goto(c, f) \/ Goto(c, g) \/ Goto(c, h))
  BY DEF HandlerNext
<1> HIDE DEF f, g, h
<1>8. InCall(c)
  BY <1>1, <1>6, <1>7, GotoType, ReturnType DEF IInv
<1> QED
  BY <1>1, <1>3, <1>4, <1>5, <1>7, <1>8, CallStepKeeps

LEMMA HandlerWakesKeeps ==
  ASSUME IInv, NEW c \in Pid, HandlerWakes(c) PROVE Keeps
<1> USE DEF HandlerWakes
<1> DEFINE f == [Top(c) EXCEPT !.at = "check"]
<1>1. c \in Coroutine /\ stack[c] # <<>> /\ Top(c).at = "backoff"
  BY DEF At, Coroutine
<1>2. Top(c) \in Frame
  BY <1>1, TopType DEF IInv
<1>3. f \in Frame
  BY <1>1, <1>2 DEF Frame, Fields
<1>4. RegistryTypes' /\ SameStates(records, records')
  BY RegistryKept DEF IInv
<1>5. OtherTypes' /\ cancelled' \in [Pid -> BOOLEAN]
  BY TypeParts DEF IInv, OtherTypes, TaskTypes
<1>6. Return(c) \/ Goto(c, f)
  OBVIOUS
<1> HIDE DEF f
<1>7. InCall(c)
  BY <1>1, <1>3, <1>6, GotoType, ReturnType DEF IInv
<1> QED
  BY <1>1, <1>4, <1>5, <1>7, CallStepKeeps

LEMMA HandlerChecksKeeps ==
  ASSUME IInv, NEW c \in Pid, HandlerChecks(c) PROVE Keeps
<1> USE DEF HandlerChecks
<1> DEFINE q == Head(Top(c).todo)
           f == [Top(c) EXCEPT !.at = "restart"]
<1>1. c \in Coroutine /\ stack[c] # <<>> /\ Top(c).at = "check"
  BY DEF At, Coroutine
<1>2. Top(c) \in Frame /\ Top(c).todo \in Seq(Pid) /\ Top(c).todo # <<>>
  BY <1>1, TopType DEF IInv, Frame, Fields
<1>3. q \in Pid
  BY <1>2, HeadTailProperties
<1>4. f \in Frame /\ NewKill(q, FALSE) \in Frame
  BY <1>2, <1>3, NewFrameTypes DEF IInv, Frame, Fields
<1>5. RegistryTypes' /\ SameStates(records, records')
  BY RegistryKept DEF IInv
<1>6. OtherTypes' /\ cancelled' \in [Pid -> BOOLEAN]
  BY TypeParts DEF IInv, OtherTypes, TaskTypes
<1>7. Return(c) \/ Goto(c, f) \/ Call(c, f, NewKill(q, FALSE))
  OBVIOUS
<1> HIDE DEF f, q
<1>8. InCall(c)
  BY <1>1, <1>4, <1>7, GotoType, ReturnType, CallType DEF IInv
<1> QED
  BY <1>1, <1>5, <1>6, <1>8, CallStepKeeps

LEMMA HandlerRestartsKeeps ==
  ASSUME IInv, NEW c \in Pid, HandlerRestarts(c) PROVE Keeps
<1> DEFINE q == Head(Top(c).todo)
           n == records[q].name
           sup == Top(c).aux
           ok == Launchable(byName, mailboxes, n)
           r == IF ok THEN records ELSE [records EXCEPT ![sup].escalated = TRUE]
           f == [Top(c) EXCEPT !.at = "next", !.todo = Tail(@)]
<1>1. c \in Coroutine /\ stack[c] # <<>> /\ Top(c).at = "restart"
  BY DEF HandlerRestarts, At, Coroutine
<1>2. Top(c) \in Frame /\ Top(c) \in Fields /\ Top(c).todo \in Seq(Pid) /\ Top(c).todo # <<>>
  BY <1>1, TopType DEF IInv, Frame, Fields
<1>3. q \in Pid /\ Tail(Top(c).todo) \in Seq(Pid) /\ sup \in Pid \cup {None}
  BY <1>2, HeadTailProperties DEF Fields
<1>4. f \in Frame
  BY <1>2, <1>3 DEF Frame, Fields
<1>5. /\ records \in Records /\ byName \in Indexes /\ mailboxes \in Indexes
      /\ n \in Names /\ records[q].policy \in Policies
  BY <1>3, TypeParts DEF IInv, RegistryTypes, Records, Record, Names
<1>6. UNCHANGED <<cancelled, loop, calls, contested>>
  BY DEF HandlerRestarts
<1>7. TornDown(r)
  <2>1. records \in Records /\ SameStates(records, records)
    BY <1>5 DEF SameStates
  <2>2. r \in Records /\ SameStates(records, r)
    BY <2>1, EscalatedType
  <2> QED
    BY <2>2 DEF TornDown, SameStates
<1> HIDE DEF r, f
<1>8. CASE ~Live(sup)
  <2>1. Return(c) /\ UNCHANGED registryVars /\ UNCHANGED <<task, origin>>
    BY <1>8 DEF HandlerRestarts
  <2>2. InCall(c)
    BY <1>1, <2>1, ReturnType DEF IInv
  <2>3. RegistryTypes' /\ SameStates(records, records')
    BY <2>1, RegistryKept DEF IInv
  <2>4. OtherTypes' /\ cancelled' \in [Pid -> BOOLEAN]
    BY <1>6, <2>1, TypeParts DEF IInv, OtherTypes, TaskTypes
  <2> QED
    BY <1>1, <1>6, <2>1, <2>2, <2>3, <2>4, CallStepKeeps
<1>9. CASE Live(sup)
  <2>1. /\ Launch(r, byName, mailboxes, n, records[q].policy, sup, q, "handler")
        /\ Goto(c, f) \/ Return(c)
    BY <1>9 DEF HandlerRestarts, r, f
  <2>2. "handler" \in Origins /\ q \in Pid \cup {None}
    BY <1>3 DEF Origins
  <2>3. r \in Records /\ Allocated(r)
    BY <1>7, TornDownAllocated
  <2>4. Launches(r)
    BY <1>3, <1>5, <2>1, <2>2, <2>3, LaunchType DEF IInv
  <2>5. /\ TasksHaveProcesses' /\ EndedStays
        /\ RegistryTypes' /\ task' \in Tasks /\ origin' \in OriginRecords
        /\ \A p \in Pid : task[p] = "handler" => task'[p] = "handler"
    BY <1>7, <2>4, LaunchKeeps
  <2>6. InCall(c) /\ loop' \in {loop, c, Idle}
    BY <1>1, <1>4, <1>6, <2>1, GotoType, ReturnType DEF IInv
  <2>7. HandlersHaveTasks'
    BY <1>1, <2>5, <2>6, HandlersKept
  <2>8. TaskTypes' /\ OtherTypes'
    BY <1>6, <2>5, <2>6, TypeParts DEF IInv, TaskTypes, OtherTypes, InCall
  <2> QED
    BY <2>5, <2>7, <2>8, TypePartsNext DEF Keeps, IInv
<1> QED
  BY <1>8, <1>9

-----------------------------------------------------------------------------
(* The clients *)

\* A client that makes a call uses up one, and holds no other call.
LEMMA CallsKept ==
  ASSUME TypeOK, NEW c \in Client, NEW command, Calls(c, command)
  PROVE  calls' \in [Client -> 0 .. MaxCalls]
<1>1. calls \in [Client -> 0 .. MaxCalls] /\ calls[c] > 0
  BY DEF TypeOK, Calls
<1>2. calls[c] - 1 \in 0 .. MaxCalls
  BY <1>1, BoundAssumption
<1> QED
  BY <1>1, <1>2 DEF Calls

\* A client starts a process: a launch outside of every call.
LEMMA ClientLaunchKeeps ==
  ASSUME IInv, NEW c \in Client, NEW command, Calls(c, command), NEW r, TornDown(r),
         Launches(r), UNCHANGED <<cancelled, loop, stack, contested>>
  PROVE  Keeps
<1>1. /\ TasksHaveProcesses' /\ EndedStays
      /\ RegistryTypes' /\ task' \in Tasks /\ origin' \in OriginRecords
      /\ \A p \in Pid : task[p] = "handler" => task'[p] = "handler"
  BY LaunchKeeps
<1>2. calls' \in [Client -> 0 .. MaxCalls]
  BY CallsKept DEF IInv
<1>3. TaskTypes' /\ OtherTypes'
  BY <1>1, <1>2, TypeParts DEF IInv, TaskTypes, OtherTypes
<1>4. HandlersHaveTasks'
  BY <1>1 DEF IInv, HandlersHaveTasks
<1> QED
  BY <1>1, <1>3, <1>4, TypePartsNext DEF Keeps, IInv

LEMMA RunPathKeeps ==
  ASSUME IInv, NEW c \in Client, NEW n \in Name, RunPath(c, n) PROVE Keeps
<1>1. /\ records \in Records /\ byName \in Indexes /\ mailboxes \in Indexes
      /\ Allocated(records)
  BY TypeParts DEF IInv, RegistryTypes
<1>2. /\ n \in Names /\ "permanent" \in Policies /\ None \in Pid \cup {None}
      /\ "caller" \in Origins
  BY DEF Names, Policies, Origins
<1>3. Launch(records, byName, mailboxes, n, "permanent", None, None, "caller")
  BY DEF RunPath
<1>4. Launches(records)
  BY <1>1, <1>2, <1>3, LaunchType DEF IInv
<1>5. TornDown(records)
  BY <1>1 DEF TornDown
<1>6. Calls(c, "run_path") /\ UNCHANGED <<cancelled, loop, stack, contested>>
  BY DEF RunPath
<1> QED
  BY <1>4, <1>5, <1>6, ClientLaunchKeeps

LEMMA SpawnChildKeeps ==
  ASSUME IInv, NEW c \in Client, NEW par \in Pid, NEW n \in Name, SpawnChild(c, par, n)
  PROVE  Keeps
<1> DEFINE r == IF Launchable(byName, mailboxes, n) THEN records
                ELSE [records EXCEPT ![par].escalated = TRUE]
<1>1. records \in Records /\ byName \in Indexes /\ mailboxes \in Indexes
  BY TypeParts DEF IInv, RegistryTypes
<1>2. /\ n \in Names /\ ChildPolicy[n] \in Policies /\ None \in Pid \cup {None}
      /\ par \in Pid \cup {None} /\ "caller" \in Origins
  BY AttributeAssumption DEF Names, Origins
<1>3. r \in Records /\ SameStates(records, r)
  BY <1>1, EscalatedType DEF SameStates
<1>4. TornDown(r)
  BY <1>3 DEF TornDown, SameStates
<1>5. Launch(r, byName, mailboxes, n, ChildPolicy[n], par, None, "caller")
  BY DEF SpawnChild
<1> HIDE DEF r
<1>6. Allocated(r)
  BY <1>4, TornDownAllocated
<1>7. Launches(r)
  BY <1>1, <1>2, <1>3, <1>5, <1>6, LaunchType DEF IInv
<1>8. Calls(c, "spawn_child") /\ UNCHANGED <<cancelled, loop, stack, contested>>
  BY DEF SpawnChild
<1> QED
  BY <1>4, <1>7, <1>8, ClientLaunchKeeps

LEMMA MonitorChildKeeps ==
  ASSUME IInv, NEW c \in Client, NEW par \in Pid, NEW q \in Pid, MonitorChild(c, par, q)
  PROVE  Keeps
<1> DEFINE s == records[par].children
           list == IF q \in Members(s) THEN s ELSE Append(s, q)
           r == [records EXCEPT ![q] = [records[q] EXCEPT !.parent = par]]
<1>1. records \in Records
  BY TypeParts DEF IInv, RegistryTypes
<1>2. records[q] \in Record /\ records[par] \in Record
  BY <1>1 DEF Records
<1>3. s \in Seq(Pid)
  BY <1>2 DEF Record
<1>4. list \in Seq(Pid)
  BY <1>3
<1>5. q # par
  BY DEF MonitorChild
<1>6. records' = [r EXCEPT ![par] = [records[par] EXCEPT !.children = list]]
  BY <1>1, <1>5 DEF MonitorChild, Records
<1> HIDE DEF list
<1>7. /\ [records[q] EXCEPT !.parent = par] \in Record
      /\ [records[q] EXCEPT !.parent = par].state = records[q].state
  BY <1>2 DEF Record
<1>8. /\ [records[par] EXCEPT !.children = list] \in Record
      /\ [records[par] EXCEPT !.children = list].state = records[par].state
  BY <1>2, <1>4 DEF Record
<1>9. r \in Records /\ SameStates(records, r)
  BY <1>1, <1>7 DEF Records, SameStates
<1>10. records' \in Records /\ SameStates(records, records')
  BY <1>1, <1>6, <1>8, <1>9 DEF Records, SameStates
<1>11. /\ UNCHANGED <<byName, mailboxes, nextPid, task, cancelled, loop, stack,
                      origin, contested>>
       /\ Calls(c, "monitor_child")
  BY DEF MonitorChild
<1>12. RegistryTypes'
  BY <1>10, <1>11, RecordsKept DEF IInv
<1>13. calls' \in [Client -> 0 .. MaxCalls]
  BY <1>11, CallsKept DEF IInv
<1>14. TaskTypes' /\ OtherTypes'
  BY <1>11, <1>13, TypeParts DEF IInv, TaskTypes, OtherTypes
<1>15. TasksHaveProcesses' /\ EndedStays
  BY <1>10, <1>11, StatesKept
<1>16. HandlersHaveTasks'
  BY <1>11 DEF IInv, HandlersHaveTasks
<1> QED
  BY <1>12, <1>14, <1>15, <1>16, TypePartsNext DEF Keeps, IInv

LEMMA KillKeeps ==
  ASSUME IInv, NEW c \in Client, NEW p \in Pid, Kill(c, p) PROVE Keeps
<1>1. /\ stack' = [stack EXCEPT ![c] = <<NewKill(p, TRUE)>>]
      /\ loop' = c
      /\ UNCHANGED registryVars
      /\ UNCHANGED <<task, cancelled, origin, contested>>
      /\ Calls(c, "kill") \/ Calls(c, "terminate_child")
  BY DEF Kill
<1>2. calls' \in [Client -> 0 .. MaxCalls]
  BY <1>1, CallsKept DEF IInv
<1>3. <<NewKill(p, TRUE)>> \in Seq(Frame)
  <2>1. \A auto \in BOOLEAN : NewKill(p, auto) \in Frame
    BY NewFrameTypes DEF IInv
  <2> DEFINE f == NewKill(p, TRUE)
  <2>2. f \in Frame
    BY <2>1
  <2> HIDE DEF f
  <2>3. <<f>> \in Seq(Frame)
    BY <2>2
  <2> QED
    BY <2>3 DEF f
<1>4. c \in Coroutine /\ c \notin Pid
  BY CoroutineAssumption, BoundAssumption DEF Coroutine, Pid
<1>5. stack' \in Stacks /\ \A q \in Pid : stack'[q] = stack[q]
  BY <1>1, <1>3, <1>4, TypeParts DEF IInv, TaskTypes, Stacks, Coroutine
<1>6. RegistryTypes' /\ SameStates(records, records')
  BY <1>1, RegistryKept DEF IInv
<1>7. TaskTypes' /\ OtherTypes'
  BY <1>1, <1>2, <1>4, <1>5, TypeParts DEF IInv, TaskTypes, OtherTypes
<1>8. TasksHaveProcesses' /\ EndedStays
  BY <1>1, <1>6, StatesKept
<1>9. HandlersHaveTasks'
  BY <1>1, <1>4, <1>5 DEF IInv, HandlersHaveTasks
<1> QED
  BY <1>6, <1>7, <1>8, <1>9, TypePartsNext DEF Keeps, IInv

-----------------------------------------------------------------------------
(* The theorems *)

LEMMA InitIInv == Init => IInv
<1> SUFFICES ASSUME Init PROVE IInv
  OBVIOUS
<1> DEFINE First(p) ==
      [NewRecord(Boot[p].name,
                 IF Boot[p].parent = None THEN "permanent"
                                          ELSE ChildPolicy[Boot[p].name],
                 Boot[p].parent) EXCEPT
         !.state = "running", !.children = Boot[p].children]
<1>1. /\ Len(Boot) \in 0 .. MaxPid
      /\ \A p \in Pid : Booted(p) =>
           Boot[p] \in [name : Name, parent : Pid \cup {None}, children : Seq(Pid)]
  <2>1. /\ Len(Boot) \in Nat
        /\ \A i \in 1 .. Len(Boot) :
             Boot[i] \in [name : Name, parent : Pid \cup {None}, children : Seq(Pid)]
    BY BootAssumption, LenProperties, ElementOfSeq
  <2> QED
    BY <2>1, BootAssumption, BoundAssumption DEF Booted, Pid
<1>2. ASSUME NEW p \in Pid, Booted(p)
      PROVE  First(p) \in Record /\ First(p).state = "running"
  <2> DEFINE pol == IF Boot[p].parent = None THEN "permanent"
                                             ELSE ChildPolicy[Boot[p].name]
             k == NewRecord(Boot[p].name, pol, Boot[p].parent)
             list == Boot[p].children
  <2>1. /\ Boot[p].name \in Names /\ Boot[p].parent \in Pid \cup {None}
        /\ list \in Seq(Pid) /\ pol \in Policies
    BY <1>1, <1>2, AttributeAssumption DEF Names, Policies
  <2>2. k \in Record
    BY <2>1, NewRecordType
  <2>3. First(p) = [k EXCEPT !.state = "running", !.children = list]
    OBVIOUS
  <2> HIDE DEF First, k, list
  <2> QED
    BY <2>1, <2>2, <2>3 DEF Record, States
<1>3. NoRecord \in Record /\ NoRecord.state = "none"
  <2>1. NewRecord(NoName, "permanent", None) \in Record
    BY NewRecordType DEF Names, Policies
  <2> QED
    BY <2>1 DEF NoRecord, Record, States
<1> HIDE DEF First
<1>4. /\ records \in Records
      /\ \A p \in Pid : records[p].state = IF Booted(p) THEN "running" ELSE "none"
  <2>1. records = [p \in Pid |-> IF Booted(p) THEN First(p) ELSE NoRecord]
    BY DEF Init, First
  <2> QED
    BY <1>2, <1>3, <2>1 DEF Records
<1>5. byName \in Indexes /\ mailboxes \in Indexes
  BY DEF Init, Indexes
<1>6. /\ nextPid = Len(Boot) + 1
      /\ task = [p \in Pid |-> IF Booted(p) THEN "body" ELSE "none"]
      /\ cancelled = [p \in Pid |-> FALSE]
      /\ loop = Idle
      /\ stack = [c \in Coroutine |-> <<>>]
      /\ calls = [c \in Client |-> MaxCalls]
      /\ origin = [p \in Pid |->
                     [replaces |-> None, under |-> None, by |-> "caller"]]
      /\ contested = {}
  BY DEF Init
<1>7. nextPid \in 1 .. MaxPid + 1 /\ Allocated(records)
  <2>1. nextPid \in 1 .. MaxPid + 1
    BY <1>1, <1>6, BoundAssumption
  <2>2. \A p \in Pid : Booted(p) => p < nextPid
    BY <1>1, <1>6, BoundAssumption DEF Booted, Pid
  <2> QED
    BY <1>4, <2>1, <2>2 DEF Allocated
<1>8. TaskTypes
  <2>1. task \in Tasks
    BY <1>6 DEF Tasks
  <2>2. stack \in Stacks
    BY <1>6, EmptySeq DEF Stacks
  <2> QED
    BY <1>6, <2>1, <2>2 DEF TaskTypes
<1>9. OtherTypes
  <2>1. [replaces |-> None, under |-> None, by |-> "caller"]
          \in [replaces : Pid \cup {None}, under : Pid \cup {None}, by : Origins]
    BY DEF Origins
  <2>2. MaxCalls \in 0 .. MaxCalls
    BY BoundAssumption
  <2> QED
    BY <1>6, <2>1, <2>2 DEF OtherTypes, OriginRecords
<1>10. TasksHaveProcesses
  BY <1>4, <1>6 DEF TasksHaveProcesses, Active
<1>11. HandlersHaveTasks
  <2>1. \A p \in Pid : p # Idle /\ p \in Coroutine
    BY CoroutineAssumption, BoundAssumption DEF Coroutine, Pid
  <2> QED
    BY <1>6, <2>1 DEF HandlersHaveTasks
<1> QED
  BY <1>4, <1>5, <1>6, <1>7, <1>8, <1>9, <1>10,
     <1>11, TypeParts DEF IInv, RegistryTypes

\* Every step keeps the invariant and lets no process that has ended return.
LEMMA StepKeeps == IInv /\ [Next]_vars => Keeps
<1> SUFFICES ASSUME IInv, [Next]_vars PROVE Keeps
  OBVIOUS
<1>1. CASE ClientStep
  BY <1>1, RunPathKeeps, SpawnChildKeeps, MonitorChildKeeps, KillKeeps DEF ClientStep
<1>2. CASE AgentStep
  BY <1>2, BodyReturnsKeeps, BodyRaisesKeeps DEF AgentStep
<1>3. CASE TaskStep
  BY <1>3, StartTaskKeeps, TaskNeverRunsKeeps, BodyStopsKeeps, BodyReturnsKeeps DEF TaskStep
<1>4. CASE CallStep
  BY <1>4, LoopFreedKeeps, KillRefusedKeeps, KillEntersKeeps, KillsChildKeeps,
     KillCancelsKeeps, KillFinishesKeeps, KillUnlinksKeeps DEF CallStep
<1>5. CASE HandlerStep
  BY <1>5, HandlerDecidesKeeps, HandlerNextKeeps, HandlerWakesKeeps,
     HandlerChecksKeeps, HandlerRestartsKeeps DEF HandlerStep
<1>6. CASE UNCHANGED vars
  <2>1. UNCHANGED registryVars
        /\ UNCHANGED <<task, cancelled, loop, stack, calls, origin, contested>>
    BY <1>6 DEF vars
  <2>2. RegistryTypes' /\ SameStates(records, records')
    BY <2>1, RegistryKept DEF IInv
  <2>3. TaskTypes' /\ OtherTypes'
    BY <2>1, TypeParts DEF IInv, TaskTypes, OtherTypes
  <2>4. TasksHaveProcesses' /\ EndedStays
    BY <2>1, <2>2, StatesKept
  <2>5. HandlersHaveTasks'
    BY <2>1 DEF IInv, HandlersHaveTasks
  <2> QED
    BY <2>2, <2>3, <2>4, <2>5, TypePartsNext DEF Keeps, IInv
<1> QED
  BY <1>1, <1>2, <1>3, <1>4, <1>5, <1>6 DEF Next

\* The tasks and the records of the registry go together: a task that runs
\* agent code belongs to a process that has not ended, and only the handler of
\* an ended process holds the loop or waits in a call.
THEOREM TasksFollowRecords == Spec => []IInv
<1>1. Init => IInv
  BY InitIInv
<1>2. IInv /\ [Next]_vars => IInv'
  BY StepKeeps DEF Keeps
<1> QED
  BY <1>1, <1>2, PTL DEF Spec

\* Every variable keeps its type, for any tree, attributes, callers and bounds:
\* among others, the methods of ProcessRegistry give a state to no record whose
\* pid has not been given out.
THEOREM TypeCorrect == Spec => []TypeOK
<1>1. IInv => TypeOK
  BY DEF IInv
<1> QED
  BY <1>1, TasksFollowRecords, PTL

\* A process that has ended is never made active again, by no interleaving of
\* kills, terminal handlers, restarts and starts: kill and the handler relabel
\* or replace its record, and a restart always takes a pid of its own.
THEOREM EndedStaysEnded == Spec => TerminalIsFinal
<1>1. IInv /\ [Next]_vars => [EndedStays]_vars
  BY StepKeeps DEF Keeps
<1>2. [EndedStays]_vars <=>
      [\A p \in Pid : records[p].state \in Terminal =>
         records'[p].state \in {records[p].state, "killed"}]_vars
  BY DEF EndedStays
<1> QED
  BY <1>1, <1>2, TasksFollowRecords, PTL DEF Spec, TerminalIsFinal

-----------------------------------------------------------------------------
(* The members of lists *)

Distinct(s) == \A i, j \in 1 .. Len(s) : s[i] = s[j] => i = j

\* A list without one of its members has all the others, and no other.
LEMMA WithoutMembers ==
  ASSUME NEW s \in Seq(Pid), NEW x
  PROVE  /\ Members(Without(s, x)) \subseteq Members(s)
         /\ \A y \in Members(s) : y # x => y \in Members(Without(s, x))
         /\ Distinct(s) => Distinct(Without(s, x))
<1>1. CASE x \notin Members(s)
  BY <1>1 DEF Without
<1>2. CASE x \in Members(s)
  <2> DEFINE k == IndexOf(s, x)
             l == Len(s)
             a == SubSeq(s, 1, k - 1)
             b == SubSeq(s, k + 1, l)
             t == a \o b
  <2>1. k \in 1 .. l /\ l \in Nat /\ s[k] = x /\ l = Len(s)
    BY <1>2, IndexOfMember, LenProperties
  <2>2. Without(s, x) = t
    BY <1>2 DEF Without
  <2>3. \A j \in 1 .. Len(s) : s[j] \in Pid
    BY ElementOfSeq
  <2> HIDE DEF k, l
  <2>4. k - 1 \in Int /\ k + 1 \in Int /\ l \in Int /\ 1 \in Int
    BY <2>1
  <2>5. /\ a \in Seq(Pid) /\ Len(a) = k - 1
        /\ \A i \in 1 .. k - 1 : a[i] = s[i]
    <3>1. \A j \in 1 .. k - 1 : s[j] \in Pid
      BY <2>1, <2>3
    <3> QED
      BY <2>1, <2>4, <3>1, SubSeqProperties
  <2>6. /\ b \in Seq(Pid) /\ Len(b) = l - k
        /\ \A i \in 1 .. l - k : b[i] = s[k + i]
    <3>1. \A j \in k + 1 .. l : s[j] \in Pid
      BY <2>1, <2>3
    <3>2. /\ b \in Seq(Pid) /\ Len(b) = IF k + 1 <= l THEN l - (k + 1) + 1 ELSE 0
          /\ \A i \in 1 .. l - (k + 1) + 1 : b[i] = s[k + 1 + i - 1]
      BY <2>4, <3>1, SubSeqProperties
    <3>3. Len(b) = l - k
      BY <2>1, <3>2
    <3>4. \A i \in 1 .. l - k : i \in 1 .. l - (k + 1) + 1 /\ k + 1 + i - 1 = k + i
      BY <2>1
    <3> QED
      BY <3>2, <3>3, <3>4
  <2> HIDE DEF a, b
  <2>7. /\ Len(t) = l - 1
        /\ \A i \in 1 .. l - 1 : t[i] = s[IF i < k THEN i ELSE i + 1]
    <3>1. /\ Len(t) = Len(a) + Len(b)
          /\ \A i \in 1 .. Len(a) + Len(b) :
               t[i] = IF i <= Len(a) THEN a[i] ELSE b[i - Len(a)]
      BY <2>5, <2>6, ConcatProperties
    <3>2. Len(a) + Len(b) = l - 1
      BY <2>1, <2>5, <2>6
    <3>3. ASSUME NEW i \in 1 .. l - 1 PROVE t[i] = s[IF i < k THEN i ELSE i + 1]
      <4>1. CASE i < k
        <5>1. i \in 1 .. k - 1 /\ i <= Len(a)
          BY <2>1, <2>5, <4>1
        <5> QED
          BY <2>5, <3>1, <3>2, <4>1, <5>1
      <4>2. CASE ~(i < k)
        <5>1. /\ i - (k - 1) \in 1 .. l - k /\ ~(i <= Len(a))
              /\ k + (i - (k - 1)) = i + 1 /\ i - Len(a) = i - (k - 1)
          BY <2>1, <2>5, <4>2
        <5> QED
          BY <2>6, <3>1, <3>2, <4>2, <5>1
      <4> QED
        BY <4>1, <4>2
    <3> QED
      BY <3>1, <3>2, <3>3
  <2> HIDE DEF t
  <2>8. \A i \in 1 .. l - 1 : (IF i < k THEN i ELSE i + 1) \in 1 .. l
    BY <2>1
  <2>9. Members(t) \subseteq Members(s)
    BY <2>1, <2>7, <2>8 DEF Members
  <2>10. ASSUME NEW y \in Members(s), y # x PROVE y \in Members(t)
    <3>1. PICK j \in 1 .. l : s[j] = y
      BY <2>1 DEF Members
    <3>2. j # k
      BY <2>1, <2>10, <3>1
    <3> DEFINE i == IF j < k THEN j ELSE j - 1
    <3>3. i \in 1 .. l - 1 /\ (IF i < k THEN i ELSE i + 1) = j
      BY <2>1, <3>2
    <3> HIDE DEF i
    <3> QED
      BY <2>7, <3>1, <3>3 DEF Members
  <2>11. ASSUME Distinct(s) PROVE Distinct(t)
    <3> SUFFICES ASSUME NEW i \in 1 .. Len(t), NEW j \in 1 .. Len(t), t[i] = t[j]
                 PROVE  i = j
      BY DEF Distinct
    <3>1. i \in 1 .. l - 1 /\ j \in 1 .. l - 1
      BY <2>7
    <3>2. (IF i < k THEN i ELSE i + 1) = (IF j < k THEN j ELSE j + 1)
      BY <2>1, <2>7, <2>8, <2>11, <3>1 DEF Distinct
    <3> QED
      BY <2>1, <3>1, <3>2
  <2> QED
    BY <2>2, <2>9, <2>10, <2>11
<1> QED
  BY <1>1, <1>2

\* A list in which q takes the place of old, or comes last.
Replaced(s, old, q) ==
  IF old \in Members(s) THEN [s EXCEPT ![IndexOf(s, old)] = q] ELSE Append(s, q)

LEMMA ReplacedMembers ==
  ASSUME NEW s \in Seq(Pid), NEW old, NEW q \in Pid
  PROVE  /\ Members(Replaced(s, old, q)) \subseteq Members(s) \cup {q}
         /\ q \in Members(Replaced(s, old, q))
         /\ \A y \in Members(s) : y # old => y \in Members(Replaced(s, old, q))
         /\ Distinct(s) /\ q \notin Members(s) => Distinct(Replaced(s, old, q))
<1>1. CASE old \in Members(s)
  <2> DEFINE k == IndexOf(s, old)
             t == [s EXCEPT ![k] = q]
  <2>1. k \in 1 .. Len(s) /\ s[k] = old
    BY <1>1, IndexOfMember
  <2> HIDE DEF k
  <2>2. Len(t) = Len(s) /\ \A i \in 1 .. Len(s) : t[i] = IF i = k THEN q ELSE s[i]
    BY <2>1, ExceptSeq
  <2>3. Replaced(s, old, q) = t
    BY <1>1 DEF Replaced, k
  <2> HIDE DEF t
  <2> QED
    BY <2>1, <2>2, <2>3 DEF Members, Distinct
<1>2. CASE old \notin Members(s)
  <2> DEFINE t == Append(s, q)
             l == Len(s)
  <2>1. l \in Nat /\ Len(t) = l + 1 /\ t[l + 1] = q /\ \A i \in 1 .. l : t[i] = s[i]
    BY LenProperties, AppendProperties
  <2>2. Replaced(s, old, q) = t /\ l = Len(s)
    BY <1>2 DEF Replaced
  <2> HIDE DEF t, l
  <2>3. \A i \in 1 .. l + 1 : i \in 1 .. l \/ i = l + 1
    BY <2>1
  <2>4. \A i \in 1 .. l : i \in 1 .. l + 1
    BY <2>1
  <2>5. l + 1 \in 1 .. l + 1
    BY <2>1
  <2> QED
    BY <2>1, <2>2, <2>3, <2>4, <2>5 DEF Members, Distinct
<1> QED
  BY <1>1, <1>2

\* The first element and the rest of a list, and the tail from an index on.
LEMMA TailMembers ==
  ASSUME NEW s \in Seq(Pid), s # <<>>
  PROVE  /\ Head(s) \in Members(s) /\ Members(Tail(s)) \subseteq Members(s)
         /\ Members(s) = Members(Tail(s)) \cup {Head(s)}
         /\ Distinct(s) => Distinct(Tail(s)) /\ Head(s) \notin Members(Tail(s))
<1> DEFINE l == Len(s)
           t == Tail(s)
<1>1. /\ l \in Nat /\ l > 0 /\ Head(s) = s[1] /\ Len(t) = l - 1
      /\ \A i \in 1 .. l - 1 : t[i] = s[i + 1]
  <2>1. Len(s) \in Nat /\ Len(s) > 0
    BY LenProperties, EmptySeq
  <2> QED
    BY <2>1, HeadTailProperties
<1>2. l = Len(s)
  OBVIOUS
<1> HIDE DEF l, t
<1>3. 1 \in 1 .. l /\ \A i \in 1 .. l - 1 : i + 1 \in 1 .. l /\ i + 1 # 1
  BY <1>1
<1>4. \A i \in 1 .. l : i = 1 \/ (i - 1 \in 1 .. l - 1 /\ (i - 1) + 1 = i)
  BY <1>1
<1>5. Head(s) \in Members(s) /\ Members(t) \subseteq Members(s)
  BY <1>1, <1>2, <1>3 DEF Members
<1>6. Members(s) \subseteq Members(t) \cup {Head(s)}
  <2> SUFFICES ASSUME NEW i \in 1 .. l PROVE s[i] = Head(s) \/ s[i] \in Members(t)
    BY <1>2 DEF Members
  <2>1. CASE i = 1
    BY <1>1, <2>1
  <2>2. CASE i # 1
    BY <1>1, <1>4, <2>2 DEF Members
  <2> QED
    BY <2>1, <2>2
<1>7. ASSUME Distinct(s) PROVE Distinct(t) /\ Head(s) \notin Members(t)
  <2>1. \A i, j \in 1 .. l - 1 : i + 1 = j + 1 => i = j
    BY <1>1
  <2> QED
    BY <1>1, <1>2, <1>3, <1>7, <2>1 DEF Members, Distinct
<1> QED
  BY <1>5, <1>6, <1>7 DEF t

LEMMA RestMembers ==
  ASSUME NEW s \in Seq(Pid), NEW k \in 1 .. Len(s)
  PROVE  /\ Members(SubSeq(s, k, Len(s))) \subseteq Members(s)
         /\ Distinct(s) => Distinct(SubSeq(s, k, Len(s)))
<1> DEFINE l == Len(s)
           t == SubSeq(s, k, l)
<1>1. l \in Nat /\ k \in 1 .. l /\ l = Len(s)
  BY LenProperties
<1>2. \A j \in 1 .. Len(s) : s[j] \in Pid
  BY ElementOfSeq
<1> HIDE DEF l
<1>3. Len(t) = l - k + 1 /\ \A i \in 1 .. l - k + 1 : t[i] = s[k + i - 1]
  <2>1. \A j \in k .. l : s[j] \in Pid
    BY <1>1, <1>2
  <2> QED
    BY <1>1, <2>1, SubSeqProperties
<1> HIDE DEF t
<1>4. \A i \in 1 .. l - k + 1 : k + i - 1 \in 1 .. l
  BY <1>1
<1>5. \A i, j \in 1 .. l - k + 1 : k + i - 1 = k + j - 1 => i = j
  BY <1>1
<1>6. Members(t) \subseteq Members(s)
  BY <1>1, <1>3, <1>4 DEF Members
<1>7. Distinct(s) => Distinct(t)
  BY <1>1, <1>3, <1>4, <1>5 DEF Distinct
<1> QED
  BY <1>6, <1>7 DEF t, l

-----------------------------------------------------------------------------
(* Stacks, counted from the outermost call *)

\* Calls are made and end at the top, so that the depth of a call is the same
\* as long as it lasts.
FrameAt(s, k) == s[Len(s) + 1 - k]

\* The calls of every coroutine have depths from 1 on, the innermost the last.
LEMMA Depths ==
  ASSUME TypeOK, NEW c \in Coroutine
  PROVE  /\ Len(stack[c]) \in Nat
         /\ stack[c] = <<>> <=> Len(stack[c]) = 0
         /\ \A k \in 1 .. Len(stack[c]) :
              FrameAt(stack[c], k) \in Frame /\ FrameAt(stack[c], k) \in Fields
         /\ stack[c] # <<>> =>
              /\ Len(stack[c]) \in 1 .. Len(stack[c])
              /\ FrameAt(stack[c], Len(stack[c])) = Top(c)
              /\ \A k \in 1 .. Len(stack[c]) - 1 :
                   FrameAt(Tail(stack[c]), k) = FrameAt(stack[c], k)
<1> DEFINE s == stack[c]
           l == Len(s)
<1>1. s \in Seq(Frame)
  BY DEF TypeOK
<1>2. l \in Nat /\ l = Len(s) /\ (s = <<>> <=> l = 0)
  BY <1>1, LenProperties, EmptySeq
<1>3. \A k \in 1 .. Len(s) : s[k] \in Frame
  BY <1>1, ElementOfSeq
<1>4. s # <<>> => /\ Len(Tail(s)) = l - 1 /\ Head(s) = s[1]
                  /\ \A k \in 1 .. l - 1 : Tail(s)[k] = s[k + 1]
  BY <1>1, HeadTailProperties
<1> HIDE DEF l
<1>5. \A k \in 1 .. l : l + 1 - k \in 1 .. l
  BY <1>2
<1>6. \A k \in 1 .. l : FrameAt(s, k) \in Frame /\ FrameAt(s, k) \in Fields
  BY <1>2, <1>3, <1>5 DEF FrameAt, Frame
<1>7. ASSUME s # <<>>
      PROVE  /\ l \in 1 .. l /\ FrameAt(s, l) = Top(c)
             /\ \A k \in 1 .. l - 1 : FrameAt(Tail(s), k) = FrameAt(s, k)
  <2>1. l \in 1 .. l /\ l + 1 - l = 1
    BY <1>2, <1>7
  <2>2. FrameAt(s, l) = Top(c)
    BY <1>2, <1>4, <1>7, <2>1 DEF FrameAt, Top
  <2>3. \A k \in 1 .. l - 1 : l - 1 + 1 - k \in 1 .. l - 1 /\ l - 1 + 1 - k + 1 = l + 1 - k
    BY <1>2
  <2>4. \A k \in 1 .. l - 1 : FrameAt(Tail(s), k) = FrameAt(s, k)
    BY <1>2, <1>4, <1>7, <2>3 DEF FrameAt
  <2> QED
    BY <2>1, <2>2, <2>4
<1>8. s = stack[c]
  OBVIOUS
<1> HIDE DEF s
<1> QED
  BY <1>2, <1>6, <1>7, <1>8

\* What is below the innermost call.
LEMMA BelowTop ==
  ASSUME TypeOK, NEW c \in Coroutine, stack[c] # <<>>
  PROVE  /\ Tail(stack[c]) \in Seq(Frame)
         /\ Len(stack[c]) \in Nat /\ Len(stack[c]) > 0
         /\ Len(Tail(stack[c])) = Len(stack[c]) - 1
         /\ \A k \in 1 .. Len(stack[c]) - 1 :
              FrameAt(Tail(stack[c]), k) = FrameAt(stack[c], k)
<1>1. stack[c] \in Seq(Frame)
  BY DEF TypeOK
<1> QED
  BY <1>1, Depths, HeadTailProperties

\* What a step does to the stacks, by depth: nothing, or one coroutine changes
\* its innermost call, makes a call from it, returns from it, or begins.
Elsewhere(c) == \A d \in Coroutine : d # c => stack'[d] = stack[d]
Went(c, f) ==
  /\ Elsewhere(c) /\ Len(stack'[c]) = Len(stack[c])
  /\ \A k \in 1 .. Len(stack[c]) :
       FrameAt(stack'[c], k) = IF k = Len(stack[c]) THEN f ELSE FrameAt(stack[c], k)
Called(c, f, g) ==
  /\ Elsewhere(c) /\ Len(stack'[c]) = Len(stack[c]) + 1
  /\ \A k \in 1 .. Len(stack[c]) :
       FrameAt(stack'[c], k) = IF k = Len(stack[c]) THEN f ELSE FrameAt(stack[c], k)
  /\ FrameAt(stack'[c], Len(stack[c]) + 1) = g
Returned(c) ==
  /\ Elsewhere(c) /\ Len(stack'[c]) = Len(stack[c]) - 1
  /\ \A k \in 1 .. Len(stack[c]) - 1 : FrameAt(stack'[c], k) = FrameAt(stack[c], k)
Began(c, f) ==
  /\ Elsewhere(c) /\ Len(stack[c]) = 0 /\ Len(stack'[c]) = 1
  /\ FrameAt(stack'[c], 1) = f

LEMMA GotoFrames ==
  ASSUME TypeOK, NEW c \in Coroutine, stack[c] # <<>>, NEW f \in Frame, Goto(c, f)
  PROVE  Went(c, f)
<1> DEFINE t == Tail(stack[c])
           s == <<f>> \o t
           l == Len(stack[c])
<1>1. /\ t \in Seq(Frame) /\ l \in Nat /\ l > 0 /\ Len(t) = l - 1
      /\ \A k \in 1 .. l - 1 : FrameAt(t, k) = FrameAt(stack[c], k)
  BY BelowTop
<1>2. stack' = [stack EXCEPT ![c] = s] /\ stack \in Stacks
  BY DEF Goto, TypeOK, Stacks
<1>3. Elsewhere(c) /\ stack'[c] = s
  BY <1>2 DEF Elsewhere, Stacks
<1>4. <<f>> \in Seq(Frame) /\ Len(<<f>>) = 1 /\ <<f>>[1] = f
  OBVIOUS
<1> HIDE DEF t, l
<1>5. Len(s) = l /\ \A k \in 1 .. l : s[k] = IF k <= 1 THEN f ELSE t[k - 1]
  <2> DEFINE u == <<f>>
  <2>1. u \in Seq(Frame) /\ Len(u) = 1 /\ u[1] = f
    BY <1>4
  <2> HIDE DEF u
  <2>2. /\ Len(u \o t) = Len(u) + Len(t)
        /\ \A i \in 1 .. Len(u) + Len(t) :
             (u \o t)[i] = IF i <= Len(u) THEN u[i] ELSE t[i - Len(u)]
    BY <1>1, <2>1, ConcatProperties
  <2>3. Len(u) + Len(t) = l /\ \A i \in 1 .. l : i <= 1 => i = 1
    BY <1>1, <2>1
  <2>4. Len(u \o t) = l /\ \A k \in 1 .. l : (u \o t)[k] = IF k <= 1 THEN f ELSE t[k - 1]
    BY <2>1, <2>2, <2>3
  <2> QED
    BY <2>4 DEF u
<1> HIDE DEF s
<1>6. FrameAt(s, l) = f
  <2>1. l + 1 - l = 1 /\ 1 \in 1 .. l
    BY <1>1
  <2> QED
    BY <1>5, <2>1 DEF FrameAt
<1>7. ASSUME NEW k \in 1 .. l - 1 PROVE FrameAt(s, k) = FrameAt(t, k)
  <2>1. l + 1 - k \in 1 .. l /\ ~(l + 1 - k <= 1) /\ l + 1 - k - 1 = l - 1 + 1 - k
    BY <1>1
  <2> QED
    BY <1>1, <1>5, <2>1 DEF FrameAt
<1>8. \A k \in 1 .. l : k = l \/ k \in 1 .. l - 1
  BY <1>1
<1>9. \A k \in 1 .. l : FrameAt(s, k) = IF k = l THEN f ELSE FrameAt(stack[c], k)
  BY <1>1, <1>6, <1>7, <1>8
<1> QED
  BY <1>3, <1>5, <1>9 DEF Went, l

LEMMA CallFrames ==
  ASSUME TypeOK, NEW c \in Coroutine, stack[c] # <<>>, NEW f \in Frame,
         NEW g \in Frame, Call(c, f, g)
  PROVE  Called(c, f, g)
<1> DEFINE t == Tail(stack[c])
           s == <<g, f>> \o t
           l == Len(stack[c])
<1>1. /\ t \in Seq(Frame) /\ l \in Nat /\ l > 0 /\ Len(t) = l - 1
      /\ \A k \in 1 .. l - 1 : FrameAt(t, k) = FrameAt(stack[c], k)
  BY BelowTop
<1>2. stack' = [stack EXCEPT ![c] = s] /\ stack \in Stacks
  BY DEF Call, TypeOK, Stacks
<1>3. Elsewhere(c) /\ stack'[c] = s
  BY <1>2 DEF Elsewhere, Stacks
<1>4. <<g, f>> \in Seq(Frame) /\ Len(<<g, f>>) = 2 /\ <<g, f>>[1] = g /\ <<g, f>>[2] = f
  OBVIOUS
<1> HIDE DEF t, l
<1>5. /\ Len(s) = l + 1
      /\ \A k \in 1 .. l + 1 : s[k] = IF k = 1 THEN g ELSE IF k = 2 THEN f ELSE t[k - 2]
  <2> DEFINE u == <<g, f>>
  <2>1. u \in Seq(Frame) /\ Len(u) = 2 /\ u[1] = g /\ u[2] = f
    BY <1>4
  <2> HIDE DEF u
  <2>2. /\ Len(u \o t) = Len(u) + Len(t)
        /\ \A i \in 1 .. Len(u) + Len(t) :
             (u \o t)[i] = IF i <= Len(u) THEN u[i] ELSE t[i - Len(u)]
    BY <1>1, <2>1, ConcatProperties
  <2>3. /\ Len(u) + Len(t) = l + 1
        /\ \A i \in 1 .. l + 1 : i <= 2 <=> (i = 1 \/ i = 2)
    BY <1>1, <2>1
  <2>4. /\ Len(u \o t) = l + 1
        /\ \A k \in 1 .. l + 1 :
             (u \o t)[k] = IF k = 1 THEN g ELSE IF k = 2 THEN f ELSE t[k - 2]
    BY <2>1, <2>2, <2>3
  <2> QED
    BY <2>4 DEF u
<1> HIDE DEF s
<1>6. FrameAt(s, l + 1) = g /\ FrameAt(s, l) = f
  <2>1. l + 1 + 1 - (l + 1) = 1 /\ l + 1 + 1 - l = 2 /\ 1 \in 1 .. l + 1 /\ 2 \in 1 .. l + 1
    BY <1>1
  <2> QED
    BY <1>5, <2>1 DEF FrameAt
<1>7. ASSUME NEW k \in 1 .. l - 1 PROVE FrameAt(s, k) = FrameAt(t, k)
  <2>1. /\ l + 1 + 1 - k \in 1 .. l + 1 /\ l + 1 + 1 - k # 1 /\ l + 1 + 1 - k # 2
        /\ l + 1 + 1 - k - 2 = l - 1 + 1 - k
    BY <1>1
  <2> QED
    BY <1>1, <1>5, <2>1 DEF FrameAt
<1>8. \A k \in 1 .. l : k = l \/ k \in 1 .. l - 1
  BY <1>1
<1>9. \A k \in 1 .. l : FrameAt(s, k) = IF k = l THEN f ELSE FrameAt(stack[c], k)
  BY <1>1, <1>6, <1>7, <1>8
<1> QED
  BY <1>3, <1>5, <1>6, <1>9 DEF Called, l

LEMMA ReturnFrames ==
  ASSUME TypeOK, NEW c \in Coroutine, stack[c] # <<>>, Return(c)
  PROVE  Returned(c)
<1>1. stack[c] \in Seq(Frame)
  BY DEF TypeOK
<1>2. Len(Tail(stack[c])) = Len(stack[c]) - 1
  BY <1>1, HeadTailProperties
<1>3. stack' = [stack EXCEPT ![c] = Tail(stack[c])] /\ stack \in Stacks
  BY DEF Return, TypeOK, Stacks
<1>4. Elsewhere(c) /\ stack'[c] = Tail(stack[c])
  BY <1>3 DEF Elsewhere, Stacks
<1> QED
  BY <1>2, <1>4, Depths DEF Returned

LEMMA BeginFrames ==
  ASSUME TypeOK, NEW c \in Coroutine, stack[c] = <<>>, NEW f,
         stack' = [stack EXCEPT ![c] = <<f>>]
  PROVE  Began(c, f)
<1>1. Elsewhere(c) /\ stack'[c] = <<f>>
  BY DEF TypeOK, Elsewhere
<1>2. Len(stack[c]) = 0
  BY Depths
<1>3. Len(<<f>>) = 1 /\ <<f>>[1] = f
  OBVIOUS
<1> DEFINE s == <<f>>
<1>4. Len(s) = 1 /\ s[1] = f /\ stack'[c] = s
  BY <1>1, <1>3
<1> HIDE DEF s
<1>5. FrameAt(s, 1) = f
  BY <1>4 DEF FrameAt
<1> QED
  BY <1>1, <1>2, <1>4, <1>5 DEF Began

-----------------------------------------------------------------------------
(* Trees and indexes *)

Alive(r, p) == r[p].state \in {"starting", "running", "stopping"}
\* The pids in a list have been given out.
Known(r, list) == \A x \in Members(list) : r[x].state # "none"

\* Processes have names, those that have not ended have their resources, and
\* the children of a process are different and were started.
Sound(r) ==
  /\ \A p \in Pid : r[p].state # "none" => r[p].name \in Name
  /\ \A p \in Pid : Alive(r, p) => r[p].resources
  /\ \A p \in Pid : Known(r, r[p].children) /\ Distinct(r[p].children)

\* NamesFollowProcesses, of any records, indexes and contested names.
Follow(r, names, boxes, con) ==
  /\ \A p \in Pid :
       Alive(r, p) /\ r[p].name \notin con =>
         names[r[p].name] = p /\ boxes[r[p].name] = p
  /\ \A n \in Name \ con : boxes[n] # None =>
       Alive(r, boxes[n]) /\ r[boxes[n]].name = n

LEMMA FollowIsNames ==
  /\ NamesFollowProcesses <=> Follow(records, byName, mailboxes, contested)
  /\ \A p : Active(p) <=> Alive(records, p)
BY DEF NamesFollowProcesses, Follow, Active, Alive

\* Processes stay what they are, whatever happens to them.
Stay(r, t) ==
  \A p \in Pid : r[p].state # "none" =>
    t[p].state # "none" /\ t[p].name = r[p].name /\ t[p].policy = r[p].policy

\* From r to t no process begins or ends; whoever gains a child gains one that
\* was started.
Reshapes(r, t) ==
  \A p \in Pid :
    /\ t[p].state = "none" <=> r[p].state = "none"
    /\ Alive(t, p) <=> Alive(r, p)
    /\ t[p].name = r[p].name
    /\ t[p].policy = r[p].policy /\ t[p].resources = r[p].resources
    /\ \A x \in Members(t[p].children) :
         x \in Members(r[p].children) \/ r[x].state # "none"
    /\ Distinct(r[p].children) => Distinct(t[p].children)

LEMMA ReshapedIsSound ==
  ASSUME NEW r \in Records, NEW t \in Records, Reshapes(r, t), Sound(r),
         NEW names, NEW boxes \in Indexes, NEW con
  PROVE  /\ Sound(t) /\ Stay(r, t)
         /\ \A p \in Pid : Alive(t, p) <=> Alive(r, p)
         /\ Follow(r, names, boxes, con) => Follow(t, names, boxes, con)
<1>1. \A p \in Pid : /\ t[p].state = "none" <=> r[p].state = "none"
                     /\ t[p].name = r[p].name
                     /\ t[p].policy = r[p].policy /\ t[p].resources = r[p].resources
  BY DEF Reshapes
<1>2. \A p \in Pid : Alive(t, p) <=> Alive(r, p)
  BY DEF Reshapes
<1>3. \A p \in Pid : Members(t[p].children) \subseteq Pid
  BY MembersType DEF Records, Record
<1>4. Sound(t)
  BY <1>1, <1>2, <1>3 DEF Sound, Reshapes, Known
<1>5. Stay(r, t)
  BY <1>1 DEF Stay
<1>6. ASSUME Follow(r, names, boxes, con) PROVE Follow(t, names, boxes, con)
  BY <1>1, <1>2, <1>6 DEF Follow, Indexes
<1> QED
  BY <1>2, <1>4, <1>5, <1>6

LEMMA EmptyListMembers == Members(<<>>) = {} /\ Distinct(<<>>)
<1>1. Len(<<>>) = 0
  BY EmptySeq
<1> QED
  BY <1>1 DEF Members, Distinct

\* The fields of the records that the helpers leave alone, and the lists.
LEMMA UnlinkedFields ==
  ASSUME NEW r \in Records, NEW p \in Pid
  PROVE  /\ Unlinked(r, p)[p].parent = None
         /\ \A q \in Pid :
              /\ q # p => Unlinked(r, p)[q].parent = r[q].parent
              /\ q # r[p].parent => Unlinked(r, p)[q].children = r[q].children
              /\ q = r[p].parent =>
                   Unlinked(r, p)[q].children = Without(r[q].children, p)
              /\ Unlinked(r, p)[q].state = r[q].state
              /\ Unlinked(r, p)[q].name = r[q].name
              /\ Unlinked(r, p)[q].policy = r[q].policy
              /\ Unlinked(r, p)[q].resources = r[q].resources
              /\ Unlinked(r, p)[q].history = r[q].history
              /\ Unlinked(r, p)[q].stop = r[q].stop
<1>1. CASE r[p].parent = None
  <2>1. Unlinked(r, p) = r
    BY <1>1 DEF Unlinked
  <2>2. \A q \in Pid : q # r[p].parent
    BY <1>1, BoundAssumption DEF Pid, None
  <2>3. Unlinked(r, p)[p].parent = None
    BY <1>1, <2>1
  <2>4. \A q \in Pid : Unlinked(r, p)[q] = r[q]
    BY <2>1
  <2> QED
    BY <2>2, <2>3, <2>4
<1>2. CASE r[p].parent # None
  <2> DEFINE par == r[p].parent
             list == Without(r[par].children, p)
             k == [r[par] EXCEPT !.children = list]
             r1 == [r EXCEPT ![par] = k]
             m == [r1[p] EXCEPT !.parent = None]
  <2>1. par \in Pid /\ par = r[p].parent
    BY <1>2 DEF Records, Record
  <2>2. Unlinked(r, p) = [r1 EXCEPT ![p] = m]
    BY <1>2 DEF Unlinked
  <2>3. \A q \in Pid : r[q] \in Record
    BY DEF Records
  <2>4. list = Without(r[par].children, p)
    OBVIOUS
  <2> HIDE DEF list, par
  <2>5. /\ k.children = list /\ k.parent = r[par].parent /\ k.state = r[par].state
        /\ k.name = r[par].name /\ k.policy = r[par].policy
        /\ k.resources = r[par].resources /\ k.history = r[par].history
        /\ k.stop = r[par].stop
        /\ k = [r[par] EXCEPT !.children = list]
    BY <2>1, <2>3 DEF Record
  <2>6. DOMAIN k = DOMAIN r[par]
    BY <2>3 DEF Record
  <2>7. DOMAIN k = {"state", "name", "policy", "parent", "children", "resources",
                    "stop", "history", "escalated"}
    BY <2>1, <2>3, <2>6 DEF Record
  <2> HIDE DEF k
  <2>8. /\ DOMAIN r1 = Pid
        /\ \A q \in Pid : r1[q] = IF q = par THEN k ELSE r[q]
    BY <2>1 DEF Records
  <2>9. DOMAIN r1[p] = {"state", "name", "policy", "parent", "children", "resources",
                        "stop", "history", "escalated"}
    BY <2>3, <2>7, <2>8 DEF Record
  <2> HIDE DEF r1
  <2>10. /\ m.parent = None /\ m.children = r1[p].children /\ m.state = r1[p].state
         /\ m.name = r1[p].name /\ m.policy = r1[p].policy
         /\ m.resources = r1[p].resources /\ m.history = r1[p].history
         /\ m.stop = r1[p].stop
    BY <2>9
  <2> HIDE DEF m
  <2>11. \A q \in Pid : Unlinked(r, p)[q] = IF q = p THEN m ELSE r1[q]
    BY <2>2, <2>8
  <2> DEFINE u == Unlinked(r, p)
  <2>12. \A q \in Pid : u[q] = IF q = p THEN m ELSE r1[q]
    BY <2>11
  <2> HIDE DEF u
  <2>13. /\ u[p].parent = None
         /\ \A q \in Pid : q # p => u[q].parent = r[q].parent
    BY <2>5, <2>8, <2>10, <2>12
  <2>14. \A q \in Pid : u[q].children = r1[q].children
    BY <2>10, <2>12
  <2>15. \A q \in Pid : u[q].children = IF q = par THEN list ELSE r[q].children
    BY <2>5, <2>8, <2>14
  <2>16. \A q \in Pid :
           /\ u[q].state = r1[q].state /\ u[q].name = r1[q].name
           /\ u[q].policy = r1[q].policy /\ u[q].resources = r1[q].resources
           /\ u[q].history = r1[q].history /\ u[q].stop = r1[q].stop
    BY <2>10, <2>12
  <2>17. \A q \in Pid :
           /\ u[q].state = r[q].state /\ u[q].name = r[q].name
           /\ u[q].policy = r[q].policy /\ u[q].resources = r[q].resources
           /\ u[q].history = r[q].history /\ u[q].stop = r[q].stop
    <3> SUFFICES ASSUME NEW q \in Pid
                 PROVE  /\ r1[q].state = r[q].state /\ r1[q].name = r[q].name
                        /\ r1[q].policy = r[q].policy
                        /\ r1[q].resources = r[q].resources
                        /\ r1[q].history = r[q].history /\ r1[q].stop = r[q].stop
      BY <2>16
    <3>1. r1[q] = IF q = par THEN k ELSE r[q]
      BY <2>8
    <3>2. CASE q = par
      BY <2>5, <3>1, <3>2
    <3>3. CASE q # par
      BY <3>1, <3>3
    <3> QED
      BY <3>2, <3>3
  <2> QED
    BY <2>1, <2>4, <2>13, <2>15, <2>17 DEF u
<1> QED
  BY <1>1, <1>2

LEMMA UnlinkedReshapes ==
  ASSUME NEW r \in Records, NEW p \in Pid
  PROVE  Reshapes(r, Unlinked(r, p))
<1> SUFFICES ASSUME NEW q \in Pid
             PROVE  /\ Members(Unlinked(r, p)[q].children) \subseteq Members(r[q].children)
                    /\ Distinct(r[q].children) => Distinct(Unlinked(r, p)[q].children)
  BY UnlinkedFields DEF Reshapes, Alive
<1>1. r[q].children \in Seq(Pid)
  BY DEF Records, Record
<1>2. CASE q = r[p].parent
  BY <1>1, <1>2, UnlinkedFields, WithoutMembers
<1>3. CASE q # r[p].parent
  BY <1>3, UnlinkedFields
<1> QED
  BY <1>2, <1>3

LEMMA OrphanedFields ==
  ASSUME records \in Records, NEW p \in Pid
  PROVE  \A q \in Pid :
           /\ Orphaned(p)[q].state = records[q].state
           /\ Orphaned(p)[q].name = records[q].name
           /\ Orphaned(p)[q].policy = records[q].policy
           /\ Orphaned(p)[q].resources = records[q].resources
           /\ Orphaned(p)[q].history = records[q].history
           /\ Orphaned(p)[q].stop = records[q].stop
           /\ Orphaned(p)[q].children = IF q = p THEN <<>> ELSE records[q].children
           /\ Orphaned(p)[q].parent =
                IF q # p /\ q \in Members(records[p].children) THEN None
                                                            ELSE records[q].parent
BY DEF Orphaned, Records, Record

LEMMA OrphanedReshapes ==
  ASSUME records \in Records, NEW p \in Pid
  PROVE  Reshapes(records, Orphaned(p))
BY OrphanedFields, EmptyListMembers DEF Reshapes, Alive

\* What is noted at a supervisor.
LEMMA NotedReshapes ==
  ASSUME NEW r \in Records, NEW s, NEW h \in Nat
  PROVE  /\ Reshapes(r, r)
         /\ Reshapes(r, [r EXCEPT ![s].history = h])
         /\ Reshapes(r, [r EXCEPT ![s].escalated = TRUE])
         /\ Reshapes(r, [r EXCEPT ![s].history = h, ![s].escalated = TRUE])
BY DEF Reshapes, Records, Record, Alive

LEMMA ReshapesTrans ==
  ASSUME NEW r, NEW t, NEW u \in Records, Reshapes(r, t), Reshapes(t, u)
  PROVE  Reshapes(r, u)
<1>1. \A p \in Pid : Members(u[p].children) \subseteq Pid
  BY MembersType DEF Records, Record
<1> QED
  BY <1>1 DEF Reshapes

\* From r to t one process q is added.
Added(r, t, q, n, pol, par, old) ==
  /\ q \in Pid /\ r[q].state = "none"
  /\ t[q].state = "starting" /\ t[q].name = n /\ t[q].policy = pol
  /\ t[q].parent = par /\ t[q].children = <<>> /\ t[q].resources
  /\ t[q].history = 0
  /\ \A p \in Pid : p # q =>
       /\ t[p].state = r[p].state /\ t[p].name = r[p].name
       /\ t[p].policy = r[p].policy /\ t[p].parent = r[p].parent
       /\ t[p].resources = r[p].resources /\ t[p].history = r[p].history
       /\ t[p].children = IF p = par THEN Replaced(r[p].children, old, q)
                                     ELSE r[p].children

LEMMA LinkedFields ==
  ASSUME NEW r \in Records, NEW par \in Pid \cup {None}, NEW q \in Pid, NEW old,
         NEW n, NEW pol, r[q].state = "none", par # q
  PROVE  Added(r, Linked([r EXCEPT ![q] = NewRecord(n, pol, par)], par, old, q),
               q, n, pol, par, old)
<1> DEFINE k == NewRecord(n, pol, par)
           r1 == [r EXCEPT ![q] = k]
           t == Linked(r1, par, old, q)
<1>1. /\ k.state = "starting" /\ k.name = n /\ k.policy = pol /\ k.parent = par
      /\ k.children = <<>> /\ k.resources /\ k.history = 0
  BY DEF NewRecord
<1>2. t = Linked(r1, par, old, q)
  OBVIOUS
<1> HIDE DEF k
<1>3. DOMAIN r1 = Pid /\ \A p \in Pid : r1[p] = IF p = q THEN k ELSE r[p]
  BY DEF Records
<1> HIDE DEF r1, t
<1>4. CASE par = None
  <2>1. t = r1 /\ ~ (par \in Pid)
    BY <1>2, <1>4, BoundAssumption DEF Linked, None, Pid
  <2> QED
    BY <1>1, <1>3, <2>1 DEF Added, t, r1, k
<1>5. CASE par # None
  <2> DEFINE list == Replaced(r[par].children, old, q)
             m == [r[par] EXCEPT !.children = list]
  <2>1. par \in Pid
    BY <1>5
  <2>2. t = [r1 EXCEPT ![par] = m]
    BY <1>2, <1>3, <1>5, <2>1 DEF Linked, Replaced
  <2>3. r[par] \in Record
    BY <2>1 DEF Records
  <2>4. list = Replaced(r[par].children, old, q)
    OBVIOUS
  <2> HIDE DEF list
  <2>5. /\ m.children = list /\ m.parent = r[par].parent /\ m.state = r[par].state
        /\ m.name = r[par].name /\ m.policy = r[par].policy
        /\ m.resources = r[par].resources /\ m.history = r[par].history
    BY <2>3 DEF Record
  <2> HIDE DEF m
  <2>6. \A p \in Pid : t[p] = IF p = par THEN m ELSE IF p = q THEN k ELSE r[p]
    BY <1>3, <2>1, <2>2
  <2>7. t[q] = k
    BY <2>6
  <2>8. \A p \in Pid : p # q => t[p] = IF p = par THEN m ELSE r[p]
    BY <2>6
  <2>9. Added(r, t, q, n, pol, par, old)
    BY <1>1, <2>4, <2>5, <2>7, <2>8 DEF Added
  <2> QED
    BY <2>9 DEF t, r1, k
<1> QED
  BY <1>4, <1>5

\* What Launch does: nothing to the records, or it adds the process nextPid.
LaunchesNothing(r, names, boxes) ==
  /\ records' = r /\ byName' = names
  /\ UNCHANGED <<task, origin>>
Launched(r, names, boxes, n, pol, par, old, by) ==
  /\ Launchable(names, boxes, n)
  /\ Added(r, records', nextPid, n, pol, par, old)
  /\ byName' = [names EXCEPT ![n] = nextPid]
  /\ mailboxes' = [boxes EXCEPT ![n] = nextPid]
  /\ task' = [task EXCEPT ![nextPid] = "created"]
  /\ origin' = [origin EXCEPT ![nextPid] = [replaces |-> old, under |-> par, by |-> by]]

LEMMA LaunchCases ==
  ASSUME TypeOK, NEW r \in Records, Allocated(r), NEW names, NEW boxes,
         NEW n, NEW pol, NEW par \in Pid \cup {None}, NEW old, NEW by,
         par # None => r[par].state # "none",
         Launch(r, names, boxes, n, pol, par, old, by)
  PROVE  \/ /\ LaunchesNothing(r, names, boxes) /\ ~Launchable(names, boxes, n)
            /\ \/ mailboxes' = boxes
               \/ names[n] = None /\ mailboxes' = [boxes EXCEPT ![n] = None]
         \/ Launched(r, names, boxes, n, pol, par, old, by)
<1>1. CASE /\ names[n] # None
           /\ records' = r /\ byName' = names /\ mailboxes' = boxes
           /\ UNCHANGED <<nextPid, task, origin>>
  BY <1>1 DEF LaunchesNothing, Launchable
<1>2. CASE /\ names[n] = None /\ boxes[n] # None
           /\ records' = r /\ byName' = names
           /\ mailboxes' = [boxes EXCEPT ![n] = None]
           /\ UNCHANGED <<task, origin>>
  BY <1>2 DEF LaunchesNothing, Launchable
<1>3. CASE /\ Launchable(names, boxes, n)
           /\ nextPid <= MaxPid
           /\ records' = Linked([r EXCEPT ![nextPid] = NewRecord(n, pol, par)],
                                par, old, nextPid)
           /\ byName' = [names EXCEPT ![n] = nextPid]
           /\ mailboxes' = [boxes EXCEPT ![n] = nextPid]
           /\ task' = [task EXCEPT ![nextPid] = "created"]
           /\ origin' = [origin EXCEPT ![nextPid] =
                           [replaces |-> old, under |-> par, by |-> by]]
  <2>1. nextPid \in Pid
    BY <1>3 DEF TypeOK, Pid
  <2>2. ~(nextPid < nextPid)
    BY <2>1, BoundAssumption DEF Pid
  <2>3. r[nextPid].state = "none"
    BY <2>1, <2>2 DEF Allocated
  <2>4. par # nextPid
    BY <2>3, BoundAssumption, <2>1 DEF None, Pid
  <2>5. Added(r, records', nextPid, n, pol, par, old)
    BY <1>3, <2>1, <2>3, <2>4, LinkedFields
  <2> QED
    BY <1>3, <2>5 DEF Launched
<1> QED
  BY <1>1, <1>2, <1>3 DEF Launch

\* A process added under a free name follows it.
LEMMA AddedIsSound ==
  ASSUME NEW r \in Records, NEW t, NEW q, NEW n \in Name, NEW pol, NEW par, NEW old,
         Added(r, t, q, n, pol, par, old), Sound(r),
         NEW names \in Indexes, NEW boxes \in Indexes, NEW con,
         Launchable(names, boxes, n), Follow(r, names, boxes, con)
  PROVE  /\ Sound(t) /\ Stay(r, t)
         /\ \A p \in Pid : Alive(t, p) <=> Alive(r, p) \/ p = q
         /\ Follow(t, [names EXCEPT ![n] = q], [boxes EXCEPT ![n] = q], con)
<1>1. /\ q \in Pid /\ r[q].state = "none" /\ t[q].state = "starting"
      /\ t[q].name = n /\ t[q].resources /\ t[q].children = <<>>
      /\ \A p \in Pid : p # q =>
           /\ t[p].state = r[p].state /\ t[p].name = r[p].name
           /\ t[p].policy = r[p].policy /\ t[p].resources = r[p].resources
           /\ t[p].children = IF p = par THEN Replaced(r[p].children, old, q)
                                         ELSE r[p].children
  BY DEF Added
<1>2. Alive(t, q) /\ ~Alive(r, q) /\ \A p \in Pid : p # q => (Alive(t, p) <=> Alive(r, p))
  BY <1>1 DEF Alive
<1>3. Stay(r, t)
  BY <1>1 DEF Stay
<1>4. ASSUME NEW p \in Pid PROVE Known(t, t[p].children) /\ Distinct(t[p].children)
  <2>1. r[p].children \in Seq(Pid) /\ Members(r[p].children) \subseteq Pid
    BY MembersType DEF Records, Record
  <2>2. \A x \in Members(r[p].children) : r[x].state # "none" /\ x # q
    BY <1>1 DEF Sound, Known
  <2>3. Distinct(r[p].children)
    BY DEF Sound
  <2>4. CASE p = q
    BY <1>1, <2>4, EmptyListMembers DEF Known
  <2>5. CASE p # q /\ p = par
    <3>1. /\ Members(t[p].children) \subseteq Members(r[p].children) \cup {q}
          /\ Distinct(t[p].children)
      BY <1>1, <2>1, <2>2, <2>3, <2>5, ReplacedMembers
    <3> QED
      BY <1>1, <2>1, <2>2, <3>1 DEF Known
  <2>6. CASE p # q /\ p # par
    <3>1. t[p].children = r[p].children
      BY <1>1, <2>6
    <3> QED
      BY <1>1, <2>1, <2>2, <2>3, <3>1 DEF Known
  <2> QED
    BY <2>4, <2>5, <2>6
<1>5. Sound(t)
  BY <1>1, <1>2, <1>4 DEF Sound
<1>6. \A p \in Pid : Alive(r, p) /\ r[p].name \notin con => r[p].name # n
  <2> SUFFICES ASSUME NEW p \in Pid, Alive(r, p), n \notin con, r[p].name = n
               PROVE  FALSE
    OBVIOUS
  <2>1. names[n] = p
    BY DEF Follow
  <2> QED
    BY <2>1, BoundAssumption DEF Launchable, None, Pid
<1>7. /\ \A m \in Name : [names EXCEPT ![n] = q][m] = IF m = n THEN q ELSE names[m]
      /\ \A m \in Name : [boxes EXCEPT ![n] = q][m] = IF m = n THEN q ELSE boxes[m]
  BY DEF Indexes
<1> DEFINE N == [names EXCEPT ![n] = q]
           B == [boxes EXCEPT ![n] = q]
<1> HIDE DEF N, B
<1>8. \A m \in Name : N[m] = (IF m = n THEN q ELSE names[m])
                      /\ B[m] = (IF m = n THEN q ELSE boxes[m])
  BY <1>7 DEF N, B
<1>9. \A p \in Pid : Alive(t, p) /\ t[p].name \notin con =>
        N[t[p].name] = p /\ B[t[p].name] = p
  <2> SUFFICES ASSUME NEW p \in Pid, Alive(t, p), t[p].name \notin con
               PROVE  N[t[p].name] = p /\ B[t[p].name] = p
    OBVIOUS
  <2>1. t[p].name \in Name
    BY <1>5 DEF Sound, Alive
  <2>2. CASE p = q
    BY <1>1, <1>8, <2>2
  <2>3. CASE p # q
    <3>1. Alive(r, p) /\ r[p].name = t[p].name /\ t[p].name # n
      BY <1>1, <1>2, <1>6, <2>3
    <3> QED
      BY <1>8, <2>1, <3>1 DEF Follow
  <2> QED
    BY <2>2, <2>3
<1>10. \A m \in Name \ con : B[m] # None => Alive(t, B[m]) /\ t[B[m]].name = m
  <2> SUFFICES ASSUME NEW m \in Name \ con, B[m] # None
               PROVE  Alive(t, B[m]) /\ t[B[m]].name = m
    OBVIOUS
  <2>1. CASE m = n
    BY <1>1, <1>2, <1>8, <2>1
  <2>2. CASE m # n
    <3>1. B[m] = boxes[m] /\ boxes[m] \in Pid /\ Alive(r, boxes[m]) /\ r[boxes[m]].name = m
      BY <1>8, <2>2 DEF Follow, Indexes
    <3>2. boxes[m] # q
      BY <1>2, <3>1
    <3> QED
      BY <1>1, <1>2, <3>1, <3>2
  <2> QED
    BY <2>1, <2>2
<1>11. Follow(t, N, B, con)
  BY <1>9, <1>10 DEF Follow
<1> QED
  BY <1>2, <1>3, <1>5, <1>11 DEF N, B

-----------------------------------------------------------------------------
(* The names: the invariant *)

\* A kill that is past its guard and has not killed yet.
Past(f) == f.op = "kill" /\ f.at \notin {"enter", "tail"}

\* Whatever is left to be killed or restarted was started.
TodoKnown(st, r) ==
  \A c \in Coroutine : \A k \in 1 .. Len(st[c]) : Known(r, FrameAt(st[c], k).todo)

\* A process that is being torn down was started; unless its name is contested
\* it has not ended, and no other kill tears it down.
Torn(st, r, con) ==
  \A c \in Coroutine : \A k \in 1 .. Len(st[c]) :
    Past(FrameAt(st[c], k)) =>
      LET p == FrameAt(st[c], k).pid
      IN /\ r[p].state # "none"
         /\ r[p].name \notin con =>
              /\ Alive(r, p)
              /\ \A d \in Coroutine : \A j \in 1 .. Len(st[d]) :
                   Past(FrameAt(st[d], j)) /\ FrameAt(st[d], j).pid = p =>
                     d = c /\ j = k

\* What makes NamesFollowProcesses inductive.
Indexed ==
  /\ Sound(records)
  /\ Follow(records, byName, mailboxes, contested)
  /\ TodoKnown(stack, records)
  /\ Torn(stack, records, contested)

IndexedNext ==
  /\ Sound(records')
  /\ Follow(records', byName', mailboxes', contested')
  /\ TodoKnown(stack', records')
  /\ Torn(stack', records', contested')

LEMMA IndexedPrimed == IndexedNext => Indexed'
BY DEF Indexed, IndexedNext, Sound, Follow, TodoKnown, Torn, Known, Alive, Distinct,
       Past, FrameAt, Members

\* No kill gets past its guard in a step; nothing unheard of is to be killed.
NoneTorn ==
  \A c \in Coroutine : \A k \in 1 .. Len(stack'[c]) :
    Past(FrameAt(stack'[c], k)) =>
      /\ k \in 1 .. Len(stack[c])
      /\ Past(FrameAt(stack[c], k))
      /\ FrameAt(stack'[c], k).pid = FrameAt(stack[c], k).pid
KnownTodo == TodoKnown(stack', records)

LEMMA StackStays ==
  ASSUME TodoKnown(stack, records), UNCHANGED stack
  PROVE  NoneTorn /\ KnownTodo
BY DEF NoneTorn, KnownTodo, TodoKnown

LEMMA GotoQuiet ==
  ASSUME TypeOK, TodoKnown(stack, records), NEW c \in Coroutine, stack[c] # <<>>,
         NEW f \in Frame, Goto(c, f), Past(f) => Past(Top(c)), f.pid = Top(c).pid,
         Known(records, f.todo)
  PROVE  NoneTorn /\ KnownTodo
<1>1. Went(c, f)
  BY GotoFrames
<1>2. Len(stack[c]) \in 1 .. Len(stack[c]) /\ FrameAt(stack[c], Len(stack[c])) = Top(c)
  BY Depths
<1>3. ASSUME NEW d \in Coroutine, NEW k \in 1 .. Len(stack'[d])
      PROVE  /\ k \in 1 .. Len(stack[d])
             /\ FrameAt(stack'[d], k) =
                  IF d = c /\ k = Len(stack[c]) THEN f ELSE FrameAt(stack[d], k)
  BY <1>1 DEF Went, Elsewhere
<1>4. NoneTorn
  BY <1>2, <1>3 DEF NoneTorn
<1>5. KnownTodo
  BY <1>3 DEF KnownTodo, TodoKnown
<1> QED
  BY <1>4, <1>5

LEMMA CallQuiet ==
  ASSUME TypeOK, TodoKnown(stack, records), NEW c \in Coroutine, stack[c] # <<>>,
         NEW f \in Frame, NEW g \in Frame, Call(c, f, g),
         Past(f) => Past(Top(c)), f.pid = Top(c).pid, ~Past(g),
         Known(records, f.todo), Known(records, g.todo)
  PROVE  NoneTorn /\ KnownTodo
<1>1. Called(c, f, g)
  BY CallFrames
<1>2. /\ Len(stack[c]) \in 1 .. Len(stack[c]) /\ Len(stack[c]) \in Nat
      /\ FrameAt(stack[c], Len(stack[c])) = Top(c)
  BY Depths
<1>3. ASSUME NEW d \in Coroutine, NEW k \in 1 .. Len(stack'[d])
      PROVE  \/ /\ k \in 1 .. Len(stack[d])
                /\ FrameAt(stack'[d], k) =
                     IF d = c /\ k = Len(stack[c]) THEN f ELSE FrameAt(stack[d], k)
             \/ FrameAt(stack'[d], k) = g
  <2>1. CASE d # c
    BY <1>1, <2>1 DEF Called, Elsewhere
  <2>2. CASE d = c
    <3>1. k \in 1 .. Len(stack[c]) \/ k = Len(stack[c]) + 1
      BY <1>1, <1>2, <2>2 DEF Called
    <3> QED
      BY <1>1, <2>2, <3>1 DEF Called
  <2> QED
    BY <2>1, <2>2
<1>4. NoneTorn
  BY <1>2, <1>3 DEF NoneTorn
<1>5. KnownTodo
  BY <1>3 DEF KnownTodo, TodoKnown
<1> QED
  BY <1>4, <1>5

LEMMA ReturnQuiet ==
  ASSUME TypeOK, TodoKnown(stack, records), NEW c \in Coroutine, stack[c] # <<>>,
         Return(c)
  PROVE  NoneTorn /\ KnownTodo
<1>1. Returned(c)
  BY ReturnFrames
<1>2. Len(stack[c]) \in Nat
  BY Depths
<1>3. ASSUME NEW d \in Coroutine, NEW k \in 1 .. Len(stack'[d])
      PROVE  k \in 1 .. Len(stack[d]) /\ FrameAt(stack'[d], k) = FrameAt(stack[d], k)
  <2>1. CASE d # c
    BY <1>1, <2>1 DEF Returned, Elsewhere
  <2>2. CASE d = c
    BY <1>1, <1>2, <2>2 DEF Returned
  <2> QED
    BY <2>1, <2>2
<1> QED
  BY <1>3 DEF NoneTorn, KnownTodo, TodoKnown

LEMMA BeginQuiet ==
  ASSUME TypeOK, TodoKnown(stack, records), NEW c \in Coroutine, stack[c] = <<>>,
         NEW f, stack' = [stack EXCEPT ![c] = <<f>>], ~Past(f), Known(records, f.todo)
  PROVE  NoneTorn /\ KnownTodo
<1>1. Began(c, f)
  BY BeginFrames
<1>2. ASSUME NEW d \in Coroutine, NEW k \in 1 .. Len(stack'[d])
      PROVE  \/ k \in 1 .. Len(stack[d]) /\ FrameAt(stack'[d], k) = FrameAt(stack[d], k)
             \/ FrameAt(stack'[d], k) = f
  <2>1. CASE d # c
    BY <1>1, <2>1 DEF Began, Elsewhere
  <2>2. CASE d = c
    <3>1. k = 1
      BY <1>1, <2>2 DEF Began
    <3> QED
      BY <1>1, <2>2, <3>1 DEF Began
  <2> QED
    BY <2>1, <2>2
<1> QED
  BY <1>2 DEF NoneTorn, KnownTodo, TodoKnown

\* A step in which no kill gets past its guard keeps what is said of the kills,
\* if it ends no process but under a contested name.
LEMMA TornKept ==
  ASSUME TypeOK, Torn(stack, records, contested), NoneTorn, NEW t, Stay(records, t),
         NEW con, contested \subseteq con,
         \A c \in Coroutine : \A k \in 1 .. Len(stack'[c]) :
           LET p == FrameAt(stack'[c], k).pid
           IN Past(FrameAt(stack'[c], k)) /\ records[p].name \notin con =>
                (Alive(records, p) => Alive(t, p))
  PROVE  Torn(stack', t, con)
<1> SUFFICES ASSUME NEW c \in Coroutine, NEW k \in 1 .. Len(stack'[c]),
                    Past(FrameAt(stack'[c], k))
             PROVE  LET p == FrameAt(stack'[c], k).pid
                    IN /\ t[p].state # "none"
                       /\ t[p].name \notin con =>
                            /\ Alive(t, p)
                            /\ \A d \in Coroutine : \A j \in 1 .. Len(stack'[d]) :
                                 Past(FrameAt(stack'[d], j))
                                   /\ FrameAt(stack'[d], j).pid = p => d = c /\ j = k
  BY DEF Torn
<1> DEFINE p == FrameAt(stack'[c], k).pid
<1>1. /\ k \in 1 .. Len(stack[c]) /\ Past(FrameAt(stack[c], k))
      /\ FrameAt(stack[c], k).pid = p
  BY DEF NoneTorn
<1>2. p \in Pid
  BY <1>1, Depths DEF Fields
<1>3. /\ records[p].state # "none"
      /\ records[p].name \notin contested =>
           /\ Alive(records, p)
           /\ \A d \in Coroutine : \A j \in 1 .. Len(stack[d]) :
                Past(FrameAt(stack[d], j)) /\ FrameAt(stack[d], j).pid = p =>
                  d = c /\ j = k
  BY <1>1 DEF Torn
<1>4. t[p].state # "none" /\ t[p].name = records[p].name
  BY <1>2, <1>3 DEF Stay
<1>5. ASSUME t[p].name \notin con
      PROVE  /\ Alive(t, p)
             /\ \A d \in Coroutine : \A j \in 1 .. Len(stack'[d]) :
                  Past(FrameAt(stack'[d], j)) /\ FrameAt(stack'[d], j).pid = p =>
                    d = c /\ j = k
  <2>1. Alive(t, p)
    BY <1>3, <1>4, <1>5
  <2>2. ASSUME NEW d \in Coroutine, NEW j \in 1 .. Len(stack'[d]),
               Past(FrameAt(stack'[d], j)), FrameAt(stack'[d], j).pid = p
        PROVE  d = c /\ j = k
    <3>1. /\ j \in 1 .. Len(stack[d]) /\ Past(FrameAt(stack[d], j))
          /\ FrameAt(stack[d], j).pid = p
      BY <2>2 DEF NoneTorn
    <3> QED
      BY <1>3, <1>4, <1>5, <3>1
  <2> QED
    BY <2>1, <2>2
<1> QED
  BY <1>4, <1>5

\* What was known stays known.
LEMMA TodoKept ==
  ASSUME TypeOK', KnownTodo, NEW t, Stay(records, t)
  PROVE  TodoKnown(stack', t)
<1> SUFFICES ASSUME NEW c \in Coroutine, NEW k \in 1 .. Len(stack'[c]),
                    NEW x \in Members(FrameAt(stack'[c], k).todo)
             PROVE  t[x].state # "none"
  BY DEF TodoKnown, Known
<1>1. FrameAt(stack'[c], k) \in Frame
  <2>1. stack'[c] \in Seq(Frame)
    BY DEF TypeOK
  <2>2. Len(stack'[c]) \in Nat /\ \A i \in 1 .. Len(stack'[c]) : stack'[c][i] \in Frame
    BY <2>1, LenProperties, ElementOfSeq
  <2>3. Len(stack'[c]) + 1 - k \in 1 .. Len(stack'[c])
    BY <2>2
  <2> QED
    BY <2>2, <2>3 DEF FrameAt
<1>2. x \in Pid
  BY <1>1, MembersType DEF Frame, Fields
<1>3. records[x].state # "none"
  BY DEF KnownTodo, TodoKnown, Known
<1> QED
  BY <1>2, <1>3 DEF Stay

\* A step in which no process begins or ends.
LEMMA QuietStep ==
  ASSUME TypeOK, TypeOK', Indexed, NoneTorn, KnownTodo, Reshapes(records, records'),
         UNCHANGED <<byName, mailboxes, contested>>
  PROVE  IndexedNext
<1>1. records \in Records /\ records' \in Records /\ mailboxes \in Indexes
  BY DEF TypeOK, Records, Indexes
<1>2. /\ Sound(records') /\ Stay(records, records')
      /\ \A p \in Pid : Alive(records', p) <=> Alive(records, p)
      /\ Follow(records', byName, mailboxes, contested)
  BY <1>1, ReshapedIsSound DEF Indexed
<1>3. \A c \in Coroutine : \A k \in 1 .. Len(stack'[c]) :
        Past(FrameAt(stack'[c], k)) => FrameAt(stack'[c], k).pid \in Pid
  BY Depths DEF NoneTorn, Fields
<1>4. Torn(stack', records', contested)
  BY <1>2, <1>3, TornKept DEF Indexed
<1>5. TodoKnown(stack', records')
  BY <1>2, TodoKept
<1> QED
  BY <1>2, <1>4, <1>5 DEF IndexedNext

-----------------------------------------------------------------------------
(* The names: steps in which no process begins or ends *)

LEMMA SameReshapes == Reshapes(records, records)
BY DEF Reshapes

\* The innermost call of a coroutine, and what it has left to do.
LEMMA TopFields ==
  ASSUME TypeOK, NEW c \in Coroutine, stack[c] # <<>>
  PROVE  /\ Top(c) \in Frame /\ Top(c) \in Fields
         /\ Top(c).pid \in Pid /\ Top(c).todo \in Seq(Pid)
         /\ TodoKnown(stack, records) => Known(records, Top(c).todo)
         /\ TodoKnown(stack, records) /\ Top(c).todo # <<>> =>
              /\ Known(records, Tail(Top(c).todo))
              /\ Head(Top(c).todo) \in Pid
              /\ records[Head(Top(c).todo)].state # "none"
<1>1. Top(c) \in Frame /\ Top(c) \in Fields /\ Top(c).pid \in Pid /\ Top(c).todo \in Seq(Pid)
  BY TopType DEF Frame, Fields
<1>2. /\ Len(stack[c]) \in 1 .. Len(stack[c])
      /\ FrameAt(stack[c], Len(stack[c])) = Top(c)
  BY Depths
<1>3. ASSUME TodoKnown(stack, records) PROVE Known(records, Top(c).todo)
  BY <1>2, <1>3 DEF TodoKnown
<1>4. ASSUME TodoKnown(stack, records), Top(c).todo # <<>>
      PROVE  /\ Known(records, Tail(Top(c).todo))
             /\ Head(Top(c).todo) \in Pid
             /\ records[Head(Top(c).todo)].state # "none"
  <2>1. /\ Head(Top(c).todo) \in Members(Top(c).todo)
        /\ Members(Tail(Top(c).todo)) \subseteq Members(Top(c).todo)
    BY <1>1, <1>4, TailMembers
  <2>2. Members(Top(c).todo) \subseteq Pid
    BY <1>1, MembersType
  <2> QED
    BY <1>3, <1>4, <2>1, <2>2 DEF Known
<1> QED
  BY <1>1, <1>3, <1>4

LEMMA UnchangedIndexed ==
  ASSUME TypeOK, TypeOK', Indexed, NoneTorn, KnownTodo,
         UNCHANGED registryVars, UNCHANGED contested
  PROVE  IndexedNext
BY SameReshapes, QuietStep DEF registryVars

LEMMA StartTaskIndexed ==
  ASSUME IInv, TypeOK', Indexed, NEW p \in Pid, StartTask(p) PROVE IndexedNext
<1>1. NoneTorn /\ KnownTodo
  BY StackStays DEF StartTask, Indexed
<1>2. Active(p) /\ records \in Records
  BY DEF StartTask, IInv, TypeOK, Records, TasksHaveProcesses
<1>3. Reshapes(records, records')
  BY <1>2 DEF StartTask, Reshapes, Active, Alive, Records, Record
<1> QED
  BY <1>1, <1>3, QuietStep DEF StartTask, IInv

LEMMA IdleIndexed ==
  ASSUME IInv, TypeOK', Indexed, NEW p \in Coroutine,
         TaskNeverRuns(p) \/ BodyStops(p) \/ LoopFreed(p)
  PROVE  IndexedNext
<1>1. UNCHANGED <<registryVars, stack, contested>>
  BY DEF TaskNeverRuns, BodyStops, LoopFreed
<1>2. NoneTorn /\ KnownTodo
  BY <1>1, StackStays DEF Indexed
<1> QED
  BY <1>1, <1>2, UnchangedIndexed DEF IInv

LEMMA KillRefusedIndexed ==
  ASSUME IInv, TypeOK', Indexed, NEW c \in Coroutine, KillRefused(c)
  PROVE  IndexedNext
<1>1. NoneTorn /\ KnownTodo
  BY ReturnQuiet DEF KillRefused, At, IInv, Indexed
<1> QED
  BY <1>1, UnchangedIndexed DEF KillRefused, IInv

LEMMA KillsChildIndexed ==
  ASSUME IInv, TypeOK', Indexed, NEW c \in Coroutine, KillsChild(c)
  PROVE  IndexedNext
<1> DEFINE f == [Top(c) EXCEPT !.todo = Tail(@)]
           g == NewKill(Head(Top(c).todo), FALSE)
<1>1. stack[c] # <<>> /\ Top(c).at = "children" /\ Top(c).todo # <<>> /\ Call(c, f, g)
  BY DEF KillsChild
<1>2. /\ Top(c) \in Frame /\ Top(c) \in Fields /\ Top(c).todo \in Seq(Pid)
      /\ Known(records, Tail(Top(c).todo)) /\ Head(Top(c).todo) \in Pid
  BY <1>1, TopFields DEF IInv, Indexed
<1>3. g \in Frame /\ ~Past(g) /\ g.todo = <<>>
  BY <1>2, NewFrameTypes DEF IInv, NewKill, Past
<1>4. f \in Frame /\ f.pid = Top(c).pid /\ f.todo = Tail(Top(c).todo)
      /\ (Past(f) => Past(Top(c)))
  BY <1>1, <1>2, HeadTailProperties DEF Frame, Fields, Past
<1>5. Known(records, g.todo)
  BY <1>3, EmptyListMembers DEF Known
<1> HIDE DEF f, g
<1>6. NoneTorn /\ KnownTodo
  BY <1>1, <1>2, <1>3, <1>4, <1>5, CallQuiet DEF IInv, Indexed
<1> QED
  BY <1>6, UnchangedIndexed DEF KillsChild, IInv

LEMMA KillCancelsIndexed ==
  ASSUME IInv, TypeOK', Indexed, NEW c \in Coroutine, KillCancels(c)
  PROVE  IndexedNext
<1> DEFINE u == Top(c).aux
           f == [Top(c) EXCEPT !.at = "cancel", !.aux = Top(u).pid]
           g == [Top(c) EXCEPT !.at = "await"]
<1>1. /\ stack[c] # <<>> /\ Past(Top(c))
      /\ (u \in Pid /\ At(u, "kill", "await") /\ Goto(c, f)) \/ Goto(c, g)
  BY DEF KillCancels, At, Past
<1>2. /\ Top(c) \in Frame /\ Top(c) \in Fields /\ Known(records, Top(c).todo)
  BY <1>1, TopFields DEF IInv, Indexed
<1>3. g \in Frame /\ g.pid = Top(c).pid /\ g.todo = Top(c).todo
  BY <1>2 DEF Frame, Fields
<1>4. ASSUME u \in Pid, At(u, "kill", "await")
      PROVE  f \in Frame /\ f.pid = Top(c).pid /\ f.todo = Top(c).todo
  <2>1. Top(u).pid \in Pid
    BY <1>4, TopFields DEF IInv, At, Coroutine
  <2> QED
    BY <1>2, <2>1 DEF Frame, Fields
<1> HIDE DEF f, g, u
<1>5. NoneTorn /\ KnownTodo
  BY <1>1, <1>2, <1>3, <1>4, GotoQuiet DEF IInv, Indexed
<1> QED
  BY <1>5, UnchangedIndexed DEF KillCancels, IInv

LEMMA KillUnlinksIndexed ==
  ASSUME IInv, TypeOK', Indexed, NEW c \in Coroutine, KillUnlinks(c)
  PROVE  IndexedNext
<1>1. stack[c] # <<>> /\ Return(c)
  BY DEF KillUnlinks, At
<1>2. Top(c).pid \in Pid /\ records \in Records
  BY <1>1, TopFields DEF IInv, TypeOK, Records
<1>3. NoneTorn /\ KnownTodo
  BY <1>1, ReturnQuiet DEF IInv, Indexed
<1>4. Reshapes(records, records')
  BY <1>2, UnlinkedReshapes DEF KillUnlinks
<1> QED
  BY <1>3, <1>4, QuietStep DEF KillUnlinks, IInv

\* The processes a handler may have to restart are known.
LEMMA AffectedKnown ==
  ASSUME TypeOK, Sound(records), NEW sup \in Pid, NEW p \in Pid,
         records[p].state # "none"
  PROVE  Known(records, Affected(sup, p))
<1> DEFINE list == records[sup].children
<1>1. list \in Seq(Pid) /\ Known(records, list)
  BY DEF TypeOK, Record, Sound
<1>2. CASE Affected(sup, p) = <<p>>
  <2>1. Members(<<p>>) = {p}
    BY DEF Members
  <2> QED
    BY <1>2, <2>1 DEF Known
<1>3. CASE Affected(sup, p) = list
  BY <1>1, <1>3
<1>4. CASE p \in Members(list) /\ Affected(sup, p) = SubSeq(list, IndexOf(list, p), Len(list))
  <2>1. IndexOf(list, p) \in 1 .. Len(list)
    BY <1>1, <1>4, IndexOfMember
  <2> HIDE DEF list
  <2>2. Members(SubSeq(list, IndexOf(list, p), Len(list))) \subseteq Members(list)
    BY <1>1, <2>1, RestMembers
  <2> QED
    BY <1>1, <1>4, <2>2 DEF Known
<1> QED
  BY <1>2, <1>3, <1>4 DEF Affected

LEMMA HandlerDecidesIndexed ==
  ASSUME IInv, TypeOK', Indexed, NEW c \in Pid, HandlerDecides(c)
  PROVE  IndexedNext
<1> DEFINE sup == records[c].parent
           r == IF Top(c).flag THEN Orphaned(c) ELSE records
           f == [Top(c) EXCEPT !.at = "next", !.aux = sup, !.todo = Affected(sup, c)]
<1>1. /\ c \in Coroutine /\ stack[c] # <<>> /\ At(c, "handle", "children")
      /\ UNCHANGED <<byName, mailboxes, contested>>
  BY DEF HandlerDecides, At, Coroutine
<1>2. Top(c) \in Frame /\ Top(c) \in Fields /\ records \in Records
  BY <1>1, TopFields DEF IInv, TypeOK, Records
<1>3. records[c].state # "none"
  BY <1>1 DEF IInv, HandlersHaveTasks, TasksHaveProcesses
<1>4. r \in Records /\ Reshapes(records, r)
  BY <1>2, OrphanedType, OrphanedReshapes, SameReshapes
<1>5. records' \in Records
  BY DEF TypeOK, Records
<1>6. /\ Unlinked(r, c) \in Records /\ Reshapes(r, Unlinked(r, c))
  BY <1>4, UnlinkedType, UnlinkedReshapes
<1>7. \/ records' = r /\ Return(c)
      \/ records' = Unlinked(r, c) /\ Return(c)
      \/ /\ Live(sup) /\ \E h \in Nat : records' = [Unlinked(r, c) EXCEPT ![sup].history = h,
                                                                          ![sup].escalated = TRUE]
         /\ Return(c)
      \/ /\ Live(sup) /\ \E h \in Nat : records' = [r EXCEPT ![sup].history = h]
         /\ Goto(c, f)
  <2>1. ASSUME Live(sup)
        PROVE  sup \in Pid /\ records[sup].history \in Nat /\ Attempts(sup, c) \in Nat
    <3>1. sup \in Pid
      BY <1>2, <2>1 DEF Live, Records, Record
    <3> QED
      BY <1>2, <3>1, AttemptsType DEF IInv, Records, Record
  <2>2. ASSUME NEW h \in 0 .. records[sup].history \cup {records[sup].history}, Live(sup)
        PROVE  h \in Nat /\ h + Attempts(sup, c) \in Nat
    BY <2>1, <2>2
  <2> QED
    BY <2>2 DEF HandlerDecides
<1>8. Reshapes(records, records')
  <2>1. CASE records' = r
    BY <1>4, <2>1
  <2>2. CASE records' = Unlinked(r, c)
    BY <1>4, <1>5, <1>6, <2>2, ReshapesTrans
  <2>3. ASSUME NEW h \in Nat,
               records' = [Unlinked(r, c) EXCEPT ![sup].history = h, ![sup].escalated = TRUE]
        PROVE  Reshapes(records, records')
    <3>1. Reshapes(Unlinked(r, c), records')
      BY <1>6, <2>3, NotedReshapes
    <3>2. Reshapes(records, Unlinked(r, c))
      BY <1>4, <1>6, ReshapesTrans
    <3> QED
      BY <1>5, <3>1, <3>2, ReshapesTrans
  <2>4. ASSUME NEW h \in Nat, records' = [r EXCEPT ![sup].history = h]
        PROVE  Reshapes(records, records')
    <3>1. Reshapes(r, records')
      BY <1>4, <2>4, NotedReshapes
    <3> QED
      BY <1>4, <1>5, <3>1, ReshapesTrans
  <2> QED
    BY <1>7, <2>1, <2>2, <2>3, <2>4
<1>9. NoneTorn /\ KnownTodo
  <2>1. CASE Return(c)
    BY <1>1, <2>1, ReturnQuiet DEF IInv, Indexed
  <2>2. CASE Live(sup) /\ Goto(c, f)
    <3>1. sup \in Pid
      BY <1>2, <2>2 DEF Live, Records, Record
    <3>2. Affected(sup, c) \in Seq(Pid) /\ Known(records, Affected(sup, c))
      BY <1>3, <3>1, AttemptsType, AffectedKnown DEF IInv, Indexed
    <3>3. f \in Frame /\ f.pid = Top(c).pid /\ f.todo = Affected(sup, c) /\ ~Past(f)
      BY <1>1, <1>2, <3>1, <3>2 DEF Frame, Fields, At, Past
    <3> HIDE DEF f
    <3> QED
      BY <1>1, <2>2, <3>2, <3>3, GotoQuiet DEF IInv, Indexed
  <2> QED
    BY <1>7, <2>1, <2>2
<1> QED
  BY <1>1, <1>8, <1>9, QuietStep DEF IInv

LEMMA HandlerNextIndexed ==
  ASSUME IInv, TypeOK', Indexed, NEW c \in Pid, HandlerNext(c)
  PROVE  IndexedNext
<1> DEFINE e == [Top(c) EXCEPT !.todo = Tail(@)]
           g == [Top(c) EXCEPT !.at = "backoff"]
           h == [Top(c) EXCEPT !.at = "check"]
<1>1. /\ c \in Coroutine /\ stack[c] # <<>> /\ At(c, "handle", "next")
      /\ \/ Return(c)
         \/ Top(c).todo # <<>> /\ (Goto(c, e) \/ Goto(c, g) \/ Goto(c, h))
  BY DEF HandlerNext, At, Coroutine
<1>2. /\ Top(c) \in Frame /\ Top(c) \in Fields /\ Top(c).todo \in Seq(Pid)
      /\ Known(records, Top(c).todo)
      /\ Top(c).todo # <<>> => Known(records, Tail(Top(c).todo))
  BY <1>1, TopFields DEF IInv, Indexed
<1>3. NoneTorn /\ KnownTodo
  <2>1. CASE Return(c)
    BY <1>1, <2>1, ReturnQuiet DEF IInv, Indexed
  <2>2. CASE Top(c).todo # <<>> /\ Goto(c, e)
    <3>1. e \in Frame /\ e.pid = Top(c).pid /\ e.todo = Tail(Top(c).todo) /\ ~Past(e)
      BY <1>1, <1>2, <2>2, HeadTailProperties DEF Frame, Fields, At, Past
    <3> HIDE DEF e
    <3> QED
      BY <1>1, <1>2, <2>2, <3>1, GotoQuiet DEF IInv, Indexed
  <2>3. CASE Top(c).todo # <<>> /\ (Goto(c, g) \/ Goto(c, h))
    <3>1. /\ g \in Frame /\ g.pid = Top(c).pid /\ g.todo = Top(c).todo /\ ~Past(g)
          /\ h \in Frame /\ h.pid = Top(c).pid /\ h.todo = Top(c).todo /\ ~Past(h)
      BY <1>1, <1>2, <2>3 DEF Frame, Fields, At, Past
    <3> HIDE DEF g, h
    <3> QED
      BY <1>1, <1>2, <2>3, <3>1, GotoQuiet DEF IInv, Indexed
  <2> QED
    BY <1>1, <2>1, <2>2, <2>3
<1> QED
  BY <1>3, UnchangedIndexed DEF HandlerNext, IInv

LEMMA HandlerWakesIndexed ==
  ASSUME IInv, TypeOK', Indexed, NEW c \in Pid, HandlerWakes(c)
  PROVE  IndexedNext
<1> DEFINE h == [Top(c) EXCEPT !.at = "check"]
<1>1. /\ c \in Coroutine /\ stack[c] # <<>> /\ At(c, "handle", "backoff")
      /\ Return(c) \/ Goto(c, h)
  BY DEF HandlerWakes, At, Coroutine
<1>2. /\ Top(c) \in Frame /\ Top(c) \in Fields /\ Known(records, Top(c).todo)
  BY <1>1, TopFields DEF IInv, Indexed
<1>3. h \in Frame /\ h.pid = Top(c).pid /\ h.todo = Top(c).todo /\ ~Past(h)
  BY <1>1, <1>2 DEF Frame, Fields, At, Past
<1> HIDE DEF h
<1>4. NoneTorn /\ KnownTodo
  BY <1>1, <1>2, <1>3, GotoQuiet, ReturnQuiet DEF IInv, Indexed
<1> QED
  BY <1>4, UnchangedIndexed DEF HandlerWakes, IInv

LEMMA HandlerChecksIndexed ==
  ASSUME IInv, TypeOK', Indexed, NEW c \in Pid, HandlerChecks(c)
  PROVE  IndexedNext
<1> DEFINE f == [Top(c) EXCEPT !.at = "restart"]
           g == NewKill(Head(Top(c).todo), FALSE)
<1>1. /\ c \in Coroutine /\ stack[c] # <<>> /\ At(c, "handle", "check")
      /\ Return(c) \/ Goto(c, f) \/ Call(c, f, g)
  BY DEF HandlerChecks, At, Coroutine
<1>2. /\ Top(c) \in Frame /\ Top(c) \in Fields /\ Known(records, Top(c).todo)
      /\ Top(c).todo # <<>> /\ Head(Top(c).todo) \in Pid
  BY <1>1, TopFields DEF IInv, Indexed, At, Frame
<1>3. f \in Frame /\ f.pid = Top(c).pid /\ f.todo = Top(c).todo /\ ~Past(f)
  BY <1>1, <1>2 DEF Frame, Fields, At, Past
<1>4. g \in Frame /\ ~Past(g) /\ g.todo = <<>>
  BY <1>2, NewFrameTypes DEF IInv, NewKill, Past
<1>5. Known(records, g.todo)
  BY <1>4, EmptyListMembers DEF Known
<1> HIDE DEF f, g
<1>6. NoneTorn /\ KnownTodo
  BY <1>1, <1>2, <1>3, <1>4, <1>5, GotoQuiet, ReturnQuiet, CallQuiet DEF IInv, Indexed
<1> QED
  BY <1>6, UnchangedIndexed DEF HandlerChecks, IInv

LEMMA KillIndexed ==
  ASSUME IInv, TypeOK', Indexed, NEW c \in Client, NEW p \in Pid, Kill(c, p)
  PROVE  IndexedNext
<1> DEFINE f == NewKill(p, TRUE)
<1>1. c \in Coroutine /\ stack[c] = <<>> /\ stack' = [stack EXCEPT ![c] = <<f>>]
  BY DEF Kill, Calls, Coroutine
<1>2. ~Past(f) /\ f.todo = <<>>
  BY DEF NewKill, Past
<1>3. Known(records, f.todo)
  BY <1>2, EmptyListMembers DEF Known
<1> HIDE DEF f
<1>4. NoneTorn /\ KnownTodo
  BY <1>1, <1>2, <1>3, BeginQuiet DEF IInv, Indexed
<1> QED
  BY <1>4, UnchangedIndexed DEF Kill, IInv

LEMMA MonitorChildIndexed ==
  ASSUME IInv, TypeOK', Indexed, NEW c \in Client, NEW par \in Pid, NEW q \in Pid,
         MonitorChild(c, par, q)
  PROVE  IndexedNext
<1> DEFINE s == records[par].children
           list == IF q \in Members(s) THEN s ELSE Append(s, q)
<1>1. /\ records[q].state # "none" /\ q # par
      /\ records' = [records EXCEPT ![q].parent = par, ![par].children = list]
      /\ UNCHANGED <<byName, mailboxes, stack, contested>>
  BY DEF MonitorChild, Live
<1>2. records \in Records
  BY DEF IInv, TypeOK, Records
<1>3. s \in Seq(Pid)
  BY <1>2 DEF Records, Record
<1>4. /\ \A x \in Members(list) : x \in Members(s) \/ x = q
      /\ Distinct(s) => Distinct(list)
  <2>1. CASE q \in Members(s)
    BY <2>1
  <2>2. CASE q \notin Members(s)
    <3>1. list = Replaced(s, q, q)
      BY <2>2 DEF Replaced
    <3> HIDE DEF list, s
    <3>2. /\ Members(list) \subseteq Members(s) \cup {q}
          /\ Distinct(s) => Distinct(list)
      BY <1>3, <2>2, <3>1, ReplacedMembers
    <3> QED
      BY <3>2
  <2> QED
    BY <2>1, <2>2
<1> HIDE DEF list
<1>5. \A p \in Pid :
        /\ records'[p].state = records[p].state /\ records'[p].name = records[p].name
        /\ records'[p].policy = records[p].policy
        /\ records'[p].resources = records[p].resources
        /\ records'[p].children = IF p = par THEN list ELSE records[p].children
  BY <1>1, <1>2 DEF Records, Record
<1>6. Reshapes(records, records')
  BY ZenonT(60), <1>1, <1>4, <1>5 DEF Reshapes, Alive
<1>7. NoneTorn /\ KnownTodo
  BY <1>1, StackStays DEF Indexed
<1> QED
  BY <1>1, <1>6, <1>7, QuietStep DEF IInv

-----------------------------------------------------------------------------
(* The names: steps in which a process begins or ends *)

\* From r to t the process p ends and gives up its resources.
Ends(r, t, p) ==
  /\ ~Alive(t, p) /\ t[p].state # "none" /\ t[p].name = r[p].name
  /\ t[p].policy = r[p].policy
  /\ t[p].children = r[p].children \/ t[p].children = <<>>
  /\ \A q \in Pid : q # p => t[q] = r[q]

LEMMA EndedIsSound ==
  ASSUME NEW r \in Records, NEW t \in Records, NEW p \in Pid, r[p].state # "none",
         Ends(r, t, p), Sound(r), NEW names \in Indexes, NEW boxes \in Indexes,
         NEW con, NEW con2, con \subseteq con2, Follow(r, names, boxes, con),
         Alive(r, p) \/ r[p].name \in con
  PROVE  LET n == r[p].name
             boxes2 == IF r[p].resources THEN [boxes EXCEPT ![n] = None] ELSE boxes
         IN /\ Sound(t) /\ Stay(r, t) /\ \A q \in Pid : q # p => (Alive(t, q) <=> Alive(r, q))
            /\ Follow(t, [names EXCEPT ![n] = None], boxes2, con2)
<1> DEFINE n == r[p].name
           N == [names EXCEPT ![n] = None]
           B == IF r[p].resources THEN [boxes EXCEPT ![n] = None] ELSE boxes
<1>1. n \in Name /\ t[p].name = n
  BY DEF Sound, Ends
<1>2. \A q \in Pid : q # p => t[q] = r[q] /\ (Alive(t, q) <=> Alive(r, q))
  BY DEF Ends, Alive
<1>3. Stay(r, t)
  BY <1>2 DEF Stay, Ends
<1>4. ASSUME NEW q \in Pid PROVE Known(t, t[q].children) /\ Distinct(t[q].children)
  <2>1. Known(r, r[q].children) /\ Distinct(r[q].children)
    BY DEF Sound
  <2>2. \A x \in Members(r[q].children) : x \in Pid
    BY MembersType DEF Records, Record
  <2>3. Known(t, r[q].children)
    BY <1>3, <2>1, <2>2 DEF Known, Stay
  <2>4. t[q].children = r[q].children \/ t[q].children = <<>>
    BY <1>2 DEF Ends
  <2> QED
    BY <2>1, <2>3, <2>4, EmptyListMembers DEF Known
<1>5. Sound(t)
  BY <1>1, <1>2, <1>4 DEF Sound, Ends
<1>6. \A m \in Name : N[m] = IF m = n THEN None ELSE names[m]
  BY <1>1 DEF Indexes
<1>7. /\ \A m \in Name : m # n => B[m] = boxes[m]
      /\ n \notin con => B[n] = None
  BY <1>1, BoundAssumption DEF Indexes, Sound
<1> HIDE DEF N, B
<1>8. \A q \in Pid : Alive(t, q) /\ t[q].name \notin con2 => N[t[q].name] = q /\ B[t[q].name] = q
  <2> SUFFICES ASSUME NEW q \in Pid, Alive(t, q), t[q].name \notin con2
               PROVE  N[t[q].name] = q /\ B[t[q].name] = q
    OBVIOUS
  <2>1. q # p
    BY DEF Ends
  <2>2. Alive(r, q) /\ t[q] = r[q] /\ r[q].name \notin con /\ r[q].name \in Name
    BY <1>2, <2>1 DEF Sound, Alive
  <2>3. names[r[q].name] = q /\ boxes[r[q].name] = q
    BY <2>2 DEF Follow
  <2>4. ASSUME r[q].name = n PROVE FALSE
    BY <2>1, <2>2, <2>3, <2>4 DEF Follow
  <2> QED
    BY <1>6, <1>7, <2>2, <2>3, <2>4
<1>9. \A m \in Name \ con2 : B[m] # None => Alive(t, B[m]) /\ t[B[m]].name = m
  <2> SUFFICES ASSUME NEW m \in Name, m \notin con2, B[m] # None
               PROVE  Alive(t, B[m]) /\ t[B[m]].name = m
    OBVIOUS
  <2>1. m # n /\ B[m] = boxes[m] /\ m \notin con
    BY <1>7
  <2>2. boxes[m] \in Pid /\ Alive(r, boxes[m]) /\ r[boxes[m]].name = m
    BY <2>1 DEF Follow, Indexes
  <2> QED
    BY <1>2, <2>1, <2>2
<1> QED
  BY <1>2, <1>3, <1>5, <1>8, <1>9 DEF Follow, N, B

\* Launch leaves records and indexes sound, whatever comes of it.
LEMMA LaunchIsSound ==
  ASSUME TypeOK, NEW r \in Records, Allocated(r), NEW names \in Indexes,
         NEW boxes \in Indexes, NEW n \in Name, NEW pol, NEW par \in Pid \cup {None},
         NEW old, NEW by, par # None => r[par].state # "none",
         Launch(r, names, boxes, n, pol, par, old, by),
         Sound(r), NEW con, Follow(r, names, boxes, con)
  PROVE  /\ Sound(records') /\ Stay(r, records')
         /\ \A p \in Pid : Alive(r, p) => Alive(records', p)
         /\ Follow(records', byName', mailboxes', con)
<1>1. CASE Launched(r, names, boxes, n, pol, par, old, by)
  BY <1>1, AddedIsSound DEF Launched
<1>2. CASE /\ LaunchesNothing(r, names, boxes) /\ ~Launchable(names, boxes, n)
           /\ \/ mailboxes' = boxes
              \/ names[n] = None /\ mailboxes' = [boxes EXCEPT ![n] = None]
  <2>1. records' = r /\ byName' = names
    BY <1>2 DEF LaunchesNothing
  <2>2. Stay(r, r)
    BY DEF Stay
  <2>3. CASE mailboxes' = boxes
    BY <2>1, <2>2, <2>3
  <2>4. CASE names[n] = None /\ mailboxes' = [boxes EXCEPT ![n] = None]
    <3>1. boxes[n] # None
      BY <1>2, <2>4 DEF Launchable
    <3>2. n \in con
      <4> SUFFICES ASSUME n \notin con PROVE FALSE
        OBVIOUS
      <4>1. boxes[n] \in Pid /\ Alive(r, boxes[n]) /\ r[boxes[n]].name = n
        BY <3>1 DEF Follow, Indexes
      <4>2. names[n] = boxes[n]
        BY <4>1 DEF Follow
      <4> QED
        BY <2>4, <3>1, <4>2
    <3> DEFINE B == [boxes EXCEPT ![n] = None]
    <3>3. \A m \in Name \ con : B[m] = boxes[m]
      BY <3>2 DEF Indexes
    <3> HIDE DEF B
    <3>4. \A p \in Pid : Alive(r, p) => r[p].name \in Name
      BY DEF Sound, Alive
    <3>5. Follow(r, names, B, con)
      BY <3>3, <3>4 DEF Follow
    <3> QED
      BY <2>1, <2>2, <2>4, <3>5 DEF B
  <2> QED
    BY <1>2, <2>3, <2>4
<1> QED
  BY <1>1, <1>2, LaunchCases

\* Escalating is noted at the supervisor, nothing else.
LEMMA EscalatedIsSound ==
  ASSUME TypeOK, Indexed, NEW s
  PROVE  LET t == [records EXCEPT ![s].escalated = TRUE]
         IN /\ t \in Records /\ Allocated(t)
            /\ Sound(t) /\ Stay(records, t)
            /\ \A p \in Pid : t[p].state = records[p].state
            /\ Follow(t, byName, mailboxes, contested)
<1> DEFINE t == [records EXCEPT ![s].escalated = TRUE]
<1>1. records \in Records /\ Allocated(records) /\ mailboxes \in Indexes
  BY TypeParts DEF RegistryTypes
<1>2. t \in Records /\ \A p \in Pid : t[p].state = records[p].state
  BY <1>1, EscalatedType DEF SameStates
<1>3. Reshapes(records, t)
  BY <1>1, NotedReshapes
<1> HIDE DEF t
<1>4. /\ Sound(t) /\ Stay(records, t) /\ Follow(t, byName, mailboxes, contested)
  BY <1>1, <1>2, <1>3, ReshapedIsSound DEF Indexed
<1>5. Allocated(t)
  BY <1>1, <1>2 DEF Allocated
<1> QED
  BY <1>2, <1>4, <1>5 DEF t

\* A step that starts processes only.
LEMMA LaunchIndexed ==
  ASSUME IInv, TypeOK', Indexed, NoneTorn, KnownTodo, NEW r \in Records, Allocated(r),
         Sound(r), Stay(records, r), \A p \in Pid : r[p].state = records[p].state,
         Follow(r, byName, mailboxes, contested),
         NEW n \in Name, NEW pol, NEW par \in Pid \cup {None}, NEW old, NEW by,
         par # None => r[par].state # "none",
         Launch(r, byName, mailboxes, n, pol, par, old, by), UNCHANGED contested
  PROVE  IndexedNext
<1>1. TypeOK /\ byName \in Indexes /\ mailboxes \in Indexes
  BY DEF IInv, TypeOK, Indexes
<1>2. /\ Sound(records') /\ Stay(r, records')
      /\ \A p \in Pid : Alive(r, p) => Alive(records', p)
      /\ Follow(records', byName', mailboxes', contested)
  BY <1>1, LaunchIsSound
<1>3. Stay(records, records')
  BY <1>2 DEF Stay
<1>4. \A p \in Pid : Alive(records, p) => Alive(records', p)
  BY <1>2 DEF Alive
<1>5. \A c \in Coroutine : \A k \in 1 .. Len(stack'[c]) :
        Past(FrameAt(stack'[c], k)) => FrameAt(stack'[c], k).pid \in Pid
  BY <1>1, Depths DEF NoneTorn, Fields
<1>6. Torn(stack', records', contested)
  BY <1>1, <1>3, <1>4, <1>5, TornKept DEF Indexed
<1>7. TodoKnown(stack', records')
  BY <1>3, TodoKept
<1> QED
  BY <1>2, <1>6, <1>7 DEF IndexedNext

LEMMA RunPathIndexed ==
  ASSUME IInv, TypeOK', Indexed, NEW c \in Client, NEW n \in Name, RunPath(c, n)
  PROVE  IndexedNext
<1>1. NoneTorn /\ KnownTodo
  BY StackStays DEF RunPath, Indexed
<1>2. records \in Records /\ Allocated(records) /\ Stay(records, records)
  BY TypeParts DEF IInv, RegistryTypes, Stay
<1>3. None \in Pid \cup {None}
  OBVIOUS
<1> QED
  BY <1>1, <1>2, <1>3, LaunchIndexed DEF RunPath, Indexed

LEMMA SpawnChildIndexed ==
  ASSUME IInv, TypeOK', Indexed, NEW c \in Client, NEW par \in Pid, NEW n \in Name,
         SpawnChild(c, par, n)
  PROVE  IndexedNext
<1> DEFINE t == [records EXCEPT ![par].escalated = TRUE]
           r == IF Launchable(byName, mailboxes, n) THEN records ELSE t
<1>1. NoneTorn /\ KnownTodo
  BY StackStays DEF SpawnChild, Indexed
<1>2. /\ records \in Records /\ Allocated(records) /\ Stay(records, records)
      /\ Sound(records) /\ Follow(records, byName, mailboxes, contested)
  BY TypeParts DEF IInv, RegistryTypes, Stay, Indexed
<1>3. /\ t \in Records /\ Allocated(t) /\ Sound(t) /\ Stay(records, t)
      /\ \A p \in Pid : t[p].state = records[p].state
      /\ Follow(t, byName, mailboxes, contested)
  BY EscalatedIsSound DEF IInv
<1>4. /\ records[par].state # "none" /\ UNCHANGED contested
      /\ Launch(r, byName, mailboxes, n, ChildPolicy[n], par, None, "caller")
  BY DEF SpawnChild, Live
<1> HIDE DEF t
<1>5. /\ r \in Records /\ Allocated(r) /\ Sound(r) /\ Stay(records, r)
      /\ \A p \in Pid : r[p].state = records[p].state
      /\ Follow(r, byName, mailboxes, contested)
  BY <1>2, <1>3
<1> HIDE DEF r
<1> QED
  BY <1>1, <1>4, <1>5, LaunchIndexed

LEMMA HandlerRestartsIndexed ==
  ASSUME IInv, TypeOK', Indexed, NEW c \in Pid, HandlerRestarts(c)
  PROVE  IndexedNext
<1> DEFINE q == Head(Top(c).todo)
           n == records[q].name
           sup == Top(c).aux
           t == [records EXCEPT ![sup].escalated = TRUE]
           r == IF Launchable(byName, mailboxes, n) THEN records ELSE t
           f == [Top(c) EXCEPT !.at = "next", !.todo = Tail(@)]
<1>1. /\ c \in Coroutine /\ stack[c] # <<>> /\ At(c, "handle", "restart")
      /\ UNCHANGED contested
      /\ \/ /\ Return(c) /\ UNCHANGED registryVars
         \/ /\ Live(sup)
            /\ Launch(r, byName, mailboxes, n, records[q].policy, sup, q, "handler")
            /\ Goto(c, f) \/ Return(c)
  BY DEF HandlerRestarts, At, Coroutine
<1>2. /\ Top(c) \in Frame /\ Top(c) \in Fields /\ Top(c).todo \in Seq(Pid)
      /\ Top(c).todo # <<>> /\ q \in Pid /\ Known(records, Tail(Top(c).todo))
      /\ records[q].state # "none"
  BY <1>1, TopFields DEF IInv, Indexed, At, Frame
<1>3. f \in Frame /\ f.pid = Top(c).pid /\ f.todo = Tail(Top(c).todo) /\ ~Past(f)
  BY <1>1, <1>2, HeadTailProperties DEF Frame, Fields, At, Past
<1> HIDE DEF f
<1>4. NoneTorn /\ KnownTodo
  BY <1>1, <1>2, <1>3, GotoQuiet, ReturnQuiet DEF IInv, Indexed
<1>5. CASE Return(c) /\ UNCHANGED registryVars
  BY <1>1, <1>4, <1>5, UnchangedIndexed DEF IInv
<1>6. CASE /\ Live(sup)
           /\ Launch(r, byName, mailboxes, n, records[q].policy, sup, q, "handler")
  <2>1. sup \in Pid /\ records[sup].state # "none"
    BY <1>2, <1>6 DEF Live, Fields
  <2>2. n \in Name
    BY <1>2 DEF Indexed, Sound
  <2>3. /\ records \in Records /\ Allocated(records) /\ Stay(records, records)
        /\ Sound(records) /\ Follow(records, byName, mailboxes, contested)
    BY TypeParts DEF IInv, RegistryTypes, Stay, Indexed
  <2>4. /\ t \in Records /\ Allocated(t) /\ Sound(t) /\ Stay(records, t)
        /\ \A p \in Pid : t[p].state = records[p].state
        /\ Follow(t, byName, mailboxes, contested)
    BY EscalatedIsSound DEF IInv
  <2> HIDE DEF t
  <2>5. /\ r \in Records /\ Allocated(r) /\ Sound(r) /\ Stay(records, r)
        /\ \A p \in Pid : r[p].state = records[p].state
        /\ Follow(r, byName, mailboxes, contested)
    BY <2>3, <2>4
  <2> HIDE DEF r, n, q, sup
  <2> QED
    BY <1>1, <1>4, <1>6, <2>1, <2>2, <2>5, LaunchIndexed
<1> QED
  BY <1>1, <1>5, <1>6

LEMMA BeingKilledDepths ==
  ASSUME TypeOK, NEW p
  PROVE  BeingKilled(p) <=>
           \E c \in Coroutine : \E k \in 1 .. Len(stack[c]) :
             Past(FrameAt(stack[c], k)) /\ FrameAt(stack[c], k).pid = p
<1>1. \A c \in Coroutine : Len(stack[c]) \in Nat
  BY Depths
<1>2. \A c \in Coroutine : \A k \in 1 .. Len(stack[c]) :
        /\ Len(stack[c]) + 1 - k \in 1 .. Len(stack[c])
        /\ Len(stack[c]) + 1 - (Len(stack[c]) + 1 - k) = k
  BY <1>1
<1>3. ASSUME BeingKilled(p)
      PROVE  \E c \in Coroutine : \E k \in 1 .. Len(stack[c]) :
               Past(FrameAt(stack[c], k)) /\ FrameAt(stack[c], k).pid = p
  <2>1. PICK c \in Coroutine :
          \E i \in 1 .. Len(stack[c]) : Past(stack[c][i]) /\ stack[c][i].pid = p
    BY <1>3 DEF BeingKilled, Past
  <2>2. PICK i \in 1 .. Len(stack[c]) : Past(stack[c][i]) /\ stack[c][i].pid = p
    BY <2>1
  <2>3. FrameAt(stack[c], Len(stack[c]) + 1 - i) = stack[c][i]
    BY <1>2 DEF FrameAt
  <2> QED
    BY <1>2, <2>2, <2>3
<1>4. ASSUME NEW c \in Coroutine, NEW k \in 1 .. Len(stack[c]),
             Past(FrameAt(stack[c], k)), FrameAt(stack[c], k).pid = p
      PROVE  BeingKilled(p)
  BY <1>2, <1>4 DEF BeingKilled, Past, FrameAt
<1> QED
  BY <1>3, <1>4

LEMMA BodyEndsIndexed ==
  ASSUME IInv, TypeOK', Indexed, NEW p \in Pid, task[p] = "body",
         NEW end \in {"exited", "crashed"}, BodyEnds(p, end)
  PROVE  IndexedNext
<1>1. /\ records \in Records /\ records' \in Records
      /\ byName \in Indexes /\ mailboxes \in Indexes
      /\ TypeOK /\ p \in Coroutine
  BY DEF IInv, TypeOK, Records, Indexes, Coroutine
<1>2. Active(p) /\ stack[p] = <<>>
  BY <1>1 DEF IInv, TasksHaveProcesses, HandlersHaveTasks
<1>3. Alive(records, p) /\ records[p].state # "none"
  BY <1>2 DEF Active, Alive
<1>4. /\ records' = [Cleaned(records, p) EXCEPT ![p].state = end]
      /\ byName' = [byName EXCEPT ![records[p].name] = None]
      /\ mailboxes' = IF records[p].resources
                      THEN [mailboxes EXCEPT ![records[p].name] = None] ELSE mailboxes
      /\ contested' = IF BeingKilled(p) THEN contested \cup {records[p].name} ELSE contested
      /\ stack' = [stack EXCEPT ![p] = <<NewHandler(p)>>]
  BY DEF BodyEnds, NamesAfterCleanup, MailboxesAfterCleanup
<1>5. Ends(records, records', p)
  BY <1>1, <1>4 DEF Ends, Cleaned, Alive, Records, Record
<1>6. contested \subseteq contested'
  BY <1>4
<1>7. /\ Sound(records') /\ Stay(records, records')
      /\ \A q \in Pid : q # p => (Alive(records', q) <=> Alive(records, q))
      /\ Follow(records', byName', mailboxes', contested')
  <2>1. Sound(records) /\ Follow(records, byName, mailboxes, contested)
    BY DEF Indexed
  <2>2. /\ Sound(records') /\ Stay(records, records')
        /\ \A q \in Pid : q # p => (Alive(records', q) <=> Alive(records, q))
        /\ Follow(records', [byName EXCEPT ![records[p].name] = None],
                  IF records[p].resources
                  THEN [mailboxes EXCEPT ![records[p].name] = None] ELSE mailboxes,
                  contested')
    BY <1>1, <1>3, <1>5, <1>6, <2>1, EndedIsSound
  <2> QED
    BY <1>4, <2>2
<1>8. NoneTorn /\ KnownTodo
  <2> DEFINE f == NewHandler(p)
  <2>1. ~Past(f) /\ f.todo = records[p].children
    BY DEF NewHandler, Past
  <2>2. Known(records, f.todo)
    BY <2>1 DEF Indexed, Sound
  <2> HIDE DEF f
  <2>3. stack' = [stack EXCEPT ![p] = <<f>>]
    BY <1>4 DEF f
  <2> QED
    BY <1>1, <1>2, <2>1, <2>2, <2>3, BeginQuiet DEF Indexed
<1>9. ASSUME NEW c \in Coroutine, NEW k \in 1 .. Len(stack'[c]),
             Past(FrameAt(stack'[c], k)),
             records[FrameAt(stack'[c], k).pid].name \notin contested'
      PROVE  FrameAt(stack'[c], k).pid \in Pid /\ FrameAt(stack'[c], k).pid # p
  <2>1. /\ k \in 1 .. Len(stack[c]) /\ Past(FrameAt(stack[c], k))
        /\ FrameAt(stack[c], k).pid = FrameAt(stack'[c], k).pid
    BY <1>8, <1>9 DEF NoneTorn
  <2>2. FrameAt(stack[c], k).pid \in Pid
    BY <1>1, <2>1, Depths DEF Fields
  <2>3. FrameAt(stack[c], k).pid # p
    BY <1>1, <1>4, <1>9, <2>1, BeingKilledDepths
  <2> QED
    BY <2>1, <2>2, <2>3
<1>10. Torn(stack', records', contested')
  BY <1>1, <1>6, <1>7, <1>8, <1>9, TornKept DEF Indexed
<1>11. TodoKnown(stack', records')
  BY <1>7, <1>8, TodoKept
<1> QED
  BY <1>7, <1>10, <1>11 DEF IndexedNext

LEMMA KillEntersIndexed ==
  ASSUME IInv, TypeOK', Indexed, NEW c \in Coroutine, KillEnters(c)
  PROVE  IndexedNext
<1> DEFINE p == Top(c).pid
           f == [Top(c) EXCEPT !.at = "children", !.todo = records[p].children, !.aux = p]
           l == Len(stack[c])
<1>1. /\ stack[c] # <<>> /\ At(c, "kill", "enter") /\ Active(p) /\ Goto(c, f)
      /\ records' = [records EXCEPT ![p].state = "stopping", ![p].stop = TRUE]
      /\ contested' = IF BeingKilled(p) THEN contested \cup {records[p].name} ELSE contested
      /\ UNCHANGED <<byName, mailboxes>>
  BY DEF KillEnters, At
<1>2. /\ TypeOK /\ records \in Records /\ records' \in Records /\ mailboxes \in Indexes
  BY DEF IInv, TypeOK, Records, Indexes
<1>3. /\ Top(c) \in Frame /\ Top(c) \in Fields /\ p \in Pid
      /\ records[p].children \in Seq(Pid) /\ Known(records, records[p].children)
  BY <1>1, <1>2, TopFields DEF Records, Record, Indexed, Sound
<1>4. f \in Frame /\ f.pid = p /\ f.todo = records[p].children
  BY <1>1, <1>3 DEF Frame, Fields
<1>5. /\ l \in 1 .. l /\ l = Len(stack[c]) /\ FrameAt(stack[c], l) = Top(c) /\ ~Past(Top(c))
  BY <1>1, <1>2, Depths DEF At, Past
<1>6. Went(c, f)
  BY <1>1, <1>2, <1>4, GotoFrames
<1>7. Reshapes(records, records')
  BY <1>1, <1>2, <1>3 DEF Reshapes, Active, Alive, Records, Record
<1> HIDE DEF f, p, l
<1>8. /\ Sound(records') /\ Stay(records, records')
      /\ \A q \in Pid : Alive(records', q) <=> Alive(records, q)
      /\ Follow(records', byName, mailboxes, contested)
  BY <1>2, <1>7, ReshapedIsSound DEF Indexed
<1>9. Follow(records', byName', mailboxes', contested')
  <2>1. contested \subseteq contested' /\ byName' = byName /\ mailboxes' = mailboxes
    BY <1>1
  <2> QED
    BY <1>8, <2>1 DEF Follow
<1>10. ASSUME NEW d \in Coroutine, NEW k \in 1 .. Len(stack'[d])
       PROVE  /\ k \in 1 .. Len(stack[d])
              /\ d = c /\ k = l => FrameAt(stack'[d], k) = f
              /\ ~(d = c /\ k = l) => FrameAt(stack'[d], k) = FrameAt(stack[d], k)
  BY <1>5, <1>6 DEF Went, Elsewhere
<1>11. KnownTodo
  BY <1>3, <1>4, <1>10 DEF KnownTodo, TodoKnown, Indexed
<1>12. TodoKnown(stack', records')
  BY <1>8, <1>11, TodoKept
<1>13. Torn(stack', records', contested')
  <2> SUFFICES ASSUME NEW d \in Coroutine, NEW k \in 1 .. Len(stack'[d]),
                      Past(FrameAt(stack'[d], k))
               PROVE  LET q == FrameAt(stack'[d], k).pid
                      IN /\ records'[q].state # "none"
                         /\ records'[q].name \notin contested' =>
                              /\ Alive(records', q)
                              /\ \A e \in Coroutine : \A j \in 1 .. Len(stack'[e]) :
                                   Past(FrameAt(stack'[e], j))
                                     /\ FrameAt(stack'[e], j).pid = q => e = d /\ j = k
    BY DEF Torn
  <2> DEFINE q == FrameAt(stack'[d], k).pid
  <2>1. \A e \in Coroutine : \A j \in 1 .. Len(stack'[e]) :
          Past(FrameAt(stack'[e], j)) =>
            \/ e = c /\ j = l /\ FrameAt(stack'[e], j).pid = p
            \/ /\ j \in 1 .. Len(stack[e]) /\ Past(FrameAt(stack[e], j))
               /\ FrameAt(stack[e], j).pid = FrameAt(stack'[e], j).pid
    BY <1>4, <1>10
  <2>2. contested \subseteq contested' /\ (BeingKilled(p) => records[p].name \in contested')
    BY <1>1
  <2>3. CASE d = c /\ k = l
    <3>1. q = p
      BY <1>4, <1>10, <2>3
    <3>2. records'[p].state # "none" /\ Alive(records', p) /\ records'[p].name = records[p].name
      BY <1>1, <1>3, <1>8 DEF Active, Alive, Stay
    <3>3. ASSUME records'[p].name \notin contested'
          PROVE  \A e \in Coroutine : \A j \in 1 .. Len(stack'[e]) :
                   Past(FrameAt(stack'[e], j)) /\ FrameAt(stack'[e], j).pid = p =>
                     e = c /\ j = l
      <4>1. ~BeingKilled(p)
        BY <2>2, <3>2, <3>3
      <4>2. \A e \in Coroutine : \A j \in 1 .. Len(stack[e]) :
              ~(Past(FrameAt(stack[e], j)) /\ FrameAt(stack[e], j).pid = p)
        BY <1>2, <4>1, BeingKilledDepths
      <4> QED
        BY <2>1, <4>2
    <3> QED
      BY <2>3, <3>1, <3>2, <3>3
  <2>4. CASE ~(d = c /\ k = l)
    <3>1. /\ k \in 1 .. Len(stack[d]) /\ Past(FrameAt(stack[d], k))
          /\ FrameAt(stack[d], k).pid = q
      BY <2>1, <2>4
    <3>2. q \in Pid
      BY <1>2, <3>1, Depths DEF Fields
    <3>3. /\ records[q].state # "none"
          /\ records[q].name \notin contested =>
               /\ Alive(records, q)
               /\ \A e \in Coroutine : \A j \in 1 .. Len(stack[e]) :
                    Past(FrameAt(stack[e], j)) /\ FrameAt(stack[e], j).pid = q =>
                      e = d /\ j = k
      BY <3>1 DEF Indexed, Torn
    <3>4. records'[q].state # "none" /\ records'[q].name = records[q].name
      BY <1>8, <3>2, <3>3 DEF Stay
    <3>5. ASSUME records'[q].name \notin contested'
          PROVE  q # p
      BY <1>2, <2>2, <3>1, <3>4, <3>5, BeingKilledDepths
    <3> HIDE DEF q
    <3>6. ASSUME records'[q].name \notin contested'
          PROVE  /\ Alive(records', q)
                 /\ \A e \in Coroutine : \A j \in 1 .. Len(stack'[e]) :
                      Past(FrameAt(stack'[e], j)) /\ FrameAt(stack'[e], j).pid = q =>
                        e = d /\ j = k
      BY <1>8, <2>1, <2>2, <3>2, <3>3, <3>4, <3>5, <3>6
    <3> QED
      BY <3>4, <3>6 DEF q
  <2> QED
    BY <2>3, <2>4
<1> QED
  BY <1>8, <1>9, <1>12, <1>13 DEF IndexedNext

\* The process a kill finishes gives up its name and mailbox, and only then is
\* another started under the name.
LEMMA KillFinishesIndexed ==
  ASSUME IInv, TypeOK', Indexed, NEW c \in Coroutine, KillFinishes(c)
  PROVE  IndexedNext
<1> DEFINE p == Top(c).pid
           n == records[p].name
           sup == records[p].parent
           r == [Cleaned(records, p) EXCEPT ![p].state = "killed",
                                            ![p].children = <<>>]
           names == NamesAfterCleanup(p)
           boxes == MailboxesAfterCleanup(p)
           f == [Top(c) EXCEPT !.at = "tail"]
           l == Len(stack[c])
<1>1. /\ stack[c] # <<>> /\ task[p] = "done" /\ Top(c).op = "kill" /\ Past(Top(c))
      /\ UNCHANGED contested
  BY DEF KillFinishes, At, Past
<1>2. /\ TypeOK /\ records \in Records /\ records' \in Records
      /\ byName \in Indexes /\ mailboxes \in Indexes
  BY DEF IInv, TypeOK, Records, Indexes
<1>3. /\ Top(c) \in Frame /\ Top(c) \in Fields /\ p \in Pid /\ Known(records, Top(c).todo)
  BY <1>1, <1>2, TopFields DEF Indexed
<1>4. sup \in Pid \cup {None}
  BY <1>2, <1>3 DEF Records, Record
<1>5. l \in 1 .. l /\ l = Len(stack[c]) /\ FrameAt(stack[c], l) = Top(c)
  BY <1>1, <1>2, Depths
<1>6. /\ records[p].state # "none"
      /\ n \notin contested =>
           /\ Alive(records, p)
           /\ \A d \in Coroutine : \A j \in 1 .. Len(stack[d]) :
                Past(FrameAt(stack[d], j)) /\ FrameAt(stack[d], j).pid = p =>
                  d = c /\ j = l
  BY <1>1, <1>5 DEF Indexed, Torn
<1>7. /\ r \in Records /\ Allocated(r) /\ Ends(records, r, p)
      /\ \A q \in Pid : records[q].state # "none" => r[q].state # "none"
  <2> DEFINE e == <<>>
  <2>1. e \in Seq(Pid)
    BY EmptySeq
  <2> HIDE DEF e
  <2> DEFINE t == [Cleaned(records, p) EXCEPT ![p].state = "killed", ![p].children = e]
  <2>2. /\ t \in Records /\ t[p].state = "killed" /\ t[p].name = records[p].name
        /\ t[p].policy = records[p].policy /\ t[p].children = e
        /\ \A q \in Pid : q # p => t[q] = records[q]
    <3> DEFINE k == Cleaned(records, p)
               m == [k[p] EXCEPT !.state = "killed", !.children = e]
    <3>1. /\ k \in Records /\ k[p].name = records[p].name
          /\ k[p].policy = records[p].policy
          /\ \A q \in Pid : q # p => k[q] = records[q]
      <4> HIDE DEF p
      <4>1. k \in Records
        BY <1>2, <1>3, CleanedType
      <4> QED
        BY <1>2, <1>3, <4>1 DEF Cleaned, Records, Record
    <3>2. t = [k EXCEPT ![p] = m]
      BY <1>3, <3>1 DEF Records, Record
    <3> HIDE DEF k
    <3>3. k[p] \in Record
      BY <1>3, <3>1 DEF Records
    <3>4. /\ m \in Record /\ m.state = "killed" /\ m.name = k[p].name
          /\ m.policy = k[p].policy /\ m.children = e
      BY <2>1, <3>3 DEF Record, States
    <3> HIDE DEF m
    <3> QED
      BY <1>3, <3>1, <3>2, <3>4 DEF Records
  <2>3. Ends(records, t, p) /\ t \in Records
    BY <2>2 DEF Ends, Alive, e
  <2>4. \A q \in Pid : t[q].state # "none" <=> records[q].state # "none"
    BY <1>6, <2>2
  <2>5. Allocated(records)
    BY <1>2, TypeParts DEF RegistryTypes
  <2>6. Allocated(t)
    BY <2>4, <2>5 DEF Allocated
  <2> QED
    BY <2>3, <2>4, <2>6 DEF t, e
<1>8. n \in Name
  BY <1>3, <1>6 DEF Indexed, Sound
<1>9. names \in Indexes /\ boxes \in Indexes
  BY <1>2, <1>3, CleanupTypes
<1> HIDE DEF r
<1>10. /\ Sound(r) /\ Stay(records, r)
       /\ \A q \in Pid : q # p => (Alive(r, q) <=> Alive(records, q))
       /\ Follow(r, names, boxes, contested)
  <2>1. Sound(records) /\ Follow(records, byName, mailboxes, contested)
    BY DEF Indexed
  <2>2. Alive(records, p) \/ records[p].name \in contested
    BY <1>6
  <2> DEFINE m == records[p].name
             names2 == [byName EXCEPT ![m] = None]
             boxes2 == IF records[p].resources
                       THEN [mailboxes EXCEPT ![m] = None] ELSE mailboxes
  <2> HIDE DEF p
  <2>3. /\ Sound(r) /\ Stay(records, r)
        /\ \A q \in Pid : q # p => (Alive(r, q) <=> Alive(records, q))
        /\ Follow(r, names2, boxes2, contested)
    BY ZenonT(60), <1>2, <1>3, <1>6, <1>7, <2>1, <2>2, EndedIsSound
  <2>4. names = names2 /\ boxes = boxes2
    BY DEF NamesAfterCleanup, MailboxesAfterCleanup
  <2> QED
    BY <2>3, <2>4
<1>11. f \in Frame /\ f.pid = p /\ f.todo = Top(c).todo /\ ~Past(f)
  BY <1>3 DEF Frame, Fields, Past
<1> HIDE DEF f, names, boxes
<1>12. \/ /\ Launch(r, names, boxes, n, records[p].policy, sup, p, "kill")
          /\ Live(sup)
          /\ Goto(c, f) \/ Return(c)
       \/ /\ records' = Unlinked(r, p) /\ byName' = names /\ mailboxes' = boxes
          /\ Return(c)
  BY DEF KillFinishes, r, names, boxes, f
<1>13. /\ Sound(records') /\ Stay(r, records')
       /\ \A q \in Pid : Alive(r, q) => Alive(records', q)
       /\ Follow(records', byName', mailboxes', contested)
  <2>1. CASE /\ Launch(r, names, boxes, n, records[p].policy, sup, p, "kill")
             /\ Live(sup)
    <3>1. r[sup].state # "none"
      BY <1>4, <1>7, <2>1 DEF Live
    <3> HIDE DEF n, sup, p
    <3> QED
      BY <1>2, <1>4, <1>7, <1>8, <1>9, <1>10, <2>1, <3>1, LaunchIsSound
  <2>2. CASE records' = Unlinked(r, p) /\ byName' = names /\ mailboxes' = boxes
    <3>1. Reshapes(r, records')
      BY <1>3, <1>7, <2>2, UnlinkedReshapes
    <3> QED
      BY <1>2, <1>7, <1>9, <1>10, <2>2, <3>1, ReshapedIsSound
  <2> QED
    BY <1>12, <2>1, <2>2
<1>14. Stay(records, records')
  BY <1>10, <1>13 DEF Stay
<1>15. NoneTorn /\ KnownTodo
  BY <1>1, <1>2, <1>3, <1>11, <1>12, GotoQuiet, ReturnQuiet DEF Indexed
<1>16. l \in 1 .. Len(stack'[c]) => ~Past(FrameAt(stack'[c], l))
  <2>1. CASE Goto(c, f)
    <3>1. Went(c, f)
      BY <1>1, <1>2, <1>11, <2>1, GotoFrames
    <3> QED
      BY <1>5, <1>11, <3>1 DEF Went
  <2>2. CASE Return(c)
    <3>1. Len(stack'[c]) = l - 1 /\ l \in Nat
      BY <1>1, <1>2, <2>2, ReturnFrames, Depths DEF Returned
    <3> HIDE DEF l
    <3> QED
      BY <3>1
  <2> QED
    BY <1>12, <2>1, <2>2
<1>17. ASSUME NEW d \in Coroutine, NEW k \in 1 .. Len(stack'[d]),
              Past(FrameAt(stack'[d], k)),
              records[FrameAt(stack'[d], k).pid].name \notin contested
       PROVE  FrameAt(stack'[d], k).pid \in Pid /\ FrameAt(stack'[d], k).pid # p
  <2>1. /\ k \in 1 .. Len(stack[d]) /\ Past(FrameAt(stack[d], k))
        /\ FrameAt(stack[d], k).pid = FrameAt(stack'[d], k).pid
    BY <1>15, <1>17 DEF NoneTorn
  <2>2. FrameAt(stack[d], k).pid \in Pid
    BY <1>2, <2>1, Depths DEF Fields
  <2>3. FrameAt(stack[d], k).pid # p
    BY <1>6, <1>16, <1>17, <2>1
  <2> QED
    BY <2>1, <2>2, <2>3
<1>18. Torn(stack', records', contested)
  <2>1. \A q \in Pid : q # p => (Alive(records, q) => Alive(records', q))
    BY <1>10, <1>13
  <2> HIDE DEF p
  <2> QED
    BY <1>2, <1>14, <1>15, <1>17, <2>1, TornKept DEF Indexed
<1>19. TodoKnown(stack', records')
  BY <1>14, <1>15, TodoKept
<1> QED
  BY <1>1, <1>13, <1>18, <1>19 DEF IndexedNext

LEMMA InitIndexed == Init => Indexed
<1> SUFFICES ASSUME Init PROVE Indexed
  OBVIOUS
<1>1. /\ Len(Boot) \in 0 .. MaxPid
      /\ \A p \in Pid : Booted(p) => p \in 1 .. Len(Boot)
      /\ \A p \in 1 .. Len(Boot) : p \in Pid /\ Booted(p)
      /\ \A p \in 1 .. Len(Boot) :
           Boot[p] \in [name : Name, parent : Pid \cup {None}, children : Seq(Pid)]
  <2>1. /\ Len(Boot) \in Nat
        /\ \A i \in 1 .. Len(Boot) :
             Boot[i] \in [name : Name, parent : Pid \cup {None}, children : Seq(Pid)]
    BY BootAssumption, LenProperties, ElementOfSeq
  <2> QED
    BY <2>1, BootAssumption, BoundAssumption DEF Booted, Pid
<1>2. \A p \in Pid : records[p] =
        IF Booted(p)
        THEN [NewRecord(Boot[p].name,
                        IF Boot[p].parent = None THEN "permanent"
                                                 ELSE ChildPolicy[Boot[p].name],
                        Boot[p].parent) EXCEPT
                !.state = "running", !.children = Boot[p].children]
        ELSE NoRecord
  BY DEF Init
<1>3. \A p \in Pid : Booted(p) =>
        /\ records[p].state = "running" /\ records[p].name = Boot[p].name
        /\ records[p].resources /\ records[p].children = Boot[p].children
  BY <1>2 DEF NewRecord
<1>4. \A p \in Pid : ~Booted(p) =>
        records[p].state = "none" /\ records[p].children = <<>>
  BY <1>2 DEF NoRecord, NewRecord
<1>5. \A p \in Pid : /\ Alive(records, p) <=> Booted(p)
                     /\ records[p].state # "none" <=> Booted(p)
  BY <1>3, <1>4 DEF Alive
<1>6. Sound(records)
  <2>1. ASSUME NEW p \in Pid
        PROVE  Known(records, records[p].children) /\ Distinct(records[p].children)
    <3>1. CASE Booted(p)
      <4>1. p \in 1 .. Len(Boot) /\ records[p].children = Boot[p].children
        BY <1>1, <1>3, <3>1
      <4>2. /\ Members(Boot[p].children) \subseteq 1 .. Len(Boot)
            /\ Distinct(Boot[p].children)
        BY <4>1, BootTreeAssumption DEF Distinct
      <4> QED
        BY <1>1, <1>5, <4>1, <4>2 DEF Known
    <3>2. CASE ~Booted(p)
      BY <1>4, <3>2, EmptyListMembers DEF Known
    <3> QED
      BY <3>1, <3>2
  <2> QED
    BY <1>1, <1>3, <1>5, <2>1 DEF Sound
<1>7. \A n \in Name :
        /\ byName[n] = IF \E p \in Pid : Booted(p) /\ Boot[p].name = n
                       THEN CHOOSE p \in Pid : Booted(p) /\ Boot[p].name = n
                       ELSE None
        /\ mailboxes[n] = byName[n]
  BY DEF Init
<1>8. ASSUME NEW p \in Pid, Booted(p)
      PROVE  byName[Boot[p].name] = p
  <2> DEFINE P(q) == Booted(q) /\ Boot[q].name = Boot[p].name
             x == CHOOSE q \in Pid : P(q)
  <2>1. x \in Pid /\ P(x)
    BY <1>8
  <2>2. byName[Boot[p].name] = x
    BY <1>1, <1>7, <1>8
  <2>3. x = p
    BY <1>1, <1>8, <2>1, BootTreeAssumption
  <2> QED
    BY <2>2, <2>3
<1>9. ASSUME NEW n \in Name, byName[n] # None
      PROVE  byName[n] \in Pid /\ Booted(byName[n]) /\ Boot[byName[n]].name = n
  BY <1>7, <1>9
<1>10. Follow(records, byName, mailboxes, contested)
  BY <1>1, <1>3, <1>5, <1>7, <1>8, <1>9 DEF Follow
<1>11. \A c \in Coroutine : Len(stack[c]) = 0
  BY EmptySeq DEF Init
<1>12. TodoKnown(stack, records) /\ Torn(stack, records, contested)
  BY <1>11 DEF TodoKnown, Torn
<1> QED
  BY <1>6, <1>10, <1>12 DEF Indexed

LEMMA StepIndexed == IInv /\ IInv' /\ Indexed /\ [Next]_vars => Indexed'
<1> SUFFICES ASSUME IInv, TypeOK', Indexed, [Next]_vars PROVE IndexedNext
  BY IndexedPrimed DEF IInv
<1>1. ASSUME UNCHANGED vars PROVE IndexedNext
  BY <1>1, StackStays, UnchangedIndexed DEF vars, Indexed, IInv
<1>2. ASSUME ClientStep PROVE IndexedNext
  BY <1>2, RunPathIndexed, SpawnChildIndexed, MonitorChildIndexed, KillIndexed
     DEF ClientStep
<1>3. ASSUME NEW p \in Pid, BodyReturns(p) \/ BodyRaises(p) PROVE IndexedNext
  BY <1>3, BodyEndsIndexed DEF BodyReturns, BodyRaises
<1>4. ASSUME AgentStep PROVE IndexedNext
  BY <1>3, <1>4 DEF AgentStep
<1>5. ASSUME TaskStep PROVE IndexedNext
  <2>1. \A p \in Pid : p \in Coroutine
    BY DEF Coroutine
  <2> QED
    BY <1>3, <1>5, <2>1, StartTaskIndexed, IdleIndexed DEF TaskStep
<1>6. ASSUME CallStep PROVE IndexedNext
  BY <1>6, IdleIndexed, KillRefusedIndexed, KillEntersIndexed, KillsChildIndexed,
     KillCancelsIndexed, KillFinishesIndexed, KillUnlinksIndexed DEF CallStep
<1>7. ASSUME HandlerStep PROVE IndexedNext
  BY <1>7, HandlerDecidesIndexed, HandlerNextIndexed, HandlerWakesIndexed,
     HandlerChecksIndexed, HandlerRestartsIndexed DEF HandlerStep
<1> QED
  BY <1>1, <1>2, <1>4, <1>5, <1>6, <1>7 DEF Next

\* A process that has not ended is found under its name and owns the mailbox of
\* the name, unless a process of that name was torn down twice at a time.
THEOREM NamesTheorem == Spec => []NamesFollowProcesses
<1>1. Init => IInv /\ Indexed
  BY InitIInv, InitIndexed
<1>2. IInv /\ Indexed /\ [Next]_vars => (IInv /\ Indexed)'
  BY StepKeeps, StepIndexed DEF Keeps
<1>3. IInv /\ Indexed => NamesFollowProcesses
  BY FollowIsNames DEF Indexed
<1> QED
  BY <1>1, <1>2, <1>3, PTL DEF Spec

-----------------------------------------------------------------------------
(* The budget of restarts: the invariant *)

\* PolicyAllows, of any records.
Allows(r, q, failed) ==
  \/ r[q].policy = "permanent"
  \/ r[q].policy = "transient" /\ r[failed].state = "crashed"

\* A handler that has charged its supervisor, and one about to restart the
\* first process on its list.
Deciding(f) == f.op = "handle" /\ f.at \in {"next", "backoff", "check", "restart"}
Starting(f) == f.op = "handle" /\ f.at \in {"backoff", "check", "restart"}

\* A handler is the outermost call of the task of the process that has ended.
\* It has a list without duplicates, and restarts only what the policy allows.
HandlerFrames(st, r) ==
  \A c \in Coroutine : \A k \in 1 .. Len(st[c]) :
    LET f == FrameAt(st[c], k)
    IN /\ f.op = "handle" => c \in Pid /\ k = 1
       /\ Deciding(f) => f.aux \in Pid /\ r[f.aux].state # "none" /\ Distinct(f.todo)
       /\ Starting(f) => Allows(r, Head(f.todo), c)

EndsAreHandled(tk, r) ==
  \A p \in Pid : tk[p] = "handler" => r[p].state \in {"exited", "crashed"}

\* What a handler has started takes the place of a process that was there, for
\* a supervisor that was there.
Justified(o, r) ==
  \A q \in Pid : o[q].by = "handler" =>
    /\ o[q].under \in Pid /\ r[o[q].under].state # "none"
    /\ o[q].replaces \in Pid /\ r[o[q].replaces].state # "none"
    /\ r[o[q].replaces].policy # "temporary"

\* The restarts under s there have been, and those that handlers have charged
\* to s and have still to make: pairs of the handler's process and the process
\* to restart.
RestartsOf(o, s) == {q \in Pid : o[q].by = "handler" /\ o[q].under = s}
PendingOf(st, r, s) ==
  {x \in Pid \X Pid :
     /\ 1 \in 1 .. Len(st[x[1]])
     /\ Deciding(FrameAt(st[x[1]], 1))
     /\ FrameAt(st[x[1]], 1).aux = s
     /\ x[2] \in Members(FrameAt(st[x[1]], 1).todo)
     /\ Allows(r, x[2], x[1])}

\* Both together never exceed what is recorded at the supervisor.
Counted(st, r, o) ==
  \A s \in Pid :
    /\ r[s].state = "none" => r[s].history = 0
    /\ ~WindowPasses =>
         /\ Cardinality(RestartsOf(o, s)) + Cardinality(PendingOf(st, r, s))
              <= r[s].history
         /\ r[s].name # NoName => r[s].history <= MaxRestarts[r[s].name]

Budgeted ==
  /\ HandlerFrames(stack, records)
  /\ EndsAreHandled(task, records)
  /\ Justified(origin, records)
  /\ Counted(stack, records, origin)

BudgetedNext ==
  /\ HandlerFrames(stack', records')
  /\ EndsAreHandled(task', records')
  /\ Justified(origin', records')
  /\ Counted(stack', records', origin')

LEMMA BudgetedPrimed == BudgetedNext => Budgeted'
BY DEF Budgeted, BudgetedNext, HandlerFrames, EndsAreHandled, Justified, Counted,
       RestartsOf, PendingOf, Allows, Deciding, Starting, Distinct, FrameAt, Members

LEMMA FrameType ==
  ASSUME NEW s \in Seq(Frame), NEW k \in 1 .. Len(s)
  PROVE  FrameAt(s, k) \in Frame /\ FrameAt(s, k) \in Fields
<1>1. Len(s) \in Nat /\ \A i \in 1 .. Len(s) : s[i] \in Frame
  BY LenProperties, ElementOfSeq
<1>2. Len(s) + 1 - k \in 1 .. Len(s)
  BY <1>1
<1> QED
  BY <1>1, <1>2 DEF FrameAt, Frame

\* There are finitely many pids, restarts and pairs.
LEMMA FiniteCounts ==
  ASSUME NEW o, NEW st, NEW r, NEW s
  PROVE  /\ IsFiniteSet(Pid)
         /\ IsFiniteSet(RestartsOf(o, s)) /\ IsFiniteSet(PendingOf(st, r, s))
         /\ Cardinality(RestartsOf(o, s)) \in Nat
         /\ Cardinality(PendingOf(st, r, s)) \in Nat
<1>1. IsFiniteSet(Pid)
  BY FS_Interval, BoundAssumption DEF Pid
<1>2. IsFiniteSet(Pid \X Pid)
  BY <1>1, FS_Product
<1>3. RestartsOf(o, s) \subseteq Pid /\ PendingOf(st, r, s) \subseteq Pid \X Pid
  BY DEF RestartsOf, PendingOf
<1> QED
  BY <1>1, <1>2, <1>3, FS_Subset, FS_CardinalityType

\* Fewer restarts and fewer pending ones are within the same bound.
LEMMA FewerCounts ==
  ASSUME NEW o, NEW st, NEW r, NEW s, NEW o2, NEW st2, NEW r2,
         RestartsOf(o2, s) \subseteq RestartsOf(o, s),
         PendingOf(st2, r2, s) \subseteq PendingOf(st, r, s)
  PROVE  Cardinality(RestartsOf(o2, s)) + Cardinality(PendingOf(st2, r2, s))
           <= Cardinality(RestartsOf(o, s)) + Cardinality(PendingOf(st, r, s))
<1>1. /\ Cardinality(RestartsOf(o2, s)) <= Cardinality(RestartsOf(o, s))
      /\ Cardinality(PendingOf(st2, r2, s)) <= Cardinality(PendingOf(st, r, s))
  BY FiniteCounts, FS_Subset
<1>2. /\ Cardinality(RestartsOf(o, s)) \in Nat /\ Cardinality(RestartsOf(o2, s)) \in Nat
      /\ Cardinality(PendingOf(st, r, s)) \in Nat
      /\ Cardinality(PendingOf(st2, r2, s)) \in Nat
  BY FiniteCounts
<1> QED
  BY <1>1, <1>2

\* From r to t nobody's name or policy changes, nor the state of a process whose
\* end is being handled; the record of failures only if they can be too old.
Fixed(r, t) ==
  \A p \in Pid :
    /\ t[p].history = r[p].history \/ (WindowPasses /\ r[p].state # "none")
    /\ r[p].state # "none" =>
         t[p].state # "none" /\ t[p].name = r[p].name /\ t[p].policy = r[p].policy
    /\ task[p] = "handler" => t[p].state = r[p].state

\* What becomes of the handler's frame f of the coroutine c.
Narrows(f, g, c) ==
  /\ f.op = "handle"
  /\ Deciding(g) =>
       /\ Deciding(f) /\ g.aux = f.aux /\ Members(g.todo) \subseteq Members(f.todo)
       /\ Distinct(f.todo) => Distinct(g.todo)
  /\ Starting(g) =>
       \/ Starting(f) /\ g.todo = f.todo
       \/ Allows(records, Head(g.todo), c)

\* No handler charges anything in a step.
HandlersNarrow ==
  \A c \in Coroutine : \A k \in 1 .. Len(stack'[c]) :
    FrameAt(stack'[c], k).op = "handle" =>
      \/ c \in Pid /\ k = 1 /\ FrameAt(stack'[c], k).at = "children"
      \/ k \in 1 .. Len(stack[c]) /\ Narrows(FrameAt(stack[c], k), FrameAt(stack'[c], k), c)

\* Handlers that charge nothing have at most as much pending as before.
LEMMA PendingKept ==
  ASSUME IInv, TypeOK', Indexed, Budgeted, HandlersNarrow, Fixed(records, records')
  PROVE  /\ HandlerFrames(stack', records')
         /\ \A s \in Pid : PendingOf(stack', records', s) \subseteq PendingOf(stack, records, s)
<1>1. /\ TypeOK /\ \A c \in Coroutine : stack[c] \in Seq(Frame) /\ stack'[c] \in Seq(Frame)
      /\ records \in Records /\ records' \in Records
  BY DEF IInv, TypeOK, Records
<1>2. ASSUME NEW c \in Coroutine, NEW k \in 1 .. Len(stack'[c]),
             FrameAt(stack'[c], k).op = "handle"
      PROVE  /\ c \in Pid /\ k = 1
             /\ Deciding(FrameAt(stack'[c], k)) =>
                  /\ k \in 1 .. Len(stack[c]) /\ Deciding(FrameAt(stack[c], k))
                  /\ FrameAt(stack'[c], k).aux = FrameAt(stack[c], k).aux
                  /\ Members(FrameAt(stack'[c], k).todo)
                       \subseteq Members(FrameAt(stack[c], k).todo)
                  /\ Distinct(FrameAt(stack'[c], k).todo)
                  /\ \A x \in Members(FrameAt(stack'[c], k).todo) :
                       x \in Pid /\ records[x].state # "none"
                  /\ records'[c].state = records[c].state
             /\ Starting(FrameAt(stack'[c], k)) =>
                  Allows(records, Head(FrameAt(stack'[c], k).todo), c)
  <2> DEFINE f == FrameAt(stack[c], k)
             g == FrameAt(stack'[c], k)
  <2>1. CASE c \in Pid /\ k = 1 /\ g.at = "children"
    BY <2>1 DEF Deciding, Starting
  <2>2. CASE k \in 1 .. Len(stack[c]) /\ Narrows(f, g, c)
    <3>1. c \in Pid /\ k = 1
      BY <2>2 DEF Budgeted, HandlerFrames, Narrows
    <3>2. task[c] = "handler"
      BY <1>1, <2>2, <3>1, Depths DEF IInv, HandlersHaveTasks
    <3>3. records'[c].state = records[c].state
      BY <3>1, <3>2 DEF Fixed
    <3>4. ASSUME Deciding(g)
          PROVE  /\ Deciding(f) /\ g.aux = f.aux
                 /\ Members(g.todo) \subseteq Members(f.todo) /\ Distinct(g.todo)
                 /\ \A x \in Members(g.todo) : x \in Pid /\ records[x].state # "none"
      <4>1. /\ Deciding(f) /\ g.aux = f.aux
            /\ Members(g.todo) \subseteq Members(f.todo) /\ Distinct(g.todo)
        BY <2>2, <3>4 DEF Narrows, Budgeted, HandlerFrames
      <4>2. f.todo \in Seq(Pid)
        BY <1>1, <2>2, FrameType DEF Fields
      <4>3. Members(f.todo) \subseteq Pid /\ Known(records, f.todo)
        BY <2>2, <4>2, MembersType DEF Indexed, TodoKnown
      <4> QED
        BY <4>1, <4>3 DEF Known
    <3>5. ASSUME Starting(g) PROVE Allows(records, Head(g.todo), c)
      BY <2>2, <3>5 DEF Narrows, Budgeted, HandlerFrames
    <3> QED
      BY <2>2, <3>1, <3>3, <3>4, <3>5
  <2> QED
    BY <1>2, <2>1, <2>2 DEF HandlersNarrow
<1>3. \A x, c \in Pid : records[x].state # "none" /\ records'[c].state = records[c].state =>
        (Allows(records', x, c) <=> Allows(records, x, c))
  BY DEF Fixed, Allows
<1>4. HandlerFrames(stack', records')
  <2> SUFFICES ASSUME NEW c \in Coroutine, NEW k \in 1 .. Len(stack'[c]),
                      FrameAt(stack'[c], k).op = "handle"
               PROVE  LET f == FrameAt(stack'[c], k)
                      IN /\ c \in Pid /\ k = 1
                         /\ Deciding(f) =>
                              f.aux \in Pid /\ records'[f.aux].state # "none" /\ Distinct(f.todo)
                         /\ Starting(f) => Allows(records', Head(f.todo), c)
    BY DEF HandlerFrames, Deciding, Starting
  <2> DEFINE g == FrameAt(stack'[c], k)
  <2>1. c \in Pid /\ k = 1
    BY <1>2
  <2>2. ASSUME Deciding(g)
        PROVE  g.aux \in Pid /\ records'[g.aux].state # "none" /\ Distinct(g.todo)
    <3>1. /\ k \in 1 .. Len(stack[c]) /\ Deciding(FrameAt(stack[c], k))
          /\ g.aux = FrameAt(stack[c], k).aux /\ Distinct(g.todo)
      BY <1>2, <2>2
    <3>2. g.aux \in Pid /\ records[g.aux].state # "none"
      BY <3>1 DEF Budgeted, HandlerFrames
    <3> QED
      BY <3>1, <3>2 DEF Fixed
  <2>3. ASSUME Starting(g) PROVE Allows(records', Head(g.todo), c)
    <3>1. Deciding(g) /\ Allows(records, Head(g.todo), c)
      BY <1>2, <2>3 DEF Starting, Deciding
    <3>2. g \in Frame /\ g.todo \in Seq(Pid) /\ g.todo # <<>>
      BY <1>1, <2>3, FrameType DEF Frame, Fields, Starting
    <3>3. Head(g.todo) \in Members(g.todo)
      BY <3>2, TailMembers
    <3>4. /\ Head(g.todo) \in Pid /\ records[Head(g.todo)].state # "none"
          /\ records'[c].state = records[c].state
      BY <1>2, <3>1, <3>3
    <3> QED
      BY <1>3, <2>1, <3>1, <3>4
  <2> QED
    BY <2>1, <2>2, <2>3
<1>5. \A s \in Pid : PendingOf(stack', records', s) \subseteq PendingOf(stack, records, s)
  <2> SUFFICES ASSUME NEW s \in Pid, NEW c \in Pid, NEW q \in Pid,
                      1 \in 1 .. Len(stack'[c]), Deciding(FrameAt(stack'[c], 1)),
                      FrameAt(stack'[c], 1).aux = s,
                      q \in Members(FrameAt(stack'[c], 1).todo), Allows(records', q, c)
               PROVE  /\ 1 \in 1 .. Len(stack[c])
                      /\ Deciding(FrameAt(stack[c], 1))
                      /\ FrameAt(stack[c], 1).aux = s
                      /\ q \in Members(FrameAt(stack[c], 1).todo)
                      /\ Allows(records, q, c)
    BY DEF PendingOf
  <2>1. c \in Coroutine /\ FrameAt(stack'[c], 1).op = "handle"
    BY DEF Coroutine, Deciding
  <2> QED
    BY <1>2, <1>3, <2>1
<1> QED
  BY <1>4, <1>5

\* A step after which as many restarts, made and pending, are counted.
LEMMA CountsKept ==
  ASSUME IInv, TypeOK', Budgeted, Fixed(records, records'),
         \A s \in Pid :
           Cardinality(RestartsOf(origin', s)) + Cardinality(PendingOf(stack', records', s))
             <= Cardinality(RestartsOf(origin, s)) + Cardinality(PendingOf(stack, records, s))
  PROVE  Counted(stack', records', origin')
<1>1. records \in Records /\ records' \in Records
  BY DEF IInv, TypeOK, Records
<1>2. SUFFICES ASSUME NEW s \in Pid
      PROVE  /\ records'[s].state = "none" => records'[s].history = 0
             /\ ~WindowPasses =>
                  /\ Cardinality(RestartsOf(origin', s))
                       + Cardinality(PendingOf(stack', records', s))
                       <= records'[s].history
                  /\ records'[s].name # NoName =>
                       records'[s].history <= MaxRestarts[records'[s].name]
  BY DEF Counted
<1>3. /\ records'[s].history = records[s].history \/ (WindowPasses /\ records[s].state # "none")
      /\ records[s].history \in Nat
      /\ records[s].state # "none" => records'[s].name = records[s].name
  BY <1>1 DEF Fixed, Records, Record
<1>4. records'[s].state = "none" => records'[s].history = 0
  BY <1>3 DEF Fixed, Budgeted, Counted
<1>5. ASSUME ~WindowPasses
      PROVE  Cardinality(RestartsOf(origin', s)) + Cardinality(PendingOf(stack', records', s))
               <= records'[s].history
  <2>1. Cardinality(RestartsOf(origin, s)) + Cardinality(PendingOf(stack, records, s))
          <= records[s].history
    BY <1>5 DEF Budgeted, Counted
  <2>2. /\ Cardinality(RestartsOf(origin, s)) \in Nat
        /\ Cardinality(PendingOf(stack, records, s)) \in Nat
        /\ Cardinality(RestartsOf(origin', s)) \in Nat
        /\ Cardinality(PendingOf(stack', records', s)) \in Nat
    BY FiniteCounts
  <2> QED
    BY <1>3, <1>5, <2>1, <2>2
<1>6. ASSUME ~WindowPasses, records'[s].name # NoName
      PROVE  records'[s].history <= MaxRestarts[records'[s].name]
  <2>1. records'[s].name \in Name
    BY <1>1, <1>6 DEF Records, Record
  <2>2. MaxRestarts[records'[s].name] \in Nat
    BY <2>1, AttributeAssumption
  <2>3. CASE records[s].state = "none"
    <3>1. records'[s].history = 0
      BY <1>3, <2>3 DEF Budgeted, Counted
    <3> QED
      BY <2>2, <3>1
  <2>4. CASE records[s].state # "none"
    BY <1>3, <1>6, <2>4 DEF Budgeted, Counted
  <2> QED
    BY <2>3, <2>4
<1> QED
  BY <1>4, <1>5, <1>6

\* A step that charges and makes no restart.
LEMMA BudgetKept ==
  ASSUME IInv, TypeOK', Indexed, Budgeted, HandlersNarrow, Fixed(records, records'),
         EndsAreHandled(task', records'),
         \A q \in Pid : origin'[q] = origin[q] \/ origin'[q].by # "handler"
  PROVE  BudgetedNext
<1>1. /\ HandlerFrames(stack', records')
      /\ \A s \in Pid : PendingOf(stack', records', s) \subseteq PendingOf(stack, records, s)
  BY PendingKept
<1>2. Justified(origin', records')
  BY DEF Justified, Budgeted, Fixed
<1>3. \A s \in Pid : RestartsOf(origin', s) \subseteq RestartsOf(origin, s)
  BY DEF RestartsOf
<1>4. Counted(stack', records', origin')
  BY <1>1, <1>3, FewerCounts, CountsKept
<1> QED
  BY <1>1, <1>2, <1>4 DEF BudgetedNext

LEMMA NarrowsItself ==
  ASSUME NEW f, NEW c, f.op = "handle" PROVE Narrows(f, f, c)
BY DEF Narrows, Deciding, Starting

LEMMA StackNarrow ==
  ASSUME UNCHANGED stack PROVE HandlersNarrow
BY NarrowsItself DEF HandlersNarrow

LEMMA GotoNarrow ==
  ASSUME TypeOK, NEW c \in Coroutine, stack[c] # <<>>, NEW f \in Frame, Goto(c, f),
         f.op = "handle" => Narrows(Top(c), f, c)
  PROVE  HandlersNarrow
<1>1. Went(c, f)
  BY GotoFrames
<1>2. Len(stack[c]) \in 1 .. Len(stack[c]) /\ FrameAt(stack[c], Len(stack[c])) = Top(c)
  BY Depths
<1>3. ASSUME NEW d \in Coroutine, NEW k \in 1 .. Len(stack'[d])
      PROVE  /\ k \in 1 .. Len(stack[d])
             /\ d = c /\ k = Len(stack[c]) =>
                  FrameAt(stack'[d], k) = f /\ FrameAt(stack[d], k) = Top(c)
             /\ ~(d = c /\ k = Len(stack[c])) =>
                  FrameAt(stack'[d], k) = FrameAt(stack[d], k)
  BY <1>1, <1>2 DEF Went, Elsewhere
<1> QED
  BY <1>3, NarrowsItself DEF HandlersNarrow

LEMMA ReturnNarrow ==
  ASSUME TypeOK, NEW c \in Coroutine, stack[c] # <<>>, Return(c)
  PROVE  HandlersNarrow
<1>1. Returned(c)
  BY ReturnFrames
<1>2. Len(stack[c]) \in Nat
  BY Depths
<1>3. ASSUME NEW d \in Coroutine, NEW k \in 1 .. Len(stack'[d])
      PROVE  k \in 1 .. Len(stack[d]) /\ FrameAt(stack'[d], k) = FrameAt(stack[d], k)
  <2>1. CASE d # c
    BY <1>1, <2>1 DEF Returned, Elsewhere
  <2>2. CASE d = c
    BY <1>1, <1>2, <2>2 DEF Returned
  <2> QED
    BY <2>1, <2>2
<1> QED
  BY <1>3, NarrowsItself DEF HandlersNarrow

LEMMA CallNarrow ==
  ASSUME TypeOK, NEW c \in Coroutine, stack[c] # <<>>, NEW f \in Frame, NEW g \in Frame,
         Call(c, f, g), f.op = "handle" => Narrows(Top(c), f, c), g.op = "kill"
  PROVE  HandlersNarrow
<1>1. Called(c, f, g)
  BY CallFrames
<1>2. /\ Len(stack[c]) \in 1 .. Len(stack[c]) /\ Len(stack[c]) \in Nat
      /\ FrameAt(stack[c], Len(stack[c])) = Top(c)
  BY Depths
<1>3. ASSUME NEW d \in Coroutine, NEW k \in 1 .. Len(stack'[d])
      PROVE  \/ /\ k \in 1 .. Len(stack[d])
                /\ d = c /\ k = Len(stack[c]) =>
                     FrameAt(stack'[d], k) = f /\ FrameAt(stack[d], k) = Top(c)
                /\ ~(d = c /\ k = Len(stack[c])) =>
                     FrameAt(stack'[d], k) = FrameAt(stack[d], k)
             \/ FrameAt(stack'[d], k) = g
  <2>1. CASE d # c
    BY <1>1, <2>1 DEF Called, Elsewhere
  <2>2. CASE d = c
    <3>1. k \in 1 .. Len(stack[c]) \/ k = Len(stack[c]) + 1
      BY <1>1, <1>2, <2>2 DEF Called
    <3> QED
      BY <1>1, <1>2, <2>2, <3>1 DEF Called
  <2> QED
    BY <2>1, <2>2
<1> QED
  BY <1>3, NarrowsItself DEF HandlersNarrow

LEMMA BeginNarrow ==
  ASSUME TypeOK, NEW c \in Coroutine, stack[c] = <<>>, NEW f,
         stack' = [stack EXCEPT ![c] = <<f>>],
         f.op = "kill" \/ (c \in Pid /\ f.at = "children")
  PROVE  HandlersNarrow
<1>1. Began(c, f)
  BY BeginFrames
<1>2. ASSUME NEW d \in Coroutine, NEW k \in 1 .. Len(stack'[d])
      PROVE  \/ k \in 1 .. Len(stack[d]) /\ FrameAt(stack'[d], k) = FrameAt(stack[d], k)
             \/ d = c /\ k = 1 /\ FrameAt(stack'[d], k) = f
  <2>1. CASE d # c
    BY <1>1, <2>1 DEF Began, Elsewhere
  <2>2. CASE d = c
    <3>1. k = 1
      BY <1>1, <2>2 DEF Began
    <3> QED
      BY <1>1, <2>2, <3>1 DEF Began
  <2> QED
    BY <2>1, <2>2
<1> QED
  BY <1>2, NarrowsItself DEF HandlersNarrow

-----------------------------------------------------------------------------
(* The budget: steps that make no restart *)

\* A step that leaves the records and the tasks of handlers alone.
LEMMA UnchangedBudget ==
  ASSUME IInv, TypeOK', Indexed, Budgeted, HandlersNarrow,
         UNCHANGED <<records, origin>>,
         \A p \in Pid : task'[p] = "handler" => task[p] = "handler"
  PROVE  BudgetedNext
<1>1. Fixed(records, records')
  BY DEF Fixed
<1>2. EndsAreHandled(task', records')
  BY DEF Budgeted, EndsAreHandled
<1> QED
  BY <1>1, <1>2, BudgetKept

LEMMA FixedTrans ==
  ASSUME NEW r, NEW t, NEW u, Fixed(r, t), Fixed(t, u),
         \A p \in Pid : r[p].state = "none" => t[p].state = "none"
  PROVE  Fixed(r, u)
BY DEF Fixed

\* Only what was said of handlers before is said of them.
LEMMA HandledKept ==
  ASSUME Budgeted, Fixed(records, records'),
         \A p \in Pid : task'[p] = "handler" => task[p] = "handler"
  PROVE  EndsAreHandled(task', records')
BY DEF Budgeted, EndsAreHandled, Fixed

LEMMA StartTaskBudget ==
  ASSUME IInv, TypeOK', Indexed, Budgeted, NEW p \in Pid, StartTask(p)
  PROVE  BudgetedNext
<1>1. /\ task[p] = "created" /\ task' = [task EXCEPT ![p] = "body"]
      /\ records' = [records EXCEPT ![p].state = "running"]
      /\ UNCHANGED <<stack, origin>> /\ records \in Records /\ task \in Tasks
  BY DEF StartTask, IInv, TypeOK, Records, Tasks
<1>2. Fixed(records, records')
  BY <1>1 DEF Fixed, Records, Record
<1>3. \A q \in Pid : task'[q] = "handler" => task[q] = "handler"
  BY <1>1 DEF Tasks
<1> QED
  BY <1>1, <1>2, <1>3, StackNarrow, HandledKept, BudgetKept

LEMMA IdleBudget ==
  ASSUME IInv, TypeOK', Indexed, Budgeted, NEW p \in Coroutine,
         TaskNeverRuns(p) \/ BodyStops(p) \/ LoopFreed(p)
  PROVE  BudgetedNext
<1>1. /\ UNCHANGED <<records, origin>> /\ UNCHANGED stack
      /\ task' = [task EXCEPT ![p] = "done"] \/ task' = task
      /\ task \in Tasks
  BY DEF TaskNeverRuns, BodyStops, LoopFreed, registryVars, IInv, TypeOK, Tasks
<1>2. \A q \in Pid : task'[q] = "handler" => task[q] = "handler"
  BY <1>1 DEF Tasks
<1> QED
  BY <1>1, <1>2, StackNarrow, UnchangedBudget

LEMMA BodyEndsBudget ==
  ASSUME IInv, TypeOK', Indexed, Budgeted, NEW p \in Pid, task[p] = "body",
         NEW end \in {"exited", "crashed"}, BodyEnds(p, end)
  PROVE  BudgetedNext
<1>1. /\ records' = [Cleaned(records, p) EXCEPT ![p].state = end]
      /\ task' = [task EXCEPT ![p] = "handler"]
      /\ stack' = [stack EXCEPT ![p] = <<NewHandler(p)>>]
      /\ UNCHANGED origin /\ records \in Records /\ task \in Tasks /\ TypeOK
      /\ p \in Coroutine
  BY DEF BodyEnds, IInv, TypeOK, Records, Tasks, Coroutine
<1>2. stack[p] = <<>>
  BY <1>1 DEF IInv, HandlersHaveTasks
<1>3. /\ Fixed(records, records') /\ records'[p].state = end
      /\ \A q \in Pid : q # p => records'[q].state = records[q].state
  BY <1>1 DEF Fixed, Cleaned, Records, Record
<1>4. EndsAreHandled(task', records')
  BY <1>1, <1>3 DEF EndsAreHandled, Budgeted, Tasks
<1>5. HandlersNarrow
  <2>1. NewHandler(p).at = "children"
    BY DEF NewHandler
  <2> QED
    BY <1>1, <1>2, <2>1, BeginNarrow
<1> QED
  BY <1>1, <1>3, <1>4, <1>5, BudgetKept

LEMMA KillRefusedBudget ==
  ASSUME IInv, TypeOK', Indexed, Budgeted, NEW c \in Coroutine, KillRefused(c)
  PROVE  BudgetedNext
<1>1. HandlersNarrow
  BY ReturnNarrow DEF KillRefused, At, IInv
<1> QED
  BY <1>1, UnchangedBudget DEF KillRefused, registryVars

LEMMA KillEntersBudget ==
  ASSUME IInv, TypeOK', Indexed, Budgeted, NEW c \in Coroutine, KillEnters(c)
  PROVE  BudgetedNext
<1> DEFINE p == Top(c).pid
           f == [Top(c) EXCEPT !.at = "children", !.todo = records[p].children, !.aux = p]
<1>1. /\ stack[c] # <<>> /\ At(c, "kill", "enter") /\ Active(p) /\ Goto(c, f)
      /\ records' = [records EXCEPT ![p].state = "stopping", ![p].stop = TRUE]
      /\ UNCHANGED <<task, origin>>
  BY DEF KillEnters, At
<1>2. TypeOK /\ records \in Records
  BY DEF IInv, TypeOK, Records
<1>3. Top(c) \in Frame /\ Top(c) \in Fields /\ p \in Pid /\ records[p].children \in Seq(Pid)
  BY <1>1, <1>2, TopFields DEF Records, Record
<1>4. f \in Frame /\ f.op = "kill"
  BY <1>1, <1>3 DEF Frame, Fields, At
<1> HIDE DEF f
<1>5. HandlersNarrow
  BY <1>1, <1>2, <1>4, GotoNarrow
<1>6. task[p] # "handler"
  BY <1>1, <1>3 DEF Budgeted, EndsAreHandled, Active
<1> HIDE DEF p
<1>7. Fixed(records, records')
  <2>1. records[p].state # "none"
    BY <1>1 DEF Active
  <2>2. \A q \in Pid : q # p => records'[q] = records[q]
    BY <1>1, <1>2 DEF Records
  <2>3. /\ records'[p].state = "stopping" /\ records'[p].name = records[p].name
        /\ records'[p].policy = records[p].policy /\ records'[p].history = records[p].history
    BY <1>1, <1>2, <1>3 DEF Records, Record
  <2> QED
    BY <1>6, <2>1, <2>2, <2>3 DEF Fixed
<1> QED
  BY <1>1, <1>5, <1>7, HandledKept, BudgetKept

LEMMA KillsChildBudget ==
  ASSUME IInv, TypeOK', Indexed, Budgeted, NEW c \in Coroutine, KillsChild(c)
  PROVE  BudgetedNext
<1> DEFINE f == [Top(c) EXCEPT !.todo = Tail(@)]
           g == NewKill(Head(Top(c).todo), FALSE)
<1>1. stack[c] # <<>> /\ Top(c).at = "children" /\ Top(c).todo # <<>> /\ Call(c, f, g)
  BY DEF KillsChild
<1>2. /\ Top(c) \in Frame /\ Top(c) \in Fields /\ Top(c).todo \in Seq(Pid)
      /\ Head(Top(c).todo) \in Pid
  BY <1>1, TopFields DEF IInv, Indexed
<1>3. g \in Frame /\ g.op = "kill"
  BY <1>2, NewFrameTypes DEF IInv, NewKill
<1>4. f \in Frame /\ f.op = Top(c).op /\ f.at = "children"
  BY <1>1, <1>2, HeadTailProperties DEF Frame, Fields
<1>5. f.op = "handle" => Narrows(Top(c), f, c)
  BY <1>4 DEF Narrows, Deciding, Starting
<1> HIDE DEF f, g
<1>6. HandlersNarrow
  BY <1>1, <1>3, <1>4, <1>5, CallNarrow DEF IInv
<1> QED
  BY <1>6, UnchangedBudget DEF KillsChild, registryVars

LEMMA KillCancelsBudget ==
  ASSUME IInv, TypeOK', Indexed, Budgeted, NEW c \in Coroutine, KillCancels(c)
  PROVE  BudgetedNext
<1> DEFINE u == Top(c).aux
           f == [Top(c) EXCEPT !.at = "cancel", !.aux = Top(u).pid]
           g == [Top(c) EXCEPT !.at = "await"]
<1>1. /\ stack[c] # <<>> /\ Top(c).op = "kill"
      /\ (u \in Pid /\ At(u, "kill", "await") /\ Goto(c, f)) \/ Goto(c, g)
  BY DEF KillCancels, At
<1>2. Top(c) \in Frame /\ Top(c) \in Fields
  BY <1>1, TopFields DEF IInv
<1>3. g \in Frame /\ g.op = "kill"
  BY <1>1, <1>2 DEF Frame, Fields
<1>4. ASSUME u \in Pid, At(u, "kill", "await")
      PROVE  f \in Frame /\ f.op = "kill"
  <2>1. Top(u).pid \in Pid
    BY <1>4, TopFields DEF IInv, At, Coroutine
  <2> QED
    BY <1>1, <1>2, <2>1 DEF Frame, Fields
<1> HIDE DEF f, g, u
<1>5. HandlersNarrow
  BY <1>1, <1>2, <1>3, <1>4, GotoNarrow DEF IInv
<1> QED
  BY <1>5, UnchangedBudget DEF KillCancels, registryVars

LEMMA UnlinkedFixed ==
  ASSUME NEW r \in Records, NEW p \in Pid PROVE Fixed(r, Unlinked(r, p))
BY UnlinkedFields DEF Fixed

LEMMA KillUnlinksBudget ==
  ASSUME IInv, TypeOK', Indexed, Budgeted, NEW c \in Coroutine, KillUnlinks(c)
  PROVE  BudgetedNext
<1>1. stack[c] # <<>> /\ Return(c) /\ UNCHANGED <<task, origin>>
      /\ records' = Unlinked(records, Top(c).pid)
  BY DEF KillUnlinks, At
<1>2. Top(c).pid \in Pid /\ records \in Records /\ TypeOK
  BY <1>1, TopFields DEF IInv, TypeOK, Records
<1>3. HandlersNarrow
  BY <1>1, <1>2, ReturnNarrow
<1>4. Fixed(records, records')
  BY <1>1, <1>2, UnlinkedFixed
<1> QED
  BY <1>1, <1>3, <1>4, HandledKept, BudgetKept

-----------------------------------------------------------------------------
(* The budget: steps that start processes *)

\* Launch adds nothing to what is recorded, and one origin at most.
LEMMA LaunchFixed ==
  ASSUME IInv, NEW r \in Records, Allocated(r), NEW names, NEW boxes,
         NEW n, NEW pol, NEW par \in Pid \cup {None}, NEW old, NEW by,
         par # None => r[par].state # "none",
         \A p \in Pid : /\ r[p].state = "none" => r[p].history = 0
                        /\ records[p].state # "none" => r[p].state # "none",
         Launch(r, names, boxes, n, pol, par, old, by)
  PROVE  /\ Fixed(r, records')
         /\ \A p \in Pid : task'[p] = "handler" => task[p] = "handler"
         /\ \A q \in Pid :
              \/ origin'[q] = origin[q]
              \/ /\ q = nextPid /\ Launchable(names, boxes, n)
                 /\ origin'[q].replaces = old /\ origin'[q].under = par
                 /\ origin'[q].by = by
         /\ Launchable(names, boxes, n) => nextPid \in Pid
<1>1. TypeOK /\ task \in Tasks /\ origin \in OriginRecords
  BY DEF IInv, TypeOK, Tasks, OriginRecords
<1>2. CASE LaunchesNothing(r, names, boxes) /\ ~Launchable(names, boxes, n)
  BY <1>2 DEF LaunchesNothing, Fixed
<1>3. CASE Launched(r, names, boxes, n, pol, par, old, by)
  <2> DEFINE q == nextPid
  <2>1. Added(r, records', q, n, pol, par, old)
    BY <1>3 DEF Launched
  <2>2. /\ q \in Pid /\ r[q].state = "none" /\ r[q].history = 0
        /\ records'[q].history = 0
        /\ \A p \in Pid : p # q =>
             /\ records'[p].state = r[p].state /\ records'[p].name = r[p].name
             /\ records'[p].policy = r[p].policy /\ records'[p].history = r[p].history
    BY <2>1 DEF Added
  <2>3. task[q] # "handler"
    BY <2>2 DEF IInv, TasksHaveProcesses
  <2>4. Fixed(r, records')
    BY <2>2, <2>3 DEF Fixed
  <2>5. /\ task' = [task EXCEPT ![q] = "created"]
        /\ origin' = [origin EXCEPT ![q] = [replaces |-> old, under |-> par, by |-> by]]
    BY <1>3 DEF Launched
  <2>6. \A p \in Pid : task'[p] = "handler" => task[p] = "handler"
    BY <1>1, <2>5 DEF Tasks
  <2>7. /\ \A p \in Pid : p # q => origin'[p] = origin[p]
        /\ origin'[q] = [replaces |-> old, under |-> par, by |-> by]
    BY <1>1, <2>2, <2>5 DEF OriginRecords
  <2>8. Launchable(names, boxes, n)
    BY <1>3 DEF Launched
  <2> QED
    BY <2>2, <2>4, <2>6, <2>7, <2>8
<1> QED
  BY <1>1, <1>2, <1>3, LaunchCases

LEMMA RunPathBudget ==
  ASSUME IInv, TypeOK', Indexed, Budgeted, NEW c \in Client, NEW n \in Name, RunPath(c, n)
  PROVE  BudgetedNext
<1>1. HandlersNarrow
  BY StackNarrow DEF RunPath
<1>2. records \in Records /\ Allocated(records) /\ None \in Pid \cup {None}
  BY TypeParts DEF IInv, RegistryTypes
<1>3. \A p \in Pid : records[p].state = "none" => records[p].history = 0
  BY DEF Budgeted, Counted
<1>4. /\ Fixed(records, records')
      /\ \A p \in Pid : task'[p] = "handler" => task[p] = "handler"
      /\ \A q \in Pid : origin'[q] = origin[q] \/ origin'[q].by # "handler"
  BY <1>2, <1>3, LaunchFixed DEF RunPath
<1> QED
  BY <1>1, <1>4, HandledKept, BudgetKept

LEMMA EscalatedFixed ==
  ASSUME NEW r \in Records, NEW s
  PROVE  LET t == [r EXCEPT ![s].escalated = TRUE]
         IN /\ Fixed(r, t)
            /\ \A p \in Pid : /\ t[p].state = r[p].state /\ t[p].history = r[p].history
                              /\ t[p].policy = r[p].policy
BY DEF Fixed, Records, Record

LEMMA SpawnChildBudget ==
  ASSUME IInv, TypeOK', Indexed, Budgeted, NEW c \in Client, NEW par \in Pid,
         NEW n \in Name, SpawnChild(c, par, n)
  PROVE  BudgetedNext
<1> DEFINE t == [records EXCEPT ![par].escalated = TRUE]
           r == IF Launchable(byName, mailboxes, n) THEN records ELSE t
<1>1. HandlersNarrow
  BY StackNarrow DEF SpawnChild
<1>2. /\ records \in Records /\ Allocated(records) /\ Fixed(records, records)
      /\ \A p \in Pid : records[p].state = "none" => records[p].history = 0
  BY TypeParts DEF IInv, RegistryTypes, Budgeted, Counted, Fixed
<1>3. /\ t \in Records /\ Allocated(t) /\ Fixed(records, t)
      /\ \A p \in Pid : t[p].state = records[p].state /\ t[p].history = records[p].history
  <2>1. t \in Records /\ Allocated(t)
    BY EscalatedIsSound DEF IInv
  <2>2. /\ Fixed(records, t)
        /\ \A p \in Pid : t[p].state = records[p].state /\ t[p].history = records[p].history
    BY <1>2, EscalatedFixed
  <2> QED
    BY <2>1, <2>2
<1>4. /\ records[par].state # "none"
      /\ Launch(r, byName, mailboxes, n, ChildPolicy[n], par, None, "caller")
  BY DEF SpawnChild, Live
<1> HIDE DEF t
<1>5. /\ r \in Records /\ Allocated(r) /\ Fixed(records, r)
      /\ \A p \in Pid : r[p].state = records[p].state /\ r[p].history = records[p].history
  BY <1>2, <1>3
<1> HIDE DEF r
<1>6. /\ Fixed(r, records')
      /\ \A p \in Pid : task'[p] = "handler" => task[p] = "handler"
      /\ \A q \in Pid : origin'[q] = origin[q] \/ origin'[q].by # "handler"
  BY <1>2, <1>4, <1>5, LaunchFixed
<1>7. Fixed(records, records')
  BY <1>5, <1>6, FixedTrans
<1> QED
  BY <1>1, <1>6, <1>7, HandledKept, BudgetKept

LEMMA MonitorChildBudget ==
  ASSUME IInv, TypeOK', Indexed, Budgeted, NEW c \in Client, NEW par \in Pid,
         NEW q \in Pid, MonitorChild(c, par, q)
  PROVE  BudgetedNext
<1> DEFINE s == records[par].children
           list == IF q \in Members(s) THEN s ELSE Append(s, q)
<1>1. /\ records' = [records EXCEPT ![q].parent = par, ![par].children = list]
      /\ UNCHANGED <<stack, task, origin>> /\ records \in Records
  BY DEF MonitorChild, IInv, TypeOK, Records
<1> HIDE DEF list
<1>2. Fixed(records, records')
  BY <1>1 DEF Fixed, Records, Record
<1> QED
  BY <1>1, <1>2, StackNarrow, HandledKept, BudgetKept

LEMMA KillBudget ==
  ASSUME IInv, TypeOK', Indexed, Budgeted, NEW c \in Client, NEW p \in Pid, Kill(c, p)
  PROVE  BudgetedNext
<1>1. /\ c \in Coroutine /\ stack[c] = <<>>
      /\ stack' = [stack EXCEPT ![c] = <<NewKill(p, TRUE)>>]
      /\ UNCHANGED <<records, task, origin>>
  BY DEF Kill, Calls, Coroutine, registryVars
<1>2. NewKill(p, TRUE).op = "kill"
  BY DEF NewKill
<1>3. HandlersNarrow
  BY <1>1, <1>2, BeginNarrow DEF IInv
<1> QED
  BY <1>1, <1>3, UnchangedBudget

LEMMA KillFinishesBudget ==
  ASSUME IInv, TypeOK', Indexed, Budgeted, NEW c \in Coroutine, KillFinishes(c)
  PROVE  BudgetedNext
<1> DEFINE p == Top(c).pid
           n == records[p].name
           sup == records[p].parent
           r == [Cleaned(records, p) EXCEPT ![p].state = "killed",
                                            ![p].children = <<>>]
           names == NamesAfterCleanup(p)
           boxes == MailboxesAfterCleanup(p)
           f == [Top(c) EXCEPT !.at = "tail"]
<1>1. stack[c] # <<>> /\ task[p] = "done" /\ Top(c).op = "kill" /\ Past(Top(c))
  BY DEF KillFinishes, At, Past
<1>2. TypeOK /\ records \in Records
  BY DEF IInv, TypeOK, Records
<1>3. Top(c) \in Frame /\ Top(c) \in Fields /\ p \in Pid
  BY <1>1, <1>2, TopFields
<1>4. sup \in Pid \cup {None}
  BY <1>2, <1>3 DEF Records, Record
<1>5. records[p].state # "none"
  <2>1. Len(stack[c]) \in 1 .. Len(stack[c]) /\ FrameAt(stack[c], Len(stack[c])) = Top(c)
    BY <1>1, <1>2, Depths
  <2> QED
    BY <1>1, <2>1 DEF Indexed, Torn
<1>6. /\ r \in Records /\ Allocated(r) /\ r[p].state = "killed"
      /\ r[p].name = records[p].name /\ r[p].policy = records[p].policy
      /\ r[p].history = records[p].history
      /\ \A q \in Pid : q # p => r[q] = records[q]
  <2> DEFINE e == <<>>
  <2>1. e \in Seq(Pid)
    BY EmptySeq
  <2> HIDE DEF e, p
  <2> DEFINE k == Cleaned(records, p)
             m == [k[p] EXCEPT !.state = "killed", !.children = e]
             t == [k EXCEPT ![p].state = "killed", ![p].children = e]
  <2>2. k \in Records
    BY <1>2, <1>3, CleanedType
  <2>3. /\ k[p].name = records[p].name
        /\ k[p].policy = records[p].policy /\ k[p].history = records[p].history
        /\ \A q \in Pid : q # p => k[q] = records[q]
    BY <1>2, <1>3 DEF Cleaned, Records, Record
  <2> HIDE DEF k
  <2>4. t = [k EXCEPT ![p] = m]
    BY <1>3, <2>2 DEF Records, Record
  <2>5. k[p] \in Record
    BY <1>3, <2>2 DEF Records
  <2>6. /\ m \in Record /\ m.state = "killed" /\ m.name = k[p].name
        /\ m.policy = k[p].policy /\ m.history = k[p].history
    BY <2>1, <2>5 DEF Record, States
  <2> HIDE DEF m
  <2>7. /\ t \in Records /\ t[p].state = "killed" /\ t[p].name = records[p].name
        /\ t[p].policy = records[p].policy /\ t[p].history = records[p].history
        /\ \A q \in Pid : q # p => t[q] = records[q]
    BY <1>3, <2>2, <2>3, <2>4, <2>6 DEF Records
  <2>8. Allocated(records)
    BY <1>2, TypeParts DEF RegistryTypes
  <2> HIDE DEF t
  <2>9. Allocated(t)
    BY <1>5, <2>7, <2>8 DEF Allocated
  <2> QED
    BY <2>7, <2>9 DEF t, k, e
<1> HIDE DEF r
<1>7. \A q \in Pid : /\ r[q].state = "none" <=> records[q].state = "none"
                     /\ r[q].history = records[q].history
  BY <1>5, <1>6
<1>8. Fixed(records, r)
  BY <1>1, <1>6, <1>7 DEF Fixed
<1>9. \A q \in Pid : r[q].state = "none" => r[q].history = 0
  BY <1>7 DEF Budgeted, Counted
<1>10. f \in Frame /\ f.op = "kill"
  BY <1>1, <1>3 DEF Frame, Fields
<1> HIDE DEF f, names, boxes
<1>11. \/ /\ Launch(r, names, boxes, n, records[p].policy, sup, p, "kill")
          /\ Live(sup)
          /\ Goto(c, f) \/ Return(c)
       \/ /\ records' = Unlinked(r, p) /\ UNCHANGED <<task, origin>>
          /\ Return(c)
  BY DEF KillFinishes, r, names, boxes, f
<1>12. HandlersNarrow
  BY <1>1, <1>2, <1>10, <1>11, GotoNarrow, ReturnNarrow
<1>13. /\ Fixed(r, records')
       /\ \A q \in Pid : task'[q] = "handler" => task[q] = "handler"
       /\ \A q \in Pid : origin'[q] = origin[q] \/ origin'[q].by # "handler"
  <2>1. CASE /\ Launch(r, names, boxes, n, records[p].policy, sup, p, "kill")
             /\ Live(sup)
    <3>1. sup # None => r[sup].state # "none"
      BY <1>4, <1>7, <2>1 DEF Live
    <3>2. \A q \in Pid : /\ r[q].state = "none" => r[q].history = 0
                         /\ records[q].state # "none" => r[q].state # "none"
      BY <1>7, <1>9
    <3> DEFINE pol == records[p].policy
    <3>3. Launch(r, names, boxes, n, pol, sup, p, "kill")
      BY <2>1
    <3> HIDE DEF n, sup, p, pol
    <3>4. /\ Fixed(r, records')
          /\ \A q \in Pid : task'[q] = "handler" => task[q] = "handler"
          /\ \A q \in Pid : origin'[q] = origin[q] \/ origin'[q].by = "kill"
      BY <1>4, <1>6, <3>1, <3>2, <3>3, LaunchFixed
    <3> QED
      BY <3>4
  <2>2. CASE records' = Unlinked(r, p) /\ UNCHANGED <<task, origin>>
    BY <1>3, <1>6, <2>2, UnlinkedFixed
  <2> QED
    BY <1>11, <2>1, <2>2
<1>14. Fixed(records, records')
  BY <1>7, <1>8, <1>13, FixedTrans
<1> QED
  BY <1>12, <1>13, <1>14, HandledKept, BudgetKept

-----------------------------------------------------------------------------
(* The budget: the steps of the handler *)

LEMMA HandlerNextBudget ==
  ASSUME IInv, TypeOK', Indexed, Budgeted, NEW c \in Pid, HandlerNext(c)
  PROVE  BudgetedNext
<1> DEFINE e == [Top(c) EXCEPT !.todo = Tail(@)]
           g == [Top(c) EXCEPT !.at = "backoff"]
           h == [Top(c) EXCEPT !.at = "check"]
<1>1. /\ c \in Coroutine /\ stack[c] # <<>> /\ At(c, "handle", "next")
      /\ UNCHANGED <<records, task, origin>>
      /\ \/ Return(c)
         \/ Top(c).todo # <<>> /\ Goto(c, e)
         \/ /\ Top(c).todo # <<>> /\ PolicyAllows(Head(Top(c).todo), c)
            /\ Goto(c, g) \/ Goto(c, h)
  BY DEF HandlerNext, At, Coroutine, registryVars
<1>2. Top(c) \in Frame /\ Top(c) \in Fields /\ Top(c).todo \in Seq(Pid) /\ TypeOK
  BY <1>1, TopFields DEF IInv
<1>3. Deciding(Top(c)) /\ Top(c).op = "handle"
  BY <1>1 DEF Deciding, At
<1>4. HandlersNarrow
  <2>1. CASE Return(c)
    BY <1>1, <1>2, <2>1, ReturnNarrow
  <2>2. CASE Top(c).todo # <<>> /\ Goto(c, e)
    <3>1. e \in Frame /\ e.aux = Top(c).aux /\ e.todo = Tail(Top(c).todo) /\ e.at = "next"
      BY <1>1, <1>2, <2>2, HeadTailProperties DEF Frame, Fields, At
    <3>2. /\ Members(Tail(Top(c).todo)) \subseteq Members(Top(c).todo)
          /\ Distinct(Top(c).todo) => Distinct(Tail(Top(c).todo))
      BY <1>2, <2>2, TailMembers
    <3>3. ~Starting(e)
      BY <3>1 DEF Starting
    <3> HIDE DEF e
    <3>4. Narrows(Top(c), e, c)
      BY <1>3, <3>1, <3>2, <3>3 DEF Narrows
    <3> QED
      BY <1>1, <1>2, <2>2, <3>1, <3>4, GotoNarrow
  <2>3. CASE /\ Top(c).todo # <<>> /\ PolicyAllows(Head(Top(c).todo), c)
             /\ Goto(c, g) \/ Goto(c, h)
    <3>1. /\ g \in Frame /\ g.aux = Top(c).aux /\ g.todo = Top(c).todo
          /\ h \in Frame /\ h.aux = Top(c).aux /\ h.todo = Top(c).todo
      BY <1>1, <1>2, <2>3 DEF Frame, Fields, At
    <3>2. Allows(records, Head(Top(c).todo), c)
      BY <2>3 DEF Allows, PolicyAllows
    <3> HIDE DEF g, h
    <3>3. Narrows(Top(c), g, c) /\ Narrows(Top(c), h, c)
      BY <1>3, <3>1, <3>2 DEF Narrows
    <3> QED
      BY <1>1, <1>2, <2>3, <3>1, <3>3, GotoNarrow
  <2> QED
    BY <1>1, <2>1, <2>2, <2>3
<1> QED
  BY <1>1, <1>4, UnchangedBudget

LEMMA HandlerWakesBudget ==
  ASSUME IInv, TypeOK', Indexed, Budgeted, NEW c \in Pid, HandlerWakes(c)
  PROVE  BudgetedNext
<1> DEFINE h == [Top(c) EXCEPT !.at = "check"]
<1>1. /\ c \in Coroutine /\ stack[c] # <<>> /\ At(c, "handle", "backoff")
      /\ UNCHANGED <<records, task, origin>>
      /\ Return(c) \/ Goto(c, h)
  BY DEF HandlerWakes, At, Coroutine, registryVars
<1>2. Top(c) \in Frame /\ Top(c) \in Fields /\ TypeOK
  BY <1>1, TopFields DEF IInv
<1>3. h \in Frame /\ h.aux = Top(c).aux /\ h.todo = Top(c).todo
  BY <1>1, <1>2 DEF Frame, Fields, At
<1>4. Deciding(Top(c)) /\ Starting(Top(c)) /\ Top(c).op = "handle"
  BY <1>1 DEF Deciding, Starting, At
<1> HIDE DEF h
<1>5. Narrows(Top(c), h, c)
  BY <1>3, <1>4 DEF Narrows
<1>6. HandlersNarrow
  BY <1>1, <1>2, <1>3, <1>5, GotoNarrow, ReturnNarrow
<1> QED
  BY <1>1, <1>6, UnchangedBudget

LEMMA HandlerChecksBudget ==
  ASSUME IInv, TypeOK', Indexed, Budgeted, NEW c \in Pid, HandlerChecks(c)
  PROVE  BudgetedNext
<1> DEFINE f == [Top(c) EXCEPT !.at = "restart"]
           g == NewKill(Head(Top(c).todo), FALSE)
<1>1. /\ c \in Coroutine /\ stack[c] # <<>> /\ At(c, "handle", "check")
      /\ UNCHANGED <<records, task, origin>>
      /\ Return(c) \/ Goto(c, f) \/ Call(c, f, g)
  BY DEF HandlerChecks, At, Coroutine, registryVars
<1>2. /\ Top(c) \in Frame /\ Top(c) \in Fields /\ TypeOK
      /\ Top(c).todo # <<>> /\ Head(Top(c).todo) \in Pid
  BY <1>1, TopFields DEF IInv, Indexed, At, Frame
<1>3. f \in Frame /\ f.aux = Top(c).aux /\ f.todo = Top(c).todo
  BY <1>1, <1>2 DEF Frame, Fields, At
<1>4. g \in Frame /\ g.op = "kill"
  BY <1>2, NewFrameTypes DEF NewKill
<1>5. Deciding(Top(c)) /\ Starting(Top(c)) /\ Top(c).op = "handle"
  BY <1>1 DEF Deciding, Starting, At
<1> HIDE DEF f, g
<1>6. Narrows(Top(c), f, c)
  BY <1>3, <1>5 DEF Narrows
<1>7. HandlersNarrow
  BY <1>1, <1>2, <1>3, <1>4, <1>6, GotoNarrow, ReturnNarrow, CallNarrow
<1> QED
  BY <1>1, <1>7, UnchangedBudget

\* The handler's frame is the only one of its task while it decides.
LEMMA HandlerAlone ==
  ASSUME TypeOK, Budgeted, NEW c \in Coroutine, stack[c] # <<>>, Top(c).op = "handle"
  PROVE  c \in Pid /\ Len(stack[c]) = 1 /\ FrameAt(stack[c], 1) = Top(c)
<1>1. Len(stack[c]) \in 1 .. Len(stack[c]) /\ FrameAt(stack[c], Len(stack[c])) = Top(c)
  BY Depths
<1>2. c \in Pid /\ Len(stack[c]) = 1
  BY <1>1 DEF Budgeted, HandlerFrames
<1> QED
  BY <1>1, <1>2

\* A restart made is a pending one less.
LEMMA HandlerRestartsBudget ==
  ASSUME IInv, TypeOK', Indexed, Budgeted, NEW c \in Pid, HandlerRestarts(c)
  PROVE  BudgetedNext
<1> DEFINE q == Head(Top(c).todo)
           n == records[q].name
           pol == records[q].policy
           sup == Top(c).aux
           t == [records EXCEPT ![sup].escalated = TRUE]
           ok == Launchable(byName, mailboxes, n)
           f == [Top(c) EXCEPT !.at = "next", !.todo = Tail(@)]
<1>1. /\ c \in Coroutine /\ stack[c] # <<>> /\ At(c, "handle", "restart")
      /\ \/ /\ Return(c) /\ UNCHANGED <<records, task, origin>>
         \/ /\ Live(sup) /\ ~ok /\ Return(c)
            /\ Launch(t, byName, mailboxes, n, pol, sup, q, "handler")
         \/ /\ Live(sup) /\ ok /\ Goto(c, f)
            /\ Launch(records, byName, mailboxes, n, pol, sup, q, "handler")
  BY DEF HandlerRestarts, At, Coroutine, registryVars
<1>2. /\ TypeOK /\ Top(c) \in Frame /\ Top(c) \in Fields /\ Top(c).todo \in Seq(Pid)
      /\ Top(c).todo # <<>> /\ q \in Pid /\ records[q].state # "none"
  BY <1>1, TopFields DEF IInv, Indexed, At, Frame
<1>3. Len(stack[c]) = 1 /\ FrameAt(stack[c], 1) = Top(c)
  BY <1>1, <1>2, HandlerAlone DEF At
<1>4. /\ Deciding(Top(c)) /\ Starting(Top(c))
      /\ sup \in Pid /\ records[sup].state # "none"
      /\ Distinct(Top(c).todo) /\ Allows(records, q, c)
  <2>1. Deciding(Top(c)) /\ Starting(Top(c))
    BY <1>1 DEF At, Deciding, Starting
  <2>2. 1 \in 1 .. Len(stack[c])
    BY <1>3
  <2> QED
    BY <1>1, <1>3, <2>1, <2>2 DEF Budgeted, HandlerFrames
<1>5. /\ records \in Records /\ Allocated(records) /\ origin \in OriginRecords
      /\ \A p \in Pid : records[p].state = "none" => records[p].history = 0
  BY <1>2, TypeParts DEF RegistryTypes, OtherTypes, Budgeted, Counted
<1>6. /\ f \in Frame /\ f.aux = sup /\ f.todo = Tail(Top(c).todo) /\ f.at = "next"
      /\ f.op = "handle"
  BY <1>1, <1>2, HeadTailProperties DEF Frame, Fields, At
<1>7. /\ Members(Tail(Top(c).todo)) \subseteq Members(Top(c).todo)
      /\ Distinct(Tail(Top(c).todo)) /\ q \in Members(Top(c).todo)
      /\ q \notin Members(Tail(Top(c).todo))
  BY <1>2, <1>4, TailMembers
<1>8. ~Starting(f)
  BY <1>6 DEF Starting
<1> HIDE DEF f
<1>9. CASE Return(c) /\ UNCHANGED <<records, task, origin>>
  BY <1>1, <1>2, <1>9, ReturnNarrow, UnchangedBudget
<1>10. CASE /\ Live(sup) /\ ~ok /\ Return(c)
            /\ Launch(t, byName, mailboxes, n, pol, sup, q, "handler")
  <2>1. t \in Records /\ Allocated(t)
    BY <1>2, EscalatedIsSound
  <2> HIDE DEF n, pol, q, sup
  <2>2. /\ Fixed(records, t)
        /\ \A p \in Pid : t[p].state = records[p].state /\ t[p].history = records[p].history
    <3>1. \A p \in Pid :
            /\ t[p].state = records[p].state /\ t[p].history = records[p].history
            /\ t[p].name = records[p].name /\ t[p].policy = records[p].policy
      BY <1>5 DEF Records, Record
    <3> HIDE DEF t
    <3> QED
      BY <3>1 DEF Fixed
  <2> HIDE DEF t
  <2>3. /\ Fixed(t, records')
        /\ \A p \in Pid : task'[p] = "handler" => task[p] = "handler"
        /\ \A x \in Pid : origin'[x] = origin[x]
    <3>1. /\ \A p \in Pid : t[p].state = "none" => t[p].history = 0
          /\ sup \in Pid \cup {None} /\ t[sup].state # "none"
      BY <1>4, <1>5, <2>2
    <3>2. IInv /\ \A p \in Pid : records[p].state # "none" => t[p].state # "none"
      BY <2>2
    <3>3. /\ Fixed(t, records')
          /\ \A p \in Pid : task'[p] = "handler" => task[p] = "handler"
          /\ \A x \in Pid : origin'[x] = origin[x] \/ Launchable(byName, mailboxes, n)
      BY SMTT(60), <1>10, <2>1, <3>1, <3>2, LaunchFixed
    <3> QED
      BY <1>10, <3>3
  <2>4. Fixed(records, records')
    BY <2>2, <2>3, FixedTrans
  <2> QED
    BY <1>1, <1>2, <1>10, <2>3, <2>4, ReturnNarrow, HandledKept, BudgetKept
<1>11. CASE /\ Live(sup) /\ ok /\ Goto(c, f)
            /\ Launch(records, byName, mailboxes, n, pol, sup, q, "handler")
  <2>1. Narrows(Top(c), f, c)
    BY <1>1, <1>4, <1>6, <1>7, <1>8 DEF Narrows, At
  <2>2. HandlersNarrow
    BY <1>1, <1>2, <1>6, <1>11, <2>1, GotoNarrow
  <2>3. Went(c, f)
    BY <1>1, <1>2, <1>6, <1>11, GotoFrames
  <2>4. FrameAt(stack'[c], 1) = f
    BY <1>3, <2>3 DEF Went
  <2> DEFINE new == nextPid
  <2>5. records[q].policy # "temporary"
    BY <1>4 DEF Allows
  <2> HIDE DEF n, pol, q, sup
  <2>6. /\ Fixed(records, records') /\ new \in Pid
        /\ \A p \in Pid : task'[p] = "handler" => task[p] = "handler"
        /\ \A x \in Pid : \/ origin'[x] = origin[x]
                          \/ /\ x = new /\ origin'[x].replaces = q
                             /\ origin'[x].under = sup /\ origin'[x].by = "handler"
    BY <1>4, <1>5, <1>11, LaunchFixed
  <2> HIDE DEF new
  <2>7. /\ HandlerFrames(stack', records')
        /\ \A s \in Pid : PendingOf(stack', records', s) \subseteq PendingOf(stack, records, s)
    BY <2>2, <2>6, PendingKept
  <2>8. EndsAreHandled(task', records')
    BY <2>6, HandledKept
  <2>9. Justified(origin', records')
    <3> SUFFICES ASSUME NEW x \in Pid, origin'[x].by = "handler"
                 PROVE  LET o == origin'[x]
                        IN /\ o.under \in Pid /\ records'[o.under].state # "none"
                           /\ o.replaces \in Pid /\ records'[o.replaces].state # "none"
                           /\ records'[o.replaces].policy # "temporary"
      BY DEF Justified
    <3>1. CASE origin'[x] = origin[x]
      BY <2>6, <3>1 DEF Budgeted, Justified, Fixed
    <3>2. CASE origin'[x].replaces = q /\ origin'[x].under = sup
      BY <1>2, <1>4, <2>5, <2>6, <3>2 DEF Fixed
    <3> QED
      BY <2>6, <3>1, <3>2
  <2>10. ASSUME NEW s \in Pid
         PROVE  Cardinality(RestartsOf(origin', s)) + Cardinality(PendingOf(stack', records', s))
                  <= Cardinality(RestartsOf(origin, s)) + Cardinality(PendingOf(stack, records, s))
    <3>1. CASE s # sup
      <4>1. RestartsOf(origin', s) \subseteq RestartsOf(origin, s)
        BY <2>6, <3>1 DEF RestartsOf
      <4> QED
        BY <2>7, <4>1, FewerCounts
    <3>2. CASE s = sup
      <4> DEFINE R == RestartsOf(origin, s)
                 P == PendingOf(stack, records, s)
                 R2 == RestartsOf(origin', s)
                 P2 == PendingOf(stack', records', s)
                 x == <<c, q>>
      <4>1. x \in Pid \X Pid /\ x[1] = c /\ x[2] = q /\ 1 \in 1 .. Len(stack[c])
        BY <1>2, <1>3
      <4>2. x \in P
        BY <1>3, <1>4, <1>7, <3>2, <4>1 DEF PendingOf, sup
      <4>3. x \notin P2
        BY <1>6, <1>7, <2>4, <4>1 DEF PendingOf
      <4>4. R2 \subseteq R \cup {new}
        BY <2>6 DEF RestartsOf
      <4>5. /\ IsFiniteSet(R) /\ IsFiniteSet(P) /\ IsFiniteSet(R2) /\ IsFiniteSet(P2)
            /\ Cardinality(R) \in Nat /\ Cardinality(P) \in Nat
            /\ Cardinality(R2) \in Nat /\ Cardinality(P2) \in Nat
        BY FiniteCounts
      <4>6. P2 \subseteq P
        BY <2>7
      <4> HIDE DEF R, P, R2, P2, x
      <4>7. Cardinality(R2) <= Cardinality(R) + 1
        <5>1. /\ IsFiniteSet(R \cup {new})
              /\ Cardinality(R \cup {new}) <= Cardinality(R) + 1
          <6>1. /\ IsFiniteSet(R \cup {new})
                /\ Cardinality(R \cup {new}) =
                     IF new \in R THEN Cardinality(R) ELSE Cardinality(R) + 1
            BY <4>5, FS_AddElement
          <6> QED
            BY <4>5, <6>1
        <5>2. Cardinality(R2) <= Cardinality(R \cup {new}) /\ Cardinality(R \cup {new}) \in Nat
          BY <4>4, <5>1, FS_Subset, FS_CardinalityType
        <5> QED
          BY <4>5, <5>1, <5>2
      <4>8. Cardinality(P2) <= Cardinality(P) - 1
        <5>1. IsFiniteSet(P \ {x}) /\ Cardinality(P \ {x}) = Cardinality(P) - 1
          BY <4>2, <4>5, FS_RemoveElement
        <5>2. P2 \subseteq P \ {x}
          BY <4>3, <4>6
        <5>3. Cardinality(P2) <= Cardinality(P \ {x})
          BY <5>1, <5>2, FS_Subset
        <5> QED
          BY <5>1, <5>3
      <4>9. Cardinality(R2) + Cardinality(P2) <= Cardinality(R) + Cardinality(P)
        BY <4>5, <4>7, <4>8
      <4> QED
        BY <4>9 DEF R, P, R2, P2
    <3> QED
      BY <3>1, <3>2
  <2>11. Counted(stack', records', origin')
    BY <2>6, <2>10, CountsKept
  <2> QED
    BY <2>7, <2>8, <2>9, <2>11 DEF BudgetedNext
<1> QED
  BY <1>1, <1>9, <1>10, <1>11

\* The processes a handler has to restart are different.
LEMMA AffectedDistinct ==
  ASSUME TypeOK, Sound(records), NEW sup \in Pid, NEW p \in Pid
  PROVE  Distinct(Affected(sup, p))
<1> DEFINE list == records[sup].children
<1>1. list \in Seq(Pid) /\ Distinct(list)
  BY DEF TypeOK, Record, Sound
<1>2. CASE Affected(sup, p) = <<p>>
  BY <1>2 DEF Distinct
<1>3. CASE Affected(sup, p) = list
  BY <1>1, <1>3
<1>4. CASE /\ p \in Members(list)
           /\ Affected(sup, p) = SubSeq(list, IndexOf(list, p), Len(list))
  <2>1. IndexOf(list, p) \in 1 .. Len(list)
    BY <1>1, <1>4, IndexOfMember
  <2> HIDE DEF list
  <2> QED
    BY <1>1, <1>4, <2>1, RestMembers
<1> QED
  BY <1>2, <1>3, <1>4 DEF Affected

\* The children of an ended process lose their parent; nobody's record counts.
LEMMA OrphanedFixed ==
  ASSUME records \in Records, NEW p \in Pid
  PROVE  Fixed(records, Orphaned(p)) /\ Fixed(records, records)
BY OrphanedFields DEF Fixed

\* The failures recorded at sup become the kept ones and those of c's handler.
Charges(sup, c, kept) ==
  /\ ~WindowPasses => kept = records[sup].history
  /\ kept + Attempts(sup, c) <= MaxRestarts[records[sup].name]
  /\ records'[sup].history = kept + Attempts(sup, c)
  /\ \A p \in Pid : p # sup => records'[p].history = records[p].history
  /\ \A p \in Pid : /\ records'[p].state = records[p].state
                    /\ records[p].state # "none" =>
                         records'[p].name = records[p].name
                           /\ records'[p].policy = records[p].policy

\* A handler that decides to restart charges as many restarts as it has pending.
LEMMA HandlerChargesBudget ==
  ASSUME IInv, TypeOK', Indexed, Budgeted, NEW c \in Pid, stack[c] # <<>>,
         At(c, "handle", "children"), NEW sup \in Pid, Live(sup),
         NEW f \in Frame, Goto(c, f), f.op = "handle", f.at = "next", f.aux = sup,
         f.todo = Affected(sup, c),
         NEW kept \in Nat, Charges(sup, c, kept),
         UNCHANGED <<task, origin>>
  PROVE  BudgetedNext
<1> DEFINE n == Attempts(sup, c)
           h == kept + n
<1>1. /\ TypeOK /\ c \in Coroutine /\ records \in Records
      /\ Top(c) \in Frame /\ Top(c) \in Fields
  BY TopFields DEF IInv, TypeOK, Records, Coroutine
<1>2. Len(stack[c]) = 1 /\ FrameAt(stack[c], 1) = Top(c) /\ ~Deciding(Top(c))
  BY <1>1, HandlerAlone DEF At, Deciding
<1>3. Affected(sup, c) \in Seq(Pid) /\ n \in Nat /\ Distinct(Affected(sup, c))
  BY <1>1, AttemptsType, AffectedDistinct DEF Indexed
<1>4. /\ f \in Frame /\ f.op = "handle" /\ f.at = "next" /\ f.aux = sup
      /\ f.todo = Affected(sup, c)
  OBVIOUS
<1>5. Goto(c, f)
  OBVIOUS
<1>6. Went(c, f)
  BY <1>1, <1>4, <1>5, GotoFrames
<1>7. ~Starting(f) /\ Deciding(f)
  BY <1>4 DEF Starting, Deciding
<1>8. ASSUME NEW d \in Coroutine, NEW k \in 1 .. Len(stack'[d])
      PROVE  /\ k \in 1 .. Len(stack[d])
             /\ d = c => k = 1 /\ FrameAt(stack'[d], k) = f
             /\ d # c => FrameAt(stack'[d], k) = FrameAt(stack[d], k)
  <2>1. CASE d = c
    <3>1. Len(stack'[c]) = 1
      BY <1>2, <1>6 DEF Went
    <3>2. k = 1 /\ 1 \in 1 .. 1
      BY <2>1, <3>1
    <3>3. FrameAt(stack'[c], 1) = f
      BY <1>2, <1>6, <3>2 DEF Went
    <3> QED
      BY <1>2, <2>1, <3>2, <3>3
  <2>2. CASE d # c
    <3>1. stack'[d] = stack[d]
      BY <1>6, <2>2 DEF Went, Elsewhere
    <3> QED
      BY <2>2, <3>1
  <2> QED
    BY <2>1, <2>2
<1>9. 1 \in 1 .. Len(stack'[c]) /\ FrameAt(stack'[c], 1) = f
  BY <1>2, <1>6 DEF Went
<1>10. /\ h \in Nat /\ h = kept + n /\ h <= MaxRestarts[records[sup].name]
       /\ ~WindowPasses => kept = records[sup].history
  BY <1>3 DEF Charges
<1>11. /\ records'[sup].history = h
       /\ \A p \in Pid : p # sup => records'[p].history = records[p].history
       /\ \A p \in Pid : /\ records'[p].state = records[p].state
                         /\ records[p].state # "none" =>
                              records'[p].name = records[p].name
                                /\ records'[p].policy = records[p].policy
  BY DEF Charges
<1> HIDE DEF n, h
<1>12. \A x \in Pid : records[x].state # "none" =>
         \A p \in Pid : Allows(records', x, p) <=> Allows(records, x, p)
  BY <1>11 DEF Allows
<1>13. ASSUME NEW d \in Coroutine, NEW k \in 1 .. Len(stack[d])
       PROVE  /\ \A x \in Members(FrameAt(stack[d], k).todo) :
                   x \in Pid /\ records[x].state # "none"
              /\ Starting(FrameAt(stack[d], k)) =>
                   /\ Head(FrameAt(stack[d], k).todo) \in Pid
                   /\ records[Head(FrameAt(stack[d], k).todo)].state # "none"
  <2> DEFINE g == FrameAt(stack[d], k)
  <2>1. g \in Frame /\ g.todo \in Seq(Pid)
    BY <1>1, Depths DEF Fields
  <2>2. \A x \in Members(g.todo) : x \in Pid /\ records[x].state # "none"
    BY <2>1, MembersType DEF Indexed, TodoKnown, Known
  <2>3. Starting(g) => Head(g.todo) \in Members(g.todo)
    BY <2>1, TailMembers DEF Starting, Frame
  <2> QED
    BY <2>2, <2>3
<1>14. HandlerFrames(stack', records')
  <2> SUFFICES ASSUME NEW d \in Coroutine, NEW k \in 1 .. Len(stack'[d])
               PROVE  LET g == FrameAt(stack'[d], k)
                      IN /\ g.op = "handle" => d \in Pid /\ k = 1
                         /\ Deciding(g) => /\ g.aux \in Pid /\ records'[g.aux].state # "none"
                                           /\ Distinct(g.todo)
                         /\ Starting(g) => Allows(records', Head(g.todo), d)
    BY DEF HandlerFrames
  <2>1. CASE d = c
    BY <1>3, <1>4, <1>7, <1>8, <1>11, <2>1 DEF Live
  <2>2. CASE d # c
    <3> DEFINE g == FrameAt(stack'[d], k)
    <3>1. k \in 1 .. Len(stack[d]) /\ g = FrameAt(stack[d], k)
      BY <1>8, <2>2
    <3>2. /\ g.op = "handle" => d \in Pid /\ k = 1
          /\ Deciding(g) => g.aux \in Pid /\ records[g.aux].state # "none" /\ Distinct(g.todo)
          /\ Starting(g) => Allows(records, Head(g.todo), d)
      BY <3>1 DEF Budgeted, HandlerFrames
    <3>3. Starting(g) => Head(g.todo) \in Pid /\ records[Head(g.todo)].state # "none" /\ d \in Pid
      BY <1>13, <3>1, <3>2 DEF Starting
    <3> QED
      BY <1>11, <1>12, <3>2, <3>3
  <2> QED
    BY <2>1, <2>2
<1>15. EndsAreHandled(task', records')
  BY <1>11 DEF Budgeted, EndsAreHandled
<1>16. Justified(origin', records')
  BY <1>11 DEF Budgeted, Justified
<1>17. \A s \in Pid : RestartsOf(origin', s) = RestartsOf(origin, s)
  BY DEF RestartsOf
<1>18. ASSUME NEW s \in Pid
       PROVE  PendingOf(stack', records', s) \subseteq
                PendingOf(stack, records, s) \cup
                  (IF s = sup THEN {c} \X Candidates(sup, c) ELSE {})
  <2> SUFFICES ASSUME NEW d \in Pid, NEW q \in Pid,
                      1 \in 1 .. Len(stack'[d]), Deciding(FrameAt(stack'[d], 1)),
                      FrameAt(stack'[d], 1).aux = s,
                      q \in Members(FrameAt(stack'[d], 1).todo), Allows(records', q, d)
               PROVE  <<d, q>> \in PendingOf(stack, records, s) \cup
                        (IF s = sup THEN {c} \X Candidates(sup, c) ELSE {})
    BY DEF PendingOf
  <2>1. CASE d = c
    <3>1. s = sup /\ q \in Members(Affected(sup, c))
      BY <1>4, <1>9, <2>1
    <3>2. records[q].state # "none"
      <4>1. records[c].state # "none"
        BY <1>1 DEF IInv, HandlersHaveTasks, TasksHaveProcesses
      <4> QED
        BY <1>1, <3>1, <4>1, AffectedKnown DEF Indexed, Known
    <3>3. q \in Candidates(sup, c)
      BY <1>12, <2>1, <3>1, <3>2 DEF Candidates, Allows, PolicyAllows
    <3> QED
      BY <2>1, <3>1, <3>3
  <2>2. CASE d # c
    <3>1. d \in Coroutine
      BY DEF Coroutine
    <3>2. 1 \in 1 .. Len(stack[d]) /\ FrameAt(stack'[d], 1) = FrameAt(stack[d], 1)
      BY <1>8, <2>2, <3>1
    <3>3. records[q].state # "none"
      BY <1>13, <3>1, <3>2
    <3>4. Allows(records, q, d)
      BY <1>12, <3>3
    <3>5. <<d, q>> \in PendingOf(stack, records, s)
      BY <3>2, <3>4 DEF PendingOf
    <3> QED
      BY <3>5
  <2> QED
    BY <2>1, <2>2
<1>19. ASSUME NEW s \in Pid
       PROVE  Cardinality(PendingOf(stack', records', s)) <=
                Cardinality(PendingOf(stack, records, s)) + (IF s = sup THEN n ELSE 0)
  <2> DEFINE P == PendingOf(stack, records, s)
             P2 == PendingOf(stack', records', s)
             C == Candidates(sup, c)
             T == {c} \X C
  <2>1. /\ IsFiniteSet(P) /\ IsFiniteSet(P2) /\ Cardinality(P) \in Nat /\ Cardinality(P2) \in Nat
    BY FiniteCounts
  <2>2. IsFiniteSet(C) /\ Cardinality(C) = n /\ n \in Nat
    <3>1. C \subseteq Pid
      BY <1>3, MembersType DEF Candidates
    <3>2. IsFiniteSet(Pid)
      BY FiniteCounts
    <3> QED
      BY <1>3, <3>1, <3>2, FS_Subset DEF Attempts, n
  <2>3. P2 \subseteq P \cup (IF s = sup THEN T ELSE {})
    BY <1>18
  <2>4. IsFiniteSet(T) /\ Cardinality(T) = n
    <3>1. IsFiniteSet({c}) /\ Cardinality({c}) = 1
      BY FS_Singleton
    <3> HIDE DEF C
    <3>2. IsFiniteSet(T) /\ Cardinality(T) = Cardinality({c}) * Cardinality(C)
      BY <2>2, <3>1, FS_Product
    <3> QED
      BY <2>2, <3>1, <3>2
  <2> HIDE DEF P, P2, T, C
  <2>5. CASE s = sup
    <3>1. /\ IsFiniteSet(P \cup T)
          /\ Cardinality(P \cup T) = Cardinality(P) + Cardinality(T) - Cardinality(P \cap T)
      BY <2>1, <2>4, FS_Union
    <3>2. IsFiniteSet(P \cap T) /\ Cardinality(P \cap T) \in Nat
      BY <2>1, FS_Intersection, FS_CardinalityType
    <3>3. Cardinality(P2) <= Cardinality(P \cup T) /\ Cardinality(P \cup T) \in Nat
      BY <2>3, <2>5, <3>1, FS_Subset, FS_CardinalityType
    <3> QED
      BY <2>1, <2>2, <2>4, <2>5, <3>1, <3>2, <3>3 DEF P, P2
  <2>6. CASE s # sup
    <3>1. P2 \subseteq P
      BY <2>3, <2>6
    <3>2. Cardinality(P2) <= Cardinality(P)
      BY <2>1, <3>1, FS_Subset
    <3> QED
      BY <2>1, <2>6, <3>2 DEF P, P2
  <2> QED
    BY <2>5, <2>6
<1>20. Counted(stack', records', origin')
  <2> SUFFICES ASSUME NEW s \in Pid
        PROVE  /\ records'[s].state = "none" => records'[s].history = 0
               /\ ~WindowPasses =>
                    /\ Cardinality(RestartsOf(origin', s))
                         + Cardinality(PendingOf(stack', records', s))
                         <= records'[s].history
                    /\ records'[s].name # NoName =>
                         records'[s].history <= MaxRestarts[records'[s].name]
    BY DEF Counted
  <2>1. records'[s].state = "none" => records'[s].history = 0
    BY <1>11 DEF Budgeted, Counted, Live
  <2>2. ASSUME ~WindowPasses
        PROVE  Cardinality(RestartsOf(origin', s)) + Cardinality(PendingOf(stack', records', s))
                 <= records'[s].history
    <3>1. Cardinality(RestartsOf(origin, s)) + Cardinality(PendingOf(stack, records, s))
            <= records[s].history
      BY <2>2 DEF Budgeted, Counted
    <3>2. /\ Cardinality(RestartsOf(origin, s)) \in Nat
          /\ Cardinality(PendingOf(stack, records, s)) \in Nat
          /\ Cardinality(PendingOf(stack', records', s)) \in Nat
      BY FiniteCounts
    <3>3. /\ records[s].history \in Nat /\ n \in Nat
          /\ records'[s].history = records[s].history + (IF s = sup THEN n ELSE 0)
      BY <1>1, <1>3, <1>10, <1>11, <2>2 DEF Records, Record, n
    <3>4. /\ Cardinality(RestartsOf(origin', s)) = Cardinality(RestartsOf(origin, s))
          /\ Cardinality(PendingOf(stack', records', s)) <=
               Cardinality(PendingOf(stack, records, s)) + (IF s = sup THEN n ELSE 0)
      BY <1>17, <1>19
    <3> DEFINE R == Cardinality(RestartsOf(origin, s))
               R2 == Cardinality(RestartsOf(origin', s))
               P == Cardinality(PendingOf(stack, records, s))
               P2 == Cardinality(PendingOf(stack', records', s))
               o == records[s].history
               o2 == records'[s].history
    <3>5. /\ R + P <= o /\ R \in Nat /\ P \in Nat /\ P2 \in Nat /\ o \in Nat /\ n \in Nat
          /\ o2 = o + (IF s = sup THEN n ELSE 0)
          /\ R2 = R /\ P2 <= P + (IF s = sup THEN n ELSE 0)
      BY <3>1, <3>2, <3>3, <3>4
    <3> HIDE DEF R, R2, P, P2, o, o2
    <3>6. R2 + P2 <= o2
      <4>1. CASE s = sup
        BY <3>5, <4>1
      <4>2. CASE s # sup
        BY <3>5, <4>2
      <4> QED
        BY <4>1, <4>2
    <3> QED
      BY <3>6 DEF R2, P2, o2
  <2>3. ASSUME ~WindowPasses, records'[s].name # NoName
        PROVE  records'[s].history <= MaxRestarts[records'[s].name]
    <3>1. CASE s = sup
      <4>1. records'[s].name = records[s].name
        BY <1>11, <3>1 DEF Live
      <4> QED
        BY <1>10, <1>11, <3>1, <4>1 DEF n
    <3>2. CASE s # sup /\ records[s].state # "none"
      BY <1>11, <2>3, <3>2 DEF Budgeted, Counted
    <3>3. CASE s # sup /\ records[s].state = "none"
      <4>1. records'[s].history = 0
        BY <1>11, <3>3 DEF Budgeted, Counted
      <4>2. records'[s].name \in Name
        BY <2>3 DEF TypeOK, Record
      <4>3. MaxRestarts[records'[s].name] \in Nat
        BY <4>2, AttributeAssumption
      <4> QED
        BY <4>1, <4>3
    <3> QED
      BY <3>1, <3>2, <3>3
  <2> QED
    BY <2>1, <2>2, <2>3
<1> QED
  BY <1>14, <1>15, <1>16, <1>20 DEF BudgetedNext

\* The end of a child is noted at its supervisor, and restarts are charged.
LEMMA HandlerDecidesBudget ==
  ASSUME IInv, TypeOK', Indexed, Budgeted, NEW c \in Pid, HandlerDecides(c)
  PROVE  BudgetedNext
<1> DEFINE sup == records[c].parent
           r == IF Top(c).flag THEN Orphaned(c) ELSE records
           n == Attempts(sup, c)
           f == [Top(c) EXCEPT !.at = "next", !.aux = sup, !.todo = Affected(sup, c)]
<1>1. /\ c \in Coroutine /\ stack[c] # <<>> /\ At(c, "handle", "children")
      /\ UNCHANGED <<task, origin>>
  BY DEF HandlerDecides, At, Coroutine
<1>2. records \in Records /\ TypeOK
  BY DEF IInv, TypeOK, Records
<1>3. r \in Records
  BY <1>2, OrphanedType
<1>4. /\ Fixed(records, r)
      /\ \A p \in Pid : r[p].state = records[p].state /\ r[p].history = records[p].history
  BY <1>2, OrphanedFixed, OrphanedFields
<1>5. ASSUME Live(sup)
      PROVE  sup \in Pid /\ records[sup].history \in Nat /\ n \in Nat
             /\ MaxRestarts[records[sup].name] \in Nat
  <2>1. sup \in Pid
    BY <1>2, <1>5 DEF Live, Records, Record
  <2>2. records[sup].name \in Name
    BY <1>5, <2>1 DEF Live, Indexed, Sound
  <2> QED
    BY <1>2, <2>1, <2>2, AttemptsType, AttributeAssumption DEF Records, Record
<1>6. \/ records' = r /\ Return(c)
      \/ records' = Unlinked(r, c) /\ Return(c)
      \/ /\ Live(sup)
         /\ \E kept \in IF WindowPasses THEN 0 .. records[sup].history
                                        ELSE {records[sup].history} :
              IF kept + n > MaxRestarts[records[sup].name]
              THEN /\ records' = [Unlinked(r, c) EXCEPT ![sup].history = kept,
                                                        ![sup].escalated = TRUE]
                   /\ Return(c)
              ELSE /\ records' = [r EXCEPT ![sup].history = kept + n]
                   /\ Goto(c, f)
  BY DEF HandlerDecides
<1>7. ASSUME Return(c), Fixed(records, records')
      PROVE  BudgetedNext
  <2>1. HandlersNarrow
    BY <1>1, <1>2, <1>7, ReturnNarrow
  <2>2. EndsAreHandled(task', records')
    BY <1>1, <1>7, HandledKept
  <2> QED
    BY <1>1, <1>7, <2>1, <2>2, BudgetKept
<1>8. /\ Unlinked(r, c) \in Records /\ Fixed(records, Unlinked(r, c))
      /\ \A p \in Pid : /\ Unlinked(r, c)[p].state = records[p].state
                        /\ Unlinked(r, c)[p].history = records[p].history
  <2> HIDE DEF r
  <2>1. Unlinked(r, c) \in Records
    BY <1>3, UnlinkedType
  <2>2. \A p \in Pid : /\ Unlinked(r, c)[p].state = r[p].state
                       /\ Unlinked(r, c)[p].name = r[p].name
                       /\ Unlinked(r, c)[p].policy = r[p].policy
                       /\ Unlinked(r, c)[p].history = r[p].history
    BY <1>3, UnlinkedFields
  <2> HIDE DEF sup
  <2> DEFINE u == Unlinked(r, c)
  <2> HIDE DEF u
  <2>3. \A p \in Pid : /\ u[p].state = r[p].state /\ u[p].name = r[p].name
                       /\ u[p].policy = r[p].policy /\ u[p].history = r[p].history
    BY <2>2 DEF u
  <2>4. Fixed(records, u)
    BY <1>4, <2>3 DEF Fixed
  <2> QED
    BY <1>4, <2>1, <2>3, <2>4 DEF u
<1> HIDE DEF r
<1>9. CASE records' = r /\ Return(c)
  BY <1>4, <1>7, <1>9
<1>10. CASE records' = Unlinked(r, c) /\ Return(c)
  BY <1>7, <1>8, <1>10
<1>11. CASE /\ Live(sup)
            /\ \E kept \in IF WindowPasses THEN 0 .. records[sup].history
                                           ELSE {records[sup].history} :
                 IF kept + n > MaxRestarts[records[sup].name]
                 THEN /\ records' = [Unlinked(r, c) EXCEPT ![sup].history = kept,
                                                           ![sup].escalated = TRUE]
                      /\ Return(c)
                 ELSE /\ records' = [r EXCEPT ![sup].history = kept + n]
                      /\ Goto(c, f)
  <2> HIDE DEF f, n, sup
  <2>1. PICK kept \in IF WindowPasses THEN 0 .. records[sup].history
                                      ELSE {records[sup].history} :
          IF kept + n > MaxRestarts[records[sup].name]
          THEN /\ records' = [Unlinked(r, c) EXCEPT ![sup].history = kept,
                                                    ![sup].escalated = TRUE]
               /\ Return(c)
          ELSE /\ records' = [r EXCEPT ![sup].history = kept + n]
               /\ Goto(c, f)
    BY <1>11
  <2>2. /\ kept \in Nat
        /\ ~WindowPasses => kept = records[sup].history
        /\ kept + n > MaxRestarts[records[sup].name]
             \/ kept + n <= MaxRestarts[records[sup].name]
    BY <1>5, <1>11
  <2>3. \/ /\ records' = [Unlinked(r, c) EXCEPT ![sup].history = kept,
                                                ![sup].escalated = TRUE]
           /\ Return(c)
        \/ /\ kept + n <= MaxRestarts[records[sup].name]
           /\ records' = [r EXCEPT ![sup].history = kept + n]
           /\ Goto(c, f)
    BY <2>1, <2>2
  <2>4. sup \in Pid /\ Live(sup)
    BY <1>5, <1>11
  <2>5. CASE /\ records' = [Unlinked(r, c) EXCEPT ![sup].history = kept,
                                                  ![sup].escalated = TRUE]
             /\ Return(c)
    <3> DEFINE u == Unlinked(r, c)
               t == [u EXCEPT ![sup].history = kept, ![sup].escalated = TRUE]
    <3>1. /\ u \in Records /\ Fixed(records, u)
          /\ \A p \in Pid : u[p].state = records[p].state /\ u[p].history = records[p].history
      BY <1>8
    <3> HIDE DEF u
    <3>2. /\ \A p \in Pid : p # sup => t[p] = u[p]
          /\ t[sup].state = u[sup].state /\ t[sup].name = u[sup].name
          /\ t[sup].policy = u[sup].policy /\ t[sup].history = kept
      BY <2>4, <3>1 DEF Records, Record
    <3>3. records[sup].state # "none"
      BY <2>4 DEF Live
    <3>4. records' = t
      BY <2>5 DEF u
    <3> HIDE DEF t
    <3>5. Fixed(records, records')
      BY <2>2, <2>4, <3>1, <3>2, <3>3, <3>4 DEF Fixed
    <3> QED
      BY <1>7, <2>5, <3>5
  <2>6. CASE /\ kept + n <= MaxRestarts[records[sup].name]
             /\ records' = [r EXCEPT ![sup].history = kept + n]
             /\ Goto(c, f)
    <3> DEFINE h == kept + n
               t == [r EXCEPT ![sup].history = h]
    <3>1. Goto(c, f) /\ h <= MaxRestarts[records[sup].name] /\ records' = t
      BY <2>6
    <3>2. Top(c) \in Frame /\ Top(c) \in Fields
      BY <1>1, <1>2, TopFields
    <3>3. Affected(sup, c) \in Seq(Pid)
      BY <1>2, <2>4, AttemptsType
    <3>4. /\ f \in Frame /\ f.op = "handle" /\ f.at = "next" /\ f.aux = sup
          /\ f.todo = Affected(sup, c)
      BY <1>1, <2>4, <3>2, <3>3 DEF Frame, Fields, At, f
    <3> HIDE DEF h
    <3>5. /\ t[sup].history = h
          /\ \A p \in Pid : p # sup => t[p].history = r[p].history
          /\ \A p \in Pid : /\ t[p].state = r[p].state
                            /\ t[p].name = r[p].name /\ t[p].policy = r[p].policy
      BY <1>3, <2>4 DEF Records, Record
    <3> HIDE DEF t
    <3>6. /\ records'[sup].history = h
          /\ \A p \in Pid : p # sup => records'[p].history = records[p].history
          /\ \A p \in Pid : /\ records'[p].state = records[p].state
                            /\ records[p].state # "none" =>
                                 records'[p].name = records[p].name
                                   /\ records'[p].policy = records[p].policy
      BY <1>4, <3>1, <3>5 DEF Fixed
    <3>7. n = Attempts(sup, c) /\ h = kept + n
      BY DEF h, n
    <3>8. Charges(sup, c, kept)
      BY <2>2, <3>1, <3>6, <3>7 DEF Charges
    <3>9. kept \in Nat /\ Live(sup) /\ sup \in Pid /\ Goto(c, f)
      BY <2>2, <2>4, <3>1
    <3> QED
      BY <1>1, <3>4, <3>8, <3>9, HandlerChargesBudget
  <2> QED
    BY <2>3, <2>5, <2>6
<1> QED
  BY <1>6, <1>9, <1>10, <1>11

LEMMA InitBudgeted == Init => Budgeted
<1> SUFFICES ASSUME Init PROVE Budgeted
  OBVIOUS
<1>1. \A c \in Coroutine : Len(stack[c]) = 0
  BY EmptySeq DEF Init
<1>2. \A p \in Pid : /\ records[p].history = 0
                     /\ origin[p].by = "caller" /\ task[p] # "handler"
  <2>1. \A p \in Pid : records[p] =
        IF Booted(p)
        THEN [NewRecord(Boot[p].name,
                        IF Boot[p].parent = None THEN "permanent"
                                                 ELSE ChildPolicy[Boot[p].name],
                        Boot[p].parent) EXCEPT
                !.state = "running", !.children = Boot[p].children]
        ELSE NoRecord
    BY DEF Init
  <2>2. \A p \in Pid : records[p].history = 0
    BY <2>1 DEF NewRecord, NoRecord
  <2> QED
    BY <2>2 DEF Init
<1>3. HandlerFrames(stack, records)
  BY <1>1 DEF HandlerFrames
<1>4. EndsAreHandled(task, records) /\ Justified(origin, records)
  BY <1>2 DEF EndsAreHandled, Justified
<1>5. Counted(stack, records, origin)
  <2> SUFFICES ASSUME NEW s \in Pid
        PROVE  /\ records[s].state = "none" => records[s].history = 0
               /\ ~WindowPasses =>
                    /\ Cardinality(RestartsOf(origin, s))
                         + Cardinality(PendingOf(stack, records, s)) <= records[s].history
                    /\ records[s].name # NoName =>
                         records[s].history <= MaxRestarts[records[s].name]
    BY DEF Counted
  <2>1. RestartsOf(origin, s) = {}
    BY <1>2 DEF RestartsOf
  <2>2. PendingOf(stack, records, s) = {}
    <3>1. \A p \in Pid : p \in Coroutine
      BY DEF Coroutine
    <3> QED
      BY <1>1, <3>1 DEF PendingOf
  <2>3. Cardinality(RestartsOf(origin, s)) = 0 /\ Cardinality(PendingOf(stack, records, s)) = 0
    BY <2>1, <2>2, FS_EmptySet
  <2>4. records[s].name # NoName => MaxRestarts[records[s].name] \in Nat
    <3>1. TypeOK
      BY InitIInv DEF IInv
    <3>2. records[s].name # NoName => records[s].name \in Name
      BY <3>1 DEF TypeOK, Record
    <3> QED
      BY <3>2, AttributeAssumption
  <2> QED
    BY <1>2, <2>3, <2>4
<1> QED
  BY <1>3, <1>4, <1>5 DEF Budgeted

LEMMA StepBudgeted == IInv /\ IInv' /\ Indexed /\ Budgeted /\ [Next]_vars => Budgeted'
<1> SUFFICES ASSUME IInv, TypeOK', Indexed, Budgeted, [Next]_vars PROVE BudgetedNext
  BY BudgetedPrimed DEF IInv
<1>1. ASSUME UNCHANGED vars PROVE BudgetedNext
  BY <1>1, StackNarrow, UnchangedBudget DEF vars, registryVars
<1>2. ASSUME ClientStep PROVE BudgetedNext
  BY <1>2, RunPathBudget, SpawnChildBudget, MonitorChildBudget, KillBudget
     DEF ClientStep
<1>3. ASSUME NEW p \in Pid, BodyReturns(p) \/ BodyRaises(p) PROVE BudgetedNext
  BY <1>3, BodyEndsBudget DEF BodyReturns, BodyRaises
<1>4. ASSUME AgentStep PROVE BudgetedNext
  BY <1>3, <1>4 DEF AgentStep
<1>5. ASSUME TaskStep PROVE BudgetedNext
  <2>1. \A p \in Pid : p \in Coroutine
    BY DEF Coroutine
  <2> QED
    BY <1>3, <1>5, <2>1, StartTaskBudget, IdleBudget DEF TaskStep
<1>6. ASSUME CallStep PROVE BudgetedNext
  BY <1>6, IdleBudget, KillRefusedBudget, KillEntersBudget, KillsChildBudget,
     KillCancelsBudget, KillFinishesBudget, KillUnlinksBudget DEF CallStep
<1>7. ASSUME HandlerStep PROVE BudgetedNext
  BY <1>7, HandlerDecidesBudget, HandlerNextBudget, HandlerWakesBudget,
     HandlerChecksBudget, HandlerRestartsBudget DEF HandlerStep
<1> QED
  BY <1>1, <1>2, <1>4, <1>5, <1>6, <1>7 DEF Next

\* Restarts that handlers have made and those they have charged are within the
\* budget, so the restarts made are; and no temporary process is restarted.
LEMMA BudgetIsKept == TypeOK /\ Budgeted => RestartsWithinBudget
<1> SUFFICES ASSUME TypeOK, Budgeted, NEW s \in Pid
      PROVE  /\ \A q \in RestartsOf(origin, s) :
                  records[origin[q].replaces].policy # "temporary"
             /\ ~WindowPasses =>
                  /\ Cardinality(RestartsOf(origin, s)) <= records[s].history
                  /\ records[s].name # NoName =>
                       records[s].history <= MaxRestarts[records[s].name]
  BY DEF RestartsWithinBudget, RestartsOf
<1>1. \A q \in RestartsOf(origin, s) : records[origin[q].replaces].policy # "temporary"
  BY DEF Budgeted, Justified, RestartsOf
<1>2. ASSUME ~WindowPasses
      PROVE  /\ Cardinality(RestartsOf(origin, s)) + Cardinality(PendingOf(stack, records, s))
                  <= records[s].history
             /\ records[s].name # NoName =>
                  records[s].history <= MaxRestarts[records[s].name]
  BY <1>2 DEF Budgeted, Counted
<1>3. /\ Cardinality(RestartsOf(origin, s)) \in Nat
      /\ Cardinality(PendingOf(stack, records, s)) \in Nat
  BY FiniteCounts
<1>4. records[s].history \in Nat
  BY DEF TypeOK, Record
<1>5. ~WindowPasses => Cardinality(RestartsOf(origin, s)) <= records[s].history
  BY <1>2, <1>3, <1>4
<1> QED
  BY <1>1, <1>2, <1>5

\* While the window lasts a supervisor's handlers have made no more restarts than
\* it has recorded, nor recorded more than max_restarts, however the handlers of
\* its children interleave with each other and with kills.
THEOREM BudgetTheorem == Spec => []RestartsWithinBudget
<1>1. Init => IInv /\ Indexed /\ Budgeted
  BY InitIInv, InitIndexed, InitBudgeted
<1>2. IInv /\ Indexed /\ Budgeted /\ [Next]_vars => (IInv /\ Indexed /\ Budgeted)'
  BY StepKeeps, StepIndexed, StepBudgeted DEF Keeps
<1>3. IInv /\ Indexed /\ Budgeted => RestartsWithinBudget
  BY BudgetIsKept DEF IInv
<1> QED
  BY <1>1, <1>2, <1>3, PTL DEF Spec

-----------------------------------------------------------------------------
(* The tree: the invariant *)

\* A process that takes no more children, and one that still may.
Down(r, p) == r[p].state \in {"stopping"} \cup Terminal
Up(r, p) == r[p].state \in {"starting", "running"}
IsChild(r, q, p) == Alive(r, q) /\ r[q].parent = p

\* A call that is killing children, or has done so and waits for the parent.
Clearing(f) == f.at \in {"children", "cancel", "await"}

\* The processes the call at depth k + 1 was made to kill.
Kills(st, c, k) ==
  {q \in Pid : /\ k + 1 \in 1 .. Len(st[c])
               /\ FrameAt(st[c], k + 1).op = "kill"
               /\ FrameAt(st[c], k + 1).pid = q}

\* What is known of a call that is killing the processes in K: the children of
\* a process that goes down are yet to be killed, or being killed; a handler
\* works for a supervisor that has run, and starts again what has ended; what is
\* unlinked has ended.
Fit(f, K, r, tk) ==
  /\ Clearing(f) =>
       /\ Down(r, f.pid)
       /\ \A q \in Pid : IsChild(r, q, f.pid) =>
            f.at = "children" /\ q \in Members(f.todo) \cup K
  /\ Deciding(f) => f.aux \in Pid /\ tk[f.aux] # "created" /\ r[f.aux].state # "none"
  /\ f.op = "handle" /\ f.at = "restart" =>
       ~Alive(r, Head(f.todo)) \/ Head(f.todo) \in K
  /\ f.op = "kill" /\ f.at = "tail" => r[f.pid].state \in Terminal

Fits(st, r, tk) ==
  \A c \in Coroutine : \A k \in 1 .. Len(st[c]) :
    Fit(FrameAt(st[c], k), Kills(st, c, k), r, tk)

\* TreeIsConsistent, of any records.
Tree(r) ==
  \A p, q \in Pid : Alive(r, q) =>
    (q \in Members(r[p].children) <=> r[q].parent = p)

\* A process that has not run has no children, and parents were started.
Grown(r, tk) ==
  \A p \in Pid :
    /\ tk[p] = "created" =>
         /\ Members(r[p].children) = {} /\ r[p].state # "running"
         /\ \A q \in Pid : r[q].parent # p
    /\ \A q \in Pid : r[q].parent = p => r[p].state # "none"

\* The coroutine that holds the loop is about to cancel the task of p.
AboutToCancel(st, lp, p) ==
  \E c \in Coroutine :
    /\ lp = c /\ Len(st[c]) # 0
    /\ LET f == FrameAt(st[c], Len(st[c]))
       IN /\ f.op = "kill" /\ f.at = "children" /\ f.todo = <<>>
          /\ f.pid = p /\ f.aux = p

\* A process that is killed before its first step never takes it.
Sentenced(st, r, tk, can, lp) ==
  \A p \in Pid : tk[p] = "created" /\ Down(r, p) =>
    can[p] \/ AboutToCancel(st, lp, p)

\* NoChildSurvives, by depth.
Clears(st, p) ==
  \E c \in Coroutine : \E k \in 1 .. Len(st[c]) :
    FrameAt(st[c], k).pid = p /\ FrameAt(st[c], k).at = "children"
Survived(st, r) ==
  \A p, q \in Pid : IsChild(r, q, p) => Up(r, p) \/ Clears(st, p)

\* What makes TreeIsKept inductive.
Treed ==
  /\ Fits(stack, records, task)
  /\ Tree(records)
  /\ Grown(records, task)
  /\ Sentenced(stack, records, task, cancelled, loop)
  /\ Survived(stack, records)

TreedNext ==
  /\ Fits(stack', records', task')
  /\ Tree(records')
  /\ Grown(records', task')
  /\ Sentenced(stack', records', task', cancelled', loop')
  /\ Survived(stack', records')

LEMMA TreedPrimed == TreedNext => Treed'
BY DEF Treed, TreedNext, Fits, Fit, Tree, Grown, Sentenced, Survived, Clears,
       AboutToCancel, Kills, Clearing, Deciding, IsChild, Up, Down, Alive, Terminal,
       FrameAt, Members

-----------------------------------------------------------------------------
(* The tree: what the records may do *)

\* From r to t no process that goes down comes up again or gains a child, and
\* what has ended stays so.
Settles(r, t) ==
  \A p \in Pid :
    /\ Down(r, p) => Down(t, p)
    /\ r[p].state \in Terminal => t[p].state \in Terminal
    /\ r[p].state # "none" => t[p].state # "none"
    /\ Down(r, p) => \A q \in Pid : IsChild(t, q, p) => IsChild(r, q, p)

\* From r to t nobody begins and nobody gains a parent or a child.
Prunes(r, t) ==
  \A p \in Pid :
    /\ Down(r, p) => Down(t, p)
    /\ r[p].state \in Terminal => t[p].state \in Terminal
    /\ r[p].state # "none" => t[p].state # "none"
    /\ Alive(t, p) => Alive(r, p)
    /\ t[p].parent \in {r[p].parent, None}
    /\ Members(t[p].children) \subseteq Members(r[p].children)

LEMMA PidsAreSome == \A p \in Pid : p # None
BY BoundAssumption DEF Pid, None

LEMMA PrunesSettles ==
  ASSUME NEW r, NEW t, Prunes(r, t) PROVE Settles(r, t)
BY PidsAreSome DEF Prunes, Settles, IsChild

LEMMA SettlesTrans ==
  ASSUME NEW r, NEW t, NEW u, Settles(r, t), Settles(t, u) PROVE Settles(r, u)
BY DEF Settles

LEMMA PrunesTrans ==
  ASSUME NEW r, NEW t, NEW u, Prunes(r, t), Prunes(t, u) PROVE Prunes(r, u)
BY DEF Prunes

LEMMA PrunesItself == ASSUME NEW r PROVE Prunes(r, r)
BY DEF Prunes

\* A tree from which nobody takes anything stays one.
LEMMA SameTree ==
  ASSUME NEW r, NEW t, Tree(r),
         \A p \in Pid : /\ Alive(t, p) => Alive(r, p)
                        /\ t[p].parent = r[p].parent /\ t[p].children = r[p].children
  PROVE  Tree(t)
BY DEF Tree

\* A process that has ended leaves the tree.
LEMMA UnlinkedTree ==
  ASSUME NEW r \in Records, NEW p \in Pid, ~Alive(r, p), Tree(r)
  PROVE  Prunes(r, Unlinked(r, p)) /\ Tree(Unlinked(r, p))
<1> DEFINE t == Unlinked(r, p)
<1>1. \A q \in Pid : /\ t[q].state = r[q].state
                     /\ q # p => t[q].parent = r[q].parent
                     /\ q = p => t[q].parent = None
  BY UnlinkedFields
<1>2. \A q \in Pid : /\ Members(t[q].children) \subseteq Members(r[q].children)
                     /\ \A y \in Members(r[q].children) : y # p => y \in Members(t[q].children)
  <2> SUFFICES ASSUME NEW q \in Pid
               PROVE  /\ Members(t[q].children) \subseteq Members(r[q].children)
                      /\ \A y \in Members(r[q].children) : y # p => y \in Members(t[q].children)
    OBVIOUS
  <2>1. r[q].children \in Seq(Pid)
    BY DEF Records, Record
  <2>2. t[q].children = r[q].children \/ t[q].children = Without(r[q].children, p)
    BY UnlinkedFields
  <2> HIDE DEF t
  <2> QED
    BY <2>1, <2>2, WithoutMembers
<1> HIDE DEF t
<1>3. \A q \in Pid : Alive(t, q) <=> Alive(r, q)
  BY <1>1 DEF Alive
<1>4. Prunes(r, t)
  BY <1>1, <1>2, <1>3 DEF Prunes, Down
<1>5. Tree(t)
  BY <1>1, <1>2, <1>3 DEF Tree
<1> QED
  BY <1>4, <1>5 DEF t

\* The children a process leaves behind lose their parent.
LEMMA OrphanedTree ==
  ASSUME records \in Records, NEW p \in Pid, ~Alive(records, p), Tree(records)
  PROVE  Prunes(records, Orphaned(p)) /\ Tree(Orphaned(p))
<1> DEFINE t == Orphaned(p)
<1>1. \A q \in Pid :
        /\ t[q].state = records[q].state
        /\ t[q].children = IF q = p THEN <<>> ELSE records[q].children
        /\ t[q].parent = IF q # p /\ q \in Members(records[p].children)
                         THEN None ELSE records[q].parent
  BY OrphanedFields
<1> HIDE DEF t
<1>2. \A q \in Pid : Members(t[q].children) =
                       IF q = p THEN {} ELSE Members(records[q].children)
  BY <1>1, EmptyListMembers
<1>3. \A q \in Pid : Alive(t, q) <=> Alive(records, q)
  BY <1>1 DEF Alive
<1>4. Prunes(records, t)
  BY <1>1, <1>2, <1>3 DEF Prunes, Down
<1>5. ASSUME NEW x \in Pid, NEW q \in Pid, Alive(t, q)
      PROVE  q \in Members(t[x].children) <=> t[q].parent = x
  <2>1. /\ Alive(records, q) /\ q # p
        /\ q \in Members(records[x].children) <=> records[q].parent = x
        /\ q \in Members(records[p].children) <=> records[q].parent = p
    BY <1>3, <1>5 DEF Tree
  <2>2. t[q].parent = IF records[q].parent = p THEN None ELSE records[q].parent
    BY <1>1, <2>1
  <2> QED
    BY <1>2, <2>1, <2>2, PidsAreSome
<1>6. Tree(t)
  BY <1>5 DEF Tree
<1> QED
  BY <1>4, <1>6 DEF t

\* From r to t the tree stays as it is.
SameShape(r, t) ==
  \A p \in Pid : /\ t[p].state = r[p].state
                 /\ t[p].parent = r[p].parent /\ t[p].children = r[p].children

\* What is noted at a supervisor is no matter of the tree.
LEMMA NotedShape ==
  ASSUME NEW r \in Records, NEW s, NEW h
  PROVE  /\ SameShape(r, r)
         /\ SameShape(r, [r EXCEPT ![s].history = h])
         /\ SameShape(r, [r EXCEPT ![s].escalated = TRUE])
         /\ SameShape(r, [r EXCEPT ![s].history = h, ![s].escalated = TRUE])
BY DEF SameShape, Records, Record

LEMMA ShapeKeepsTree ==
  ASSUME NEW r, NEW t, SameShape(r, t), Tree(r) PROVE Prunes(r, t) /\ Tree(t)
<1>1. \A p \in Pid : /\ t[p].state = r[p].state
                     /\ t[p].parent = r[p].parent /\ t[p].children = r[p].children
  BY DEF SameShape
<1>2. \A p \in Pid : Alive(t, p) <=> Alive(r, p)
  BY <1>1 DEF Alive
<1> QED
  BY <1>1, <1>2, SameTree DEF Prunes, Down

\* A process added under a supervisor that takes children joins the tree; what
\* it replaces has ended.
LEMMA AddedTree ==
  ASSUME NEW r \in Records, NEW t, NEW q, NEW n, NEW pol, NEW par \in Pid \cup {None},
         NEW old, Added(r, t, q, n, pol, par, old), Sound(r), Tree(r),
         par # None => Up(r, par), old # None => ~Alive(r, old),
         \A x \in Pid : r[x].parent # q
  PROVE  Settles(r, t) /\ Tree(t)
<1>1. /\ q \in Pid /\ r[q].state = "none" /\ t[q].state = "starting"
      /\ t[q].parent = par /\ t[q].children = <<>>
      /\ \A p \in Pid : p # q =>
           /\ t[p].state = r[p].state /\ t[p].parent = r[p].parent
           /\ t[p].children = IF p = par THEN Replaced(r[p].children, old, q)
                                         ELSE r[p].children
  BY DEF Added
<1>2. /\ Alive(t, q) /\ ~Alive(r, q) /\ q # par
      /\ \A p \in Pid : p # q => (Alive(t, p) <=> Alive(r, p))
  BY <1>1, PidsAreSome DEF Alive, Up
<1>3. ASSUME NEW p \in Pid, p # q
      PROVE  /\ q \notin Members(r[p].children)
             /\ q \in Members(t[p].children) <=> p = par
             /\ \A x \in Pid : x # q /\ Alive(r, x) =>
                  (x \in Members(t[p].children) <=> x \in Members(r[p].children))
  <2>1. r[p].children \in Seq(Pid)
    BY DEF Records, Record
  <2>2. q \notin Members(r[p].children)
    BY <1>1 DEF Sound, Known
  <2>3. CASE p = par
    <3> DEFINE list == Replaced(r[p].children, old, q)
    <3>1. t[p].children = list
      BY <1>1, <1>3, <2>3
    <3>2. /\ Members(list) \subseteq Members(r[p].children) \cup {q}
          /\ q \in Members(list)
          /\ \A y \in Members(r[p].children) : y # old => y \in Members(list)
      BY <1>1, <2>1, ReplacedMembers
    <3> HIDE DEF list
    <3>3. \A x \in Pid : Alive(r, x) => x # old
      BY PidsAreSome
    <3> QED
      BY <2>2, <2>3, <3>1, <3>2, <3>3
  <2>4. CASE p # par
    BY <1>1, <1>3, <2>2, <2>4
  <2> QED
    BY <2>3, <2>4
<1>4. Members(t[q].children) = {}
  BY <1>1, EmptyListMembers
<1>5. ASSUME NEW p \in Pid, NEW x \in Pid, Alive(t, x)
      PROVE  x \in Members(t[p].children) <=> t[x].parent = p
  <2>1. CASE p = q
    BY <1>1, <1>2, <1>4, <2>1
  <2>2. CASE p # q /\ x = q
    BY <1>1, <1>3, <2>2
  <2>3. CASE p # q /\ x # q
    <3>1. Alive(r, x) /\ t[x].parent = r[x].parent
      BY <1>1, <1>2, <1>5, <2>3
    <3> QED
      BY <1>3, <2>3, <3>1 DEF Tree
  <2> QED
    BY <2>1, <2>2, <2>3
<1>6. Tree(t)
  BY <1>5 DEF Tree
<1>7. Settles(r, t)
  <2> SUFFICES ASSUME NEW p \in Pid
               PROVE  /\ Down(r, p) => Down(t, p)
                      /\ r[p].state \in Terminal => t[p].state \in Terminal
                      /\ r[p].state # "none" => t[p].state # "none"
                      /\ Down(r, p) => \A x \in Pid : IsChild(t, x, p) => IsChild(r, x, p)
    BY DEF Settles
  <2>1. CASE p = q
    BY <1>1, <2>1 DEF Down, Terminal
  <2>2. CASE p # q
    <3>1. t[p].state = r[p].state
      BY <1>1, <2>2
    <3>2. Down(r, p) => p # par
      BY PidsAreSome DEF Down, Up, Terminal
    <3> QED
      BY <1>1, <1>2, <3>1, <3>2 DEF Down, IsChild
  <2> QED
    BY <2>1, <2>2
<1> QED
  BY <1>6, <1>7

\* A process that is killed when it has no children left.
LEMMA KilledTree ==
  ASSUME NEW r, NEW t, NEW p \in Pid, Tree(r), Alive(r, p) \/ Down(r, p),
         \A q \in Pid : ~IsChild(r, q, p),
         t[p].state = "killed", t[p].parent = r[p].parent, Members(t[p].children) = {},
         \A q \in Pid : q # p => /\ t[q].state = r[q].state /\ t[q].parent = r[q].parent
                                 /\ t[q].children = r[q].children
  PROVE  Prunes(r, t) /\ Tree(t)
<1>1. ~Alive(t, p) /\ \A q \in Pid : q # p => (Alive(t, q) <=> Alive(r, q))
  BY DEF Alive
<1>2. Prunes(r, t)
  <2> SUFFICES ASSUME NEW q \in Pid
               PROVE  /\ Down(r, q) => Down(t, q)
                      /\ r[q].state \in Terminal => t[q].state \in Terminal
                      /\ r[q].state # "none" => t[q].state # "none"
                      /\ Alive(t, q) => Alive(r, q)
                      /\ t[q].parent \in {r[q].parent, None}
                      /\ Members(t[q].children) \subseteq Members(r[q].children)
    BY DEF Prunes
  <2>1. CASE q = p
    BY <1>1, <2>1 DEF Down, Terminal
  <2>2. CASE q # p
    BY <1>1, <2>2 DEF Down
  <2> QED
    BY <2>1, <2>2
<1>3. ASSUME NEW x \in Pid, NEW q \in Pid, Alive(t, q)
      PROVE  q \in Members(t[x].children) <=> t[q].parent = x
  <2>1. q # p /\ Alive(r, q) /\ t[q].parent = r[q].parent /\ r[q].parent # p
    BY <1>1, <1>3 DEF IsChild
  <2>2. CASE x = p
    BY <2>1, <2>2
  <2>3. CASE x # p
    BY <2>1, <2>3 DEF Tree
  <2> QED
    BY <2>2, <2>3
<1>4. Tree(t)
  BY <1>3 DEF Tree
<1> QED
  BY <1>2, <1>4

\* Tasks only get older: one that is created belongs to a process that was, or
\* that begins.
LEMMA PrunedGrown ==
  ASSUME NEW r, NEW t, NEW tk, NEW tk2, Prunes(r, t), Grown(r, tk),
         \A p \in Pid : tk2[p] = "created" =>
           tk[p] = "created" /\ (t[p].state = "running" => r[p].state = "running")
  PROVE  Grown(t, tk2)
BY PidsAreSome DEF Prunes, Grown

LEMMA AddedGrown ==
  ASSUME NEW r, NEW t, NEW q, NEW n, NEW pol, NEW par \in Pid \cup {None},
         NEW old, Added(r, t, q, n, pol, par, old), NEW tk, NEW tk2, Grown(r, tk),
         par # None => Up(r, par) /\ tk[par] # "created",
         \A p \in Pid : p # q => tk2[p] = tk[p]
  PROVE  Grown(t, tk2)
<1>1. /\ q \in Pid /\ r[q].state = "none" /\ t[q].state = "starting"
      /\ t[q].parent = par /\ Members(t[q].children) = {}
      /\ \A p \in Pid : p # q => t[p].state = r[p].state /\ t[p].parent = r[p].parent
      /\ \A p \in Pid : p # q /\ p # par => t[p].children = r[p].children
  BY EmptyListMembers DEF Added
<1>2. /\ par # q /\ \A p \in Pid : p = par => Up(r, p) /\ tk[p] # "created"
      /\ \A x \in Pid : r[x].parent # q
  BY <1>1, PidsAreSome DEF Up, Grown
<1> SUFFICES ASSUME NEW p \in Pid
             PROVE  /\ tk2[p] = "created" =>
                         /\ Members(t[p].children) = {} /\ t[p].state # "running"
                         /\ \A x \in Pid : t[x].parent # p
                    /\ \A x \in Pid : t[x].parent = p => t[p].state # "none"
  BY DEF Grown
<1>3. CASE p = q
  BY <1>1, <1>2, <1>3
<1>4. CASE p # q /\ p = par
  BY <1>1, <1>2, <1>4 DEF Up
<1>5. CASE p # q /\ p # par
  BY <1>1, <1>5 DEF Grown
<1> QED
  BY <1>3, <1>4, <1>5

-----------------------------------------------------------------------------
(* The tree: what the stacks may do *)

\* A call that stays as it is, while those it was made to kill are being killed
\* or have ended.
LEMMA FitKept ==
  ASSUME NEW r, NEW t, NEW f \in Frame, NEW K, NEW L, NEW tk, NEW tk2,
         Settles(r, t), Fit(f, K, r, tk), Known(r, f.todo),
         \A q \in K : q \in L \/ ~Alive(t, q),
         \A p \in Pid : tk2[p] = "created" => tk[p] = "created" \/ r[p].state = "none",
         r \in Records
  PROVE  Fit(f, L, t, tk2)
<1>1. f \in Fields /\ f.pid \in Pid /\ f.todo \in Seq(Pid)
  BY DEF Frame, Fields
<1>2. Clearing(f) => /\ Down(t, f.pid)
                     /\ \A q \in Pid : IsChild(t, q, f.pid) =>
                          f.at = "children" /\ q \in Members(f.todo) \cup L
  BY <1>1 DEF Fit, Settles, IsChild
<1>3. Deciding(f) => f.aux \in Pid /\ tk2[f.aux] # "created" /\ t[f.aux].state # "none"
  BY DEF Fit, Settles
<1>4. ASSUME f.op = "handle", f.at = "restart", Alive(t, Head(f.todo))
      PROVE  Head(f.todo) \in L
  <2>1. f.todo # <<>>
    BY <1>4 DEF Frame
  <2>2. Head(f.todo) \in Pid /\ r[Head(f.todo)].state # "none"
    BY <1>1, <2>1, TailMembers, MembersType DEF Known
  <2>3. Alive(r, Head(f.todo))
    BY <1>4, <2>2 DEF Settles, Alive, Terminal, Records, Record, States
  <2> QED
    BY <1>4, <2>3 DEF Fit
<1>5. f.op = "kill" /\ f.at = "tail" => t[f.pid].state \in Terminal
  BY <1>1 DEF Fit, Settles
<1> QED
  BY <1>2, <1>3, <1>4, <1>5 DEF Fit

\* Only the innermost call of c changes, or what it calls.
Moves(c) ==
  /\ Elsewhere(c)
  /\ \A k \in 1 .. Len(stack[c]) - 1 :
       k \in 1 .. Len(stack'[c]) /\ FrameAt(stack'[c], k) = FrameAt(stack[c], k)

\* Whoever is being killed by the innermost call of c still is, or has ended.
KillGoesOn(c) ==
  stack[c] # <<>> /\ Top(c).op = "kill" /\ Alive(records', Top(c).pid) =>
    /\ Len(stack[c]) \in 1 .. Len(stack'[c])
    /\ FrameAt(stack'[c], Len(stack[c])).op = "kill"
    /\ FrameAt(stack'[c], Len(stack[c])).pid = Top(c).pid

TasksAge ==
  \A p \in Pid : task'[p] = "created" => task[p] = "created" \/ records[p].state = "none"

LEMMA MovedFits ==
  ASSUME TypeOK, Fits(stack, records, task), TodoKnown(stack, records),
         Settles(records, records'), TasksAge,
         NEW c \in Coroutine, Moves(c), KillGoesOn(c),
         \A k \in 1 .. Len(stack'[c]) : k \notin 1 .. Len(stack[c]) - 1 =>
           Fit(FrameAt(stack'[c], k), Kills(stack', c, k), records', task')
  PROVE  Fits(stack', records', task')
<1>1. records \in Records
  BY DEF TypeOK, Records
<1>2. ASSUME NEW d \in Coroutine, NEW k \in 1 .. Len(stack[d]), k \in 1 .. Len(stack'[d]),
             FrameAt(stack'[d], k) = FrameAt(stack[d], k),
             \A q \in Kills(stack, d, k) : q \in Kills(stack', d, k) \/ ~Alive(records', q)
      PROVE  Fit(FrameAt(stack'[d], k), Kills(stack', d, k), records', task')
  <2>1. FrameAt(stack[d], k) \in Frame
    BY Depths
  <2>2. /\ Known(records, FrameAt(stack[d], k).todo)
        /\ Fit(FrameAt(stack[d], k), Kills(stack, d, k), records, task)
    BY DEF TodoKnown, Fits
  <2> QED
    BY <1>1, <1>2, <2>1, <2>2, FitKept DEF TasksAge
<1> SUFFICES ASSUME NEW d \in Coroutine, NEW k \in 1 .. Len(stack'[d])
             PROVE  Fit(FrameAt(stack'[d], k), Kills(stack', d, k), records', task')
  BY DEF Fits
<1>3. CASE d # c
  <2>1. stack'[d] = stack[d]
    BY <1>3 DEF Moves, Elsewhere
  <2>2. Kills(stack', d, k) = Kills(stack, d, k)
    BY <2>1 DEF Kills
  <2> QED
    BY <1>2, <2>1, <2>2
<1>4. CASE d = c /\ k \in 1 .. Len(stack[c]) - 1
  <2> DEFINE l == Len(stack[c])
  <2>1. l \in Nat /\ (stack[c] # <<>> => FrameAt(stack[c], l) = Top(c)) /\ (stack[c] = <<>> <=> l = 0)
    BY Depths
  <2>2. FrameAt(stack'[c], k) = FrameAt(stack[c], k)
    BY <1>4 DEF Moves
  <2>3. stack[c] # <<>> /\ k \in 1 .. l /\ k + 1 \in 1 .. l /\ (k + 1 = l \/ k + 1 \in 1 .. l - 1)
    BY <1>4, <2>1
  <2>4. ASSUME NEW q \in Kills(stack, c, k), Alive(records', q)
        PROVE  q \in Kills(stack', c, k)
    <3>1. q \in Pid /\ FrameAt(stack[c], k + 1).op = "kill" /\ FrameAt(stack[c], k + 1).pid = q
      BY <2>4 DEF Kills
    <3>2. CASE k + 1 = l
      <4>1. Top(c).op = "kill" /\ Top(c).pid = q
        BY <2>1, <2>3, <3>1, <3>2
      <4>2. /\ l \in 1 .. Len(stack'[c])
            /\ FrameAt(stack'[c], l).op = "kill" /\ FrameAt(stack'[c], l).pid = q
        BY <2>3, <2>4, <4>1 DEF KillGoesOn
      <4> QED
        BY <3>1, <3>2, <4>2 DEF Kills
    <3>3. CASE k + 1 \in 1 .. l - 1
      BY <3>1, <3>3 DEF Moves, Kills
    <3> QED
      BY <2>3, <3>2, <3>3
  <2> QED
    BY <1>2, <1>4, <2>2, <2>3, <2>4
<1>5. CASE d = c /\ k \notin 1 .. Len(stack[c]) - 1
  BY <1>5
<1> QED
  BY <1>3, <1>4, <1>5

LEMMA EnterFits ==
  ASSUME NEW f, f.at = "enter", NEW K, NEW r, NEW tk PROVE Fit(f, K, r, tk)
BY DEF Fit, Clearing, Deciding

\* What the lemmas about stacks share.
FitSoFar ==
  /\ TypeOK /\ Fits(stack, records, task) /\ TodoKnown(stack, records)
  /\ Settles(records, records') /\ TasksAge

LEMMA WentFits ==
  ASSUME FitSoFar, NEW c \in Coroutine, stack[c] # <<>>, NEW f, Went(c, f),
         f.op = Top(c).op, f.pid = Top(c).pid, Fit(f, {}, records', task')
  PROVE  Moves(c) /\ Fits(stack', records', task')
<1> DEFINE l == Len(stack[c])
<1>1. l \in Nat /\ l \in 1 .. l /\ FrameAt(stack[c], l) = Top(c)
  BY Depths DEF FitSoFar
<1>2. /\ Elsewhere(c) /\ Len(stack'[c]) = l
      /\ \A k \in 1 .. l : FrameAt(stack'[c], k) = IF k = l THEN f ELSE FrameAt(stack[c], k)
  BY DEF Went
<1> HIDE DEF l
<1>3. Moves(c)
  BY <1>1, <1>2 DEF Moves, l
<1>4. KillGoesOn(c)
  BY <1>1, <1>2 DEF KillGoesOn, l
<1>5. \A k \in 1 .. Len(stack'[c]) : k \notin 1 .. l - 1 => k = l
  BY <1>1, <1>2
<1>6. Kills(stack', c, l) = {}
  <2>1. l + 1 \notin 1 .. Len(stack'[c])
    BY <1>1, <1>2
  <2> QED
    BY <2>1 DEF Kills
<1>7. Fit(FrameAt(stack'[c], l), Kills(stack', c, l), records', task')
  BY <1>1, <1>2, <1>6
<1> QED
  BY <1>3, <1>4, <1>5, <1>7, MovedFits DEF FitSoFar, l

LEMMA CalledFits ==
  ASSUME FitSoFar, NEW c \in Coroutine, stack[c] # <<>>, NEW f, NEW g, Called(c, f, g),
         f.op = Top(c).op, f.pid = Top(c).pid,
         g.op = "kill", g.pid \in Pid, g.at = "enter", Fit(f, {g.pid}, records', task')
  PROVE  Moves(c) /\ Fits(stack', records', task')
<1> DEFINE l == Len(stack[c])
<1>1. l \in Nat /\ l \in 1 .. l /\ FrameAt(stack[c], l) = Top(c)
  BY Depths DEF FitSoFar
<1>2. /\ Elsewhere(c) /\ Len(stack'[c]) = l + 1
      /\ \A k \in 1 .. l : FrameAt(stack'[c], k) = IF k = l THEN f ELSE FrameAt(stack[c], k)
      /\ FrameAt(stack'[c], l + 1) = g
  BY DEF Called
<1> HIDE DEF l
<1>3. Moves(c)
  BY <1>1, <1>2 DEF Moves, l
<1>4. KillGoesOn(c)
  BY <1>1, <1>2 DEF KillGoesOn, l
<1>5. \A k \in 1 .. Len(stack'[c]) : k \notin 1 .. l - 1 => k = l \/ k = l + 1
  BY <1>1, <1>2
<1>6. Kills(stack', c, l) = {g.pid}
  BY <1>1, <1>2 DEF Kills
<1>7. Fit(FrameAt(stack'[c], l), Kills(stack', c, l), records', task')
  BY <1>1, <1>2, <1>6
<1>8. Fit(FrameAt(stack'[c], l + 1), Kills(stack', c, l + 1), records', task')
  BY <1>2, EnterFits
<1> QED
  BY <1>3, <1>4, <1>5, <1>7, <1>8, MovedFits DEF FitSoFar, l

LEMMA ReturnedFits ==
  ASSUME FitSoFar, NEW c \in Coroutine, stack[c] # <<>>, Returned(c),
         Top(c).op = "kill" => ~Alive(records', Top(c).pid)
  PROVE  Moves(c) /\ Fits(stack', records', task')
<1> DEFINE l == Len(stack[c])
<1>1. l \in Nat
  BY Depths DEF FitSoFar
<1>2. /\ Elsewhere(c) /\ Len(stack'[c]) = l - 1
      /\ \A k \in 1 .. l - 1 : FrameAt(stack'[c], k) = FrameAt(stack[c], k)
  BY DEF Returned
<1>3. Moves(c) /\ KillGoesOn(c)
  BY <1>2 DEF Moves, KillGoesOn
<1>4. \A k \in 1 .. Len(stack'[c]) : k \in 1 .. l - 1
  BY <1>2
<1> QED
  BY <1>3, <1>4, MovedFits DEF FitSoFar

LEMMA BeganFits ==
  ASSUME FitSoFar, NEW c \in Coroutine, stack[c] = <<>>, NEW f, Began(c, f),
         Fit(f, {}, records', task')
  PROVE  Moves(c) /\ Fits(stack', records', task')
<1>1. /\ Elsewhere(c) /\ Len(stack[c]) = 0 /\ Len(stack'[c]) = 1
      /\ FrameAt(stack'[c], 1) = f
  BY DEF Began
<1>2. Moves(c) /\ KillGoesOn(c)
  BY <1>1 DEF Moves, KillGoesOn
<1>3. Kills(stack', c, 1) = {}
  BY <1>1 DEF Kills
<1>4. \A k \in 1 .. Len(stack'[c]) : k = 1
  BY <1>1
<1> QED
  BY <1>1, <1>2, <1>3, <1>4, MovedFits DEF FitSoFar

LEMMA StackStaysFit ==
  ASSUME FitSoFar, NEW c \in Coroutine, UNCHANGED stack
  PROVE  Moves(c) /\ Fits(stack', records', task')
<1>1. \A d \in Coroutine : \A k \in 1 .. Len(stack[d]) :
        /\ FrameAt(stack[d], k) \in Frame /\ Known(records, FrameAt(stack[d], k).todo)
        /\ Fit(FrameAt(stack[d], k), Kills(stack, d, k), records, task)
  BY Depths DEF FitSoFar, TodoKnown, Fits
<1>2. records \in Records
  BY DEF FitSoFar, TypeOK, Records
<1>3. Fits(stack, records', task')
  BY <1>1, <1>2, FitKept DEF FitSoFar, TasksAge, Fits
<1>4. Len(stack[c]) \in Nat
  BY Depths DEF FitSoFar
<1>5. Moves(c)
  BY <1>4 DEF Moves, Elsewhere
<1> QED
  BY <1>3, <1>5 DEF Fits, Kills

\* The children of a process go on being killed, or there are none left.
ClearingGoesOn(c) ==
  stack[c] # <<>> /\ Top(c).at = "children" =>
    \/ /\ Len(stack[c]) \in 1 .. Len(stack'[c])
       /\ FrameAt(stack'[c], Len(stack[c])).pid = Top(c).pid
       /\ FrameAt(stack'[c], Len(stack[c])).at = "children"
    \/ \A q \in Pid : ~IsChild(records', q, Top(c).pid)

LEMMA ClearsKept ==
  ASSUME TypeOK, NEW c \in Coroutine, Moves(c), ClearingGoesOn(c),
         NEW p \in Pid, Clears(stack, p)
  PROVE  Clears(stack', p) \/ \A q \in Pid : ~IsChild(records', q, p)
<1>1. PICK d \in Coroutine :
        \E k \in 1 .. Len(stack[d]) :
          FrameAt(stack[d], k).pid = p /\ FrameAt(stack[d], k).at = "children"
  BY DEF Clears
<1>2. PICK k \in 1 .. Len(stack[d]) :
        FrameAt(stack[d], k).pid = p /\ FrameAt(stack[d], k).at = "children"
  BY <1>1
<1>3. CASE d # c
  <2>1. stack'[d] = stack[d]
    BY <1>3 DEF Moves, Elsewhere
  <2> QED
    BY <1>2, <2>1 DEF Clears
<1>4. CASE d = c /\ k \in 1 .. Len(stack[c]) - 1
  <2>1. k \in 1 .. Len(stack'[c]) /\ FrameAt(stack'[c], k) = FrameAt(stack[c], k)
    BY <1>4 DEF Moves
  <2> QED
    BY <1>2, <1>4, <2>1 DEF Clears
<1>5. CASE d = c /\ k \notin 1 .. Len(stack[c]) - 1
  <2>1. stack[c] # <<>> /\ k = Len(stack[c]) /\ FrameAt(stack[c], k) = Top(c)
    BY <1>5, Depths
  <2>2. Top(c).at = "children" /\ Top(c).pid = p
    BY <1>2, <1>5, <2>1
  <2> QED
    BY <2>1, <2>2 DEF ClearingGoesOn, Clears
<1> QED
  BY <1>3, <1>4, <1>5

LEMMA SurvivedKept ==
  ASSUME TypeOK, Survived(stack, records), NEW c \in Coroutine, Moves(c), ClearingGoesOn(c),
         \A p \in Pid : Up(records, p) => Up(records', p) \/ Clears(stack', p),
         \A p, q \in Pid : IsChild(records', q, p) => IsChild(records, q, p) \/ Up(records', p)
  PROVE  Survived(stack', records')
BY ClearsKept DEF Survived

\* No process is about to be cancelled, unless the coroutine that holds the loop
\* has killed all children of it.
CancelsNobody == \A p \in Pid : ~AboutToCancel(stack, loop, p)

LEMMA IdleCancelsNobody ==
  ASSUME loop = Idle PROVE CancelsNobody
BY CoroutineAssumption DEF CancelsNobody, AboutToCancel, Coroutine, Pid

LEMMA BusyCancelsNobody ==
  ASSUME TypeOK, NEW c \in Coroutine, loop = c,
         stack[c] # <<>> => \/ Top(c).op # "kill" \/ Top(c).at # "children"
                            \/ Top(c).todo # <<>>
  PROVE  CancelsNobody
BY Depths DEF CancelsNobody, AboutToCancel

\* The tasks that have not run yet: none is new, and those that are to be
\* cancelled were so before.
Waits ==
  \A p \in Pid : task'[p] = "created" =>
    /\ task[p] = "created"
    /\ records'[p].state = "running" => records[p].state = "running"
    /\ Down(records', p) => Down(records, p)
    /\ cancelled[p] => cancelled'[p]

\* A step in which nobody begins and no process gains a parent.
LEMMA PrunedStep ==
  ASSUME TypeOK, Treed, Prunes(records, records'), Tree(records'),
         Fits(stack', records', task'), Waits, CancelsNobody,
         \A p \in Pid : Up(records, p) => Up(records', p),
         NEW c \in Coroutine, Moves(c), ClearingGoesOn(c)
  PROVE  TreedNext
<1>1. Grown(records', task')
  BY PrunedGrown DEF Waits, Treed
<1>2. Sentenced(stack', records', task', cancelled', loop')
  BY DEF Treed, Sentenced, Waits, CancelsNobody
<1>3. \A p, q \in Pid : IsChild(records', q, p) => IsChild(records, q, p)
  BY PidsAreSome DEF Prunes, IsChild
<1>4. Survived(stack', records')
  BY <1>3, SurvivedKept DEF Treed
<1> QED
  BY <1>1, <1>2, <1>4 DEF TreedNext

LEMMA StillFits ==
  ASSUME TypeOK, Treed, TodoKnown(stack, records), Prunes(records, records'), Waits
  PROVE  FitSoFar
BY PrunesSettles DEF FitSoFar, TasksAge, Waits, Treed

-----------------------------------------------------------------------------
(* The tree: steps in which nobody begins *)

\* What is known before a step, and may be used of every action.
AllKept == IInv /\ IInv' /\ Indexed /\ Budgeted /\ Treed

LEMMA SameRecords ==
  ASSUME Treed, UNCHANGED records
  PROVE  /\ Prunes(records, records') /\ Tree(records')
         /\ \A p \in Pid : Up(records, p) => Up(records', p)
BY PrunesItself DEF Treed, Tree, Up, Alive, Members, Prunes, Down, Terminal

\* The only process that comes up has not been told to stop.
LEMMA StartTaskTree ==
  ASSUME AllKept, NEW p \in Pid, StartTask(p) PROVE TreedNext
<1> USE DEF AllKept, IInv
<1>1. /\ loop = Idle /\ task[p] = "created" /\ ~cancelled[p]
      /\ records' = [records EXCEPT ![p].state = "running"]
      /\ task' = [task EXCEPT ![p] = "body"]
      /\ UNCHANGED <<cancelled, stack>>
  BY DEF StartTask
<1>2. CancelsNobody
  BY <1>1, IdleCancelsNobody
<1>3. Alive(records, p) /\ ~Down(records, p)
  <2>1. Active(p)
    BY <1>1 DEF TasksHaveProcesses
  <2>2. ~Down(records, p)
    BY <1>1, <1>2 DEF Treed, Sentenced, CancelsNobody
  <2> QED
    BY <2>1, <2>2 DEF Active, Alive
<1>4. \A q \in Pid : /\ records'[q].state = IF q = p THEN "running" ELSE records[q].state
                     /\ records'[q].parent = records[q].parent
                     /\ records'[q].children = records[q].children
  BY <1>1 DEF TypeOK, Record
<1>5. \A q \in Pid : /\ Alive(records', q) <=> Alive(records, q)
                     /\ Down(records', q) <=> Down(records, q)
                     /\ Up(records, q) => Up(records', q)
                     /\ records[q].state \in Terminal => records'[q].state \in Terminal
                     /\ records[q].state # "none" => records'[q].state # "none"
  BY <1>3, <1>4 DEF Alive, Down, Up, Terminal
<1>6. Prunes(records, records')
  BY <1>4, <1>5 DEF Prunes
<1>7. Tree(records')
  BY <1>4, <1>5, SameTree DEF Treed
<1>8. Waits
  BY <1>1, <1>4, <1>5 DEF Waits, TypeOK
<1>9. p \in Coroutine
  BY DEF Coroutine
<1>10. Moves(p) /\ Fits(stack', records', task')
  BY <1>1, <1>6, <1>8, <1>9, StillFits, StackStaysFit DEF Indexed
<1>11. ClearingGoesOn(p)
  BY <1>1, <1>9, Depths DEF ClearingGoesOn
<1> QED
  BY <1>2, <1>5, <1>6, <1>7, <1>8, <1>9, <1>10, <1>11, PrunedStep

LEMMA IdleTree ==
  ASSUME AllKept, NEW p \in Pid, TaskNeverRuns(p) \/ BodyStops(p) PROVE TreedNext
<1> USE DEF AllKept, IInv
<1>1. /\ loop = Idle /\ task' = [task EXCEPT ![p] = "done"]
      /\ cancelled' = [cancelled EXCEPT ![p] = FALSE]
      /\ UNCHANGED <<records, stack>>
  BY DEF TaskNeverRuns, BodyStops, registryVars
<1>2. CancelsNobody
  BY <1>1, IdleCancelsNobody
<1>3. /\ Prunes(records, records') /\ Tree(records')
      /\ \A q \in Pid : Up(records, q) => Up(records', q)
  BY <1>1, SameRecords
<1>4. Waits
  BY <1>1 DEF Waits, TypeOK, Down, Terminal
<1>5. p \in Coroutine
  BY DEF Coroutine
<1>6. Moves(p) /\ Fits(stack', records', task')
  BY <1>1, <1>3, <1>4, <1>5, StillFits, StackStaysFit DEF Indexed
<1>7. ClearingGoesOn(p)
  BY <1>1, <1>5, Depths DEF ClearingGoesOn
<1> QED
  BY <1>2, <1>3, <1>4, <1>5, <1>6, <1>7, PrunedStep

LEMMA LoopFreedTree ==
  ASSUME AllKept, NEW c \in Coroutine, LoopFreed(c) PROVE TreedNext
<1> USE DEF AllKept, IInv
<1>1. /\ loop = c /\ stack[c] = <<>> /\ UNCHANGED <<records, stack, cancelled>>
      /\ task' = task \/ task' = [task EXCEPT ![c] = "done"]
  BY DEF LoopFreed, registryVars
<1>2. CancelsNobody
  BY <1>1, BusyCancelsNobody
<1>3. /\ Prunes(records, records') /\ Tree(records')
      /\ \A q \in Pid : Up(records, q) => Up(records', q)
  BY <1>1, SameRecords
<1>4. Waits
  <2>1. \A p \in Pid : task'[p] = "created" => task[p] = "created"
    BY <1>1 DEF TypeOK
  <2> QED
    BY <1>1, <2>1 DEF Waits, Down, Terminal
<1>5. Moves(c) /\ Fits(stack', records', task')
  BY <1>1, <1>3, <1>4, StillFits, StackStaysFit DEF Indexed
<1>6. ClearingGoesOn(c)
  BY <1>1 DEF ClearingGoesOn
<1> QED
  BY <1>2, <1>3, <1>4, <1>5, <1>6, PrunedStep

\* Calls that change no record and no task: what is left to be shown is what
\* the stacks are after the step.
LEMMA QuietTree ==
  ASSUME AllKept, UNCHANGED <<records, task>>,
         \A p \in Pid : task[p] = "created" /\ cancelled[p] => cancelled'[p]
  PROVE  /\ FitSoFar /\ Waits
         /\ \A c \in Coroutine :
              CancelsNobody /\ Moves(c) /\ ClearingGoesOn(c) /\ Fits(stack', records', task')
                => TreedNext
<1> USE DEF AllKept, IInv
<1>1. /\ Prunes(records, records') /\ Tree(records')
      /\ \A q \in Pid : Up(records, q) => Up(records', q)
  BY SameRecords
<1>2. Waits
  BY DEF Waits, Down, Terminal
<1>3. FitSoFar
  BY <1>1, <1>2, StillFits DEF Indexed
<1> QED
  BY <1>1, <1>2, <1>3, PrunedStep

\* The innermost call has killed nobody but those its list no longer has.
LEMMA TopFits ==
  ASSUME TypeOK, Fits(stack, records, task), NEW c \in Coroutine, stack[c] # <<>>
  PROVE  Fit(Top(c), {}, records, task)
<1>1. /\ Len(stack[c]) \in 1 .. Len(stack[c]) /\ Len(stack[c]) \in Nat
      /\ FrameAt(stack[c], Len(stack[c])) = Top(c)
  BY Depths
<1>2. Kills(stack, c, Len(stack[c])) = {}
  BY <1>1 DEF Kills
<1> QED
  BY <1>1, <1>2 DEF Fits

LEMMA KillRefusedTree ==
  ASSUME AllKept, NEW c \in Coroutine, KillRefused(c) PROVE TreedNext
<1> USE DEF AllKept, IInv
<1>1. /\ loop = c /\ stack[c] # <<>> /\ Top(c).at = "enter" /\ ~Active(Top(c).pid)
      /\ Return(c) /\ UNCHANGED <<records, task, cancelled>>
  BY DEF KillRefused, At, registryVars
<1>2. FitSoFar
  BY <1>1, QuietTree
<1>3. ~Alive(records', Top(c).pid)
  BY <1>1 DEF Active, Alive
<1>4. Moves(c) /\ Fits(stack', records', task')
  BY <1>1, <1>2, <1>3, ReturnFrames, ReturnedFits
<1>5. CancelsNobody /\ ClearingGoesOn(c)
  BY <1>1, BusyCancelsNobody DEF ClearingGoesOn
<1> QED
  BY <1>1, <1>4, <1>5, QuietTree

\* The child that is left out of the list is the one that is being killed.
LEMMA KillsChildTree ==
  ASSUME AllKept, NEW c \in Coroutine, KillsChild(c) PROVE TreedNext
<1> USE DEF AllKept, IInv
<1> DEFINE f == [Top(c) EXCEPT !.todo = Tail(@)]
           g == NewKill(Head(Top(c).todo), FALSE)
<1>1. /\ loop = c /\ stack[c] # <<>> /\ Top(c).at = "children" /\ Top(c).todo # <<>>
      /\ Call(c, f, g) /\ UNCHANGED <<records, task, cancelled>>
  BY DEF KillsChild, registryVars
<1>2. FitSoFar
  BY <1>1, QuietTree
<1>3. /\ Top(c) \in Frame /\ Top(c) \in Fields /\ Top(c).todo \in Seq(Pid)
      /\ Head(Top(c).todo) \in Pid
  BY <1>1, TopFields DEF Indexed
<1>4. g \in Frame /\ g.op = "kill" /\ g.at = "enter" /\ g.pid = Head(Top(c).todo)
  BY <1>3, NewFrameTypes DEF NewKill
<1>5. /\ f \in Frame /\ f.op = Top(c).op /\ f.pid = Top(c).pid /\ f.at = "children"
      /\ f.todo = Tail(Top(c).todo)
  BY <1>1, <1>3, HeadTailProperties DEF Frame, Fields
<1>6. Members(Top(c).todo) = Members(Tail(Top(c).todo)) \cup {g.pid}
  BY <1>1, <1>3, <1>4, TailMembers
<1>7. Fit(Top(c), {}, records, task)
  BY <1>1, TopFits DEF Treed
<1> HIDE DEF f, g
<1>8. Fit(f, {g.pid}, records', task')
  BY <1>1, <1>5, <1>6, <1>7 DEF Fit, Clearing, Deciding, IsChild, Alive, Down, Terminal
<1>9. Called(c, f, g)
  BY <1>1, <1>4, <1>5, CallFrames
<1>10. Moves(c) /\ Fits(stack', records', task')
  BY <1>1, <1>2, <1>3, <1>4, <1>5, <1>8, <1>9, CalledFits
<1>11. CancelsNobody
  BY <1>1, BusyCancelsNobody
<1>12. ClearingGoesOn(c)
  <2>1. Len(stack[c]) \in Nat /\ Len(stack[c]) \in 1 .. Len(stack[c])
    BY <1>1, Depths
  <2>2. Len(stack[c]) \in 1 .. Len(stack'[c]) /\ FrameAt(stack'[c], Len(stack[c])) = f
    BY <1>9, <2>1 DEF Called
  <2> QED
    BY <1>5, <2>2 DEF ClearingGoesOn
<1> QED
  BY <1>1, <1>10, <1>11, <1>12, QuietTree

\* All children have been killed; a task that has not run is cancelled here.
LEMMA KillCancelsTree ==
  ASSUME AllKept, NEW c \in Coroutine, KillCancels(c) PROVE TreedNext
<1> USE DEF AllKept, IInv
<1> DEFINE u == Top(c).aux
           f == [Top(c) EXCEPT !.at = "cancel", !.aux = Top(u).pid]
           g == [Top(c) EXCEPT !.at = "await"]
<1>1. /\ loop = c /\ stack[c] # <<>> /\ Top(c).op = "kill"
      /\ Top(c).at \in {"children", "cancel"}
      /\ Top(c).at = "children" => Top(c).todo = <<>>
      /\ UNCHANGED <<records, task>>
  BY DEF KillCancels, At, registryVars
<1>2. Top(c) \in Frame /\ Top(c) \in Fields /\ Top(c).pid \in Pid /\ u \in Pid \cup {None}
  BY <1>1, TopFields DEF Fields
<1>3. Fit(Top(c), {}, records, task)
  BY <1>1, TopFits DEF Treed
<1>4. Down(records, Top(c).pid) /\ \A q \in Pid : ~IsChild(records, q, Top(c).pid)
  <2>1. Members(<<>>) = {}
    BY EmptyListMembers
  <2> QED
    BY <1>1, <1>3, <2>1 DEF Fit, Clearing
<1>5. \/ /\ u \in Pid /\ stack[u] # <<>> /\ Goto(c, f) /\ UNCHANGED <<cancelled, loop>>
         /\ f \in Frame /\ f.op = "kill" /\ f.pid = Top(c).pid /\ f.at = "cancel"
      \/ /\ Goto(c, g) /\ cancelled' = [cancelled EXCEPT ![u] = task[u] # "done"]
         /\ g \in Frame /\ g.op = "kill" /\ g.pid = Top(c).pid /\ g.at = "await"
  <2>1. \/ u \in Pid /\ At(u, "kill", "await") /\ Goto(c, f) /\ UNCHANGED <<cancelled, loop>>
        \/ Goto(c, g) /\ cancelled' = [cancelled EXCEPT ![u] = task[u] # "done"]
    BY DEF KillCancels
  <2>2. g \in Frame /\ g.op = "kill" /\ g.pid = Top(c).pid /\ g.at = "await"
    BY <1>1, <1>2 DEF Frame, Fields
  <2>3. ASSUME u \in Pid, At(u, "kill", "await")
        PROVE  /\ stack[u] # <<>>
               /\ f \in Frame /\ f.op = "kill" /\ f.pid = Top(c).pid /\ f.at = "cancel"
    <3>1. Top(u).pid \in Pid /\ stack[u] # <<>>
      BY <2>3, TopFields DEF At, Coroutine
    <3> QED
      BY <1>1, <1>2, <3>1 DEF Frame, Fields
  <2> HIDE DEF f, g
  <2> QED
    BY <2>1, <2>2, <2>3
<1>6. PICK h \in Frame : /\ Goto(c, h) /\ h.op = "kill" /\ h.pid = Top(c).pid
                         /\ h.at \in {"cancel", "await"}
  <2> HIDE DEF f, g
  <2> QED
    BY <1>5
<1>7. Went(c, h)
  BY <1>1, <1>6, GotoFrames
<1>8. Fit(h, {}, records', task')
  <2>1. \A q \in Pid : ~IsChild(records', q, h.pid)
    BY <1>1, <1>4, <1>6 DEF IsChild, Alive
  <2>2. Down(records', h.pid)
    BY <1>1, <1>4, <1>6 DEF Down
  <2> QED
    BY <1>6, <2>1, <2>2 DEF Fit, Clearing, Deciding
<1>9. \A p \in Pid : task[p] = "created" /\ cancelled[p] => cancelled'[p]
  <2> SUFFICES ASSUME NEW p \in Pid, task[p] = "created", cancelled[p] PROVE cancelled'[p]
    OBVIOUS
  <2>1. CASE UNCHANGED cancelled
    BY <2>1
  <2>2. CASE cancelled' = [cancelled EXCEPT ![u] = task[u] # "done"]
    <3>1. CASE p = u
      BY <2>2, <3>1 DEF TypeOK
    <3>2. CASE p # u
      BY <2>2, <3>2 DEF TypeOK
    <3> QED
      BY <3>1, <3>2
  <2> QED
    BY <1>5, <2>1, <2>2
<1>10. FitSoFar /\ Waits
  BY <1>1, <1>9, QuietTree
<1>11. Moves(c) /\ Fits(stack', records', task')
  BY <1>1, <1>6, <1>7, <1>8, <1>10, WentFits
<1>12. /\ Prunes(records, records') /\ Tree(records')
       /\ \A q \in Pid : Up(records, q) => Up(records', q)
  BY <1>1, SameRecords
<1>13. ClearingGoesOn(c)
  BY <1>1, <1>4 DEF ClearingGoesOn, IsChild, Alive
<1>14. Survived(stack', records')
  <2>1. \A p, q \in Pid : IsChild(records', q, p) => IsChild(records, q, p)
    BY <1>1 DEF IsChild, Alive
  <2> QED
    BY <1>11, <1>12, <1>13, <2>1, SurvivedKept DEF Treed
<1>15. Grown(records', task')
  BY <1>10, <1>12, PrunedGrown DEF Treed, Waits
<1>16. ASSUME NEW p \in Pid, task'[p] = "created", Down(records', p)
       PROVE  cancelled'[p] \/ AboutToCancel(stack', loop', p)
  <2>1. task[p] = "created" /\ Down(records, p)
    BY <1>1, <1>16 DEF Down
  <2>2. CASE cancelled[p]
    BY <1>9, <2>1, <2>2
  <2>3. CASE AboutToCancel(stack, loop, p)
    <3>1. p = u
      BY <1>1, <2>3, Depths DEF AboutToCancel
    <3>2. stack[p] = <<>>
      BY <2>1 DEF HandlersHaveTasks
    <3>3. cancelled' = [cancelled EXCEPT ![u] = task[u] # "done"]
      BY <1>5, <3>1, <3>2
    <3> QED
      BY <2>1, <3>1, <3>3 DEF TypeOK
  <2> QED
    BY <2>1, <2>2, <2>3 DEF Treed, Sentenced
<1> QED
  BY <1>11, <1>12, <1>14, <1>15, <1>16 DEF TreedNext, Sentenced

LEMMA KillUnlinksTree ==
  ASSUME AllKept, NEW c \in Coroutine, KillUnlinks(c) PROVE TreedNext
<1> USE DEF AllKept, IInv
<1>1. /\ loop = Idle /\ stack[c] # <<>> /\ Top(c).op = "kill" /\ Top(c).at = "tail"
      /\ records' = Unlinked(records, Top(c).pid) /\ Return(c)
      /\ UNCHANGED <<task, cancelled>>
  BY DEF KillUnlinks, At
<1>2. Top(c).pid \in Pid /\ records \in Records
  BY <1>1, TopFields DEF TypeOK, Records
<1>3. records[Top(c).pid].state \in Terminal
  BY <1>1, TopFits DEF Treed, Fit
<1>4. ~Alive(records, Top(c).pid)
  BY <1>3 DEF Alive, Terminal
<1>5. Prunes(records, records') /\ Tree(records')
  BY <1>1, <1>2, <1>4, UnlinkedTree DEF Treed
<1>6. \A q \in Pid : records'[q].state = records[q].state
  BY <1>1, <1>2, UnlinkedFields
<1>7. Waits
  BY <1>1, <1>6 DEF Waits, Down
<1>8. FitSoFar
  BY <1>5, <1>7, StillFits DEF Indexed
<1>9. ~Alive(records', Top(c).pid)
  BY <1>2, <1>4, <1>6 DEF Alive
<1>10. Moves(c) /\ Fits(stack', records', task')
  BY <1>1, <1>8, <1>9, ReturnFrames, ReturnedFits
<1>11. CancelsNobody /\ ClearingGoesOn(c)
  BY <1>1, IdleCancelsNobody DEF ClearingGoesOn
<1>12. \A q \in Pid : Up(records, q) => Up(records', q)
  BY <1>6 DEF Up
<1> QED
  BY <1>5, <1>7, <1>10, <1>11, <1>12, PrunedStep

LEMMA KillTree ==
  ASSUME AllKept, NEW c \in Client, NEW p \in Pid, Kill(c, p) PROVE TreedNext
<1> USE DEF AllKept, IInv
<1> DEFINE f == NewKill(p, TRUE)
<1>1. /\ c \in Coroutine /\ loop = Idle /\ stack[c] = <<>>
      /\ stack' = [stack EXCEPT ![c] = <<f>>] /\ UNCHANGED <<records, task, cancelled>>
  BY DEF Kill, Calls, Coroutine, registryVars
<1>2. f.at = "enter"
  BY DEF NewKill
<1> HIDE DEF f
<1>3. FitSoFar
  BY <1>1, QuietTree
<1>4. Moves(c) /\ Fits(stack', records', task')
  BY <1>1, <1>2, <1>3, BeginFrames, EnterFits, BeganFits
<1>5. CancelsNobody /\ ClearingGoesOn(c)
  BY <1>1, IdleCancelsNobody DEF ClearingGoesOn
<1> QED
  BY <1>1, <1>4, <1>5, QuietTree

\* A handler goes on in its call, returns from it, or has a process killed first.
LEMMA HandlerStepsTree ==
  ASSUME AllKept, NEW c \in Coroutine, stack[c] # <<>>, Top(c).op = "handle",
         Top(c).at # "children", CancelsNobody, UNCHANGED <<records, task>>,
         \A p \in Pid : task[p] = "created" /\ cancelled[p] => cancelled'[p],
         NEW f \in Frame, f.op = "handle", f.pid = Top(c).pid, f.aux = Top(c).aux,
         f.at \in {"next", "backoff", "check", "restart"},
         Deciding(Top(c)),
         NEW g \in Frame, g.op = "kill", g.at = "enter", g.pid \in Pid,
         f.at = "restart" => ~Alive(records, Head(f.todo)) \/ Head(f.todo) = g.pid,
         \/ Return(c)
         \/ Goto(c, f) /\ (f.at = "restart" => ~Alive(records, Head(f.todo)))
         \/ Call(c, f, g)
  PROVE  TreedNext
<1> USE DEF AllKept, IInv
<1>1. FitSoFar
  BY QuietTree
<1>2. ClearingGoesOn(c)
  BY DEF ClearingGoesOn
<1>3. Fit(Top(c), {}, records, task)
  BY TopFits DEF Treed
<1>4. ASSUME NEW K, f.at = "restart" => ~Alive(records, Head(f.todo)) \/ Head(f.todo) \in K
      PROVE  Fit(f, K, records', task')
  BY <1>3, <1>4 DEF Fit, Clearing, Deciding, Alive
<1>5. CASE Return(c)
  BY <1>1, <1>2, <1>5, ReturnFrames, ReturnedFits, QuietTree
<1>6. CASE Goto(c, f) /\ (f.at = "restart" => ~Alive(records, Head(f.todo)))
  <2>1. Fit(f, {}, records', task')
    BY <1>4, <1>6
  <2> QED
    BY <1>1, <1>2, <1>6, <2>1, GotoFrames, WentFits, QuietTree
<1>7. CASE Call(c, f, g)
  <2>1. Fit(f, {g.pid}, records', task')
    BY <1>4
  <2> QED
    BY <1>1, <1>2, <1>7, <2>1, CallFrames, CalledFits, QuietTree
<1> QED
  BY <1>5, <1>6, <1>7

LEMMA HandlerNextTree ==
  ASSUME AllKept, NEW c \in Pid, HandlerNext(c) PROVE TreedNext
<1> USE DEF AllKept, IInv
<1> DEFINE e == [Top(c) EXCEPT !.todo = Tail(@)]
           g == [Top(c) EXCEPT !.at = "backoff"]
           h == [Top(c) EXCEPT !.at = "check"]
           x == NewKill(c, FALSE)
<1>1. /\ c \in Coroutine /\ loop = c /\ stack[c] # <<>>
      /\ Top(c).op = "handle" /\ Top(c).at = "next"
      /\ \/ Return(c)
         \/ Top(c).todo # <<>> /\ (Goto(c, e) \/ Goto(c, g) \/ Goto(c, h))
      /\ UNCHANGED <<records, task, cancelled>>
  BY DEF HandlerNext, At, Coroutine, registryVars
<1>2. Top(c) \in Frame /\ Top(c) \in Fields /\ Top(c).todo \in Seq(Pid)
  BY <1>1, TopFields
<1>3. x \in Frame /\ x.op = "kill" /\ x.at = "enter" /\ x.pid \in Pid
  BY NewFrameTypes DEF NewKill
<1>4. CancelsNobody /\ Deciding(Top(c))
  BY <1>1, BusyCancelsNobody DEF Deciding
<1>5. PICK f \in Frame : /\ Return(c) \/ Goto(c, f)
                         /\ f.op = "handle" /\ f.pid = Top(c).pid /\ f.aux = Top(c).aux
                         /\ f.at \in {"next", "backoff", "check"}
  <2>1. CASE Return(c)
    BY <1>1, <1>2, <2>1
  <2>2. CASE Top(c).todo # <<>> /\ Goto(c, e)
    <3>1. /\ e \in Frame /\ e.op = "handle" /\ e.pid = Top(c).pid /\ e.aux = Top(c).aux
          /\ e.at = "next"
      BY <1>1, <1>2, <2>2, HeadTailProperties DEF Frame, Fields
    <3> HIDE DEF e
    <3> QED
      BY <2>2, <3>1
  <2>3. CASE Top(c).todo # <<>> /\ (Goto(c, g) \/ Goto(c, h))
    <3>1. /\ g \in Frame /\ g.op = "handle" /\ g.pid = Top(c).pid /\ g.aux = Top(c).aux
          /\ g.at = "backoff"
          /\ h \in Frame /\ h.op = "handle" /\ h.pid = Top(c).pid /\ h.aux = Top(c).aux
          /\ h.at = "check"
      BY <1>1, <1>2, <2>3 DEF Frame, Fields
    <3> HIDE DEF g, h
    <3> QED
      BY <2>3, <3>1
  <2> QED
    BY <1>1, <2>1, <2>2, <2>3
<1> HIDE DEF x
<1> QED
  BY <1>1, <1>3, <1>4, <1>5, HandlerStepsTree

LEMMA HandlerWakesTree ==
  ASSUME AllKept, NEW c \in Pid, HandlerWakes(c) PROVE TreedNext
<1> USE DEF AllKept, IInv
<1> DEFINE h == [Top(c) EXCEPT !.at = "check"]
           x == NewKill(c, FALSE)
<1>1. /\ c \in Coroutine /\ loop = Idle /\ stack[c] # <<>>
      /\ Top(c).op = "handle" /\ Top(c).at = "backoff"
      /\ Return(c) \/ Goto(c, h)
      /\ UNCHANGED <<records, task>> /\ cancelled' = [cancelled EXCEPT ![c] = FALSE]
  BY DEF HandlerWakes, At, Coroutine, registryVars
<1>2. Top(c) \in Frame /\ Top(c) \in Fields
  BY <1>1, TopFields
<1>3. x \in Frame /\ x.op = "kill" /\ x.at = "enter" /\ x.pid \in Pid
  BY NewFrameTypes DEF NewKill
<1>4. CancelsNobody /\ Deciding(Top(c))
  BY <1>1, IdleCancelsNobody DEF Deciding
<1>5. /\ h \in Frame /\ h.op = "handle" /\ h.pid = Top(c).pid /\ h.aux = Top(c).aux
      /\ h.at = "check"
  BY <1>1, <1>2 DEF Frame, Fields
<1>6. \A p \in Pid : task[p] = "created" /\ cancelled[p] => cancelled'[p]
  <2>1. task[c] = "handler"
    BY <1>1 DEF HandlersHaveTasks
  <2> QED
    BY <1>1, <2>1 DEF TypeOK
<1> HIDE DEF h, x
<1> QED
  BY <1>1, <1>3, <1>4, <1>5, <1>6, HandlerStepsTree

LEMMA HandlerChecksTree ==
  ASSUME AllKept, NEW c \in Pid, HandlerChecks(c) PROVE TreedNext
<1> USE DEF AllKept, IInv
<1> DEFINE f == [Top(c) EXCEPT !.at = "restart"]
           q == Head(Top(c).todo)
           g == NewKill(q, FALSE)
<1>1. /\ c \in Coroutine /\ loop = c /\ stack[c] # <<>>
      /\ Top(c).op = "handle" /\ Top(c).at = "check"
      /\ Return(c) \/ (Goto(c, f) /\ ~Active(q)) \/ Call(c, f, g)
      /\ UNCHANGED <<records, task, cancelled>>
  BY DEF HandlerChecks, At, Coroutine, registryVars
<1>2. Top(c) \in Frame /\ Top(c) \in Fields /\ q \in Pid
  BY <1>1, TopFields DEF Indexed, Frame
<1>3. g \in Frame /\ g.op = "kill" /\ g.at = "enter" /\ g.pid = q
  BY <1>2, NewFrameTypes DEF NewKill
<1>4. CancelsNobody /\ Deciding(Top(c))
  BY <1>1, BusyCancelsNobody DEF Deciding
<1>5. /\ f \in Frame /\ f.op = "handle" /\ f.pid = Top(c).pid /\ f.aux = Top(c).aux
      /\ f.at = "restart" /\ Head(f.todo) = q
  BY <1>1, <1>2 DEF Frame, Fields
<1>6. Active(q) <=> Alive(records, q)
  BY DEF Active, Alive
<1> HIDE DEF f, g, q
<1> QED
  BY <1>1, <1>2, <1>3, <1>4, <1>5, <1>6, HandlerStepsTree

\* The handler has killed all children; those of a process that has ended lose
\* their parent, and it may leave the tree itself.
LEMMA HandlerDecidesTree ==
  ASSUME AllKept, NEW c \in Pid, HandlerDecides(c) PROVE TreedNext
<1> USE DEF AllKept, IInv
<1> DEFINE sup == records[c].parent
           r == IF Top(c).flag THEN Orphaned(c) ELSE records
           n == Attempts(sup, c)
           f == [Top(c) EXCEPT !.at = "next", !.aux = sup, !.todo = Affected(sup, c)]
<1>1. /\ c \in Coroutine /\ loop = c /\ stack[c] # <<>>
      /\ Top(c).op = "handle" /\ Top(c).at = "children" /\ Top(c).todo = <<>>
      /\ UNCHANGED <<task, cancelled>>
  BY DEF HandlerDecides, At, Coroutine
<1>2. records \in Records /\ Top(c) \in Frame /\ Top(c) \in Fields /\ Top(c).pid \in Pid
  BY <1>1, TopFields DEF TypeOK, Records
<1>3. ~Alive(records, c) /\ records[c].state # "none"
  BY <1>1 DEF HandlersHaveTasks, Budgeted, EndsAreHandled, Alive
<1>4. /\ r \in Records /\ Prunes(records, r) /\ Tree(r)
      /\ \A p \in Pid : r[p].state = records[p].state
  BY <1>2, <1>3, OrphanedType, OrphanedTree, OrphanedFields, PrunesItself DEF Treed
<1>5. ~Alive(r, c)
  BY <1>3, <1>4 DEF Alive
<1>6. \/ records' = r /\ Return(c)
      \/ records' = Unlinked(r, c) /\ Return(c)
      \/ \E h : /\ records' = [Unlinked(r, c) EXCEPT ![sup].history = h,
                                                    ![sup].escalated = TRUE]
                /\ Return(c)
      \/ Live(sup) /\ (\E h : records' = [r EXCEPT ![sup].history = h]) /\ Goto(c, f)
  BY DEF HandlerDecides
<1> HIDE DEF r
<1>7. /\ Unlinked(r, c) \in Records /\ Prunes(records, Unlinked(r, c)) /\ Tree(Unlinked(r, c))
      /\ \A p \in Pid : Unlinked(r, c)[p].state = records[p].state
  BY <1>4, <1>5, UnlinkedType, UnlinkedTree, UnlinkedFields, PrunesTrans
<1>8. \E u \in Records : /\ Prunes(records, u) /\ Tree(u) /\ SameShape(u, records')
                         /\ \A p \in Pid : u[p].state = records[p].state
  <2>1. CASE records' = r
    BY <1>4, <2>1, NotedShape
  <2>2. CASE records' = Unlinked(r, c)
    BY <1>7, <2>2, NotedShape
  <2>3. ASSUME NEW h, records' = [Unlinked(r, c) EXCEPT ![sup].history = h,
                                                        ![sup].escalated = TRUE]
        PROVE  SameShape(Unlinked(r, c), records')
    BY <1>7, <2>3, NotedShape
  <2>4. ASSUME NEW h, records' = [r EXCEPT ![sup].history = h]
        PROVE  SameShape(r, records')
    BY <1>4, <2>4, NotedShape
  <2> QED
    BY <1>4, <1>6, <1>7, <2>1, <2>2, <2>3, <2>4
<1>9. /\ Prunes(records, records') /\ Tree(records')
      /\ \A p \in Pid : records'[p].state = records[p].state
  BY <1>8, ShapeKeepsTree, PrunesTrans DEF SameShape
<1>10. Waits
  BY <1>1, <1>9 DEF Waits, Down
<1>11. FitSoFar
  BY <1>9, <1>10, StillFits DEF Indexed
<1>12. CancelsNobody
  BY <1>1, BusyCancelsNobody
<1>13. ClearingGoesOn(c)
  <2>1. Fit(Top(c), {}, records, task) /\ Members(Top(c).todo) = {}
    BY <1>1, TopFits, EmptyListMembers DEF Treed
  <2>2. \A q \in Pid : ~IsChild(records, q, Top(c).pid)
    BY <1>1, <2>1 DEF Fit, Clearing
  <2> QED
    BY <1>2, <1>9, <2>2, PidsAreSome DEF ClearingGoesOn, Prunes, IsChild
<1>14. \A p \in Pid : Up(records, p) => Up(records', p)
  BY <1>9 DEF Up
<1>15. Moves(c) /\ Fits(stack', records', task')
  <2>1. CASE Return(c)
    BY <1>1, <1>11, <2>1, ReturnFrames, ReturnedFits
  <2>2. CASE Live(sup) /\ Goto(c, f)
    <3>1. sup \in Pid
      BY <1>2, <2>2 DEF Live, Records, Record
    <3>2. Affected(sup, c) \in Seq(Pid)
      BY <1>3, <3>1, AttemptsType
    <3>3. f \in Frame /\ f.op = "handle" /\ f.pid = Top(c).pid /\ f.at = "next" /\ f.aux = sup
      BY <1>1, <1>2, <3>1, <3>2 DEF Frame, Fields
    <3> HIDE DEF f
    <3>4. task'[sup] # "created" /\ records'[sup].state # "none"
      BY <1>1, <1>9, <2>2, <3>1 DEF Treed, Grown, Live
    <3>5. Fit(f, {}, records', task')
      BY <3>1, <3>3, <3>4 DEF Fit, Clearing
    <3> QED
      BY <1>1, <1>11, <2>2, <3>3, <3>5, GotoFrames, WentFits
  <2> QED
    BY <1>6, <2>1, <2>2
<1> QED
  BY <1>1, <1>9, <1>10, <1>12, <1>13, <1>14, <1>15, PrunedStep

\* What a step that ends a process has to show beside the stacks.
LEMMA SinksStep ==
  ASSUME TypeOK, Treed, Prunes(records, records'), Tree(records'),
         Fits(stack', records', task'),
         NEW c \in Coroutine, Moves(c), ClearingGoesOn(c), NEW p \in Pid, Clears(stack', p),
         \A q \in Pid : q # p => records'[q].state = records[q].state,
         \A q \in Pid : task'[q] = "created" =>
           task[q] = "created" /\ (records'[q].state = "running" => records[q].state = "running"),
         \A q \in Pid : task'[q] = "created" /\ Down(records', q) =>
           cancelled'[q] \/ AboutToCancel(stack', loop', q)
  PROVE  TreedNext
<1>1. Grown(records', task')
  BY PrunedGrown DEF Treed
<1>2. Sentenced(stack', records', task', cancelled', loop')
  BY DEF Sentenced
<1>3. \A x, q \in Pid : IsChild(records', q, x) => IsChild(records, q, x)
  BY PidsAreSome DEF Prunes, IsChild
<1>4. \A q \in Pid : Up(records, q) => Up(records', q) \/ Clears(stack', q)
  BY DEF Up
<1>5. Survived(stack', records')
  BY <1>3, <1>4, SurvivedKept DEF Treed
<1> QED
  BY <1>1, <1>2, <1>5 DEF TreedNext

\* The handler has all children of the process still to kill.
LEMMA BodyEndsTree ==
  ASSUME AllKept, NEW p \in Pid, task[p] = "body", loop = Idle,
         NEW end \in {"exited", "crashed"}, BodyEnds(p, end)
  PROVE  TreedNext
<1> USE DEF AllKept, IInv
<1> DEFINE f == NewHandler(p)
<1>1. /\ p \in Coroutine /\ stack[p] = <<>> /\ Active(p) /\ records \in Records
      /\ records' = [Cleaned(records, p) EXCEPT ![p].state = end]
      /\ task' = [task EXCEPT ![p] = "handler"]
      /\ cancelled' = [cancelled EXCEPT ![p] = FALSE]
      /\ stack' = [stack EXCEPT ![p] = <<f>>]
  BY DEF BodyEnds, TasksHaveProcesses, HandlersHaveTasks, Coroutine, TypeOK, Records
<1>2. /\ f.op = "handle" /\ f.pid = p /\ f.at = "children" /\ f.todo = records[p].children
  BY DEF NewHandler
<1> HIDE DEF f
<1>3. \A q \in Pid : /\ records'[q].state = IF q = p THEN end ELSE records[q].state
                     /\ records'[q].parent = records[q].parent
                     /\ records'[q].children = records[q].children
  BY <1>1 DEF Cleaned, Records, Record
<1>4. \A q \in Pid : Alive(records', q) => Alive(records, q)
  BY <1>3 DEF Alive
<1>5. Prunes(records, records')
  BY <1>3, <1>4 DEF Prunes, Down, Terminal
<1>6. Tree(records')
  BY <1>3, <1>4, SameTree DEF Treed
<1>7. TasksAge
  BY <1>1 DEF TasksAge, TypeOK
<1>8. FitSoFar
  BY <1>5, <1>7, PrunesSettles DEF FitSoFar, Treed, Indexed
<1>9. Began(p, f)
  BY <1>1, BeginFrames
<1>10. Fit(f, {}, records', task')
  <2>1. \A q \in Pid : IsChild(records', q, p) => q \in Members(records[p].children)
    BY <1>3, <1>4 DEF IsChild, Treed, Tree
  <2>2. Down(records', p)
    BY <1>3 DEF Down, Terminal
  <2> QED
    BY <1>2, <2>1, <2>2 DEF Fit, Clearing, Deciding
<1>11. Moves(p) /\ Fits(stack', records', task')
  BY <1>1, <1>8, <1>9, <1>10, BeganFits
<1>12. ClearingGoesOn(p)
  BY <1>1 DEF ClearingGoesOn
<1>13. Clears(stack', p)
  <2>1. 1 \in 1 .. Len(stack'[p]) /\ FrameAt(stack'[p], 1) = f
    BY <1>9 DEF Began
  <2> QED
    BY <1>1, <1>2, <2>1 DEF Clears
<1>14. CancelsNobody
  BY IdleCancelsNobody
<1>15. \A q \in Pid : task'[q] = "created" => q # p /\ task[q] = "created"
  BY <1>1 DEF TypeOK
<1>16. \A q \in Pid : task'[q] = "created" /\ Down(records', q) => cancelled'[q]
  BY <1>1, <1>3, <1>14, <1>15 DEF Down, TypeOK, CancelsNobody, Treed, Sentenced
<1>17. \A q \in Pid : task'[q] = "created" =>
         task[q] = "created" /\ (records'[q].state = "running" => records[q].state = "running")
  BY <1>3, <1>15
<1>18. \A q \in Pid : q # p => records'[q].state = records[q].state
  BY <1>3
<1>19. TypeOK /\ Treed
  OBVIOUS
<1> QED
  BY <1>1, <1>5, <1>6, <1>11, <1>12, <1>13, <1>16, <1>17, <1>18, <1>19, SinksStep

LEMMA BodyReturnsTree ==
  ASSUME AllKept, NEW p \in Pid, BodyReturns(p) \/ BodyRaises(p) PROVE TreedNext
BY BodyEndsTree DEF BodyReturns, BodyRaises

\* The kill has all children of the process still to kill; a process that has
\* not run has none, and its task is cancelled next.
LEMMA KillEntersTree ==
  ASSUME AllKept, NEW c \in Coroutine, KillEnters(c) PROVE TreedNext
<1> USE DEF AllKept, IInv
<1> DEFINE p == Top(c).pid
           f == [Top(c) EXCEPT !.at = "children", !.todo = records[p].children, !.aux = p]
           l == Len(stack[c])
<1>1. /\ loop = c /\ stack[c] # <<>> /\ Top(c).op = "kill" /\ Top(c).at = "enter"
      /\ Active(p) /\ Goto(c, f)
      /\ records' = [records EXCEPT ![p].state = "stopping", ![p].stop = TRUE]
      /\ UNCHANGED <<task, cancelled, loop>>
  BY DEF KillEnters, At
<1>2. /\ records \in Records /\ Top(c) \in Frame /\ Top(c) \in Fields /\ p \in Pid
      /\ records[p].children \in Seq(Pid)
  BY <1>1, TopFields DEF TypeOK, Records, Record
<1>3. /\ f \in Frame /\ f.op = "kill" /\ f.pid = p /\ f.at = "children"
      /\ f.todo = records[p].children /\ f.aux = p
  BY <1>1, <1>2 DEF Frame, Fields
<1>4. p = Top(c).pid /\ l = Len(stack[c])
  OBVIOUS
<1> HIDE DEF f, p, l
<1>5. \A q \in Pid : /\ records'[q].state = IF q = p THEN "stopping" ELSE records[q].state
                     /\ records'[q].parent = records[q].parent
                     /\ records'[q].children = records[q].children
  BY <1>1, <1>2 DEF Records, Record
<1>6. \A q \in Pid : Alive(records', q) <=> Alive(records, q)
  BY <1>1, <1>5 DEF Alive, Active
<1>7. Prunes(records, records')
  <2> SUFFICES ASSUME NEW q \in Pid
               PROVE  /\ Down(records, q) => Down(records', q)
                      /\ records[q].state \in Terminal => records'[q].state \in Terminal
                      /\ records[q].state # "none" => records'[q].state # "none"
    BY <1>5, <1>6 DEF Prunes
  <2>1. CASE q = p
    <3>1. records'[q].state = "stopping" /\ records[q].state \notin Terminal
      BY <1>1, <1>5, <2>1 DEF Active, Terminal
    <3> QED
      BY <3>1 DEF Down
  <2>2. CASE q # p
    BY <1>5, <2>2 DEF Down
  <2> QED
    BY <2>1, <2>2
<1>8. Tree(records')
  BY <1>5, <1>6, SameTree DEF Treed
<1>9. FitSoFar
  BY <1>1, <1>7, PrunesSettles DEF FitSoFar, Treed, Indexed, TasksAge
<1>10. Went(c, f)
  BY <1>1, <1>3, GotoFrames
<1>11. Fit(f, {}, records', task')
  <2>1. \A q \in Pid : IsChild(records', q, p) => q \in Members(records[p].children)
    BY <1>2, <1>5, <1>6 DEF IsChild, Treed, Tree
  <2>2. Down(records', p)
    BY <1>2, <1>5 DEF Down
  <2> QED
    BY <1>3, <2>1, <2>2 DEF Fit, Clearing, Deciding
<1>12. Moves(c) /\ Fits(stack', records', task')
  BY <1>1, <1>3, <1>4, <1>9, <1>10, <1>11, WentFits
<1>13. ClearingGoesOn(c)
  BY <1>1 DEF ClearingGoesOn
<1>14. l \in Nat /\ l # 0 /\ l \in 1 .. Len(stack'[c]) /\ Len(stack'[c]) = l
       /\ FrameAt(stack'[c], l) = f
  BY <1>1, <1>4, <1>10, Depths DEF Went
<1>15. Clears(stack', p)
  BY <1>3, <1>14 DEF Clears
<1>16. CancelsNobody
  BY <1>1, BusyCancelsNobody
<1>17. ASSUME NEW q \in Pid, task'[q] = "created", Down(records', q)
       PROVE  cancelled'[q] \/ AboutToCancel(stack', loop', q)
  <2>1. task[q] = "created"
    BY <1>1, <1>17
  <2>2. CASE q # p
    BY <1>1, <1>5, <1>16, <1>17, <2>1, <2>2 DEF Down, CancelsNobody, Treed, Sentenced
  <2>3. CASE q = p
    <3>1. Members(records[p].children) = {}
      BY <2>1, <2>3 DEF Treed, Grown
    <3>2. f.todo = <<>>
      BY <1>2, <1>3, <3>1, TailMembers
    <3> QED
      BY <1>1, <1>3, <1>14, <2>3, <3>2 DEF AboutToCancel
  <2> QED
    BY <2>2, <2>3
<1>18. \A q \in Pid : task'[q] = "created" =>
         task[q] = "created" /\ (records'[q].state = "running" => records[q].state = "running")
  <2> SUFFICES ASSUME NEW q \in Pid, task'[q] = "created"
               PROVE  task[q] = "created" /\ (records'[q].state = "running" => records[q].state = "running")
    OBVIOUS
  <2>1. task[q] = "created"
    BY <1>1
  <2>2. records'[q].state = "running" => records[q].state = "running"
    BY <1>5
  <2> QED
    BY <2>1, <2>2
<1>19. \A q \in Pid : q # p => records'[q].state = records[q].state
  BY <1>5
<1>20. TypeOK /\ Treed
  OBVIOUS
<1> QED
  BY <1>2, <1>7, <1>8, <1>12, <1>13, <1>15, <1>17, <1>18, <1>19, <1>20, SinksStep

-----------------------------------------------------------------------------
(* The tree: steps in which a process begins or finds a supervisor *)

\* A step in which no process goes down that was not, and whoever gains a child
\* is up.
LEMMA SettledStep ==
  ASSUME TypeOK, Treed, Tree(records'), Grown(records', task'),
         Fits(stack', records', task'), CancelsNobody,
         \A p \in Pid : task'[p] = "created" /\ Down(records', p) =>
           /\ task[p] = "created" /\ Down(records, p)
           /\ cancelled[p] => cancelled'[p],
         \A p \in Pid : Up(records, p) => Up(records', p),
         \A p, q \in Pid : IsChild(records', q, p) => IsChild(records, q, p) \/ Up(records', p),
         NEW c \in Coroutine, Moves(c), ClearingGoesOn(c)
  PROVE  TreedNext
<1>1. Sentenced(stack', records', task', cancelled', loop')
  BY DEF Treed, Sentenced, CancelsNobody
<1>2. Survived(stack', records')
  BY SurvivedKept DEF Treed
<1> QED
  BY <1>1, <1>2 DEF TreedNext

\* What a launch makes of the records r.
LEMMA LaunchTree ==
  ASSUME TypeOK, NEW r \in Records, Allocated(r), Sound(r), Tree(r), Grown(r, task),
         NEW names, NEW boxes, NEW n, NEW pol, NEW par \in Pid \cup {None}, NEW old, NEW by,
         par # None => Up(r, par) /\ task[par] # "created",
         old # None => ~Alive(r, old),
         Launch(r, names, boxes, n, pol, par, old, by)
  PROVE  /\ Settles(r, records') /\ Tree(records') /\ Grown(records', task')
         /\ \A p \in Pid : r[p].state # "none" =>
              task'[p] = task[p] /\ records'[p].state = r[p].state
         /\ \A p \in Pid : Down(records', p) => r[p].state # "none"
         /\ \A p, q \in Pid : IsChild(records', q, p) => IsChild(r, q, p) \/ Up(records', p)
<1>1. par # None => r[par].state # "none"
  BY DEF Up
<1>2. CASE LaunchesNothing(r, names, boxes)
  <2>1. records' = r /\ task' = task
    BY <1>2 DEF LaunchesNothing
  <2>2. Settles(r, r)
    BY DEF Settles
  <2> QED
    BY <2>1, <2>2 DEF Down, Terminal
<1>3. CASE Launched(r, names, boxes, n, pol, par, old, by)
  <2>1. /\ Added(r, records', nextPid, n, pol, par, old)
        /\ task' = [task EXCEPT ![nextPid] = "created"]
    BY <1>3 DEF Launched
  <2>2. /\ nextPid \in Pid /\ r[nextPid].state = "none"
        /\ records'[nextPid].state = "starting" /\ records'[nextPid].parent = par
        /\ \A p \in Pid : p # nextPid =>
             records'[p].state = r[p].state /\ records'[p].parent = r[p].parent
    BY <2>1 DEF Added
  <2>3. \A p \in Pid : p # nextPid => task'[p] = task[p]
    BY <2>1 DEF TypeOK
  <2>4. \A x \in Pid : r[x].parent # nextPid
    BY <2>2 DEF Grown
  <2>5. Settles(r, records') /\ Tree(records')
    BY <2>1, <2>4, AddedTree
  <2>6. Grown(records', task')
    <3> DEFINE t == records'
               tk == task'
    <3>1. Added(r, t, nextPid, n, pol, par, old) /\ \A p \in Pid : p # nextPid => tk[p] = task[p]
      BY <2>1, <2>3
    <3> HIDE DEF t, tk
    <3>2. Grown(t, tk)
      BY <3>1, AddedGrown
    <3> QED
      BY <3>2 DEF t, tk
  <2>7. \A p \in Pid : r[p].state # "none" =>
          task'[p] = task[p] /\ records'[p].state = r[p].state
    BY <2>2, <2>3
  <2>8. \A p \in Pid : Down(records', p) => r[p].state # "none"
    BY <2>2 DEF Down, Terminal
  <2>9. ASSUME NEW p \in Pid, NEW q \in Pid, IsChild(records', q, p)
        PROVE  IsChild(r, q, p) \/ Up(records', p)
    <3>1. CASE q = nextPid
      <4>1. p = par /\ Up(r, p)
        BY <2>2, <2>9, <3>1, PidsAreSome DEF IsChild
      <4>2. records'[p].state = r[p].state
        BY <2>2, <4>1 DEF Up
      <4> QED
        BY <4>1, <4>2 DEF Up
    <3>2. CASE q # nextPid
      BY <2>2, <2>9, <3>2 DEF IsChild, Alive
    <3> QED
      BY <3>1, <3>2
  <2> QED
    BY <2>5, <2>6, <2>7, <2>8, <2>9
<1> QED
  BY <1>1, <1>2, <1>3, LaunchCases

\* A step that launches from records r in which the same processes are down.
LEMMA LaunchStep ==
  ASSUME AllKept, NEW r \in Records, Allocated(r), Sound(r), Tree(r), Prunes(records, r),
         \A p \in Pid : /\ Down(r, p) => Down(records, p)
                        /\ Up(records, p) => r[p].state = records[p].state
                        /\ r[p].state = "running" => records[p].state = "running",
         NEW names, NEW boxes, NEW n, NEW pol, NEW par \in Pid \cup {None}, NEW old, NEW by,
         par # None => Up(r, par) /\ task[par] # "created",
         old # None => ~Alive(r, old),
         Launch(r, names, boxes, n, pol, par, old, by),
         UNCHANGED cancelled, CancelsNobody
  PROVE  /\ FitSoFar
         /\ \A p \in Pid : r[p].state # "none" =>
              task'[p] = task[p] /\ records'[p].state = r[p].state
         /\ \A c \in Coroutine :
              Moves(c) /\ ClearingGoesOn(c) /\ Fits(stack', records', task') => TreedNext
<1> USE DEF AllKept, IInv
<1>1. Grown(r, task)
  BY PrunedGrown DEF Treed
<1>2. /\ Settles(r, records') /\ Tree(records') /\ Grown(records', task')
      /\ \A p \in Pid : r[p].state # "none" =>
           task'[p] = task[p] /\ records'[p].state = r[p].state
      /\ \A p \in Pid : Down(records', p) => r[p].state # "none"
      /\ \A p, q \in Pid : IsChild(records', q, p) => IsChild(r, q, p) \/ Up(records', p)
  BY <1>1, LaunchTree
<1>3. Settles(records, records')
  BY <1>2, PrunesSettles, SettlesTrans
<1>4. TasksAge
  BY <1>2 DEF TasksAge, Prunes
<1>5. FitSoFar
  BY <1>3, <1>4 DEF FitSoFar, Treed, Indexed
<1>6. ASSUME NEW p \in Pid, task'[p] = "created", Down(records', p)
      PROVE  task[p] = "created" /\ Down(records, p) /\ (cancelled[p] => cancelled'[p])
  <2>1. r[p].state # "none"
    BY <1>2, <1>6
  <2>2. task[p] = "created" /\ Down(r, p)
    BY <1>2, <1>6, <2>1 DEF Down
  <2> QED
    BY <2>2
<1>7. \A p \in Pid : Up(records, p) => Up(records', p)
  BY <1>2 DEF Up
<1>8. ASSUME NEW p \in Pid, NEW q \in Pid, IsChild(records', q, p)
      PROVE  IsChild(records, q, p) \/ Up(records', p)
  <2>1. CASE IsChild(r, q, p)
    BY <2>1, PidsAreSome DEF IsChild, Prunes
  <2> QED
    BY <1>2, <1>8, <2>1
<1>9. ASSUME NEW c \in Coroutine, Moves(c), ClearingGoesOn(c), Fits(stack', records', task')
      PROVE  TreedNext
  BY <1>2, <1>6, <1>7, <1>8, <1>9, SettledStep
<1> QED
  BY <1>2, <1>5, <1>9

LEMMA RunPathTree ==
  ASSUME AllKept, NEW c \in Client, NEW n \in Name, RunPath(c, n)
  PROVE  TreedNext
<1> USE DEF AllKept, IInv
<1>1. /\ c \in Coroutine /\ loop = Idle /\ stack[c] = <<>> /\ UNCHANGED <<cancelled, stack>>
      /\ Launch(records, byName, mailboxes, n, "permanent", None, None, "caller")
  BY DEF RunPath, Calls, Coroutine
<1>2. /\ records \in Records /\ Allocated(records) /\ Sound(records) /\ Tree(records)
      /\ Prunes(records, records) /\ None \in Pid \cup {None}
  BY TypeParts, PrunesItself DEF RegistryTypes, Indexed, Treed
<1>3. CancelsNobody /\ ClearingGoesOn(c)
  BY <1>1, IdleCancelsNobody DEF ClearingGoesOn
<1>4. /\ FitSoFar
      /\ Moves(c) /\ ClearingGoesOn(c) /\ Fits(stack', records', task') => TreedNext
  BY <1>1, <1>2, <1>3, LaunchStep
<1> QED
  BY <1>1, <1>3, <1>4, StackStaysFit

LEMMA SpawnChildTree ==
  ASSUME AllKept, ~ParentsMayBeStarting, NEW c \in Client, NEW par \in Pid, NEW n \in Name,
         SpawnChild(c, par, n)
  PROVE  TreedNext
<1> USE DEF AllKept, IInv
<1> DEFINE t == [records EXCEPT ![par].escalated = TRUE]
           r == IF Launchable(byName, mailboxes, n) THEN records ELSE t
<1>1. /\ c \in Coroutine /\ loop = Idle /\ stack[c] = <<>> /\ UNCHANGED <<cancelled, stack>>
      /\ records[par].state = "running"
      /\ Launch(r, byName, mailboxes, n, ChildPolicy[n], par, None, "caller")
  BY DEF SpawnChild, Calls, Coroutine
<1>2. /\ records \in Records /\ Allocated(records) /\ Sound(records) /\ Tree(records)
      /\ SameShape(records, records)
  BY TypeParts, NotedShape DEF RegistryTypes, Indexed, Treed
<1>3. t \in Records /\ Allocated(t) /\ Sound(t)
  BY EscalatedIsSound
<1>4. SameShape(records, t)
  BY <1>2, NotedShape
<1> HIDE DEF t
<1>5. r \in Records /\ Allocated(r) /\ Sound(r) /\ SameShape(records, r)
  BY <1>2, <1>3, <1>4
<1> HIDE DEF r
<1>6. Prunes(records, r) /\ Tree(r)
  BY <1>2, <1>5, ShapeKeepsTree
<1>7. \A p \in Pid : r[p].state = records[p].state
  BY <1>5 DEF SameShape
<1>8. Up(r, par) /\ task[par] # "created"
  BY <1>1, <1>7 DEF Up, Treed, Grown
<1>9. CancelsNobody /\ ClearingGoesOn(c)
  BY <1>1, IdleCancelsNobody DEF ClearingGoesOn
<1>10. \A p \in Pid : /\ Down(r, p) => Down(records, p)
                      /\ Up(records, p) => r[p].state = records[p].state
                      /\ r[p].state = "running" => records[p].state = "running"
  BY <1>7 DEF Down
<1> DEFINE pol == ChildPolicy[n]
<1>11. Launch(r, byName, mailboxes, n, pol, par, None, "caller")
  BY <1>1
<1> HIDE DEF pol
<1>12. /\ FitSoFar
       /\ Moves(c) /\ ClearingGoesOn(c) /\ Fits(stack', records', task') => TreedNext
  BY <1>1, <1>5, <1>6, <1>8, <1>9, <1>10, <1>11, LaunchStep
<1> QED
  BY <1>1, <1>9, <1>12, StackStaysFit

\* The supervisor has run, and what is started again has ended.
LEMMA HandlerRestartsTree ==
  ASSUME AllKept, NEW c \in Pid, HandlerRestarts(c) PROVE TreedNext
<1> USE DEF AllKept, IInv
<1> DEFINE q == Head(Top(c).todo)
           n == records[q].name
           pol == records[q].policy
           sup == Top(c).aux
           t == [records EXCEPT ![sup].escalated = TRUE]
           r == IF Launchable(byName, mailboxes, n) THEN records ELSE t
           f == [Top(c) EXCEPT !.at = "next", !.todo = Tail(@)]
<1>1. /\ c \in Coroutine /\ loop = c /\ stack[c] # <<>>
      /\ Top(c).op = "handle" /\ Top(c).at = "restart" /\ UNCHANGED cancelled
      /\ \/ /\ Return(c) /\ UNCHANGED <<records, task>>
         \/ /\ Live(sup)
            /\ Launch(r, byName, mailboxes, n, pol, sup, q, "handler")
            /\ Goto(c, f) \/ Return(c)
  BY DEF HandlerRestarts, At, Coroutine, registryVars
<1>2. /\ Top(c) \in Frame /\ Top(c) \in Fields /\ Top(c).todo \in Seq(Pid)
      /\ Top(c).todo # <<>> /\ q \in Pid
  BY <1>1, TopFields DEF Indexed, Frame
<1>3. /\ f \in Frame /\ f.op = "handle" /\ f.pid = Top(c).pid /\ f.aux = sup
      /\ f.at = "next"
  BY <1>1, <1>2, HeadTailProperties DEF Frame, Fields
<1>4. /\ records \in Records /\ Allocated(records) /\ Sound(records) /\ Tree(records)
      /\ SameShape(records, records)
  BY TypeParts, NotedShape DEF RegistryTypes, Indexed, Treed
<1>5. t \in Records /\ Allocated(t) /\ Sound(t)
  BY EscalatedIsSound
<1>6. SameShape(records, t)
  BY <1>4, NotedShape
<1> HIDE DEF t, f
<1>7. r \in Records /\ Allocated(r) /\ Sound(r) /\ SameShape(records, r)
  BY <1>4, <1>5, <1>6
<1> HIDE DEF r
<1>8. Prunes(records, r) /\ Tree(r)
  BY <1>4, <1>7, ShapeKeepsTree
<1>9. \A p \in Pid : r[p].state = records[p].state
  BY <1>7 DEF SameShape
<1>10. CancelsNobody /\ ClearingGoesOn(c)
  BY <1>1, BusyCancelsNobody DEF ClearingGoesOn
<1>11. Fit(Top(c), {}, records, task) /\ Deciding(Top(c))
  BY <1>1, TopFits DEF Treed, Deciding
<1>12. sup \in Pid /\ task[sup] # "created" /\ ~Alive(r, q)
  BY <1>1, <1>2, <1>9, <1>11 DEF Fit, Alive
<1>13. CASE Return(c) /\ UNCHANGED <<records, task>>
  <2>1. FitSoFar
    BY <1>1, <1>13, QuietTree
  <2>2. Moves(c) /\ Fits(stack', records', task')
    BY <1>1, <1>13, <2>1, ReturnFrames, ReturnedFits
  <2> QED
    BY <1>1, <1>10, <1>13, <2>2, QuietTree
<1>14. CASE /\ Live(sup) /\ Launch(r, byName, mailboxes, n, pol, sup, q, "handler")
            /\ Goto(c, f) \/ Return(c)
  <2>1. Up(r, sup)
    BY <1>9, <1>12, <1>14 DEF Live, Up
  <2>2. \A p \in Pid : /\ Down(r, p) => Down(records, p)
                       /\ Up(records, p) => r[p].state = records[p].state
                       /\ r[p].state = "running" => records[p].state = "running"
    BY <1>9 DEF Down
  <2> HIDE DEF n, pol, q, sup
  <2>3. /\ FitSoFar
        /\ r[sup].state # "none" =>
             task'[sup] = task[sup] /\ records'[sup].state = r[sup].state
        /\ Moves(c) /\ ClearingGoesOn(c) /\ Fits(stack', records', task') => TreedNext
    BY <1>1, <1>7, <1>8, <1>10, <1>12, <1>14, <2>1, <2>2, LaunchStep
  <2>4. Moves(c) /\ Fits(stack', records', task')
    <3>1. CASE Return(c)
      BY <1>1, <2>3, <3>1, ReturnFrames, ReturnedFits
    <3>2. CASE Goto(c, f)
      <4>1. Fit(f, {}, records', task')
        BY <1>3, <1>12, <2>1, <2>3 DEF Fit, Clearing, Up
      <4> QED
        BY <1>1, <1>3, <2>3, <3>2, <4>1, GotoFrames, WentFits
    <3> QED
      BY <1>14, <3>1, <3>2
  <2> QED
    BY <1>10, <2>3, <2>4
<1> QED
  BY <1>1, <1>13, <1>14

\* The records in which a kill has ended a process that has no children left.
LEMMA FinishedTree ==
  ASSUME AllKept, NEW p \in Pid, Down(records, p), \A q \in Pid : ~IsChild(records, q, p)
  PROVE  LET r == [Cleaned(records, p) EXCEPT ![p].state = "killed", ![p].children = <<>>]
         IN /\ r \in Records /\ Allocated(r) /\ Sound(r) /\ Tree(r) /\ Prunes(records, r)
            /\ r[p].state = "killed"
            /\ \A q \in Pid : q # p => r[q] = records[q]
<1> USE DEF AllKept, IInv
<1> DEFINE e == <<>>
           k == Cleaned(records, p)
           m == [k[p] EXCEPT !.state = "killed", !.children = e]
           t == [k EXCEPT ![p].state = "killed", ![p].children = e]
<1>1. e \in Seq(Pid) /\ Members(e) = {} /\ Distinct(e)
  BY EmptySeq, EmptyListMembers
<1>2. records \in Records /\ records[p].state # "none"
  BY DEF TypeOK, Records, Down, Terminal
<1> HIDE DEF e
<1>3. k \in Records
  BY <1>2, CleanedType
<1>4. /\ k[p].name = records[p].name /\ k[p].parent = records[p].parent
      /\ \A q \in Pid : q # p => k[q] = records[q]
  BY <1>2 DEF Cleaned, Records, Record
<1> HIDE DEF k
<1>5. t = [k EXCEPT ![p] = m]
  BY <1>3 DEF Records, Record
<1>6. k[p] \in Record
  BY <1>3 DEF Records
<1>7. /\ m \in Record /\ m.state = "killed" /\ m.name = k[p].name
      /\ m.parent = k[p].parent /\ m.children = e
  BY <1>1, <1>6 DEF Record, States
<1> HIDE DEF m
<1>8. /\ t \in Records /\ t[p].state = "killed" /\ t[p].name = records[p].name
      /\ t[p].parent = records[p].parent /\ t[p].children = e
      /\ \A q \in Pid : q # p => t[q] = records[q]
  BY <1>3, <1>4, <1>5, <1>7 DEF Records
<1> HIDE DEF t
<1>9. \A q \in Pid : t[q].state = "none" <=> records[q].state = "none"
  BY <1>2, <1>8
<1>10. Allocated(t)
  <2>1. Allocated(records)
    BY TypeParts DEF RegistryTypes
  <2> QED
    BY <1>9, <2>1 DEF Allocated
<1>11. Sound(t)
  <2> SUFFICES ASSUME NEW q \in Pid
               PROVE  /\ t[q].state # "none" => t[q].name \in Name
                      /\ Alive(t, q) => t[q].resources
                      /\ Known(t, t[q].children) /\ Distinct(t[q].children)
    BY DEF Sound
  <2>1. Sound(records)
    BY DEF Indexed
  <2>2. CASE q = p
    BY <1>1, <1>2, <1>8, <2>1, <2>2 DEF Sound, Alive, Known
  <2>3. CASE q # p
    <3>1. t[q] = records[q]
      BY <1>8, <2>3
    <3>2. \A x \in Members(records[q].children) : x \in Pid
      BY <1>2, MembersType DEF Records, Record
    <3>3. Known(t, t[q].children)
      BY <1>9, <2>1, <3>1, <3>2 DEF Sound, Known
    <3> QED
      BY <2>1, <3>1, <3>3 DEF Sound, Alive
  <2> QED
    BY <2>2, <2>3
<1>12. Prunes(records, t) /\ Tree(t)
  <2>1. \A q \in Pid : q # p => /\ t[q].state = records[q].state
                                /\ t[q].parent = records[q].parent
                                /\ t[q].children = records[q].children
    BY <1>8
  <2>2. t[p].state = "killed" /\ t[p].parent = records[p].parent /\ Members(t[p].children) = {}
    BY <1>1, <1>8
  <2>3. Tree(records)
    BY DEF Treed
  <2>4. Alive(records, p) \/ Down(records, p)
    OBVIOUS
  <2> QED
    BY SMTT(60), <2>1, <2>2, <2>3, <2>4, KilledTree
<1> QED
  BY <1>8, <1>10, <1>11, <1>12 DEF t, k, e

\* A kill ends a process that has no children left; one that takes its place
\* does so under a supervisor that has run.
LEMMA KillFinishesTree ==
  ASSUME AllKept, NEW c \in Coroutine, KillFinishes(c) PROVE TreedNext
<1> USE DEF AllKept, IInv
<1> DEFINE p == Top(c).pid
           n == records[p].name
           pol == records[p].policy
           sup == records[p].parent
           r == [Cleaned(records, p) EXCEPT ![p].state = "killed",
                                            ![p].children = <<>>]
           names == NamesAfterCleanup(p)
           boxes == MailboxesAfterCleanup(p)
           f == [Top(c) EXCEPT !.at = "tail"]
<1>1. /\ loop \in {c, Idle} /\ stack[c] # <<>> /\ Top(c).op = "kill"
      /\ Top(c).at = "await" /\ UNCHANGED cancelled
  BY DEF KillFinishes, At
<1>2. Top(c) \in Frame /\ Top(c) \in Fields /\ p \in Pid
  BY <1>1, TopFields
<1>3. Fit(Top(c), {}, records, task)
  BY <1>1, TopFits DEF Treed
<1>4. Down(records, p) /\ \A q \in Pid : ~IsChild(records, q, p)
  BY <1>1, <1>3 DEF Fit, Clearing
<1>5. /\ r \in Records /\ Allocated(r) /\ Sound(r) /\ Tree(r) /\ Prunes(records, r)
      /\ r[p].state = "killed"
      /\ \A q \in Pid : q # p => r[q] = records[q]
  BY <1>2, <1>4, FinishedTree
<1>6. f \in Frame /\ f.op = "kill" /\ f.pid = p /\ f.at = "tail"
  BY <1>1, <1>2 DEF Frame, Fields
<1> HIDE DEF r, f, names, boxes
<1>7. \/ /\ Launch(r, names, boxes, n, pol, sup, p, "kill")
         /\ Live(sup)
         /\ Goto(c, f) \/ Return(c)
      \/ /\ records' = Unlinked(r, p) /\ UNCHANGED task
         /\ Return(c)
  BY DEF KillFinishes, r, names, boxes, f
<1>8. sup \in Pid \cup {None}
  BY <1>2 DEF TypeOK, Record
<1>9. \A q \in Pid : /\ Down(r, q) => Down(records, q)
                     /\ Up(records, q) => r[q].state = records[q].state
                     /\ r[q].state = "running" => records[q].state = "running"
  <2> SUFFICES ASSUME NEW q \in Pid
               PROVE  /\ Down(r, q) => Down(records, q)
                      /\ Up(records, q) => r[q].state = records[q].state
                      /\ r[q].state = "running" => records[q].state = "running"
    OBVIOUS
  <2>1. CASE q = p
    BY <1>4, <1>5, <2>1 DEF Down, Up, Terminal
  <2>2. CASE q # p
    BY <1>5, <2>2 DEF Down
  <2> QED
    BY <2>1, <2>2
<1>10. CancelsNobody /\ ClearingGoesOn(c)
  BY <1>1, IdleCancelsNobody, BusyCancelsNobody DEF ClearingGoesOn
<1>11. ~Alive(r, p)
  BY <1>5 DEF Alive
<1>12. CASE /\ Launch(r, names, boxes, n, pol, sup, p, "kill") /\ Live(sup)
            /\ Goto(c, f) \/ Return(c)
  <2>1. sup \in Pid /\ Up(records, sup)
    BY <1>8, <1>12 DEF Live, Up
  <2>2. Up(r, sup)
    BY <1>9, <2>1 DEF Up
  <2>3. task[sup] # "created"
    BY <1>2, <2>1 DEF Treed, Grown
  <2> HIDE DEF n, pol, p, sup
  <2>4. /\ FitSoFar
        /\ r[p].state # "none" => records'[p].state = r[p].state
        /\ Moves(c) /\ ClearingGoesOn(c) /\ Fits(stack', records', task') => TreedNext
    BY <1>1, <1>2, <1>5, <1>9, <1>10, <1>11, <1>12, <2>1, <2>2, <2>3, LaunchStep
  <2>5. records'[p].state = "killed"
    BY <1>5, <2>4
  <2>6. Moves(c) /\ Fits(stack', records', task')
    <3>1. CASE Return(c)
      <4>1. ~Alive(records', Top(c).pid)
        BY <2>5 DEF Alive, p
      <4> QED
        BY <1>1, <2>4, <3>1, <4>1, ReturnFrames, ReturnedFits
    <3>2. CASE Goto(c, f)
      <4>1. Fit(f, {}, records', task')
        BY <1>6, <2>5 DEF Fit, Clearing, Deciding, Terminal
      <4> QED
        BY <1>1, <1>6, <2>4, <3>2, <4>1, GotoFrames, WentFits DEF p
    <3> QED
      BY <1>12, <3>1, <3>2
  <2> QED
    BY <1>10, <2>4, <2>6
<1>13. CASE records' = Unlinked(r, p) /\ UNCHANGED task /\ Return(c)
  <2> HIDE DEF n, pol, p, sup
  <2>1. /\ Prunes(r, records') /\ Tree(records')
        /\ \A q \in Pid : records'[q].state = r[q].state
    BY <1>2, <1>5, <1>11, <1>13, UnlinkedTree, UnlinkedFields
  <2>2. Prunes(records, records')
    BY <1>5, <2>1, PrunesTrans
  <2>3. Waits
    BY <1>1, <1>9, <1>13, <2>1 DEF Waits, Down
  <2>4. FitSoFar
    BY <2>2, <2>3, StillFits DEF Indexed
  <2>5. ~Alive(records', Top(c).pid)
    BY <1>2, <1>11, <2>1 DEF Alive, p
  <2>6. Moves(c) /\ Fits(stack', records', task')
    BY <1>1, <1>13, <2>4, <2>5, ReturnFrames, ReturnedFits
  <2>7. \A q \in Pid : Up(records, q) => Up(records', q)
    BY <1>9, <2>1 DEF Up
  <2> QED
    BY <1>10, <2>1, <2>2, <2>3, <2>6, <2>7, PrunedStep
<1> QED
  BY <1>7, <1>12, <1>13

\* Who is attached had no parent, and is attached to a process that is up.
LEMMA MonitorChildTree ==
  ASSUME AllKept, ~AdoptsSupervised, ~ParentsMayBeStarting,
         NEW c \in Client, NEW par \in Pid, NEW q \in Pid, MonitorChild(c, par, q)
  PROVE  TreedNext
<1> USE DEF AllKept, IInv
<1> DEFINE s == records[par].children
           list == IF q \in Members(s) THEN s ELSE Append(s, q)
<1>1. /\ c \in Coroutine /\ loop = Idle /\ stack[c] = <<>>
      /\ UNCHANGED <<task, cancelled, stack>>
      /\ records[par].state = "running" /\ records[q].parent = None /\ q # par
      /\ records[q].children = <<>>
      /\ records' = [records EXCEPT ![q].parent = par, ![par].children = list]
      /\ Alive(records, q)
  BY DEF MonitorChild, Calls, Coroutine, Live, Alive
<1>2. records \in Records /\ s \in Seq(Pid)
  BY DEF TypeOK, Records, Record
<1>3. Members(list) = Members(s) \cup {q}
  <2>1. CASE q \in Members(s)
    BY <2>1
  <2>2. CASE q \notin Members(s)
    <3>1. list = Replaced(s, q, q)
      BY <2>2 DEF Replaced
    <3> HIDE DEF list, s
    <3>2. /\ Members(list) \subseteq Members(s) \cup {q} /\ q \in Members(list)
          /\ \A y \in Members(s) : y # q => y \in Members(list)
      BY <1>2, <2>2, <3>1, ReplacedMembers
    <3> QED
      BY <3>2
  <2> QED
    BY <2>1, <2>2
<1> HIDE DEF list
<1>4. \A p \in Pid :
        /\ records'[p].state = records[p].state
        /\ records'[p].parent = IF p = q THEN par ELSE records[p].parent
        /\ records'[p].children = IF p = par THEN list ELSE records[p].children
  BY <1>1, <1>2 DEF Records, Record
<1>5. \A p \in Pid : /\ Alive(records', p) <=> Alive(records, p)
                     /\ Up(records', p) <=> Up(records, p)
                     /\ Down(records', p) <=> Down(records, p)
  BY <1>4 DEF Alive, Up, Down
<1>6. Up(records, par) /\ ~Down(records, par) /\ task[par] # "created"
  BY <1>1 DEF Up, Down, Terminal, Treed, Grown
<1>7. \A p, x \in Pid : IsChild(records', x, p) => IsChild(records, x, p) \/ p = par
  BY <1>4, <1>5 DEF IsChild
<1>8. Settles(records, records')
  BY <1>4, <1>5, <1>6, <1>7 DEF Settles
<1>9. ASSUME NEW p \in Pid, NEW x \in Pid, Alive(records', x)
      PROVE  x \in Members(records'[p].children) <=> records'[x].parent = p
  <2>1. x \in Members(records[p].children) <=> records[x].parent = p
    BY <1>5, <1>9 DEF Treed, Tree
  <2>2. CASE x = q
    <3>1. records'[x].parent = par /\ x \notin Members(records[p].children)
      BY <1>1, <1>4, <2>1, <2>2, PidsAreSome
    <3>2. CASE p = par
      <4>1. Members(records'[p].children) = Members(s) \cup {q}
        BY <1>3, <1>4, <3>2
      <4> HIDE DEF s
      <4> QED
        BY <2>2, <3>1, <3>2, <4>1
    <3>3. CASE p # par
      <4>1. records'[p].children = records[p].children
        BY <1>4, <3>3
      <4> QED
        BY <3>1, <3>3, <4>1
    <3> QED
      BY <3>2, <3>3
  <2>3. CASE x # q
    <3>1. records'[x].parent = records[x].parent
      BY <1>4, <2>3
    <3>2. CASE p = par
      <4>1. Members(records'[p].children) = Members(records[p].children) \cup {q}
        BY <1>3, <1>4, <3>2
      <4> QED
        BY <2>1, <2>3, <3>1, <4>1
    <3>3. CASE p # par
      <4>1. records'[p].children = records[p].children
        BY <1>4, <3>3
      <4> QED
        BY <2>1, <3>1, <4>1
    <3> QED
      BY <3>2, <3>3
  <2> QED
    BY <2>2, <2>3
<1>10. Tree(records')
  BY <1>9 DEF Tree
<1>11. Grown(records', task')
  <2> SUFFICES ASSUME NEW p \in Pid
               PROVE  /\ task'[p] = "created" =>
                           /\ Members(records'[p].children) = {}
                           /\ records'[p].state # "running"
                           /\ \A x \in Pid : records'[x].parent # p
                      /\ \A x \in Pid : records'[x].parent = p => records'[p].state # "none"
    BY DEF Grown
  <2>1. CASE p = par
    <3>1. task'[p] # "created" /\ records'[p].state = "running"
      BY <1>1, <1>4, <1>6, <2>1
    <3> QED
      BY <3>1
  <2>2. CASE p # par
    <3>1. /\ records'[p].children = records[p].children
          /\ records'[p].state = records[p].state /\ task'[p] = task[p]
      BY <1>1, <1>4, <2>2
    <3>2. \A x \in Pid : records'[x].parent = p => records[x].parent = p
      BY <1>4, <2>2
    <3> QED
      BY <3>1, <3>2 DEF Treed, Grown
  <2> QED
    BY <2>1, <2>2
<1>12. TasksAge
  BY <1>1 DEF TasksAge
<1>13. FitSoFar
  BY <1>8, <1>12 DEF FitSoFar, Treed, Indexed
<1>14. CancelsNobody /\ ClearingGoesOn(c)
  BY <1>1, IdleCancelsNobody DEF ClearingGoesOn
<1>15. Moves(c) /\ Fits(stack', records', task')
  BY <1>1, <1>13, StackStaysFit
<1>16. \A p \in Pid : task'[p] = "created" /\ Down(records', p) =>
         task[p] = "created" /\ Down(records, p) /\ (cancelled[p] => cancelled'[p])
  BY <1>1, <1>5
<1>17. \A p, x \in Pid : IsChild(records', x, p) => IsChild(records, x, p) \/ Up(records', p)
  BY <1>5, <1>6, <1>7
<1> QED
  BY <1>1, <1>5, <1>10, <1>11, <1>14, <1>15, <1>16, <1>17, SettledStep

LEMMA InitTreed == Init => Treed
<1> SUFFICES ASSUME Init PROVE Treed
  OBVIOUS
<1>1. \A c \in Coroutine : Len(stack[c]) = 0
  BY EmptySeq DEF Init
<1>2. /\ Len(Boot) \in Nat
      /\ \A p \in Pid : Booted(p) => p \in 1 .. Len(Boot)
      /\ \A p \in Pid : task[p] # "created"
  <2>1. Len(Boot) \in Nat
    BY BootAssumption, LenProperties
  <2>2. \A p \in Pid : task[p] # "created"
    BY DEF Init
  <2> QED
    BY <2>1, <2>2, BoundAssumption DEF Booted, Pid
<1>3. \A p \in Pid :
        records[p] = IF Booted(p)
                     THEN [NewRecord(Boot[p].name,
                                     IF Boot[p].parent = None THEN "permanent"
                                                              ELSE ChildPolicy[Boot[p].name],
                                     Boot[p].parent) EXCEPT
                             !.state = "running", !.children = Boot[p].children]
                     ELSE NoRecord
  BY DEF Init
<1>4. \A p \in Pid :
        /\ Booted(p) => /\ records[p].state = "running"
                        /\ records[p].parent = Boot[p].parent
                        /\ records[p].children = Boot[p].children
        /\ ~Booted(p) => /\ records[p].state = "none" /\ records[p].parent = None
                         /\ records[p].children = <<>>
  <2> SUFFICES ASSUME NEW p \in Pid
               PROVE  /\ Booted(p) => /\ records[p].state = "running"
                                      /\ records[p].parent = Boot[p].parent
                                      /\ records[p].children = Boot[p].children
                      /\ ~Booted(p) => /\ records[p].state = "none"
                                       /\ records[p].parent = None
                                       /\ records[p].children = <<>>
    OBVIOUS
  <2>1. CASE Booted(p)
    BY <1>3, <2>1 DEF NewRecord
  <2>2. CASE ~Booted(p)
    BY <1>3, <2>2 DEF NewRecord, NoRecord
  <2> QED
    BY <2>1, <2>2
<1>5. \A p, q \in Pid : Booted(p) /\ Booted(q) =>
        (q \in Members(Boot[p].children) <=> Boot[q].parent = p)
  BY <1>2, BootTreeAssumption
<1>6. \A p, q \in Pid : records[q].parent = p => Booted(q) /\ Booted(p)
  <2> SUFFICES ASSUME NEW p \in Pid, NEW q \in Pid, records[q].parent = p
               PROVE  Booted(q) /\ Booted(p)
    OBVIOUS
  <2>1. Booted(q) /\ Boot[q].parent = p
    BY <1>4, PidsAreSome
  <2>2. Boot[q].parent \in 0 .. Len(Boot)
    BY <1>2, <2>1, BootTreeAssumption
  <2>3. p <= Len(Boot)
    BY <1>2, <2>1, <2>2
  <2> QED
    BY <2>1, <2>3 DEF Booted
<1>7. Fits(stack, records, task)
  BY <1>1 DEF Fits
<1>8. Tree(records)
  <2> SUFFICES ASSUME NEW p \in Pid, NEW q \in Pid, Alive(records, q)
               PROVE  q \in Members(records[p].children) <=> records[q].parent = p
    BY DEF Tree
  <2>1. Booted(q)
    BY <1>4 DEF Alive
  <2>2. CASE Booted(p)
    BY <1>4, <1>5, <2>1, <2>2
  <2>3. CASE ~Booted(p)
    BY <1>4, <1>6, <2>3, EmptyListMembers
  <2> QED
    BY <2>2, <2>3
<1>9. Grown(records, task)
  BY <1>2, <1>4, <1>6 DEF Grown
<1>10. Sentenced(stack, records, task, cancelled, loop)
  BY <1>2 DEF Sentenced
<1>11. Survived(stack, records)
  BY <1>4, <1>6 DEF Survived, IsChild, Up
<1> QED
  BY <1>7, <1>8, <1>9, <1>10, <1>11 DEF Treed

\* Nothing happens to the tree when nothing happens.
LEMMA StutterTree == Treed /\ UNCHANGED vars => TreedNext
BY DEF vars, registryVars, Treed, TreedNext

LEMMA StepTreed ==
  ASSUME ~AdoptsSupervised, ~ParentsMayBeStarting
  PROVE  IInv /\ IInv' /\ Indexed /\ Budgeted /\ Treed /\ [Next]_vars => Treed'
<1> SUFFICES ASSUME AllKept, [Next]_vars PROVE Treed'
  BY DEF AllKept
<1>1. ASSUME UNCHANGED vars PROVE TreedNext
  BY <1>1, StutterTree DEF AllKept
<1>2. ASSUME ClientStep PROVE TreedNext
  BY <1>2, RunPathTree, SpawnChildTree, MonitorChildTree, KillTree DEF ClientStep
<1>3. ASSUME AgentStep PROVE TreedNext
  BY <1>3, BodyReturnsTree DEF AgentStep
<1>4. ASSUME TaskStep PROVE TreedNext
  BY <1>4, StartTaskTree, IdleTree, BodyReturnsTree DEF TaskStep
<1>5. ASSUME CallStep PROVE TreedNext
  BY <1>5, LoopFreedTree, KillRefusedTree, KillEntersTree, KillsChildTree,
     KillCancelsTree, KillFinishesTree, KillUnlinksTree DEF CallStep
<1>6. ASSUME HandlerStep PROVE TreedNext
  BY <1>6, HandlerDecidesTree, HandlerNextTree, HandlerWakesTree, HandlerChecksTree,
     HandlerRestartsTree DEF HandlerStep
<1> QED
  BY <1>1, <1>2, <1>3, <1>4, <1>5, <1>6, TreedPrimed DEF Next

LEMMA TreedIsKept == TypeOK /\ Treed => TreeIsKept
<1> SUFFICES ASSUME TypeOK, Treed PROVE TreeIsKept
  OBVIOUS
<1>1. \A p : Active(p) <=> Alive(records, p)
  BY DEF Active, Alive
<1>2. TreeIsConsistent
  BY <1>1 DEF TreeIsConsistent, Treed, Tree
<1>3. NoChildSurvives
  <2> SUFFICES ASSUME NEW q \in Pid, Active(q), records[q].parent # None
               PROVE  \/ Live(records[q].parent)
                      \/ \E c \in Coroutine : \E i \in 1 .. Len(stack[c]) :
                           stack[c][i].pid = records[q].parent /\ stack[c][i].at = "children"
    BY DEF NoChildSurvives
  <2> DEFINE p == records[q].parent
  <2>1. p \in Pid /\ IsChild(records, q, p)
    BY <1>1 DEF TypeOK, Record, IsChild
  <2> HIDE DEF p
  <2>2. Up(records, p) \/ Clears(stack, p)
    BY <2>1 DEF Treed, Survived
  <2>3. CASE Up(records, p)
    BY <2>3 DEF Up, Live, p
  <2>4. CASE Clears(stack, p)
    <3>1. PICK c \in Coroutine : \E k \in 1 .. Len(stack[c]) :
            FrameAt(stack[c], k).pid = p /\ FrameAt(stack[c], k).at = "children"
      BY <2>4 DEF Clears
    <3>2. PICK k \in 1 .. Len(stack[c]) :
            FrameAt(stack[c], k).pid = p /\ FrameAt(stack[c], k).at = "children"
      BY <3>1
    <3>3. Len(stack[c]) \in Nat
      BY Depths
    <3>4. Len(stack[c]) + 1 - k \in 1 .. Len(stack[c])
      BY <3>3
    <3> QED
      BY <3>2, <3>4 DEF FrameAt, p
  <2> QED
    BY <2>2, <2>3, <2>4
<1> QED
  BY <1>2, <1>3 DEF TreeIsKept

\* The tree of processes is the same from both sides, and a process outlives its
\* supervisor only while the children of the supervisor are being killed.  The
\* callers keep to what the registry does not look after: they attach no child of
\* another supervisor, and none to a process that has not run yet.
THEOREM TreeTheorem ==
  ASSUME ~AdoptsSupervised, ~ParentsMayBeStarting
  PROVE  Spec => []TreeIsKept
<1>1. Init => IInv /\ Indexed /\ Budgeted /\ Treed
  BY InitIInv, InitIndexed, InitBudgeted, InitTreed
<1>2. IInv /\ Indexed /\ Budgeted /\ Treed /\ [Next]_vars =>
        (IInv /\ Indexed /\ Budgeted /\ Treed)'
  BY StepKeeps, StepIndexed, StepBudgeted, StepTreed DEF Keeps
<1>3. IInv /\ Indexed /\ Budgeted /\ Treed => TreeIsKept
  BY TreedIsKept DEF IInv
<1> QED
  BY <1>1, <1>2, <1>3, PTL DEF Spec

\* Names, mailboxes and lists of children lead to the processes that are there,
\* for callers that keep to the same.
THEOREM IndexesTheorem ==
  ASSUME ~AdoptsSupervised, ~ParentsMayBeStarting
  PROVE  Spec => []IndexesFollowProcesses
<1>1. TreeIsKept /\ NamesFollowProcesses => IndexesFollowProcesses
  BY DEF TreeIsKept, IndexesFollowProcesses
<1>2. Spec => []TreeIsKept
  BY TreeTheorem
<1> QED
  BY <1>1, <1>2, NamesTheorem, PTL

-----------------------------------------------------------------------------
(* Permanent children: the invariant *)

\* A process that is being killed, or was.
Doomed(r, p) == r[p].state \in {"stopping", "killed"}
Ended(r, p) == r[p].state \in {"exited", "crashed"}

\* A kill that is past its guard has doomed its process, and cancels the task
\* of a process that is doomed.
Dooms(f, r) ==
  Past(f) => Doomed(r, f.pid) /\ (f.at # "await" => f.aux \in Pid /\ Doomed(r, f.aux))
AllDoom(st, r) ==
  \A c \in Coroutine : \A k \in 1 .. Len(st[c]) : Dooms(FrameAt(st[c], k), r)

\* Only the tasks of doomed processes are cancelled, and a process that is
\* stopping was told to.
CancelsDoomed(can, r) == \A p \in Pid : can[p] => Doomed(r, p)
Asked(r) == \A p \in Pid : r[p].state = "stopping" => r[p].stop

\* Whoever is in a list of children has that parent and was not killed.
Listed(r) ==
  \A x, q \in Pid : q \in Members(r[x].children) => r[q].parent = x /\ r[q].state # "killed"

\* The child q has ended, and its supervisor s would start it again.
Wanting(r, s, q) ==
  /\ Up(r, s) /\ ~r[s].escalated
  /\ q \in Members(r[s].children)
  /\ Ended(r, q) /\ r[q].policy = "permanent"

\* The frame is that of the handler of q, which has still to restart q under s.
Attends(f, s, q) ==
  /\ f.op = "handle" /\ f.pid = q
  /\ f.at # "children" => f.aux = s /\ f.todo # <<>> /\ Head(f.todo) = q
Owned(st, r) ==
  \A s, q \in Pid : Wanting(r, s, q) => 1 \in 1 .. Len(st[q]) /\ Attends(FrameAt(st[q], 1), s, q)

\* What makes PermanentChildrenAreAttended inductive.
Attended ==
  /\ AllDoom(stack, records)
  /\ CancelsDoomed(cancelled, records)
  /\ Asked(records)
  /\ Listed(records)
  /\ Owned(stack, records)

AttendedNext ==
  /\ AllDoom(stack', records')
  /\ CancelsDoomed(cancelled', records')
  /\ Asked(records')
  /\ Listed(records')
  /\ Owned(stack', records')

LEMMA AttendedPrimed == AttendedNext => Attended'
BY DEF AttendedNext, Attended

\* What is known before a step.
AllAttended == AllKept /\ Attended

-----------------------------------------------------------------------------
(* Permanent children: what the records may do *)

\* From r to t the doomed stay so, nobody ends, no supervisor that was up or has
\* escalated is made new, lists of children lose members and gain living ones,
\* and who is killed leaves them.
Tends(r, t) ==
  \A p \in Pid :
    /\ Doomed(r, p) => Doomed(t, p)
    /\ r[p].state # "none" => t[p].state # "none"
    /\ t[p].state = "stopping" /\ ~t[p].stop => r[p].state = "stopping" /\ ~r[p].stop
    /\ Ended(t, p) => t[p].state = r[p].state /\ t[p].policy = r[p].policy
    /\ Up(t, p) /\ ~t[p].escalated => r[p].state = "none" \/ (Up(r, p) /\ ~r[p].escalated)
    /\ t[p].state = "killed" =>
         r[p].state = "killed" \/ \A x \in Pid : p \notin Members(t[x].children)
    /\ \A q \in Pid : q \in Members(t[p].children) =>
         \/ q \in Members(r[p].children) /\ t[q].parent = r[q].parent
         \/ t[q].parent = p /\ t[q].state \notin Terminal

LEMMA TendsItself == ASSUME NEW r PROVE Tends(r, r)
BY DEF Tends

LEMMA TendsTrans ==
  ASSUME NEW r, NEW t, NEW u, Tends(r, t), Tends(t, u) PROVE Tends(r, u)
<1> SUFFICES ASSUME NEW p \in Pid
             PROVE  /\ Doomed(r, p) => Doomed(u, p)
                    /\ r[p].state # "none" => u[p].state # "none"
                    /\ u[p].state = "stopping" /\ ~u[p].stop =>
                         r[p].state = "stopping" /\ ~r[p].stop
                    /\ Ended(u, p) => u[p].state = r[p].state /\ u[p].policy = r[p].policy
                    /\ Up(u, p) /\ ~u[p].escalated =>
                         r[p].state = "none" \/ (Up(r, p) /\ ~r[p].escalated)
                    /\ u[p].state = "killed" =>
                         r[p].state = "killed" \/ \A x \in Pid : p \notin Members(u[x].children)
                    /\ \A q \in Pid : q \in Members(u[p].children) =>
                         \/ q \in Members(r[p].children) /\ u[q].parent = r[q].parent
                         \/ u[q].parent = p /\ u[q].state \notin Terminal
  BY DEF Tends
<1>1. /\ Doomed(r, p) => Doomed(u, p)
      /\ r[p].state # "none" => u[p].state # "none"
      /\ u[p].state = "stopping" /\ ~u[p].stop => r[p].state = "stopping" /\ ~r[p].stop
  BY DEF Tends
<1>2. Ended(u, p) => u[p].state = r[p].state /\ u[p].policy = r[p].policy
  BY DEF Tends, Ended
<1>3. Up(u, p) /\ ~u[p].escalated => r[p].state = "none" \/ (Up(r, p) /\ ~r[p].escalated)
  BY DEF Tends
<1>4. ASSUME NEW x \in Pid, u[p].state = "killed", p \in Members(u[x].children)
      PROVE  r[p].state = "killed"
  <2>1. t[p].state = "killed"
    BY <1>4 DEF Tends
  <2>2. p \in Members(t[x].children)
    BY <1>4 DEF Tends, Terminal
  <2> QED
    BY <2>1, <2>2 DEF Tends
<1>5. ASSUME NEW q \in Pid, q \in Members(u[p].children)
      PROVE  \/ q \in Members(r[p].children) /\ u[q].parent = r[q].parent
             \/ u[q].parent = p /\ u[q].state \notin Terminal
  <2>1. CASE u[q].parent = p /\ u[q].state \notin Terminal
    BY <2>1
  <2>2. CASE q \in Members(t[p].children) /\ u[q].parent = t[q].parent
    <3>1. CASE q \in Members(r[p].children) /\ t[q].parent = r[q].parent
      BY <2>2, <3>1
    <3>2. CASE t[q].parent = p /\ t[q].state \notin Terminal
      <4>1. u[q].state # "killed"
        BY <1>5, <3>2 DEF Tends, Terminal
      <4>2. ~Ended(u, q)
        BY <3>2 DEF Tends, Ended, Terminal
      <4> QED
        BY <2>2, <3>2, <4>1, <4>2 DEF Ended, Terminal
    <3> QED
      BY <2>2, <3>1, <3>2 DEF Tends
  <2> QED
    BY <1>5, <2>1, <2>2 DEF Tends
<1> QED
  BY <1>1, <1>2, <1>3, <1>4, <1>5

\* The tree of children stays listed, and nobody comes to want a restart.
LEMMA TendsKeeps ==
  ASSUME NEW r, NEW t, Tends(r, t), Listed(r), NEW tk, Grown(r, tk)
  PROVE  /\ Listed(t)
         /\ Asked(r) => Asked(t)
         /\ \A s, q \in Pid : Wanting(t, s, q) => Wanting(r, s, q)
<1>1. ASSUME NEW x \in Pid, NEW q \in Pid, q \in Members(t[x].children)
      PROVE  t[q].parent = x /\ t[q].state # "killed"
  <2>1. CASE q \in Members(r[x].children) /\ t[q].parent = r[q].parent
    <3>1. r[q].parent = x /\ r[q].state # "killed"
      BY <2>1 DEF Listed
    <3> QED
      BY <1>1, <2>1, <3>1 DEF Tends
  <2>2. CASE t[q].parent = x /\ t[q].state \notin Terminal
    BY <2>2 DEF Terminal
  <2> QED
    BY <1>1, <2>1, <2>2 DEF Tends
<1>2. Asked(r) => Asked(t)
  BY DEF Tends, Asked
<1>3. ASSUME NEW s \in Pid, NEW q \in Pid, Wanting(t, s, q) PROVE Wanting(r, s, q)
  <2>1. Ended(r, q) /\ r[q].policy = "permanent"
    BY <1>3 DEF Tends, Wanting, Ended
  <2>2. q \in Members(r[s].children)
    BY <1>3 DEF Tends, Wanting, Ended, Terminal
  <2>3. r[s].state # "none"
    BY <2>2 DEF Listed, Grown
  <2>4. Up(r, s) /\ ~r[s].escalated
    BY <1>3, <2>3 DEF Tends, Wanting
  <2> QED
    BY <2>1, <2>2, <2>4 DEF Wanting
<1> QED
  BY <1>1, <1>2, <1>3 DEF Listed

\* Doomed processes stay so, so that what is said of a call still holds.
LEMMA DoomsKept ==
  ASSUME NEW r, NEW t, Tends(r, t), NEW f \in Fields, Dooms(f, r) PROVE Dooms(f, t)
<1>1. f.pid \in Pid
  BY DEF Fields
<1> QED
  BY <1>1 DEF Dooms, Tends

\* A step in which only the innermost call of c changes, or what it calls.
LEMMA AttendedMoved ==
  ASSUME AllAttended, Tends(records, records'), NEW c \in Coroutine, Moves(c),
         \A k \in 1 .. Len(stack'[c]) : k \notin 1 .. Len(stack[c]) - 1 =>
           Dooms(FrameAt(stack'[c], k), records'),
         CancelsDoomed(cancelled', records'),
         stack[c] # <<>> /\ Top(c).op = "handle" =>
           \A s \in Pid : Wanting(records', s, c) /\ Attends(Top(c), s, c) =>
             1 \in 1 .. Len(stack'[c]) /\ Attends(FrameAt(stack'[c], 1), s, c)
  PROVE  AttendedNext
<1> USE DEF AllAttended, AllKept, IInv
<1>1. /\ Listed(records') /\ Asked(records')
      /\ \A s, q \in Pid : Wanting(records', s, q) => Wanting(records, s, q)
  <2>1. Listed(records) /\ Asked(records) /\ Grown(records, task)
    BY DEF Attended, Treed
  <2> QED
    BY <2>1, TendsKeeps
<1>2. ASSUME NEW d \in Coroutine, NEW k \in 1 .. Len(stack'[d])
      PROVE  Dooms(FrameAt(stack'[d], k), records')
  <2>1. ASSUME k \in 1 .. Len(stack[d]), FrameAt(stack'[d], k) = FrameAt(stack[d], k)
        PROVE  Dooms(FrameAt(stack'[d], k), records')
    <3>1. FrameAt(stack[d], k) \in Fields
      BY <2>1, Depths
    <3>2. Dooms(FrameAt(stack[d], k), records)
      BY <2>1 DEF Attended, AllDoom
    <3> QED
      BY <2>1, <3>1, <3>2, DoomsKept
  <2>2. CASE d # c
    <3>1. stack'[d] = stack[d]
      BY <2>2 DEF Moves, Elsewhere
    <3> QED
      BY <2>1, <3>1
  <2>3. CASE d = c /\ k \in 1 .. Len(stack[c]) - 1
    <3>1. Len(stack[c]) \in Nat /\ FrameAt(stack'[c], k) = FrameAt(stack[c], k)
      BY <2>3, Depths DEF Moves
    <3>2. k \in 1 .. Len(stack[c])
      BY <2>3, <3>1
    <3> QED
      BY <2>1, <2>3, <3>1, <3>2
  <2>4. CASE d = c /\ k \notin 1 .. Len(stack[c]) - 1
    BY <2>4
  <2> QED
    BY <2>2, <2>3, <2>4
<1>3. ASSUME NEW s \in Pid, NEW q \in Pid, Wanting(records', s, q)
      PROVE  1 \in 1 .. Len(stack'[q]) /\ Attends(FrameAt(stack'[q], 1), s, q)
  <2>1. 1 \in 1 .. Len(stack[q]) /\ Attends(FrameAt(stack[q], 1), s, q)
    BY <1>1, <1>3 DEF Attended, Owned
  <2>2. CASE q # c
    <3>1. stack'[q] = stack[q]
      BY <2>2 DEF Moves, Elsewhere, Coroutine
    <3> QED
      BY <2>1, <3>1
  <2>3. CASE q = c
    <3>1. /\ Len(stack[c]) \in Nat /\ stack[c] # <<>>
          /\ FrameAt(stack[c], Len(stack[c])) = Top(c)
      BY <2>1, <2>3, Depths
    <3>2. CASE Len(stack[c]) = 1
      <4>1. Attends(Top(c), s, c)
        BY <2>1, <2>3, <3>1, <3>2
      <4> QED
        BY <1>3, <2>3, <3>1, <4>1 DEF Attends
    <3>3. CASE Len(stack[c]) # 1
      <4>1. 1 \in 1 .. Len(stack[c]) - 1
        <5>1. 1 \in 1 .. Len(stack[c])
          BY <2>1, <2>3
        <5> DEFINE n == Len(stack[c])
        <5>2. n \in Nat /\ n # 1 /\ 1 \in 1 .. n
          BY <3>1, <3>3, <5>1
        <5> HIDE DEF n
        <5>3. 1 \in 1 .. n - 1
          BY <5>2
        <5> QED
          BY <5>3 DEF n
      <4>2. FrameAt(stack'[c], 1) = FrameAt(stack[c], 1) /\ 1 \in 1 .. Len(stack'[c])
        BY <4>1 DEF Moves
      <4> QED
        BY <2>1, <2>3, <4>2
    <3> QED
      BY <3>2, <3>3
  <2> QED
    BY <2>2, <2>3
<1> QED
  BY <1>1, <1>2, <1>3 DEF AttendedNext, AllDoom, Owned

\* What the lemmas about stacks share.
AttendedSoFar ==
  AllAttended /\ Tends(records, records') /\ CancelsDoomed(cancelled', records')

LEMMA WentAttended ==
  ASSUME AttendedSoFar, NEW c \in Coroutine, stack[c] # <<>>, NEW f, Went(c, f),
         Dooms(f, records'),
         Top(c).op = "handle" =>
           \A s \in Pid : Wanting(records', s, c) /\ Attends(Top(c), s, c) => Attends(f, s, c)
  PROVE  AttendedNext
<1> USE DEF AttendedSoFar, AllAttended, AllKept, IInv
<1>1. Len(stack[c]) \in Nat /\ Len(stack[c]) \in 1 .. Len(stack[c])
  BY Depths
<1>2. /\ Elsewhere(c) /\ Len(stack'[c]) = Len(stack[c])
      /\ \A k \in 1 .. Len(stack[c]) :
           FrameAt(stack'[c], k) = IF k = Len(stack[c]) THEN f ELSE FrameAt(stack[c], k)
  BY DEF Went
<1>3. Moves(c)
  BY <1>1, <1>2 DEF Moves
<1>4. \A k \in 1 .. Len(stack'[c]) : k \notin 1 .. Len(stack[c]) - 1 =>
        Dooms(FrameAt(stack'[c], k), records')
  <2> SUFFICES ASSUME NEW k \in 1 .. Len(stack'[c]), k \notin 1 .. Len(stack[c]) - 1
               PROVE  Dooms(FrameAt(stack'[c], k), records')
    OBVIOUS
  <2>1. k = Len(stack[c])
    BY <1>1, <1>2
  <2> QED
    BY <1>1, <1>2, <2>1
<1>5. Top(c).op = "handle" => Len(stack[c]) = 1
  BY HandlerAlone
<1>6. Top(c).op = "handle" =>
        \A s \in Pid : Wanting(records', s, c) /\ Attends(Top(c), s, c) =>
          1 \in 1 .. Len(stack'[c]) /\ Attends(FrameAt(stack'[c], 1), s, c)
  BY <1>1, <1>2, <1>5
<1> QED
  BY <1>3, <1>4, <1>6, AttendedMoved

LEMMA CalledAttended ==
  ASSUME AttendedSoFar, NEW c \in Coroutine, stack[c] # <<>>, NEW f, NEW g, Called(c, f, g),
         Dooms(f, records'), g.at = "enter",
         Top(c).op = "handle" =>
           \A s \in Pid : Wanting(records', s, c) /\ Attends(Top(c), s, c) => Attends(f, s, c)
  PROVE  AttendedNext
<1> USE DEF AttendedSoFar, AllAttended, AllKept, IInv
<1>1. Len(stack[c]) \in Nat /\ Len(stack[c]) \in 1 .. Len(stack[c])
  BY Depths
<1>2. /\ Elsewhere(c) /\ Len(stack'[c]) = Len(stack[c]) + 1
      /\ \A k \in 1 .. Len(stack[c]) :
           FrameAt(stack'[c], k) = IF k = Len(stack[c]) THEN f ELSE FrameAt(stack[c], k)
      /\ FrameAt(stack'[c], Len(stack[c]) + 1) = g
  BY DEF Called
<1>3. Moves(c)
  BY <1>1, <1>2 DEF Moves
<1>4. \A k \in 1 .. Len(stack'[c]) : k \notin 1 .. Len(stack[c]) - 1 =>
        Dooms(FrameAt(stack'[c], k), records')
  <2> SUFFICES ASSUME NEW k \in 1 .. Len(stack'[c]), k \notin 1 .. Len(stack[c]) - 1
               PROVE  Dooms(FrameAt(stack'[c], k), records')
    OBVIOUS
  <2>1. k = Len(stack[c]) \/ k = Len(stack[c]) + 1
    BY <1>1, <1>2
  <2>2. Dooms(g, records')
    BY DEF Dooms, Past
  <2> QED
    BY <1>1, <1>2, <2>1, <2>2
<1>5. Top(c).op = "handle" => Len(stack[c]) = 1
  BY HandlerAlone
<1>6. Top(c).op = "handle" => 1 \in 1 .. Len(stack'[c]) /\ FrameAt(stack'[c], 1) = f
  <2>1. Len(stack[c]) = 1 => 1 \in 1 .. Len(stack'[c]) /\ FrameAt(stack'[c], 1) = f
    BY <1>1, <1>2
  <2> QED
    BY <1>5, <2>1
<1>7. Top(c).op = "handle" =>
        \A s \in Pid : Wanting(records', s, c) /\ Attends(Top(c), s, c) =>
          1 \in 1 .. Len(stack'[c]) /\ Attends(FrameAt(stack'[c], 1), s, c)
  BY <1>6
<1> QED
  BY <1>3, <1>4, <1>7, AttendedMoved

\* A handler returns when nobody wants the restart any more.
LEMMA ReturnedAttended ==
  ASSUME AttendedSoFar, NEW c \in Coroutine, stack[c] # <<>>, Returned(c),
         Top(c).op = "handle" =>
           \A s \in Pid : ~(Wanting(records', s, c) /\ Attends(Top(c), s, c))
  PROVE  AttendedNext
<1> USE DEF AttendedSoFar, AllAttended, AllKept, IInv
<1>1. Len(stack[c]) \in Nat /\ Len(stack[c]) \in 1 .. Len(stack[c])
  BY Depths
<1>2. /\ Elsewhere(c) /\ Len(stack'[c]) = Len(stack[c]) - 1
      /\ \A k \in 1 .. Len(stack[c]) - 1 : FrameAt(stack'[c], k) = FrameAt(stack[c], k)
  BY DEF Returned
<1>3. Moves(c)
  BY <1>1, <1>2 DEF Moves
<1>4. \A k \in 1 .. Len(stack'[c]) : k \notin 1 .. Len(stack[c]) - 1 =>
        Dooms(FrameAt(stack'[c], k), records')
  BY <1>1, <1>2
<1>5. Top(c).op = "handle" =>
        \A s \in Pid : Wanting(records', s, c) /\ Attends(Top(c), s, c) =>
          1 \in 1 .. Len(stack'[c]) /\ Attends(FrameAt(stack'[c], 1), s, c)
  OBVIOUS
<1> QED
  BY <1>3, <1>4, <1>5, AttendedMoved

LEMMA BeganAttended ==
  ASSUME AttendedSoFar, NEW c \in Coroutine, stack[c] = <<>>, NEW f, Began(c, f),
         f.at = "enter"
  PROVE  AttendedNext
<1> USE DEF AttendedSoFar, AllAttended, AllKept, IInv
<1>1. Elsewhere(c) /\ Len(stack[c]) = 0 /\ Len(stack'[c]) = 1 /\ FrameAt(stack'[c], 1) = f
  BY DEF Began
<1>2. Moves(c)
  BY <1>1 DEF Moves
<1>3. Dooms(f, records')
  BY DEF Dooms, Past
<1>4. \A k \in 1 .. Len(stack'[c]) : k \notin 1 .. Len(stack[c]) - 1 =>
        Dooms(FrameAt(stack'[c], k), records')
  <2>1. \A k \in 1 .. Len(stack'[c]) : k = 1
    BY <1>1
  <2> QED
    BY <1>1, <1>3, <2>1
<1> QED
  BY <1>2, <1>4, AttendedMoved

LEMMA StackStaysAttended ==
  ASSUME AttendedSoFar, UNCHANGED stack PROVE AttendedNext
<1> USE DEF AttendedSoFar, AllAttended, AllKept, IInv
<1>1. /\ Listed(records') /\ Asked(records')
      /\ \A s, q \in Pid : Wanting(records', s, q) => Wanting(records, s, q)
  <2>1. Listed(records) /\ Asked(records) /\ Grown(records, task)
    BY DEF Attended, Treed
  <2> QED
    BY <2>1, TendsKeeps
<1>2. ASSUME NEW d \in Coroutine, NEW k \in 1 .. Len(stack[d])
      PROVE  Dooms(FrameAt(stack[d], k), records')
  <2>1. FrameAt(stack[d], k) \in Fields
    BY Depths
  <2>2. Dooms(FrameAt(stack[d], k), records)
    BY DEF Attended, AllDoom
  <2> QED
    BY <2>1, <2>2, DoomsKept
<1>3. Owned(stack', records')
  BY <1>1 DEF Attended, Owned
<1> QED
  BY <1>1, <1>2, <1>3 DEF AttendedNext, AllDoom

-----------------------------------------------------------------------------
(* Permanent children: steps that leave the lists of children alone *)

LEMMA TopDooms ==
  ASSUME TypeOK, Attended, NEW c \in Coroutine, stack[c] # <<>>
  PROVE  Dooms(Top(c), records)
<1>1. Len(stack[c]) \in 1 .. Len(stack[c]) /\ FrameAt(stack[c], Len(stack[c])) = Top(c)
  BY Depths
<1> QED
  BY <1>1 DEF Attended, AllDoom

\* Nothing is said of calls and tasks but what was said before.
LEMMA QuietAttended ==
  ASSUME AllAttended, UNCHANGED records, \A p \in Pid : cancelled'[p] => cancelled[p]
  PROVE  AttendedSoFar
BY TendsItself DEF AttendedSoFar, AllAttended, Attended, CancelsDoomed, Doomed

\* The only process that comes up is one nobody has begun to kill.
LEMMA StartTaskAttended ==
  ASSUME AllAttended, NEW p \in Pid, StartTask(p) PROVE AttendedNext
<1> USE DEF AllAttended, AllKept, IInv
<1>1. /\ loop = Idle /\ task[p] = "created" /\ ~cancelled[p]
      /\ records' = [records EXCEPT ![p].state = "running"]
      /\ UNCHANGED <<cancelled, stack>>
  BY DEF StartTask
<1>2. CancelsNobody
  BY <1>1, IdleCancelsNobody
<1>3. ~Down(records, p)
  BY <1>1, <1>2 DEF CancelsNobody, Treed, Sentenced
<1>4. Active(p)
  BY <1>1 DEF TasksHaveProcesses
<1>5. Up(records, p)
  BY <1>3, <1>4 DEF Active, Down, Up, Terminal
<1>6. \A q \in Pid : /\ records'[q].state = IF q = p THEN "running" ELSE records[q].state
                     /\ records'[q].stop = records[q].stop
                     /\ records'[q].escalated = records[q].escalated
                     /\ records'[q].policy = records[q].policy
                     /\ records'[q].parent = records[q].parent
                     /\ records'[q].children = records[q].children
  BY <1>1 DEF TypeOK, Record
<1>7. Tends(records, records')
  BY <1>5, <1>6 DEF Tends, Up, Doomed, Ended
<1>8. CancelsDoomed(cancelled', records')
  BY <1>1, <1>7 DEF Attended, CancelsDoomed, Tends
<1> QED
  BY <1>1, <1>7, <1>8, StackStaysAttended DEF AttendedSoFar

LEMMA IdleAttended ==
  ASSUME AllAttended, NEW p \in Pid, TaskNeverRuns(p) \/ BodyStops(p)
  PROVE  AttendedNext
<1> USE DEF AllAttended, AllKept, IInv
<1>1. UNCHANGED <<records, stack>> /\ cancelled' = [cancelled EXCEPT ![p] = FALSE]
  BY DEF TaskNeverRuns, BodyStops, registryVars
<1>2. \A q \in Pid : cancelled'[q] => cancelled[q]
  BY <1>1 DEF TypeOK
<1> QED
  BY <1>1, <1>2, QuietAttended, StackStaysAttended

LEMMA LoopFreedAttended ==
  ASSUME AllAttended, NEW c \in Coroutine, LoopFreed(c) PROVE AttendedNext
<1>1. UNCHANGED <<records, stack, cancelled>>
  BY DEF LoopFreed, registryVars
<1> QED
  BY <1>1, QuietAttended, StackStaysAttended

LEMMA KillRefusedAttended ==
  ASSUME AllAttended, NEW c \in Coroutine, KillRefused(c) PROVE AttendedNext
<1> USE DEF AllAttended, AllKept, IInv
<1>1. /\ stack[c] # <<>> /\ Top(c).op = "kill" /\ Return(c) /\ UNCHANGED <<records, cancelled>>
  BY DEF KillRefused, At, registryVars
<1>2. AttendedSoFar
  BY <1>1, QuietAttended
<1> QED
  BY <1>1, <1>2, ReturnFrames, ReturnedAttended

LEMMA KillEntersAttended ==
  ASSUME AllAttended, NEW c \in Coroutine, KillEnters(c) PROVE AttendedNext
<1> USE DEF AllAttended, AllKept, IInv
<1> DEFINE p == Top(c).pid
           f == [Top(c) EXCEPT !.at = "children", !.todo = records[p].children, !.aux = p]
<1>1. /\ stack[c] # <<>> /\ Top(c).op = "kill" /\ Active(p) /\ Goto(c, f)
      /\ records' = [records EXCEPT ![p].state = "stopping", ![p].stop = TRUE]
      /\ UNCHANGED cancelled
  BY DEF KillEnters, At
<1>2. /\ Top(c) \in Frame /\ Top(c) \in Fields /\ p \in Pid
      /\ records \in Records /\ records[p].children \in Seq(Pid)
  BY <1>1, TopFields DEF TypeOK, Records, Record
<1>3. f \in Frame /\ f.op = "kill" /\ f.pid = p /\ f.at = "children" /\ f.aux = p
  BY <1>1, <1>2 DEF Frame, Fields
<1> HIDE DEF f, p
<1>4. \A q \in Pid : /\ records'[q].state = IF q = p THEN "stopping" ELSE records[q].state
                     /\ records'[q].stop = IF q = p THEN TRUE ELSE records[q].stop
                     /\ records'[q].escalated = records[q].escalated
                     /\ records'[q].policy = records[q].policy
                     /\ records'[q].parent = records[q].parent
                     /\ records'[q].children = records[q].children
  BY <1>1, <1>2 DEF Records, Record
<1>5. Tends(records, records')
  <2>1. \A q \in Pid :
          /\ Doomed(records, q) => Doomed(records', q)
          /\ records[q].state # "none" => records'[q].state # "none"
          /\ records'[q].state = "stopping" /\ ~records'[q].stop =>
               records[q].state = "stopping" /\ ~records[q].stop
          /\ Ended(records', q) => records'[q].state = records[q].state
          /\ Up(records', q) => Up(records, q)
          /\ records'[q].state = "killed" => records[q].state = "killed"
    BY <1>4 DEF Up, Doomed, Ended
  <2> QED
    BY <1>4, <2>1 DEF Tends
<1>6. CancelsDoomed(cancelled', records')
  BY <1>1, <1>5 DEF Attended, CancelsDoomed, Tends
<1>7. Dooms(f, records')
  BY <1>2, <1>3, <1>4 DEF Dooms, Doomed
<1> QED
  BY <1>1, <1>3, <1>5, <1>6, <1>7, GotoFrames, WentAttended DEF AttendedSoFar

LEMMA KillsChildAttended ==
  ASSUME AllAttended, NEW c \in Coroutine, KillsChild(c) PROVE AttendedNext
<1> USE DEF AllAttended, AllKept, IInv
<1> DEFINE f == [Top(c) EXCEPT !.todo = Tail(@)]
           g == NewKill(Head(Top(c).todo), FALSE)
<1>1. /\ stack[c] # <<>> /\ Top(c).at = "children" /\ Top(c).todo # <<>>
      /\ Call(c, f, g) /\ UNCHANGED <<records, cancelled>>
  BY DEF KillsChild, registryVars
<1>2. /\ Top(c) \in Frame /\ Top(c) \in Fields /\ Top(c).todo \in Seq(Pid)
      /\ Head(Top(c).todo) \in Pid
  BY <1>1, TopFields DEF Indexed
<1>3. g \in Frame /\ g.at = "enter"
  BY <1>2, NewFrameTypes DEF NewKill
<1>4. /\ f \in Frame /\ f.op = Top(c).op /\ f.pid = Top(c).pid /\ f.at = "children"
      /\ f.aux = Top(c).aux
  BY <1>1, <1>2, HeadTailProperties DEF Frame, Fields
<1> HIDE DEF f, g
<1>5. AttendedSoFar
  BY <1>1, QuietAttended
<1>6. Dooms(Top(c), records)
  BY <1>1, TopDooms
<1>7. Dooms(f, records')
  BY <1>1, <1>4, <1>6 DEF Dooms, Past
<1>8. \A s \in Pid : Attends(Top(c), s, c) => Attends(f, s, c)
  BY <1>4 DEF Attends
<1> QED
  BY <1>1, <1>3, <1>4, <1>5, <1>7, <1>8, CallFrames, CalledAttended

\* What is cancelled is the task of a process that is doomed.
LEMMA KillCancelsAttended ==
  ASSUME AllAttended, NEW c \in Coroutine, KillCancels(c) PROVE AttendedNext
<1> USE DEF AllAttended, AllKept, IInv
<1> DEFINE u == Top(c).aux
           f == [Top(c) EXCEPT !.at = "cancel", !.aux = Top(u).pid]
           g == [Top(c) EXCEPT !.at = "await"]
<1>1. /\ stack[c] # <<>> /\ Top(c).op = "kill" /\ Top(c).at \in {"children", "cancel"}
      /\ UNCHANGED records
      /\ \/ u \in Pid /\ At(u, "kill", "await") /\ Goto(c, f) /\ UNCHANGED cancelled
         \/ Goto(c, g) /\ cancelled' = [cancelled EXCEPT ![u] = task[u] # "done"]
  BY DEF KillCancels, At, registryVars
<1>2. Top(c) \in Frame /\ Top(c) \in Fields /\ Top(c).pid \in Pid
  BY <1>1, TopFields DEF Fields
<1>3. Doomed(records, Top(c).pid) /\ u \in Pid /\ Doomed(records, u)
  BY <1>1, TopDooms DEF Dooms, Past
<1>4. CASE At(u, "kill", "await") /\ Goto(c, f) /\ UNCHANGED cancelled
  <2>1. u \in Coroutine /\ stack[u] # <<>> /\ Top(u).op = "kill" /\ Top(u).at = "await"
    BY <1>3, <1>4 DEF At, Coroutine
  <2>2. Top(u).pid \in Pid /\ Doomed(records, Top(u).pid)
    BY <2>1, TopFields, TopDooms DEF Dooms, Past
  <2>3. /\ f \in Frame /\ f.op = "kill" /\ f.pid = Top(c).pid /\ f.at = "cancel"
        /\ f.aux = Top(u).pid
    BY <1>1, <1>2, <2>2 DEF Frame, Fields
  <2> HIDE DEF f, g, u
  <2>4. Dooms(f, records')
    BY <1>1, <1>3, <2>2, <2>3 DEF Dooms, Doomed
  <2>5. AttendedSoFar
    BY <1>1, <1>4, QuietAttended
  <2> QED
    BY <1>1, <1>4, <2>3, <2>4, <2>5, GotoFrames, WentAttended
<1>5. CASE Goto(c, g) /\ cancelled' = [cancelled EXCEPT ![u] = task[u] # "done"]
  <2>1. g \in Frame /\ g.op = "kill" /\ g.pid = Top(c).pid /\ g.at = "await"
    BY <1>1, <1>2 DEF Frame, Fields
  <2> HIDE DEF f, g, u
  <2>2. Dooms(g, records')
    BY <1>1, <1>3, <2>1 DEF Dooms, Doomed
  <2>3. CancelsDoomed(cancelled', records')
    <3> SUFFICES ASSUME NEW p \in Pid, cancelled'[p] PROVE Doomed(records', p)
      BY DEF CancelsDoomed
    <3>1. CASE p = u
      BY <1>1, <1>3, <3>1 DEF Doomed
    <3>2. CASE p # u
      <4>1. cancelled[p]
        BY <1>5, <3>2 DEF TypeOK
      <4> QED
        BY <1>1, <4>1 DEF Attended, CancelsDoomed, Doomed
    <3> QED
      BY <3>1, <3>2
  <2>4. AttendedSoFar
    BY <1>1, <2>3, TendsItself DEF AttendedSoFar
  <2> QED
    BY <1>1, <1>5, <2>1, <2>2, <2>4, GotoFrames, WentAttended
<1> QED
  BY <1>1, <1>4, <1>5

LEMMA KillAttended ==
  ASSUME AllAttended, NEW c \in Client, NEW p \in Pid, Kill(c, p) PROVE AttendedNext
<1> USE DEF AllAttended, AllKept, IInv
<1> DEFINE f == NewKill(p, TRUE)
<1>1. /\ c \in Coroutine /\ stack[c] = <<>>
      /\ stack' = [stack EXCEPT ![c] = <<f>>] /\ UNCHANGED <<records, cancelled>>
  BY DEF Kill, Calls, Coroutine, registryVars
<1>2. f.at = "enter"
  BY DEF NewKill
<1> HIDE DEF f
<1>3. AttendedSoFar
  BY <1>1, QuietAttended
<1> QED
  BY <1>1, <1>2, <1>3, BeginFrames, BeganAttended

\* A handler that goes on in its call, returns from it, or has a process killed.
LEMMA HandlerNextAttended ==
  ASSUME AllAttended, NEW c \in Pid, HandlerNext(c) PROVE AttendedNext
<1> USE DEF AllAttended, AllKept, IInv
<1> DEFINE e == [Top(c) EXCEPT !.todo = Tail(@)]
           g == [Top(c) EXCEPT !.at = "backoff"]
           h == [Top(c) EXCEPT !.at = "check"]
<1>1. /\ c \in Coroutine /\ stack[c] # <<>> /\ Top(c).op = "handle" /\ Top(c).at = "next"
      /\ \/ Top(c).todo = <<>> /\ Return(c)
         \/ Top(c).todo # <<>> /\ ~PolicyAllows(Head(Top(c).todo), c) /\ Goto(c, e)
         \/ Top(c).todo # <<>> /\ (Goto(c, g) \/ Goto(c, h))
      /\ UNCHANGED <<records, cancelled>>
  BY DEF HandlerNext, At, Coroutine, registryVars
<1>2. Top(c) \in Frame /\ Top(c) \in Fields /\ Top(c).todo \in Seq(Pid)
  BY <1>1, TopFields
<1>3. AttendedSoFar
  BY <1>1, QuietAttended
<1>4. \A f : f.op = "handle" => Dooms(f, records')
  BY DEF Dooms, Past
<1>5. CASE Top(c).todo = <<>> /\ Return(c)
  <2>1. \A s \in Pid : ~Attends(Top(c), s, c)
    BY <1>1, <1>5 DEF Attends
  <2> QED
    BY <1>1, <1>3, <1>5, <2>1, ReturnFrames, ReturnedAttended
<1>6. CASE Top(c).todo # <<>> /\ ~PolicyAllows(Head(Top(c).todo), c) /\ Goto(c, e)
  <2>1. e \in Frame /\ e.op = "handle"
    BY <1>1, <1>2, <1>6, HeadTailProperties DEF Frame, Fields
  <2>2. \A s \in Pid : ~(Wanting(records', s, c) /\ Attends(Top(c), s, c))
    BY <1>1, <1>6 DEF Attends, Wanting, PolicyAllows
  <2> HIDE DEF e
  <2> QED
    BY <1>1, <1>3, <1>4, <1>6, <2>1, <2>2, GotoFrames, WentAttended
<1>7. CASE Top(c).todo # <<>> /\ Goto(c, g)
  <2>1. g \in Frame /\ g.op = "handle"
    BY <1>1, <1>2, <1>7 DEF Frame, Fields
  <2>2. \A s \in Pid : Attends(Top(c), s, c) => Attends(g, s, c)
    BY <1>1, <1>2 DEF Attends, Fields
  <2> HIDE DEF g
  <2> QED
    BY <1>1, <1>3, <1>4, <1>7, <2>1, <2>2, GotoFrames, WentAttended
<1>8. CASE Top(c).todo # <<>> /\ Goto(c, h)
  <2>1. h \in Frame /\ h.op = "handle"
    BY <1>1, <1>2, <1>8 DEF Frame, Fields
  <2>2. \A s \in Pid : Attends(Top(c), s, c) => Attends(h, s, c)
    BY <1>1, <1>2 DEF Attends, Fields
  <2> HIDE DEF h
  <2> QED
    BY <1>1, <1>3, <1>4, <1>8, <2>1, <2>2, GotoFrames, WentAttended
<1> HIDE DEF e, g, h
<1> QED
  BY <1>1, <1>5, <1>6, <1>7, <1>8

\* A handler that is cancelled in the backoff is that of a process somebody kills.
LEMMA HandlerWakesAttended ==
  ASSUME AllAttended, NEW c \in Pid, HandlerWakes(c) PROVE AttendedNext
<1> USE DEF AllAttended, AllKept, IInv
<1> DEFINE h == [Top(c) EXCEPT !.at = "check"]
<1>1. /\ c \in Coroutine /\ stack[c] # <<>> /\ Top(c).op = "handle" /\ Top(c).at = "backoff"
      /\ (cancelled[c] /\ Return(c)) \/ Goto(c, h)
      /\ UNCHANGED records /\ cancelled' = [cancelled EXCEPT ![c] = FALSE]
  BY DEF HandlerWakes, At, Coroutine, registryVars
<1>2. Top(c) \in Frame /\ Top(c) \in Fields
  BY <1>1, TopFields
<1>3. \A p \in Pid : cancelled'[p] => cancelled[p]
  BY <1>1 DEF TypeOK
<1>4. AttendedSoFar
  BY <1>1, <1>3, QuietAttended
<1>5. CASE cancelled[c] /\ Return(c)
  <2>1. \A s \in Pid : ~Wanting(records', s, c)
    BY <1>1, <1>5 DEF Attended, CancelsDoomed, Doomed, Wanting, Ended
  <2> QED
    BY <1>1, <1>4, <1>5, <2>1, ReturnFrames, ReturnedAttended
<1>6. CASE Goto(c, h)
  <2>1. h \in Frame /\ h.op = "handle"
    BY <1>1, <1>2 DEF Frame, Fields
  <2>2. \A s \in Pid : Attends(Top(c), s, c) => Attends(h, s, c)
    BY <1>1, <1>2 DEF Attends, Fields
  <2> HIDE DEF h
  <2>3. Dooms(h, records')
    BY <2>1 DEF Dooms, Past
  <2> QED
    BY <1>1, <1>4, <1>6, <2>1, <2>2, <2>3, GotoFrames, WentAttended
<1> QED
  BY <1>1, <1>5, <1>6

LEMMA HandlerChecksAttended ==
  ASSUME AllAttended, NEW c \in Pid, HandlerChecks(c) PROVE AttendedNext
<1> USE DEF AllAttended, AllKept, IInv
<1> DEFINE f == [Top(c) EXCEPT !.at = "restart"]
           q == Head(Top(c).todo)
           g == NewKill(q, FALSE)
           sup == Top(c).aux
<1>1. /\ c \in Coroutine /\ stack[c] # <<>> /\ Top(c).op = "handle" /\ Top(c).at = "check"
      /\ \/ (~Live(sup) \/ records[q].parent # sup) /\ Return(c)
         \/ Goto(c, f) \/ Call(c, f, g)
      /\ UNCHANGED <<records, cancelled>>
  BY DEF HandlerChecks, At, Coroutine, registryVars
<1>2. Top(c) \in Frame /\ Top(c) \in Fields /\ q \in Pid
  BY <1>1, TopFields DEF Indexed, Frame
<1>3. g \in Frame /\ g.at = "enter"
  BY <1>2, NewFrameTypes DEF NewKill
<1>4. f \in Frame /\ f.op = "handle"
  BY <1>1, <1>2 DEF Frame, Fields
<1>5. \A s \in Pid : Attends(Top(c), s, c) => Attends(f, s, c)
  BY <1>1, <1>2 DEF Attends, Fields
<1>6. AttendedSoFar
  BY <1>1, QuietAttended
<1> HIDE DEF f, g
<1>7. Dooms(f, records')
  BY <1>4 DEF Dooms, Past
<1>8. CASE (~Live(sup) \/ records[q].parent # sup) /\ Return(c)
  <2>1. ASSUME NEW s \in Pid, Wanting(records', s, c), Attends(Top(c), s, c) PROVE FALSE
    <3>1. s = sup /\ c = q
      BY <1>1, <2>1 DEF Attends
    <3>2. Up(records, s) /\ records[c].parent = s
      BY <1>1, <2>1 DEF Wanting, Up, Attended, Listed
    <3> HIDE DEF sup, q
    <3> QED
      BY <1>8, <3>1, <3>2, PidsAreSome DEF Live, Up
  <2> QED
    BY <1>1, <1>6, <1>8, <2>1, ReturnFrames, ReturnedAttended
<1>9. CASE Goto(c, f)
  BY <1>1, <1>4, <1>5, <1>6, <1>7, <1>9, GotoFrames, WentAttended
<1>10. CASE Call(c, f, g)
  BY <1>1, <1>3, <1>4, <1>5, <1>6, <1>7, <1>10, CallFrames, CalledAttended
<1> QED
  BY <1>1, <1>8, <1>9, <1>10

-----------------------------------------------------------------------------
(* Permanent children: steps in which a process ends or leaves the tree *)

\* The handler of a process that has just ended attends to it.
LEMMA BodyEndsAttended ==
  ASSUME AllAttended, NEW p \in Pid, task[p] = "body", records[p].state # "stopping",
         NEW end \in {"exited", "crashed"}, BodyEnds(p, end)
  PROVE  AttendedNext
<1> USE DEF AllAttended, AllKept, IInv
<1> DEFINE f == NewHandler(p)
<1>1. /\ p \in Coroutine
      /\ records' = [Cleaned(records, p) EXCEPT ![p].state = end]
      /\ cancelled' = [cancelled EXCEPT ![p] = FALSE]
      /\ stack' = [stack EXCEPT ![p] = <<f>>]
  BY DEF BodyEnds, Coroutine
<1>2. f.op = "handle" /\ f.pid = p /\ f.at = "children"
  BY DEF NewHandler
<1> HIDE DEF f
<1>3. stack[p] = <<>>
  BY DEF HandlersHaveTasks
<1>4. /\ \A d \in Coroutine : d # p => stack'[d] = stack[d]
      /\ Len(stack'[p]) = 1 /\ FrameAt(stack'[p], 1) = f
  BY <1>1, <1>3, BeginFrames DEF Began, Elsewhere
<1>5. \A q \in Pid : /\ records'[q].state = IF q = p THEN end ELSE records[q].state
                     /\ records'[q].stop = records[q].stop
                     /\ records'[q].escalated = records[q].escalated
                     /\ records'[q].policy = records[q].policy
                     /\ records'[q].parent = records[q].parent
                     /\ records'[q].children = records[q].children
  BY <1>1 DEF TypeOK, Record, Cleaned
<1>6. Active(p)
  BY DEF TasksHaveProcesses
<1>7. ~Doomed(records, p)
  BY <1>6 DEF Doomed, Active
<1>8. \A q \in Pid : Doomed(records, q) => Doomed(records', q)
  BY <1>5, <1>7 DEF Doomed
<1>9. AllDoom(stack', records')
  <2> SUFFICES ASSUME NEW d \in Coroutine, NEW k \in 1 .. Len(stack'[d])
               PROVE  Dooms(FrameAt(stack'[d], k), records')
    BY DEF AllDoom
  <2>1. CASE d = p
    <3>1. k = 1
      <4>1. Len(stack'[d]) = 1
        BY <1>4, <2>1
      <4> QED
        BY ONLY <4>1, k \in 1 .. Len(stack'[d])
    <3> QED
      BY <1>2, <1>4, <2>1, <3>1 DEF Dooms, Past
  <2>2. CASE d # p
    <3>1. stack'[d] = stack[d]
      BY <1>4, <2>2
    <3>2. FrameAt(stack[d], k) \in Fields /\ Dooms(FrameAt(stack[d], k), records)
      BY <3>1, Depths DEF Attended, AllDoom
    <3>3. FrameAt(stack[d], k).pid \in Pid
      BY <3>2 DEF Fields
    <3> QED
      BY <1>8, <3>1, <3>2, <3>3 DEF Dooms
  <2> QED
    BY <2>1, <2>2
<1>10. CancelsDoomed(cancelled', records')
  <2>1. \A q \in Pid : cancelled'[q] => cancelled[q]
    BY <1>1 DEF TypeOK
  <2> QED
    BY <1>8, <2>1 DEF Attended, CancelsDoomed
<1>11. Asked(records')
  BY <1>5 DEF Attended, Asked
<1>12. Listed(records')
  BY <1>5 DEF Attended, Listed
<1>13. ASSUME NEW s \in Pid, NEW q \in Pid, Wanting(records', s, q)
       PROVE  1 \in 1 .. Len(stack'[q]) /\ Attends(FrameAt(stack'[q], 1), s, q)
  <2>1. CASE q = p
    BY <1>2, <1>4, <2>1 DEF Attends
  <2>2. CASE q # p
    <3>1. Wanting(records, s, q)
      BY <1>5, <1>13, <2>2 DEF Wanting, Up, Ended
    <3>2. stack'[q] = stack[q]
      BY <1>4, <2>2 DEF Coroutine
    <3> QED
      BY <3>1, <3>2 DEF Attended, Owned
  <2> QED
    BY <2>1, <2>2
<1> QED
  BY <1>9, <1>10, <1>11, <1>12, <1>13 DEF AttendedNext, Owned

\* A process that was told to stop does not raise any more.
LEMMA BodyReturnsAttended ==
  ASSUME AllAttended, ~StopMayFail, NEW p \in Pid, BodyReturns(p) \/ BodyRaises(p)
  PROVE  AttendedNext
<1>1. task[p] = "body" /\ records[p].state # "stopping"
  BY DEF BodyReturns, BodyRaises, AllAttended, Attended, Asked
<1>2. PICK end \in {"exited", "crashed"} : BodyEnds(p, end)
  BY DEF BodyReturns, BodyRaises
<1> QED
  BY <1>1, <1>2, BodyEndsAttended

\* Without a member, a list in which it is once does not have it.
LEMMA WithoutIsWithout ==
  ASSUME NEW s \in Seq(Pid), NEW x, Distinct(s)
  PROVE  x \notin Members(Without(s, x))
<1>1. CASE x \notin Members(s)
  BY <1>1 DEF Without
<1>2. CASE x \in Members(s)
  <2> DEFINE i == IndexOf(s, x)
             n == Len(s)
             a == SubSeq(s, 1, i - 1)
             b == SubSeq(s, i + 1, n)
  <2>1. n \in Nat /\ i \in 1 .. n /\ s[i] = x
    <3>1. n \in Nat
      BY LenProperties
    <3> QED
      BY <1>2, <3>1, IndexOfMember
  <2>2. Without(s, x) = a \o b
    BY <1>2 DEF Without
  <2>3. /\ a \in Seq(Pid) /\ Len(a) = i - 1
        /\ \A k \in 1 .. i - 1 : a[k] = s[k]
        /\ b \in Seq(Pid) /\ Len(b) = n - i
        /\ \A k \in 1 .. n - i : b[k] = s[i + k]
    <3> HIDE DEF i
    <3>1. a \in Seq(Pid) /\ Len(a) = i - 1 /\ \A k \in 1 .. i - 1 : a[k] = s[k]
      BY <2>1, SubSeqProperties
    <3>2. b \in Seq(Pid) /\ Len(b) = n - i /\ \A k \in 1 .. n - i : b[k] = s[i + k]
      BY <2>1, SubSeqProperties
    <3> QED
      BY <3>1, <3>2
  <2> HIDE DEF a, b, i
  <2>4. /\ Len(a \o b) = (i - 1) + (n - i)
        /\ \A k \in 1 .. (i - 1) + (n - i) :
             (a \o b)[k] = IF k <= i - 1 THEN a[k] ELSE b[k - (i - 1)]
    <3>1. /\ Len(a \o b) = Len(a) + Len(b)
          /\ \A k \in 1 .. Len(a) + Len(b) :
               (a \o b)[k] = IF k <= Len(a) THEN a[k] ELSE b[k - Len(a)]
      BY <2>3, ConcatProperties
    <3> QED
      BY <2>3, <3>1
  <2>5. ASSUME NEW k \in 1 .. Len(a \o b) PROVE (a \o b)[k] # x
    <3>1. k \in 1 .. n - 1
      BY <2>1, <2>4
    <3>2. CASE k <= i - 1
      <4>1. k \in 1 .. i - 1 /\ k \in 1 .. n /\ k # i
        BY <2>1, <3>1, <3>2
      <4>2. (a \o b)[k] = s[k]
        BY <2>1, <2>3, <2>4, <3>1, <3>2, <4>1
      <4> QED
        BY <2>1, <4>1, <4>2 DEF Distinct
    <3>3. CASE ~(k <= i - 1)
      <4>1. k - (i - 1) \in 1 .. n - i /\ k + 1 \in 1 .. n /\ k + 1 # i /\ i + (k - (i - 1)) = k + 1
        BY <2>1, <3>1, <3>3
      <4>2. (a \o b)[k] = s[k + 1]
        BY <2>1, <2>3, <2>4, <3>1, <3>3, <4>1
      <4> QED
        BY <2>1, <4>1, <4>2 DEF Distinct
    <3> QED
      BY <3>2, <3>3
  <2> QED
    BY <2>2, <2>5 DEF Members
<1> QED
  BY <1>1, <1>2

\* Replacing a member takes it out of the list.
LEMMA ReplacedIsReplaced ==
  ASSUME NEW s \in Seq(Pid), NEW old, NEW q \in Pid, q # old, Distinct(s)
  PROVE  old \notin Members(Replaced(s, old, q))
<1>1. Len(s) \in Nat
  BY LenProperties
<1>2. CASE old \in Members(s)
  <2> DEFINE i == IndexOf(s, old)
             u == [s EXCEPT ![i] = q]
  <2>1. i \in 1 .. Len(s) /\ s[i] = old
    BY <1>2, IndexOfMember
  <2> HIDE DEF i
  <2>2. Len(u) = Len(s) /\ \A k \in 1 .. Len(s) : u[k] = IF k = i THEN q ELSE s[k]
    BY <1>1, <2>1, ExceptSeq
  <2>3. \A k \in 1 .. Len(u) : u[k] # old
    BY <2>1, <2>2 DEF Distinct
  <2>4. Replaced(s, old, q) = u
    BY <1>2 DEF Replaced, i
  <2> HIDE DEF u
  <2> QED
    BY <2>3, <2>4 DEF Members
<1>3. CASE old \notin Members(s)
  <2> DEFINE u == Append(s, q)
  <2>1. /\ Len(u) = Len(s) + 1
        /\ \A k \in 1 .. Len(s) : u[k] = s[k]
        /\ u[Len(s) + 1] = q
    BY <1>1, AppendProperties
  <2>2. \A k \in 1 .. Len(s) : s[k] # old
    BY <1>3 DEF Members
  <2> HIDE DEF u
  <2>3. \A k \in 1 .. Len(u) : k \in 1 .. Len(s) \/ k = Len(s) + 1
    BY <1>1, <2>1
  <2>4. \A k \in 1 .. Len(u) : u[k] # old
    BY <2>1, <2>2, <2>3
  <2>5. Replaced(s, old, q) = u
    BY <1>3 DEF Replaced, u
  <2> QED
    BY <2>4, <2>5 DEF Members
<1> QED
  BY <1>2, <1>3

\* Who is listed by its parent only, once, leaves the lists when it is unlinked.
LEMMA UnlinkedLists ==
  ASSUME NEW r \in Records, Sound(r), NEW p \in Pid,
         \A x \in Pid : p \in Members(r[x].children) => r[p].parent = x
  PROVE  \A x \in Pid : /\ Members(Unlinked(r, p)[x].children) \subseteq Members(r[x].children)
                        /\ p \notin Members(Unlinked(r, p)[x].children)
<1> SUFFICES ASSUME NEW x \in Pid
             PROVE  /\ Members(Unlinked(r, p)[x].children) \subseteq Members(r[x].children)
                    /\ p \notin Members(Unlinked(r, p)[x].children)
  OBVIOUS
<1>1. r[x].children \in Seq(Pid) /\ Distinct(r[x].children)
  BY DEF Records, Record, Sound
<1>2. CASE x = r[p].parent
  BY <1>1, <1>2, UnlinkedFields, WithoutMembers, WithoutIsWithout
<1>3. CASE x # r[p].parent
  <2>1. Unlinked(r, p)[x].children = r[x].children
    BY <1>3, UnlinkedFields
  <2> QED
    BY <1>3, <2>1
<1> QED
  BY <1>2, <1>3

LEMMA UnlinkedEscalated ==
  ASSUME NEW r \in Records, NEW p \in Pid
  PROVE  \A q \in Pid : Unlinked(r, p)[q].escalated = r[q].escalated
<1>1. CASE r[p].parent = None
  BY <1>1 DEF Unlinked
<1>2. CASE r[p].parent # None
  <2>1. r[p].parent \in Pid
    BY <1>2 DEF Records, Record
  <2> QED
    BY <1>2, <2>1 DEF Unlinked, Records, Record
<1> QED
  BY <1>1, <1>2

LEMMA UnlinkedTends ==
  ASSUME NEW r \in Records, Sound(r), Listed(r), NEW p \in Pid
  PROVE  Tends(r, Unlinked(r, p))
<1> DEFINE t == Unlinked(r, p)
<1>1. \A q \in Pid : /\ t[q].state = r[q].state /\ t[q].policy = r[q].policy
                     /\ t[q].stop = r[q].stop /\ t[q].escalated = r[q].escalated
                     /\ q # p => t[q].parent = r[q].parent
  BY UnlinkedFields, UnlinkedEscalated
<1>2. \A x \in Pid : /\ Members(t[x].children) \subseteq Members(r[x].children)
                     /\ p \notin Members(t[x].children)
  BY UnlinkedLists DEF Listed
<1> HIDE DEF t
<1>3. \A x, q \in Pid : q \in Members(t[x].children) =>
        q \in Members(r[x].children) /\ t[q].parent = r[q].parent
  BY <1>1, <1>2
<1>4. Tends(r, t)
  BY <1>1, <1>3 DEF Tends, Doomed, Ended, Up
<1> QED
  BY <1>4 DEF t

\* The children of an ended process lose their parent and their list.
LEMMA OrphanedTends ==
  ASSUME records \in Records, Listed(records), NEW p \in Pid
  PROVE  Tends(records, Orphaned(p))
<1> DEFINE t == Orphaned(p)
<1>1. \A q \in Pid : /\ t[q].state = records[q].state /\ t[q].policy = records[q].policy
                     /\ t[q].stop = records[q].stop
                     /\ t[q].children = IF q = p THEN <<>> ELSE records[q].children
                     /\ t[q].parent = IF q # p /\ q \in Members(records[p].children) THEN None
                                                                    ELSE records[q].parent
  BY OrphanedFields
<1>2. \A q \in Pid : t[q].escalated = records[q].escalated
  BY DEF Orphaned, Records, Record
<1> HIDE DEF t
<1>3. ASSUME NEW x \in Pid, NEW q \in Pid, q \in Members(t[x].children)
      PROVE  q \in Members(records[x].children) /\ t[q].parent = records[q].parent
  <2>1. x # p /\ q \in Members(records[x].children)
    BY <1>1, <1>3, EmptyListMembers
  <2>2. records[q].parent = x
    BY <2>1 DEF Listed
  <2>3. q \notin Members(records[p].children)
    BY <2>1, <2>2 DEF Listed
  <2> QED
    BY <1>1, <2>1, <2>3
<1>4. Tends(records, t)
  BY <1>1, <1>2, <1>3 DEF Tends, Doomed, Ended, Up
<1> QED
  BY <1>4 DEF t

\* What is noted at a supervisor makes nobody want a restart.
LEMMA NotedTends ==
  ASSUME NEW r \in Records, NEW s, NEW h
  PROVE  /\ Tends(r, [r EXCEPT ![s].history = h])
         /\ Tends(r, [r EXCEPT ![s].escalated = TRUE])
         /\ Tends(r, [r EXCEPT ![s].history = h, ![s].escalated = TRUE])
BY DEF Tends, Doomed, Ended, Up, Records, Record

LEMMA KillUnlinksAttended ==
  ASSUME AllAttended, NEW c \in Coroutine, KillUnlinks(c) PROVE AttendedNext
<1> USE DEF AllAttended, AllKept, IInv
<1>1. /\ stack[c] # <<>> /\ Top(c).op = "kill" /\ Return(c)
      /\ records' = Unlinked(records, Top(c).pid) /\ UNCHANGED cancelled
  BY DEF KillUnlinks, At
<1>2. Top(c).pid \in Pid /\ records \in Records /\ Sound(records) /\ Listed(records)
  BY <1>1, TopFields DEF TypeOK, Records, Indexed, Attended
<1>3. Tends(records, records')
  BY <1>1, <1>2, UnlinkedTends
<1>4. CancelsDoomed(cancelled', records')
  BY <1>1, <1>3 DEF Attended, CancelsDoomed, Tends
<1> QED
  BY <1>1, <1>3, <1>4, ReturnFrames, ReturnedAttended DEF AttendedSoFar

\* Unless all children are affected, the failed one is the first.
LEMMA AffectedHead ==
  ASSUME TypeOK, Sound(records), \A n \in Name : Strategy[n] # "one_for_all",
         NEW sup \in Pid, records[sup].state # "none",
         NEW p \in Pid, p \in Members(records[sup].children)
  PROVE  Affected(sup, p) # <<>> /\ Head(Affected(sup, p)) = p
<1> DEFINE list == records[sup].children
<1>1. list \in Seq(Pid) /\ Strategy[records[sup].name] # "one_for_all"
  BY DEF TypeOK, Record, Sound
<1>2. CASE Strategy[records[sup].name] = "one_for_one"
  BY <1>2 DEF Affected
<1>3. CASE Strategy[records[sup].name] # "one_for_one"
  <2> DEFINE i == IndexOf(list, p)
             n == Len(list)
             u == SubSeq(list, i, n)
  <2>1. i \in 1 .. n /\ list[i] = p
    BY <1>1, IndexOfMember
  <2>2. n \in Nat
    BY <1>1, LenProperties
  <2>3. Affected(sup, p) = u
    BY <1>1, <1>3 DEF Affected
  <2> HIDE DEF i
  <2>4. u \in Seq(Pid) /\ Len(u) = n - i + 1 /\ u[1] = list[i]
    BY <1>1, <2>1, <2>2, SubSeqProperties
  <2> HIDE DEF u
  <2>5. u # <<>>
    BY <2>1, <2>2, <2>4, EmptySeq
  <2>6. Head(u) = u[1]
    BY <2>4, <2>5, HeadTailProperties
  <2> QED
    BY <2>1, <2>3, <2>4, <2>5, <2>6
<1> QED
  BY <1>2, <1>3

\* The handler that decides to restart its process has it first on its list; one
\* that does not leaves nobody who wants that.
LEMMA HandlerDecidesAttended ==
  ASSUME AllAttended, \A n \in Name : Strategy[n] # "one_for_all", NEW c \in Pid,
         HandlerDecides(c)
  PROVE  AttendedNext
<1> USE DEF AllAttended, AllKept, IInv
<1> DEFINE sup == records[c].parent
           r == IF Top(c).flag THEN Orphaned(c) ELSE records
           n == Attempts(sup, c)
           f == [Top(c) EXCEPT !.at = "next", !.aux = sup, !.todo = Affected(sup, c)]
<1>1. /\ c \in Coroutine /\ stack[c] # <<>> /\ Top(c).op = "handle" /\ UNCHANGED cancelled
      /\ Top(c).at = "children"
  BY DEF HandlerDecides, At, Coroutine
<1>2. /\ records \in Records /\ Sound(records) /\ Listed(records) /\ Grown(records, task)
      /\ mailboxes \in Indexes /\ Top(c) \in Frame /\ Top(c) \in Fields
  BY <1>1, TopFields DEF TypeOK, Records, Indexes, Indexed, Attended, Treed
<1>3. Orphaned(c) \in Records /\ Sound(Orphaned(c)) /\ Tends(records, Orphaned(c))
  BY <1>2, OrphanedType, OrphanedReshapes, ReshapedIsSound, OrphanedTends
<1>4. r \in Records /\ Sound(r) /\ Tends(records, r)
  BY <1>2, <1>3, TendsItself
<1>5. \/ ~Live(sup) /\ records' = r /\ Return(c)
      \/ records' = Unlinked(r, c) /\ Return(c)
      \/ (\E h : records' = [Unlinked(r, c) EXCEPT ![sup].history = h, ![sup].escalated = TRUE])
           /\ Return(c)
      \/ Live(sup) /\ (\E h : records' = [r EXCEPT ![sup].history = h]) /\ Goto(c, f)
  BY DEF HandlerDecides
<1> HIDE DEF r
<1>6. Listed(r)
  BY <1>2, <1>4, TendsKeeps
<1>7. /\ Unlinked(r, c) \in Records /\ Tends(records, Unlinked(r, c))
      /\ Unlinked(r, c)[c].parent = None
  BY <1>4, <1>6, UnlinkedType, UnlinkedFields, UnlinkedTends, TendsTrans
<1>8. Tends(records, records')
  <2>1. ASSUME NEW h, records' = [Unlinked(r, c) EXCEPT ![sup].history = h,
                                                        ![sup].escalated = TRUE]
        PROVE  Tends(records, records')
    <3>1. Tends(Unlinked(r, c), records')
      BY <1>7, <2>1, NotedTends
    <3> QED
      BY <1>7, <3>1, TendsTrans
  <2>2. ASSUME NEW h, records' = [r EXCEPT ![sup].history = h]
        PROVE  Tends(records, records')
    <3>1. Tends(r, records')
      BY <1>4, <2>2, NotedTends
    <3> QED
      BY <1>4, <3>1, TendsTrans
  <2> QED
    BY <1>4, <1>5, <1>7, <2>1, <2>2
<1>9. AttendedSoFar
  BY <1>1, <1>8 DEF AttendedSoFar, Attended, CancelsDoomed, Tends
<1>10. /\ Listed(records')
       /\ \A s \in Pid : Wanting(records', s, c) => Wanting(records, s, c)
  BY <1>2, <1>8, TendsKeeps
<1>11. ASSUME NEW s \in Pid, Wanting(records', s, c)
       PROVE  s = sup /\ Up(records, s) /\ c \in Members(records[s].children)
  BY <1>2, <1>10, <1>11 DEF Wanting, Listed
<1>12. CASE ~Live(sup) /\ records' = r /\ Return(c)
  <2>1. \A s \in Pid : ~Wanting(records', s, c)
    BY <1>11, <1>12, PidsAreSome DEF Live, Up
  <2> QED
    BY <1>1, <1>9, <1>12, <2>1, ReturnFrames, ReturnedAttended
<1>13. CASE records'[c].parent = None /\ Return(c)
  <2>1. \A s \in Pid : ~Wanting(records', s, c)
    BY <1>10, <1>13, PidsAreSome DEF Wanting, Listed
  <2> QED
    BY <1>1, <1>9, <1>13, <2>1, ReturnFrames, ReturnedAttended
<1>14. CASE Live(sup) /\ Goto(c, f)
  <2>1. sup \in Pid /\ records[sup].state # "none"
    BY <1>2, <1>14 DEF Live, Records, Record
  <2>2. Affected(sup, c) \in Seq(Pid)
    BY <2>1, AttemptsType
  <2>3. /\ f \in Frame /\ f.op = "handle" /\ f.pid = Top(c).pid /\ f.aux = sup
        /\ f.todo = Affected(sup, c)
    BY <1>1, <1>2, <2>1, <2>2 DEF Frame, Fields
  <2> HIDE DEF f
  <2>4. ASSUME NEW s \in Pid, Wanting(records', s, c), Attends(Top(c), s, c)
        PROVE  Attends(f, s, c)
    <3>1. s = sup /\ c \in Members(records[sup].children)
      BY <1>11, <2>4
    <3>2. Affected(sup, c) # <<>> /\ Head(Affected(sup, c)) = c
      BY <1>2, <2>1, <3>1, AffectedHead
    <3> QED
      BY <2>3, <2>4, <3>1, <3>2 DEF Attends
  <2>5. Dooms(f, records')
    BY <2>3 DEF Dooms, Past
  <2> QED
    BY <1>1, <1>9, <1>14, <2>3, <2>4, <2>5, GotoFrames, WentAttended
<1>15. ASSUME NEW h, records' = [Unlinked(r, c) EXCEPT ![sup].history = h,
                                                       ![sup].escalated = TRUE]
       PROVE  records'[c].parent = None
  BY <1>7, <1>15 DEF Records, Record
<1>16. CASE /\ \E h : records' = [Unlinked(r, c) EXCEPT ![sup].history = h,
                                                        ![sup].escalated = TRUE]
            /\ Return(c)
  BY <1>13, <1>15, <1>16
<1>17. CASE records' = Unlinked(r, c) /\ Return(c)
  BY <1>7, <1>13, <1>17
<1> HIDE DEF f
<1> QED
  BY <1>5, <1>12, <1>14, <1>16, <1>17

-----------------------------------------------------------------------------
(* Permanent children: steps in which a process begins or finds a supervisor *)

\* Linking a process leaves what is noted at the others alone.
LEMMA LinkedNotes ==
  ASSUME NEW r \in Records, NEW u, DOMAIN u = Pid, NEW q \in Pid,
         \A p \in Pid : p # q => u[p] = r[p], NEW par \in Pid \cup {None}, NEW old
  PROVE  \A p \in Pid : p # q => /\ Linked(u, par, old, q)[p].stop = r[p].stop
                                 /\ Linked(u, par, old, q)[p].escalated = r[p].escalated
<1>1. CASE par = None
  BY <1>1 DEF Linked
<1>2. CASE par # None
  <2>1. par \in Pid
    BY <1>2
  <2>2. PICK list : Linked(u, par, old, q) = [u EXCEPT ![par].children = list]
    BY <1>2 DEF Linked
  <2> DEFINE t == Linked(u, par, old, q)
  <2> SUFFICES ASSUME NEW p \in Pid, p # q
               PROVE  t[p].stop = r[p].stop /\ t[p].escalated = r[p].escalated
    OBVIOUS
  <2> HIDE DEF t
  <2>3. CASE p = par
    <3>1. t[p] = [u[p] EXCEPT !.children = list] /\ u[p] = r[p]
      BY <2>1, <2>2, <2>3 DEF t
    <3> QED
      BY <3>1 DEF Records, Record
  <2>4. CASE p # par
    BY <2>1, <2>2, <2>4 DEF t
  <2> QED
    BY <2>3, <2>4
<1> QED
  BY <1>1, <1>2

\* What a launch makes of the records r: nothing, or a process begins, and what
\* it replaces leaves the list.
LEMMA LaunchTends ==
  ASSUME TypeOK, NEW r \in Records, Allocated(r), Sound(r), NEW names, NEW boxes,
         NEW n, NEW pol, NEW par \in Pid \cup {None}, NEW old, NEW by,
         par # None => r[par].state # "none",
         Launch(r, names, boxes, n, pol, par, old, by)
  PROVE  /\ Tends(r, records')
         /\ ~Launchable(names, boxes, n) => records' = r
         /\ Launchable(names, boxes, n) /\ old \in Pid /\ r[old].state # "none"
               /\ (\A x \in Pid : old \in Members(r[x].children) => x = par)
             => \A x \in Pid : old \notin Members(records'[x].children)
<1> DEFINE q == nextPid
<1>1. CASE records' = r /\ ~Launchable(names, boxes, n)
  BY <1>1, TendsItself
<1>2. CASE Launched(r, names, boxes, n, pol, par, old, by)
  <2>1. Launchable(names, boxes, n) /\ Added(r, records', q, n, pol, par, old)
    BY <1>2 DEF Launched
  <2>2. q \in Pid /\ records' = Linked([r EXCEPT ![q] = NewRecord(n, pol, par)], par, old, q)
    BY <2>1 DEF Added, Launch, Launchable
  <2> DEFINE t == records'
             u == [r EXCEPT ![q] = NewRecord(n, pol, par)]
  <2>3. \A p \in Pid : p # q => t[p].stop = r[p].stop /\ t[p].escalated = r[p].escalated
    <3>1. t = Linked(u, par, old, q)
      BY <2>2
    <3>2. DOMAIN u = Pid /\ \A p \in Pid : p # q => u[p] = r[p]
      BY DEF Records
    <3> HIDE DEF q, t, u
    <3> QED
      BY <2>2, <3>1, <3>2, LinkedNotes
  <2>4. /\ r[q].state = "none" /\ t[q].state = "starting" /\ t[q].parent = par
        /\ Members(t[q].children) = {}
    BY <2>1, EmptyListMembers DEF Added
  <2>5. \A p \in Pid : p # q =>
          /\ t[p].state = r[p].state /\ t[p].policy = r[p].policy
          /\ t[p].parent = r[p].parent
          /\ t[p].children = IF p = par THEN Replaced(r[p].children, old, q) ELSE r[p].children
    BY <2>1 DEF Added
  <2>6. \A p \in Pid : /\ r[p].children \in Seq(Pid) /\ Distinct(r[p].children)
                       /\ q \notin Members(r[p].children)
    BY <2>4 DEF Records, Record, Sound, Known
  <2> HIDE DEF t, q
  <2>7. \A p \in Pid : p # q => Members(t[p].children) \subseteq
                         Members(r[p].children) \cup (IF p = par THEN {q} ELSE {})
    <3> SUFFICES ASSUME NEW p \in Pid, p # q
                 PROVE  Members(t[p].children) \subseteq
                          Members(r[p].children) \cup (IF p = par THEN {q} ELSE {})
      OBVIOUS
    <3>1. CASE p = par
      BY <2>2, <2>5, <2>6, <3>1, ReplacedMembers
    <3>2. CASE p # par
      <4>1. t[p].children = r[p].children
        BY <2>5, <3>2
      <4> QED
        BY <3>2, <4>1
    <3> QED
      BY <3>1, <3>2
  <2>8. ASSUME NEW p \in Pid, NEW x \in Pid, x \in Members(t[p].children)
        PROVE  \/ x \in Members(r[p].children) /\ t[x].parent = r[x].parent
               \/ t[x].parent = p /\ t[x].state \notin Terminal
    <3>1. p # q
      BY <2>4, <2>8
    <3>2. CASE x = q
      BY <2>4, <2>6, <2>7, <2>8, <3>1, <3>2 DEF Terminal
    <3>3. CASE x # q
      <4>1. x \in Members(r[p].children)
        BY <2>7, <2>8, <3>1, <3>3
      <4> QED
        BY <2>5, <3>3, <4>1
    <3> QED
      BY <3>2, <3>3
  <2>9. ASSUME NEW p \in Pid
        PROVE  /\ Doomed(r, p) => Doomed(t, p)
               /\ r[p].state # "none" => t[p].state # "none"
               /\ t[p].state = "stopping" /\ ~t[p].stop => r[p].state = "stopping" /\ ~r[p].stop
               /\ Ended(t, p) => t[p].state = r[p].state /\ t[p].policy = r[p].policy
               /\ Up(t, p) /\ ~t[p].escalated =>
                    r[p].state = "none" \/ (Up(r, p) /\ ~r[p].escalated)
               /\ t[p].state = "killed" => r[p].state = "killed"
    <3>1. CASE p = q
      BY <2>4, <3>1 DEF Doomed, Ended
    <3>2. CASE p # q
      <4>1. /\ t[p].state = r[p].state /\ t[p].policy = r[p].policy
            /\ t[p].stop = r[p].stop /\ t[p].escalated = r[p].escalated
        BY <2>3, <2>5, <3>2 DEF t
      <4> QED
        BY <4>1 DEF Doomed, Ended, Up
    <3> QED
      BY <3>1, <3>2
  <2>10. Tends(r, t)
    BY <2>8, <2>9 DEF Tends
  <2>11. ASSUME old \in Pid, r[old].state # "none",
                \A x \in Pid : old \in Members(r[x].children) => x = par, NEW x \in Pid
         PROVE  old \notin Members(t[x].children)
    <3>1. CASE x = q
      BY <2>4, <3>1
    <3>2. CASE x # q /\ x = par
      BY <2>2, <2>4, <2>5, <2>6, <2>11, <3>2, ReplacedIsReplaced
    <3>3. CASE x # q /\ x # par
      <4>1. t[x].children = r[x].children
        BY <2>5, <3>3
      <4> QED
        BY <2>11, <3>3, <4>1
    <3> QED
      BY <3>1, <3>2, <3>3
  <2> QED
    BY <2>1, <2>10, <2>11 DEF t
<1>3. \/ records' = r /\ ~Launchable(names, boxes, n)
      \/ Launched(r, names, boxes, n, pol, par, old, by)
  BY LaunchCases DEF LaunchesNothing
<1> QED
  BY <1>1, <1>2, <1>3

\* A step that launches from records r in which nobody comes to want a restart.
LEMMA LaunchAttended ==
  ASSUME AllAttended, NEW r \in Records, Allocated(r), Sound(r), Tends(records, r),
         NEW names, NEW boxes, NEW n, NEW pol, NEW par \in Pid \cup {None}, NEW old, NEW by,
         par # None => r[par].state # "none",
         Launch(r, names, boxes, n, pol, par, old, by), UNCHANGED cancelled
  PROVE  AttendedSoFar
<1>1. TypeOK
  BY DEF AllAttended, AllKept, IInv
<1>2. Tends(r, records')
  BY <1>1, LaunchTends
<1>3. Tends(records, records')
  BY <1>2, TendsTrans
<1>4. CancelsDoomed(cancelled', records')
  BY <1>3 DEF AllAttended, Attended, CancelsDoomed, Tends
<1> QED
  BY <1>3, <1>4 DEF AttendedSoFar

LEMMA RunPathAttended ==
  ASSUME AllAttended, NEW c \in Client, NEW n \in Name, RunPath(c, n)
  PROVE  AttendedNext
<1> USE DEF AllAttended, AllKept, IInv
<1>1. /\ UNCHANGED <<cancelled, stack>>
      /\ Launch(records, byName, mailboxes, n, "permanent", None, None, "caller")
  BY DEF RunPath
<1>2. /\ records \in Records /\ Allocated(records) /\ Sound(records)
      /\ Tends(records, records) /\ None \in Pid \cup {None}
  BY TypeParts, TendsItself DEF RegistryTypes, Indexed
<1>3. AttendedSoFar
  BY <1>1, <1>2, LaunchAttended
<1> QED
  BY <1>1, <1>3, StackStaysAttended

LEMMA SpawnChildAttended ==
  ASSUME AllAttended, NEW c \in Client, NEW par \in Pid, NEW n \in Name,
         SpawnChild(c, par, n)
  PROVE  AttendedNext
<1> USE DEF AllAttended, AllKept, IInv
<1> DEFINE t == [records EXCEPT ![par].escalated = TRUE]
           r == IF Launchable(byName, mailboxes, n) THEN records ELSE t
           pol == ChildPolicy[n]
<1>1. /\ UNCHANGED <<cancelled, stack>> /\ Live(par)
      /\ Launch(r, byName, mailboxes, n, pol, par, None, "caller")
  BY DEF SpawnChild
<1>2. records \in Records /\ Allocated(records) /\ Sound(records) /\ Tends(records, records)
  BY TypeParts, TendsItself DEF RegistryTypes, Indexed
<1>3. t \in Records /\ Allocated(t) /\ Sound(t) /\ \A p \in Pid : t[p].state = records[p].state
  BY EscalatedIsSound
<1>4. Tends(records, t)
  BY <1>2, NotedTends
<1> HIDE DEF t
<1>5. /\ r \in Records /\ Allocated(r) /\ Sound(r) /\ Tends(records, r)
      /\ \A p \in Pid : r[p].state = records[p].state
  BY <1>2, <1>3, <1>4
<1> HIDE DEF r, pol
<1>6. r[par].state # "none"
  BY <1>1, <1>5 DEF Live
<1>7. AttendedSoFar
  BY <1>1, <1>5, <1>6, LaunchAttended
<1> QED
  BY <1>1, <1>7, StackStaysAttended

\* Who is attached was in no list, and lives.
LEMMA MonitorChildAttended ==
  ASSUME AllAttended, ~AdoptsSupervised, NEW c \in Client, NEW par \in Pid, NEW q \in Pid,
         MonitorChild(c, par, q)
  PROVE  AttendedNext
<1> USE DEF AllAttended, AllKept, IInv
<1> DEFINE s == records[par].children
           list == IF q \in Members(s) THEN s ELSE Append(s, q)
<1>1. /\ UNCHANGED <<cancelled, stack>>
      /\ records[q].parent = None /\ q # par /\ Live(q)
      /\ records' = [records EXCEPT ![q].parent = par, ![par].children = list]
  BY DEF MonitorChild
<1>2. records \in Records /\ s \in Seq(Pid)
  BY DEF TypeOK, Records, Record
<1>3. Members(list) \subseteq Members(s) \cup {q}
  <2>1. CASE q \in Members(s)
    BY <2>1
  <2>2. CASE q \notin Members(s)
    <3>1. list = Replaced(s, q, q)
      BY <2>2 DEF Replaced
    <3> HIDE DEF list, s
    <3> QED
      BY <1>2, <2>2, <3>1, ReplacedMembers
  <2> QED
    BY <2>1, <2>2
<1> HIDE DEF list
<1>4. \A p \in Pid :
        /\ records'[p].state = records[p].state /\ records'[p].policy = records[p].policy
        /\ records'[p].stop = records[p].stop /\ records'[p].escalated = records[p].escalated
        /\ records'[p].parent = IF p = q THEN par ELSE records[p].parent
        /\ records'[p].children = IF p = par THEN list ELSE records[p].children
  BY <1>1, <1>2 DEF Records, Record
<1>5. records'[q].parent = par /\ records'[q].state \notin Terminal
  BY <1>1, <1>4 DEF Live, Terminal
<1>6. \A p \in Pid : q \notin Members(records[p].children)
  BY <1>1, PidsAreSome DEF Attended, Listed
<1>7. ASSUME NEW p \in Pid, NEW x \in Pid, x \in Members(records'[p].children)
      PROVE  \/ x \in Members(records[p].children) /\ records'[x].parent = records[x].parent
             \/ records'[x].parent = p /\ records'[x].state \notin Terminal
  <2>1. CASE p = par /\ x = q
    BY <1>5, <2>1
  <2>2. CASE p = par /\ x # q
    <3>1. x \in Members(list)
      BY <1>4, <1>7, <2>2
    <3>2. x \in Members(records[p].children)
      BY <1>3, <2>2, <3>1
    <3> QED
      BY <1>4, <2>2, <3>2
  <2>3. CASE p # par
    <3>1. x \in Members(records[p].children)
      BY <1>4, <1>7, <2>3
    <3> QED
      BY <1>4, <1>6, <3>1
  <2> QED
    BY <2>1, <2>2, <2>3
<1>8. Tends(records, records')
  <2>1. \A p \in Pid :
          /\ Doomed(records, p) => Doomed(records', p)
          /\ Ended(records', p) => records'[p].state = records[p].state
          /\ Up(records', p) => Up(records, p)
    BY <1>4 DEF Doomed, Ended, Up
  <2> QED
    BY <1>4, <1>7, <2>1 DEF Tends
<1>9. CancelsDoomed(cancelled', records')
  BY <1>1, <1>8 DEF Attended, CancelsDoomed, Tends
<1> QED
  BY <1>1, <1>8, <1>9, StackStaysAttended DEF AttendedSoFar

\* What is started again leaves the list of its supervisor; if it cannot be
\* started, the supervisor has escalated.
LEMMA HandlerRestartsAttended ==
  ASSUME AllAttended, NEW c \in Pid, HandlerRestarts(c) PROVE AttendedNext
<1> USE DEF AllAttended, AllKept, IInv
<1> DEFINE q == Head(Top(c).todo)
           n == records[q].name
           pol == records[q].policy
           sup == Top(c).aux
           ok == Launchable(byName, mailboxes, n)
           t == [records EXCEPT ![sup].escalated = TRUE]
           r == IF ok THEN records ELSE t
           f == [Top(c) EXCEPT !.at = "next", !.todo = Tail(@)]
<1>1. /\ c \in Coroutine /\ stack[c] # <<>>
      /\ Top(c).op = "handle" /\ Top(c).at = "restart" /\ UNCHANGED cancelled
      /\ \/ /\ ~Live(sup) /\ Return(c) /\ UNCHANGED records
         \/ /\ Live(sup)
            /\ Launch(r, byName, mailboxes, n, pol, sup, q, "handler")
            /\ IF ok THEN Goto(c, f) ELSE Return(c)
  BY DEF HandlerRestarts, At, Coroutine, registryVars
<1>2. /\ Top(c) \in Frame /\ Top(c) \in Fields /\ Top(c).todo \in Seq(Pid)
      /\ Top(c).todo # <<>> /\ q \in Pid /\ records[q].state # "none"
  BY <1>1, TopFields DEF Indexed, Frame
<1>3. f \in Frame /\ f.op = "handle"
  BY <1>1, <1>2, HeadTailProperties DEF Frame, Fields
<1>4. /\ records \in Records /\ Allocated(records) /\ Sound(records)
      /\ Listed(records) /\ Grown(records, task) /\ Tends(records, records)
  BY TypeParts, TendsItself DEF RegistryTypes, Indexed, Attended, Treed
<1>5. t \in Records /\ Allocated(t) /\ Sound(t) /\ \A p \in Pid : t[p].state = records[p].state
  BY EscalatedIsSound
<1>6. Tends(records, t)
  BY <1>4, NotedTends
<1>7. \A s \in Pid : s = sup => t[s].escalated
  BY <1>4 DEF Records, Record
<1>8. \A s \in Pid : Attends(Top(c), s, c) => s = sup /\ c = q
  BY <1>1 DEF Attends
<1> HIDE DEF t, f
<1>9. /\ r \in Records /\ Allocated(r) /\ Sound(r) /\ Tends(records, r)
      /\ \A p \in Pid : r[p].state = records[p].state
  BY <1>4, <1>5, <1>6
<1>10. (ok => r = records) /\ (~ok => r = t)
  OBVIOUS
<1> HIDE DEF r
<1>11. CASE ~Live(sup) /\ Return(c) /\ UNCHANGED records
  <2>1. AttendedSoFar
    BY <1>1, <1>11, QuietAttended
  <2>2. \A s \in Pid : ~(Wanting(records', s, c) /\ Attends(Top(c), s, c))
    BY <1>8, <1>11, PidsAreSome DEF Wanting, Up, Live
  <2> QED
    BY <1>1, <1>11, <2>1, <2>2, ReturnFrames, ReturnedAttended
<1>12. CASE /\ Live(sup) /\ Launch(r, byName, mailboxes, n, pol, sup, q, "handler")
            /\ IF ok THEN Goto(c, f) ELSE Return(c)
  <2>1. sup \in Pid /\ r[sup].state # "none" /\ r[q].state # "none"
    BY <1>2, <1>9, <1>12 DEF Live, Fields
  <2>2. \A x \in Pid : q \in Members(records[x].children) => records[q].parent = x
    BY <1>2, <1>4 DEF Listed
  <2> HIDE DEF q, n, pol, sup, ok
  <2>3. AttendedSoFar
    BY <1>1, <1>9, <1>12, <2>1, LaunchAttended
  <2>4. /\ ~Launchable(byName, mailboxes, n) => records' = r
        /\ Launchable(byName, mailboxes, n)
              /\ (\A x \in Pid : q \in Members(r[x].children) => x = sup)
            => \A x \in Pid : q \notin Members(records'[x].children)
    BY <1>2, <1>9, <1>12, <2>1, LaunchTends
  <2>5. CASE ok
    <3>1. ASSUME NEW s \in Pid, Wanting(records', s, c), Attends(Top(c), s, c) PROVE FALSE
      <4>1. s = sup /\ c = q
        BY <1>8, <3>1
      <4>2. Wanting(records, s, c)
        BY <1>4, <2>3, <3>1, TendsKeeps DEF AttendedSoFar
      <4>3. records[c].parent = sup
        BY <1>4, <4>1, <4>2 DEF Wanting, Listed
      <4>4. \A x \in Pid : q \in Members(r[x].children) => x = sup
        BY <1>10, <2>2, <2>5, <4>1, <4>3
      <4>5. q \notin Members(records'[s].children)
        BY <2>4, <2>5, <4>4 DEF ok
      <4> QED
        BY <3>1, <4>1, <4>5 DEF Wanting
    <3>2. Dooms(f, records')
      BY <1>3 DEF Dooms, Past
    <3> QED
      BY <1>1, <1>3, <1>12, <2>3, <2>5, <3>1, <3>2, GotoFrames, WentAttended
  <2>6. CASE ~ok
    <3>1. records' = t
      BY <1>10, <2>4, <2>6 DEF ok
    <3>2. \A s \in Pid : ~(Wanting(records', s, c) /\ Attends(Top(c), s, c))
      BY <1>7, <1>8, <3>1 DEF Wanting
    <3> QED
      BY <1>1, <1>12, <2>3, <2>6, <3>2, ReturnFrames, ReturnedAttended
  <2> QED
    BY <2>5, <2>6
<1> QED
  BY <1>1, <1>11, <1>12

\* A kill that ends a process and takes it out of every list.
LEMMA FinishedTends ==
  ASSUME NEW r, NEW t, Tends(r, t), NEW p \in Pid, r[p].state = "killed",
         Members(r[p].children) = {}, \A q \in Pid : q # p => r[q] = records[q],
         \A x \in Pid : p \notin Members(t[x].children)
  PROVE  Tends(records, t)
<1>1. ASSUME NEW q \in Pid
      PROVE  /\ Doomed(records, q) => Doomed(t, q)
             /\ records[q].state # "none" => t[q].state # "none"
             /\ t[q].state = "stopping" /\ ~t[q].stop =>
                  records[q].state = "stopping" /\ ~records[q].stop
             /\ Ended(t, q) => t[q].state = records[q].state /\ t[q].policy = records[q].policy
             /\ Up(t, q) /\ ~t[q].escalated =>
                  records[q].state = "none" \/ (Up(records, q) /\ ~records[q].escalated)
             /\ t[q].state = "killed" =>
                  records[q].state = "killed" \/ \A x \in Pid : q \notin Members(t[x].children)
  <2>1. CASE q = p
    <3>1. Doomed(r, q) /\ ~Ended(r, q) /\ ~Up(r, q) /\ r[q].state # "none"
      BY <2>1 DEF Doomed, Ended, Up
    <3>2. Doomed(t, q)
      BY <3>1 DEF Tends
    <3>3. t[q].state = "stopping" => t[q].stop
      BY <2>1 DEF Tends
    <3>4. t[q].state # "none" /\ ~Ended(t, q) /\ ~Up(t, q)
      BY <3>2 DEF Doomed, Ended, Up
    <3> QED
      BY <2>1, <3>2, <3>3, <3>4
  <2>2. CASE q # p
    <3>1. r[q] = records[q]
      BY <2>2
    <3>2. (Doomed(r, q) <=> Doomed(records, q)) /\ (Up(r, q) <=> Up(records, q))
      BY <3>1 DEF Doomed, Up
    <3> QED
      BY <3>1, <3>2 DEF Tends
  <2> QED
    BY <2>1, <2>2
<1>2. ASSUME NEW x \in Pid, NEW q \in Pid, q \in Members(t[x].children)
      PROVE  \/ q \in Members(records[x].children) /\ t[q].parent = records[q].parent
             \/ t[q].parent = x /\ t[q].state \notin Terminal
  <2>1. q # p /\ r[q] = records[q]
    BY <1>2
  <2>2. CASE t[q].parent = x /\ t[q].state \notin Terminal
    BY <2>2
  <2>3. CASE q \in Members(r[x].children) /\ t[q].parent = r[q].parent
    BY <2>1, <2>3
  <2> QED
    BY <1>2, <2>2, <2>3 DEF Tends
<1> QED
  BY <1>1, <1>2 DEF Tends

\* The process that is killed is replaced in the list of its supervisor or leaves
\* it: a name that has just been given up is free.
LEMMA KillFinishesAttended ==
  ASSUME AllAttended, NEW c \in Coroutine, KillFinishes(c) PROVE AttendedNext
<1> USE DEF AllAttended, AllKept, IInv
<1> DEFINE p == Top(c).pid
           n == records[p].name
           pol == records[p].policy
           sup == records[p].parent
           r == [Cleaned(records, p) EXCEPT ![p].state = "killed",
                                            ![p].children = <<>>]
           names == NamesAfterCleanup(p)
           boxes == MailboxesAfterCleanup(p)
           f == [Top(c) EXCEPT !.at = "tail"]
<1>1. /\ stack[c] # <<>> /\ Top(c).op = "kill" /\ Top(c).at = "await" /\ UNCHANGED cancelled
  BY DEF KillFinishes, At
<1>2. Top(c) \in Frame /\ Top(c) \in Fields /\ p \in Pid
  BY <1>1, TopFields
<1>3. Fit(Top(c), {}, records, task) /\ Dooms(Top(c), records)
  BY <1>1, TopFits, TopDooms DEF Treed
<1>4. Doomed(records, p) /\ Down(records, p) /\ \A q \in Pid : ~IsChild(records, q, p)
  BY <1>1, <1>3 DEF Fit, Clearing, Dooms, Past
<1>5. /\ r \in Records /\ Allocated(r) /\ Sound(r) /\ r[p].state = "killed"
      /\ \A q \in Pid : q # p => r[q] = records[q]
  BY <1>2, <1>4, FinishedTree
<1>6. r[p].children = <<>> /\ r[p].parent = sup
  BY <1>2 DEF Cleaned, TypeOK, Record
<1>7. f \in Frame /\ f.op = "kill" /\ f.at = "tail"
  BY <1>1, <1>2 DEF Frame, Fields
<1>8. ~Launchable(names, boxes, n) => ~records[p].resources
  <2>1. n \in Name
    BY <1>2, <1>4 DEF Indexed, Sound, Doomed
  <2> QED
    BY <1>2, <2>1 DEF Launchable, NamesAfterCleanup, MailboxesAfterCleanup, TypeOK
<1> HIDE DEF r, f, names, boxes
<1>9. \/ /\ Launch(r, names, boxes, n, pol, sup, p, "kill") /\ Live(sup)
         /\ Goto(c, f) \/ Return(c)
      \/ records' = Unlinked(r, p) /\ Return(c)
  BY DEF KillFinishes, r, names, boxes, f
<1>10. sup \in Pid \cup {None}
  BY <1>2 DEF TypeOK, Record
<1>11. Members(r[p].children) = {}
  BY <1>6, EmptyListMembers
<1>12. \A x \in Pid : p \in Members(r[x].children) => x = sup
  <2> SUFFICES ASSUME NEW x \in Pid, p \in Members(r[x].children) PROVE x = sup
    OBVIOUS
  <2>1. r[x] = records[x]
    BY <1>5, <1>11
  <2> QED
    BY <1>2, <2>1 DEF Attended, Listed
<1>13. ASSUME Tends(r, records'), \A x \in Pid : p \notin Members(records'[x].children)
       PROVE  AttendedSoFar
  <2>1. Tends(records, records')
    BY <1>2, <1>5, <1>11, <1>13, FinishedTends
  <2>2. CancelsDoomed(cancelled', records')
    BY <1>1, <2>1 DEF Attended, CancelsDoomed, Tends
  <2> QED
    BY <2>1, <2>2 DEF AttendedSoFar
<1>14. CASE /\ Launch(r, names, boxes, n, pol, sup, p, "kill") /\ Live(sup)
            /\ Goto(c, f) \/ Return(c)
  <2>1. sup \in Pid /\ records[sup].state # "none" /\ sup # p
    BY <1>4, <1>10, <1>14 DEF Live, Doomed
  <2>2. r[sup].state # "none"
    BY <1>5, <2>1
  <2> HIDE DEF n, pol, p, sup
  <2>3. /\ Tends(r, records')
        /\ ~Launchable(names, boxes, n) => records' = r
        /\ Launchable(names, boxes, n)
             => \A x \in Pid : p \notin Members(records'[x].children)
    <3>1. TypeOK /\ p \in Pid /\ r[p].state # "none"
      BY <1>2, <1>5
    <3> QED
      BY <1>5, <1>12, <1>14, <2>1, <2>2, <3>1, LaunchTends
  <2>4. \A x \in Pid : p \notin Members(records'[x].children)
    <3>1. CASE ~Launchable(names, boxes, n)
      <4>1. records[p].state = "killed"
        <5>1. ~Alive(records, p)
          BY <1>2, <1>8, <3>1 DEF Indexed, Sound
        <5> QED
          BY <1>4, <5>1 DEF Doomed, Alive
      <4>2. \A x \in Pid : p \notin Members(records[x].children)
        BY <1>2, <4>1 DEF Attended, Listed
      <4>3. ASSUME NEW x \in Pid PROVE p \notin Members(r[x].children)
        <5>1. CASE x = p
          BY <1>11, <5>1
        <5>2. CASE x # p
          BY <1>5, <4>2, <5>2
        <5> QED
          BY <5>1, <5>2
      <4> QED
        BY <2>3, <3>1, <4>3
    <3> QED
      BY <2>3, <3>1
  <2>5. AttendedSoFar
    BY <1>13, <2>3, <2>4
  <2>6. CASE Return(c)
    BY <1>1, <2>5, <2>6, ReturnFrames, ReturnedAttended
  <2>7. CASE Goto(c, f)
    <3>1. Dooms(f, records')
      BY <1>7 DEF Dooms, Past
    <3> QED
      BY <1>1, <1>7, <2>5, <2>7, <3>1, GotoFrames, WentAttended
  <2> QED
    BY <1>14, <2>6, <2>7
<1>15. CASE records' = Unlinked(r, p) /\ Return(c)
  <2> DEFINE t == Unlinked(r, p)
  <2>1. \A q \in Pid : /\ t[q].state = r[q].state /\ t[q].policy = r[q].policy
                       /\ t[q].stop = r[q].stop /\ t[q].escalated = r[q].escalated
                       /\ q # p => t[q].parent = r[q].parent
    BY <1>2, <1>5, UnlinkedFields, UnlinkedEscalated
  <2>2. \A x \in Pid : p \in Members(r[x].children) => r[p].parent = x
    BY <1>6, <1>12
  <2>3. \A x \in Pid : /\ Members(t[x].children) \subseteq Members(r[x].children)
                       /\ p \notin Members(t[x].children)
    BY <1>2, <1>5, <2>2, UnlinkedLists
  <2> HIDE DEF t, n, pol, p, sup
  <2>4. \A x, q \in Pid : q \in Members(t[x].children) =>
          q \in Members(r[x].children) /\ t[q].parent = r[q].parent
    BY <2>1, <2>3
  <2>5. Tends(r, t)
    BY <2>1, <2>4 DEF Tends, Doomed, Ended, Up
  <2>6. records' = t
    BY <1>15 DEF t
  <2>7. AttendedSoFar
    BY <1>13, <2>3, <2>5, <2>6
  <2> QED
    BY <1>1, <1>15, <2>7, ReturnFrames, ReturnedAttended
<1> QED
  BY <1>9, <1>14, <1>15

LEMMA InitAttended == Init => Attended
<1> SUFFICES ASSUME Init PROVE Attended
  OBVIOUS
<1>1. \A c \in Coroutine : Len(stack[c]) = 0
  BY EmptySeq DEF Init
<1>2. \A p \in Pid : ~cancelled[p]
  BY DEF Init
<1>3. /\ Len(Boot) \in Nat
      /\ \A p \in Pid : Booted(p) => p \in 1 .. Len(Boot)
      /\ \A p \in 1 .. Len(Boot) : p \in Pid => Booted(p)
  <2>1. Len(Boot) \in Nat
    BY BootAssumption, LenProperties
  <2> QED
    BY <2>1, BoundAssumption DEF Booted, Pid
<1>4. \A p \in Pid :
        records[p] = IF Booted(p)
                     THEN [NewRecord(Boot[p].name,
                                     IF Boot[p].parent = None THEN "permanent"
                                                              ELSE ChildPolicy[Boot[p].name],
                                     Boot[p].parent) EXCEPT
                             !.state = "running", !.children = Boot[p].children]
                     ELSE NoRecord
  BY DEF Init
<1>5. \A p \in Pid :
        /\ Booted(p) => /\ records[p].state = "running"
                        /\ records[p].parent = Boot[p].parent
                        /\ records[p].children = Boot[p].children
        /\ ~Booted(p) => records[p].state = "none" /\ records[p].children = <<>>
  <2> SUFFICES ASSUME NEW p \in Pid
               PROVE  /\ Booted(p) => /\ records[p].state = "running"
                                      /\ records[p].parent = Boot[p].parent
                                      /\ records[p].children = Boot[p].children
                      /\ ~Booted(p) => records[p].state = "none" /\ records[p].children = <<>>
    OBVIOUS
  <2>1. CASE Booted(p)
    BY <1>4, <2>1 DEF NewRecord
  <2>2. CASE ~Booted(p)
    BY <1>4, <2>2 DEF NewRecord, NoRecord
  <2> QED
    BY <2>1, <2>2
<1>6. \A p \in Pid : records[p].state \in {"running", "none"}
  BY <1>5
<1>7. Listed(records)
  <2> SUFFICES ASSUME NEW x \in Pid, NEW q \in Pid, q \in Members(records[x].children)
               PROVE  records[q].parent = x /\ records[q].state # "killed"
    BY DEF Listed
  <2>1. Booted(x) /\ q \in Members(Boot[x].children)
    BY <1>5, EmptyListMembers
  <2>2. x \in 1 .. Len(Boot)
    BY <1>3, <2>1
  <2>3. q \in 1 .. Len(Boot)
    BY <2>1, <2>2, BootTreeAssumption
  <2>4. Boot[q].parent = x
    BY <2>1, <2>2, <2>3, BootTreeAssumption
  <2> QED
    BY <1>3, <1>5, <2>3, <2>4
<1>8. AllDoom(stack, records)
  BY <1>1 DEF AllDoom
<1>9. Asked(records) /\ Owned(stack, records)
  BY <1>6 DEF Asked, Owned, Wanting, Ended
<1> QED
  BY <1>2, <1>7, <1>8, <1>9 DEF Attended, CancelsDoomed

LEMMA StutterAttended == Attended /\ UNCHANGED vars => AttendedNext
BY DEF vars, registryVars, Attended, AttendedNext

LEMMA StepAttended ==
  ASSUME ~AdoptsSupervised, ~StopMayFail, \A n \in Name : Strategy[n] # "one_for_all"
  PROVE  IInv /\ IInv' /\ Indexed /\ Budgeted /\ Treed /\ Attended /\ [Next]_vars => Attended'
<1> SUFFICES ASSUME AllAttended, [Next]_vars PROVE Attended'
  BY DEF AllAttended, AllKept
<1>1. ASSUME UNCHANGED vars PROVE AttendedNext
  BY <1>1, StutterAttended DEF AllAttended
<1>2. ASSUME ClientStep PROVE AttendedNext
  BY <1>2, RunPathAttended, SpawnChildAttended, MonitorChildAttended, KillAttended
     DEF ClientStep
<1>3. ASSUME AgentStep PROVE AttendedNext
  BY <1>3, BodyReturnsAttended DEF AgentStep
<1>4. ASSUME TaskStep PROVE AttendedNext
  BY <1>4, StartTaskAttended, IdleAttended, BodyReturnsAttended DEF TaskStep
<1>5. ASSUME CallStep PROVE AttendedNext
  BY <1>5, LoopFreedAttended, KillRefusedAttended, KillEntersAttended, KillsChildAttended,
     KillCancelsAttended, KillFinishesAttended, KillUnlinksAttended DEF CallStep
<1>6. ASSUME HandlerStep PROVE AttendedNext
  BY <1>6, HandlerDecidesAttended, HandlerNextAttended, HandlerWakesAttended,
     HandlerChecksAttended, HandlerRestartsAttended DEF HandlerStep
<1> QED
  BY <1>1, <1>2, <1>3, <1>4, <1>5, <1>6, AttendedPrimed DEF Next

LEMMA AttendedIsKept == IInv /\ Indexed /\ Attended => PermanentChildrenAreAttended
<1> SUFFICES ASSUME IInv, Indexed, Attended, NEW s \in Pid, Live(s), ~records[s].escalated,
                    NEW q \in Members(records[s].children), ~Active(q),
                    records[q].policy = "permanent"
             PROVE  task[q] = "handler"
  BY DEF PermanentChildrenAreAttended
<1>1. records[s].children \in Seq(Pid)
  BY DEF IInv, TypeOK, Record
<1>2. q \in Pid
  BY <1>1, MembersType
<1>3. records[q].state \notin {"none", "killed"}
  BY <1>2 DEF Indexed, Sound, Known, Attended, Listed
<1>4. Ended(records, q)
  BY <1>2, <1>3 DEF IInv, TypeOK, Record, States, Active, Ended
<1>5. Wanting(records, s, q)
  BY <1>4 DEF Wanting, Live, Up
<1>6. 1 \in 1 .. Len(stack[q])
  BY <1>2, <1>5 DEF Attended, Owned
<1>7. stack[q] # <<>>
  BY <1>6, EmptySeq
<1> QED
  BY <1>2, <1>7 DEF IInv, HandlersHaveTasks

\* No permanent child that has ended is forgotten by a supervisor that restarts
\* the failed child, alone or with those after it (_handle_terminal_process): its
\* handler is still killing children, or has it first on its list and goes on
\* until it is started again or the supervisor has escalated.  With one_for_all
\* the failed child may come after one whose restart ends the handler.
THEOREM AttendedTheorem ==
  ASSUME ~AdoptsSupervised, ~ParentsMayBeStarting, ~StopMayFail,
         \A n \in Name : Strategy[n] # "one_for_all"
  PROVE  Spec => []PermanentChildrenAreAttended
<1>1. Init => IInv /\ Indexed /\ Budgeted /\ Treed /\ Attended
  BY InitIInv, InitIndexed, InitBudgeted, InitTreed, InitAttended
<1>2. IInv /\ Indexed /\ Budgeted /\ Treed /\ Attended /\ [Next]_vars =>
        (IInv /\ Indexed /\ Budgeted /\ Treed /\ Attended)'
  BY StepKeeps, StepIndexed, StepBudgeted, StepTreed, StepAttended DEF Keeps
<1>3. IInv /\ Indexed /\ Attended => PermanentChildrenAreAttended
  BY AttendedIsKept
<1> QED
  BY <1>1, <1>2, <1>3, PTL DEF Spec
=============================================================================
