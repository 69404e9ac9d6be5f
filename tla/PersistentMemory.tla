-------------------------- MODULE PersistentMemory --------------------------
(***************************************************************************)
(* PersistentMemoryManager (kernel/memory_store.py): the hot and warm      *)
(* records of every agent, the cold index over memories.jsonl, the         *)
(* snapshots, and a crash of the operating system's process at any write.  *)
(*                                                                         *)
(* A record is its id; ids are given in the order of time.  The manager is *)
(* called from one thread and its calls do not overlap; only the loop that *)
(* evicts and the loop that rewrites the file are taken apart, because a   *)
(* crash may come between two of their writes.                             *)
(***************************************************************************)
EXTENDS Naturals, Sequences, FiniteSets, Functions

CONSTANTS
  Agent, Nobody,
  TokenBudget,       \* token_budget with which an agent is registered
  DefaultBudget,     \* the 8000 of _state
  WarmLimit,         \* warm_limit
  Sizes, Weights,    \* token estimates and importances of the records
  \* Bounds of the model:
  MaxId, MaxSnapshots, MaxCrashes

Id == 1 .. MaxId

ASSUME NobodyAssumption == Nobody \notin Agent
ASSUME LimitAssumption ==
  /\ TokenBudget \in [Agent -> Nat \ {0}]
  /\ DefaultBudget \in Nat \ {0}
  /\ WarmLimit \in Nat \ {0}
  /\ Sizes \subseteq Nat \ {0}
  /\ Weights \subseteq Nat
ASSUME BoundAssumption ==
  MaxId \in Nat /\ MaxSnapshots \in Nat /\ MaxCrashes \in Nat

VARIABLES
  \* In memory:
  up,          \* whether there is a manager
  budget,      \* _agents: the budget of an agent, 0 when it has no state
  hot, warm,   \* AgentMemoryState.hot, .warm
  cold,        \* _cold_index
  evicting,    \* the agent whose _evict_if_needed is running, or Nobody
  rewriting,   \* records _rewrite_records_file still has to write
  \* On disk:
  file,        \* records with a line in memories.jsonl
  torn,        \* whether a line of it is incomplete
  snapshots,   \* the readable snapshot files, oldest first
  \* The records themselves:
  count, writer, size, weight,
  crashes,
  \* History variables:
  recorded,    \* by agent, since its state was last made or replaced
  paged,       \* records that have been in the cold index
  forgotten,   \* ids given to forget
  struck       \* records whose rewriting a crash interrupted

agentVars == <<budget, hot, warm>>
recordVars == <<count, writer, size, weight>>
historyVars == <<recorded, paged, forgotten, struck>>
vars == <<up, agentVars, cold, evicting, rewriting, file, torn, snapshots,
          recordVars, crashes, historyVars>>

Listed(list) == {list[i] : i \in 1 .. Len(list)}
\* hot_tokens
HotTokens(n) == FoldFunctionOnSet(+, 0, size, hot[n])
\* What recall can find for n, whatever the query.
Recallable(n) == hot[n] \cup Listed(warm[n]) \cup {m \in cold : writer[m] = n}
Ready == up /\ evicting = Nobody /\ rewriting = {}

Init ==
  /\ up = TRUE
  /\ budget = [n \in Agent |-> 0]
  /\ hot = [n \in Agent |-> {}]
  /\ warm = [n \in Agent |-> <<>>]
  /\ cold = {}
  /\ evicting = Nobody
  /\ rewriting = {}
  /\ file = {}
  /\ torn = FALSE
  /\ snapshots = <<>>
  /\ count = 0
  /\ writer = [m \in Id |-> Nobody]
  /\ size = [m \in Id |-> 0]
  /\ weight = [m \in Id |-> 0]
  /\ crashes = 0
  /\ recorded = [n \in Agent |-> {}]
  /\ paged = {}
  /\ forgotten = {}
  /\ struck = {}

\* register_agent, at the start of a process: the state of a former process of
\* that name goes.  unregister_agent, when a process is cleaned up.
Reset(n, tokens) ==
  /\ Ready
  /\ budget' = [budget EXCEPT ![n] = tokens]
  /\ hot' = [hot EXCEPT ![n] = {}]
  /\ warm' = [warm EXCEPT ![n] = <<>>]
  /\ recorded' = [recorded EXCEPT ![n] = {}]
  /\ UNCHANGED <<up, cold, evicting, rewriting, file, torn, snapshots,
                 recordVars, crashes, paged, forgotten, struck>>

RegisterAgent(n) == Reset(n, TokenBudget[n])
UnregisterAgent(n) == budget[n] > 0 /\ Reset(n, 0)

\* _state gives an agent that has none a state with the default budget.
BudgetOnUse(n) ==
  budget' = [budget EXCEPT ![n] = IF @ = 0 THEN DefaultBudget ELSE @]

\* Mutant: warm lists keep what is forgotten.
WarmWithout_Keeps(list, m) == list

\* The records of a list that are in a set, in the order of the list.
Kept(list, set) ==
  LET kept[i \in 0 .. Len(list)] ==
        IF i = 0 THEN <<>>
        ELSE IF list[i] \in set THEN Append(kept[i - 1], list[i])
        ELSE kept[i - 1]
  IN kept[Len(list)]

\* The records that are left of a warm list after forgetting m.
WarmWithout(list, m) == Kept(list, Id \ {m})

\* The limit keeps the newest records.
Bounded(list) ==
  IF Len(list) > WarmLimit
  THEN SubSeq(list, Len(list) - WarmLimit + 1, Len(list))
  ELSE list

AppendContextFrame(n, z, w) ==
  LET m == count + 1
  IN /\ Ready
     /\ m \in Id
     /\ BudgetOnUse(n)
     /\ count' = m
     /\ writer' = [writer EXCEPT ![m] = n]
     /\ size' = [size EXCEPT ![m] = z]
     /\ weight' = [weight EXCEPT ![m] = w]
     /\ hot' = [hot EXCEPT ![n] = @ \cup {m}]
     /\ evicting' = n
     /\ recorded' = [recorded EXCEPT ![n] = @ \cup {m}]
     /\ UNCHANGED <<up, warm, cold, rewriting, file, torn, snapshots, crashes,
                    paged, forgotten, struck>>

\* Mutants of _persist_record: a record is persisted only when the warm list is
\* full; it is indexed and not written.
Persist_Overflow(n, m) ==
  IF Len(warm[n]) < WarmLimit THEN UNCHANGED <<cold, file, paged>>
  ELSE cold' = cold \cup {m} /\ file' = file \cup {m} /\ paged' = paged \cup {m}
Persist_InMemory(n, m) ==
  cold' = cold \cup {m} /\ paged' = paged \cup {m} /\ UNCHANGED file

\* _persist_record
Persist(n, m) ==
  cold' = cold \cup {m} /\ file' = file \cup {m} /\ paged' = paged \cup {m}

\* The loop goes on; a record is no smaller than one token, so there is one.
OverBudget(n) == HotTokens(n) > budget[n]

\* One turn of the loop of _evict_if_needed.  Among records of one importance
\* the choice is by last_accessed, which recall sets as it likes.  The target
\* of 0.7 of the budget never matters: the loop ends at the budget already.
Evict(n) ==
  /\ up
  /\ evicting = n
  /\ OverBudget(n)
  /\ \E m \in hot[n] :
       /\ \A k \in hot[n] : weight[m] <= weight[k]
       /\ hot' = [hot EXCEPT ![n] = @ \ {m}]
       /\ warm' = [warm EXCEPT ![n] = Bounded(Append(@, m))]
       /\ Persist(n, m)
  /\ UNCHANGED <<up, budget, evicting, rewriting, torn, snapshots, recordVars,
                 crashes, recorded, forgotten, struck>>

EvictionEnds(n) ==
  /\ up
  /\ evicting = n
  /\ ~OverBudget(n)
  /\ evicting' = Nobody
  /\ UNCHANGED <<up, agentVars, cold, rewriting, file, torn, snapshots,
                 recordVars, crashes, historyVars>>

\* A cold record has the file truncated, to be written anew.
BeginRewrite(m) ==
  IF m \in cold THEN file' = {} /\ rewriting' = cold \ {m}
                ELSE UNCHANGED <<file, rewriting>>

\* forget looks at all agents.
Forget(m) ==
  /\ Ready
  /\ hot' = [n \in Agent |-> hot[n] \ {m}]
  /\ warm' = [n \in Agent |-> WarmWithout(warm[n], m)]
  /\ cold' = cold \ {m}
  /\ BeginRewrite(m)
  /\ forgotten' = forgotten \cup {m}
  /\ UNCHANGED <<up, budget, evicting, torn, snapshots, recordVars, crashes,
                 recorded, paged, struck>>

\* A line of _rewrite_records_file reaches the disk.
Rewrite ==
  /\ up
  /\ \E m \in rewriting :
       /\ rewriting' = rewriting \ {m}
       /\ file' = file \cup {m}
  /\ UNCHANGED <<up, agentVars, cold, evicting, torn, snapshots, recordVars,
                 crashes, historyVars>>

SnapshotProcess(n) ==
  /\ Ready
  /\ Len(snapshots) < MaxSnapshots
  /\ BudgetOnUse(n)
  /\ snapshots' = Append(snapshots, [name |-> n, hot |-> hot[n], warm |-> warm[n]])
  /\ UNCHANGED <<up, hot, warm, cold, evicting, rewriting, file, torn,
                 recordVars, crashes, historyVars>>

\* Mutant: the references of a snapshot are taken as they are.
WarmRestored_All(refs) ==
  IF Len(refs) > WarmLimit THEN SubSeq(refs, 1, WarmLimit) ELSE refs

\* The warm references of a snapshot that are still in the cold index; here
\* the limit keeps the oldest.
WarmRestored(refs) ==
  LET found == Kept(refs, cold)
  IN IF Len(found) > WarmLimit THEN SubSeq(found, 1, WarmLimit) ELSE found

\* restore_process_memory, called with the id the registry tracks or none: the
\* registry and the restart policies restore a process from a snapshot of its
\* own name.
Restore(n, i, hotOnly) ==
  /\ Ready
  /\ snapshots[i].name = n
  /\ BudgetOnUse(n)
  /\ hot' = [hot EXCEPT ![n] = snapshots[i].hot]
  /\ warm' = [warm EXCEPT ![n] = IF hotOnly THEN @ ELSE WarmRestored(snapshots[i].warm)]
  /\ evicting' = n
  /\ recorded' = [recorded EXCEPT ![n] = {}]
  /\ UNCHANGED <<up, cold, rewriting, file, torn, snapshots, recordVars,
                 crashes, paged, forgotten, struck>>

\* The program ends, in the middle of a write if one is under way: a line may
\* have reached the disk in part.  (A line that lacks only its end, which loads
\* and which the next append spoils, is left out.)  A snapshot cut short is
\* skipped by _snapshots_for, as if it had not been taken.
Crash ==
  /\ up
  /\ crashes < MaxCrashes
  /\ crashes' = crashes + 1
  /\ up' = FALSE
  /\ budget' = [n \in Agent |-> 0]
  /\ hot' = [n \in Agent |-> {}]
  /\ warm' = [n \in Agent |-> <<>>]
  /\ cold' = {}
  /\ evicting' = Nobody
  /\ rewriting' = {}
  /\ torn' \in IF Ready THEN {torn} ELSE BOOLEAN
  /\ recorded' = [n \in Agent |-> {}]
  /\ struck' = struck \cup rewriting
  /\ UNCHANGED <<file, snapshots, recordVars, paged, forgotten>>

\* __init__ with _load_cold_index, which a torn line makes fail.
Start ==
  /\ ~up
  /\ ~torn
  /\ up' = TRUE
  /\ cold' = file
  /\ UNCHANGED <<agentVars, evicting, rewriting, file, torn, snapshots,
                 recordVars, crashes, historyVars>>

Next ==
  \/ \E n \in Agent :
       \/ RegisterAgent(n)
       \/ UnregisterAgent(n)
       \/ \E z \in Sizes, w \in Weights : AppendContextFrame(n, z, w)
       \/ Evict(n)
       \/ EvictionEnds(n)
       \/ SnapshotProcess(n)
       \/ \E i \in 1 .. Len(snapshots), hotOnly \in BOOLEAN : Restore(n, i, hotOnly)
  \/ \E m \in 1 .. count : Forget(m)
  \/ Rewrite
  \/ Crash
  \/ Start

Spec == Init /\ [][Next]_vars

(***************************************************************************)
(* Properties                                                              *)
(***************************************************************************)
\* Every variable keeps to its type; warm lists keep to warm_limit, and none
\* mentions a record that was never made.
TypeOK ==
  /\ up \in BOOLEAN
  /\ budget \in [Agent -> Nat]
  /\ hot \in [Agent -> SUBSET (1 .. count)]
  /\ \A n \in Agent : Len(warm[n]) <= WarmLimit /\ Listed(warm[n]) \subseteq 1 .. count
  /\ evicting \in Agent \cup {Nobody}
  /\ \A set \in {cold, rewriting, file, paged, forgotten, struck} : set \subseteq 1 .. count
  /\ torn \in BOOLEAN
  /\ count \in 0 .. MaxId
  /\ writer \in [Id -> Agent \cup {Nobody}]
  /\ size \in [Id -> Sizes \cup {0}]
  /\ weight \in [Id -> Weights \cup {0}]
  /\ crashes \in 0 .. MaxCrashes
  /\ recorded \in [Agent -> SUBSET (1 .. count)]

\* Between two calls every agent is within its budget, however it came by its
\* records.
HotWithinBudget ==
  Ready => \A n \in Agent : budget[n] > 0 => HotTokens(n) <= budget[n]

\* A warm record is in the cold index as well: what the limit drops from the
\* warm list, and what restoring asks of the index, is there.
WarmIsCold ==
  \A n \in Agent : Listed(warm[n]) \subseteq cold

\* Loading the file would give the cold index, but for what is being written.
IndexIsOnDisk ==
  up => cold = file \cup rewriting

\* The tiers of the store agree: budgets and limits are kept, what the warm
\* lists name is in the cold index, and what that names is in the file.
TiersAgree == TypeOK /\ HotWithinBudget /\ WarmIsCold /\ IndexIsOnDisk

\* Paging loses nothing: what an agent has recorded in its present state it can
\* recall, until the record is forgotten.
RecordedIsRecallable ==
  \A n \in Agent : recorded[n] \ forgotten \subseteq Recallable(n)

\* A cold record survives every crash and restart, but for one that strikes
\* while forget is writing the file anew.
ColdSurvivesCrashes ==
  up => paged \ (forgotten \cup struck) \subseteq cold

\* A forgotten record comes back only if a snapshot was taken of it while it
\* was hot; warm references do not bring it back.
ForgottenReturnsBySnapshot ==
  \A n \in Agent : \A m \in forgotten \cap Recallable(n) :
    \E i \in 1 .. Len(snapshots) : m \in snapshots[i].hot
=============================================================================
