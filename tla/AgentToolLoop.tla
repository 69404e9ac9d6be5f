--------------------------- MODULE AgentToolLoop ---------------------------
(***************************************************************************)
(* AgentToolLoop.run (kernel/agent_tool_loop.py) over ToolRuntime.execute  *)
(* and ToolRegistry (kernel/tools/): a bounded loop of chat requests and   *)
(* groups of tool calls.  The calls of a parallel group run in a thread    *)
(* pool, and another thread may register tools at any time.                *)
(*                                                                         *)
(* What the provider answers and what a tool does is open.  A chat and a   *)
(* tool function return: the code has no way to stop them.                 *)
(***************************************************************************)
EXTENDS Naturals, Sequences, FiniteSets, SequencesExt

CONSTANTS
  Tool,        \* names of tools
  Configs,     \* AgentToolLoopConfig and the tools argument of the run
  Registries,  \* what the registry may hold when the run starts
  \* Bounds of the model:
  MaxCalls     \* calls in one response

Safety == {"missing", "unsafe", "safe"}
Config == [maxSteps : Nat \ {0}, mode : {"sequential", "parallel"},
           stopOnError : BOOLEAN, approval : BOOLEAN, explicit : BOOLEAN,
           tools : SUBSET Tool, allowed : SUBSET Tool, denied : SUBSET Tool,
           defaultAllow : BOOLEAN]

ASSUME ConfigAssumption == Configs \subseteq Config
ASSUME RegistryAssumption == Registries \subseteq [Tool -> Safety]
ASSUME CallsAssumption == MaxCalls \in Nat \ {0}

VARIABLES
  config,
  registry,   \* ToolRegistry._tools: missing, or the flag parallel_safe
  pc,         \* idle, chat, group, returned
  step,       \* step_index
  offered,    \* allowed_tool_names
  history,    \* the messages after those of the caller
  calls,      \* response.tool_calls of the current response
  mode,       \* effective_execution_mode
  work,       \* what has become of each of these calls
  results,    \* all_tool_results
  result,     \* AgentToolLoopResult
  issued,     \* history variable: all calls of all responses
  ran         \* history variable: [call, late] of the functions entered

loopVars == <<config, step, offered>>
vars == <<registry, pc, loopVars, history, calls, mode, work, results, result,
          issued, ran>>

Call == [step : Nat, index : 1 .. MaxCalls, name : Tool]
Outcome == {"failed", "ok"}   \* of a function that was entered
Final == Outcome \cup {"denied"}
Message == [role : {"assistant"}, calls : Seq(Call)]
           \cup [role : {"tool"}, call : Call, success : BOOLEAN]
NoResult == [reason |-> "none", pending |-> <<>>]

Init ==
  /\ config \in Configs /\ registry \in Registries
  /\ pc = "idle" /\ step = 0 /\ offered = {}
  /\ history = <<>> /\ calls = <<>> /\ mode = "sequential" /\ work = <<>>
  /\ results = <<>> /\ result = NoResult /\ issued = {} /\ ran = {}

(***************************************************************************)
(* Definitions used by the steps.                                          *)
(***************************************************************************)
Registered == {t \in Tool : registry[t] # "missing"}

\* ToolPermissionPolicy.check.
Permitted(t) ==
  /\ t \notin config.denied
  /\ config.defaultAllow \/ t \in config.allowed

\* Mutant: one parallel_safe tool makes the group parallel.
GroupMode_Any(cs) ==
  IF /\ config.mode = "parallel"
     /\ \E i \in DOMAIN cs : Permitted(cs[i].name) /\ registry[cs[i].name] = "safe"
  THEN "parallel" ELSE "sequential"

\* _resolve_tool_execution_group_mode for the permitted calls of cs.
GroupMode(cs) ==
  IF /\ config.mode = "parallel"
     /\ \A i \in DOMAIN cs : Permitted(cs[i].name) => registry[cs[i].name] = "safe"
  THEN "parallel" ELSE "sequential"

\* Rounds are counted from zero.
LastStep == step + 1 >= config.maxSteps

Finished == {i \in DOMAIN work : work[i] \in Final}

\* executed_tool_calls: the calls zipped with the outcomes that were gathered.
Answered == SubSeq(calls, 1, Cardinality(Finished))

\* The sequential loop breaks at a failure when it is told to.
Failed(i) == work[i] \in {"denied", "failed"}
Broken == config.stopOnError /\ \E i \in DOMAIN work : Failed(i)

\* Mutants: the sequential loop breaks at every failure; the parallel group is
\* left at a failure too; the group waits for the calls behind the failure.
GroupDone_AtFailure ==
  Finished = DOMAIN work \/ (mode = "sequential" /\ \E i \in DOMAIN work : Failed(i))
GroupDone_Never == Finished = DOMAIN work
GroupDone ==
  Finished = DOMAIN work \/ (mode = "sequential" /\ Broken)

\* Whether the call is the next one of the sequential loop, or one that is
\* waiting for its thread.
MayStart(i) ==
  /\ pc = "group" /\ work[i] = "waiting"
  /\ mode = "sequential" =>
       /\ \A j \in 1 .. i - 1 : work[j] \in Final
       /\ ~Broken

Return(reason, pending) ==
  /\ pc' = "returned"
  /\ result' = [reason |-> reason, pending |-> pending]

(***************************************************************************)
(* The loop.                                                               *)
(***************************************************************************)
\* The prologue: without a tools argument the registry's tools are offered.
Start ==
  /\ pc = "idle" /\ pc' = "chat"
  /\ offered' = IF config.explicit THEN config.tools ELSE Registered
  /\ UNCHANGED <<registry, config, step, history, calls, mode, work, results,
                 result, issued, ran>>

ChatFails ==
  /\ pc = "chat" /\ Return("llm_error", <<>>)
  /\ UNCHANGED <<registry, loopVars, history, calls, mode, work, results,
                 issued, ran>>

Responses == UNION {[1 .. n -> Tool] : n \in 0 .. MaxCalls}
CallsOf(names) ==
  [i \in DOMAIN names |-> [step |-> step, index |-> i, name |-> names[i]]]

\* A response that ends the run: no calls, approval wanted, or the last step.
ChatEnds(names) ==
  /\ pc = "chat" /\ calls' = CallsOf(names)
  /\ \/ names = <<>> /\ Return("completed", <<>>)
     \/ /\ names # <<>> /\ config.approval
        /\ Return("approval_required", calls')
     \/ /\ names # <<>> /\ ~config.approval /\ LastStep
        /\ Return("max_steps_exceeded", calls')
  /\ issued' = issued \cup Range(calls')
  /\ UNCHANGED <<registry, loopVars, history, mode, work, results, ran>>

\* What the group starts with: a parallel group denies all it has to deny
\* before it submits the others.
Submitted(cs, m) ==
  [i \in DOMAIN cs |->
     IF m = "parallel" /\ ~Permitted(cs[i].name) THEN "denied" ELSE "waiting"]

GroupStarts(names) ==
  LET cs == CallsOf(names) IN
  /\ pc = "chat" /\ pc' = "group"
  /\ names # <<>> /\ ~config.approval /\ ~LastStep
  /\ calls' = cs
  /\ history' = Append(history, [role |-> "assistant", calls |-> cs])
  /\ mode' = GroupMode(cs)
  /\ work' = Submitted(cs, mode')
  /\ issued' = issued \cup Range(cs)
  /\ UNCHANGED <<registry, loopVars, results, result, ran>>

(***************************************************************************)
(* One call: _deny_tool_call or _execute_tool_call with ToolRuntime.execute *)
(***************************************************************************)
\* Mutant: the offer is not looked at.
Admits_Anything(t) == TRUE

\* A registered tool must be offered; the others are left to the runtime.
Admits(t) == t \in offered \/ registry[t] = "missing"

Check(i) ==
  LET t == calls[i].name IN
  /\ MayStart(i)
  /\ work' = [work EXCEPT ![i] =
                IF ~Permitted(t) THEN "denied"
                ELSE IF ~Admits(t) THEN "failed"
                ELSE IF registry[t] = "missing" THEN "admitted_missing"
                ELSE "admitted"]
  /\ UNCHANGED <<registry, pc, loopVars, history, calls, mode, results, result,
                 issued, ran>>

\* execute: the registry is read a second time and may not know the tool, the
\* arguments are validated, and the function is entered.
Execute(i) ==
  LET t == calls[i].name IN
  /\ pc = "group" /\ work[i] \in {"admitted", "admitted_missing"}
  /\ \/ work' = [work EXCEPT ![i] = "failed"] /\ ran' = ran
     \/ /\ registry[t] # "missing" /\ work' = [work EXCEPT ![i] = "running"]
        /\ ran' = ran \cup {[call |-> calls[i],
                             late |-> work[i] = "admitted_missing"]}
  /\ UNCHANGED <<registry, pc, loopVars, history, calls, mode, results, result,
                 issued>>

\* The function has returned or raised; that it took too long is told only now.
ToolReturns(i) ==
  /\ pc = "group" /\ work[i] = "running"
  /\ \E w \in Outcome : work' = [work EXCEPT ![i] = w]
  /\ UNCHANGED <<registry, pc, loopVars, history, calls, mode, results, result,
                 issued, ran>>

\* The outcomes of the group in the order of the calls.
Outcomes ==
  [k \in DOMAIN Answered |->
     [role |-> "tool", call |-> Answered[k],
      success |-> work[Answered[k].index] = "ok"]]

GroupEnds ==
  /\ pc = "group" /\ GroupDone
  /\ results' = results \o Outcomes
  /\ IF Broken
     THEN /\ Return("tool_error", <<>>)
          /\ UNCHANGED <<history, step>>
     ELSE /\ history' = history \o Outcomes
          /\ step' = step + 1 /\ pc' = "chat" /\ result' = result
  /\ UNCHANGED <<registry, config, offered, calls, mode, work, issued, ran>>

\* ToolRegistry.register by another thread; a name is taken once.
Register(t, flag) ==
  /\ registry[t] = "missing" /\ pc # "returned"
  /\ registry' = [registry EXCEPT ![t] = flag]
  /\ UNCHANGED <<pc, loopVars, history, calls, mode, work, results, result,
                 issued, ran>>

Progress ==
  \/ Start \/ ChatFails \/ GroupEnds
  \/ \E names \in Responses : ChatEnds(names) \/ GroupStarts(names)
  \/ \E i \in DOMAIN work : Check(i) \/ Execute(i) \/ ToolReturns(i)

Next ==
  \/ Progress
  \/ \E t \in Tool, flag \in {"unsafe", "safe"} : Register(t, flag)

\* The thread of the run and those of the pool are scheduled.
Spec == Init /\ [][Next]_vars /\ WF_vars(Progress)

(***************************************************************************)
(* Properties.                                                             *)
(***************************************************************************)
\* The values a run may hold (AgentToolLoopConfig, AgentToolLoopResult).
TypeOK ==
  /\ config \in Configs /\ registry \in [Tool -> Safety]
  /\ pc \in {"idle", "chat", "group", "returned"}
  /\ step \in Nat /\ step < config.maxSteps /\ offered \subseteq Tool
  /\ \A k \in DOMAIN history : history[k] \in Message
  /\ \A i \in DOMAIN calls : calls[i] \in Call
  /\ mode \in {"sequential", "parallel"}
  /\ \A i \in DOMAIN work :
       work[i] \in Final \cup {"waiting", "admitted", "admitted_missing", "running"}
  /\ \A k \in DOMAIN results : results[k] \in Message
  /\ result.reason \in {"none", "completed", "approval_required", "llm_error",
                        "max_steps_exceeded", "tool_error"}
  /\ issued \subseteq Call
  /\ ran \subseteq [call : Call, late : BOOLEAN]

\* Whenever the provider is asked, every call of every assistant message is
\* answered by exactly one tool message, in the order of the calls and before
\* the next assistant message (README 627-630): providers refuse a conversation
\* that is not of this form.
HistoryIsWellFormed ==
  pc = "chat" =>
    \A k \in DOMAIN history :
      history[k].role = "assistant" =>
        LET cs == history[k].calls IN
        /\ k + Len(cs) <= Len(history)
        /\ \A i \in DOMAIN cs :
             history[k + i].role = "tool" /\ history[k + i].call = cs[i]
        /\ k + Len(cs) < Len(history) =>
             history[k + Len(cs) + 1].role = "assistant"

\* While two functions run at the same time, both are registered as
\* parallel_safe (README 603-607), whatever is registered meanwhile.
UnsafeToolsRunAlone ==
  \A i, j \in DOMAIN work :
    work[i] = "running" /\ work[j] = "running" /\ i # j =>
      registry[calls[i].name] = "safe"

\* A function that was entered had the policy's permission, no approval was
\* wanted, and its tool was offered to the model, or else had no registration
\* when the loop checked it (_execute_tool_call, 1039-1050).
OnlyGrantedToolsRun ==
  \A r \in ran :
    /\ Permitted(r.call.name) /\ ~config.approval
    /\ r.call.name \in offered \/ r.late

\* When the run has returned, every call the model ever made is reported once,
\* with its result or as pending, but for those behind a failure that stopped
\* the sequential loop; and what is pending, or left out, has not run.
NoCallIsForgotten ==
  pc = "returned" =>
    LET told == {results[k].call : k \in DOMAIN results}
        pending == Range(result.pending)
        missing == issued \ (told \cup pending)
    IN
    /\ told \cap pending = {} /\ Len(results) = Cardinality(told)
    /\ \A r \in ran : r.call \in told
    /\ missing # {} =>
         /\ result.reason = "tool_error" /\ mode = "sequential"
         /\ \A c \in missing : c.step = step

\* A run that was started returns, however many rounds the model asks for.
EveryRunReturns == pc = "chat" ~> pc = "returned"

\* Every call of the model is answered: in the history, in order, before the
\* model is asked again, and in the result of the run.
CallsAreAnswered == TypeOK /\ HistoryIsWellFormed /\ NoCallIsForgotten
=============================================================================
