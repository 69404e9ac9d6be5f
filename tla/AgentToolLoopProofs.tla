------------------------ MODULE AgentToolLoopProofs ------------------------
(***************************************************************************)
(* What AgentToolLoop keeps for any tools, configurations and registries:  *)
(* every call of the model is answered, unsafe tools run alone, and only   *)
(* granted tools run.                                                      *)
(***************************************************************************)
EXTENDS AgentToolLoop, SequenceTheorems, FiniteSetTheorems, TLAPS

-----------------------------------------------------------------------------
(* The inductive invariant *)

ToolMessage == [role : {"tool"}, call : Call, success : BOOLEAN]
WorkState == Final \cup {"waiting", "admitted", "admitted_missing", "running"}
Reason == {"none", "completed", "approval_required", "llm_error",
           "max_steps_exceeded", "tool_error"}

Types ==
  /\ config \in Configs /\ registry \in [Tool -> Safety]
  /\ pc \in {"idle", "chat", "group", "returned"}
  /\ step \in Nat /\ step < config.maxSteps /\ offered \subseteq Tool
  /\ history \in Seq(Message) /\ calls \in Seq(Call)
  /\ mode \in {"sequential", "parallel"}
  /\ work \in Seq(WorkState)
  /\ results \in Seq(ToolMessage)
  /\ result \in [reason : Reason, pending : Seq(Call)]
  /\ issued \subseteq Call
  /\ ran \subseteq [call : Call, late : BOOLEAN]

\* Before the run nothing has been asked.
Fresh ==
  pc = "idle" => /\ history = <<>> /\ results = <<>> /\ work = <<>>
                 /\ issued = {} /\ ran = {}

\* A group is made of the numbered calls of this round, and there is another.
Round ==
  pc = "group" =>
    /\ calls # <<>> /\ Len(work) = Len(calls)
    /\ \A i \in 1 .. Len(calls) : calls[i].step = step /\ calls[i].index = i
    /\ ~config.approval /\ step + 1 < config.maxSteps

\* Between the groups no call is under way.
Quiet ==
  pc # "group" => \A i \in 1 .. Len(work) : work[i] \in Final \cup {"waiting"}

\* The sequential loop comes to a call after those before it, none of which
\* broke it.
InTurn ==
  pc = "group" /\ mode = "sequential" =>
    \A i, j \in 1 .. Len(work) :
      i < j /\ work[j] # "waiting" =>
        work[i] \in Final /\ (config.stopOnError => ~Failed(i))

\* What a parallel group submits is permitted and safe.
Together ==
  pc = "group" /\ mode = "parallel" =>
    \A i \in 1 .. Len(work) :
      work[i] # "denied" =>
        Permitted(calls[i].name) /\ registry[calls[i].name] = "safe"

\* What the checks of the loop have admitted.
Granted ==
  pc = "group" =>
    \A i \in 1 .. Len(work) :
      /\ work[i] \in {"admitted", "admitted_missing"} => Permitted(calls[i].name)
      /\ work[i] = "admitted" => calls[i].name \in offered

\* The history during a group: all of it is well formed, but that the last
\* message waits for its answers.
Answering ==
  pc = "group" =>
    /\ history # <<>>
    /\ history[Len(history)] = [role |-> "assistant", calls |-> calls]
    /\ \A k \in 1 .. Len(history) - 1 :
         history[k].role = "assistant" =>
           LET cs == history[k].calls IN
           /\ k + Len(cs) < Len(history)
           /\ \A i \in 1 .. Len(cs) :
                history[k + i].role = "tool" /\ history[k + i].call = cs[i]
           /\ history[k + Len(cs) + 1].role = "assistant"

Told == {results[k].call : k \in 1 .. Len(results)}

\* The results are about different calls of earlier rounds.
ToldOnce ==
  /\ \A k, l \in 1 .. Len(results) : results[k].call = results[l].call => k = l
  /\ pc \in {"chat", "group"} =>
       \A k \in 1 .. Len(results) : results[k].call.step < step

\* Where the calls of the model, and those that were entered, are told.
Accounts ==
  /\ pc \in {"idle", "chat"} => issued = Told /\ \A r \in ran : r.call \in Told
  /\ pc = "group" =>
       /\ issued = Told \cup Range(calls)
       /\ \A r \in ran :
            r.call \in Told
            \/ \E i \in 1 .. Len(work) :
                 r.call = calls[i] /\ work[i] \in {"running", "ok", "failed"}

IInv ==
  /\ Types /\ Fresh /\ Round /\ Quiet /\ InTurn /\ Together /\ Granted
  /\ OnlyGrantedToolsRun /\ HistoryIsWellFormed /\ Answering
  /\ ToldOnce /\ Accounts /\ NoCallIsForgotten

-----------------------------------------------------------------------------
(* Lemmas *)

\* A function on 1 .. n is a sequence of length n.
LEMMA AsSequence ==
  ASSUME NEW S, NEW n \in Nat, NEW f \in [1 .. n -> S]
  PROVE  f \in Seq(S) /\ Len(f) = n /\ DOMAIN f = 1 .. n
OBVIOUS

\* A queue with one element more.
LEMMA Appended ==
  ASSUME NEW S, NEW s \in Seq(S), NEW e \in S
  PROVE  /\ Append(s, e) \in Seq(S) /\ Len(s) \in Nat /\ Len(Append(s, e)) = Len(s) + 1
         /\ \A i \in 1 .. Len(s) : Append(s, e)[i] = s[i]
         /\ Append(s, e)[Len(s) + 1] = e
BY AppendProperties, LenProperties

\* Two sequences in a row, element by element.
LEMMA Joining ==
  ASSUME NEW S, NEW s \in Seq(S), NEW t \in Seq(S)
  PROVE  /\ s \o t \in Seq(S) /\ Len(s) \in Nat /\ Len(t) \in Nat
         /\ Len(s \o t) = Len(s) + Len(t)
         /\ \A i \in 1 .. Len(s) : (s \o t)[i] = s[i]
         /\ \A i \in 1 .. Len(t) : (s \o t)[Len(s) + i] = t[i]
<1>1. /\ s \o t \in Seq(S) /\ Len(s \o t) = Len(s) + Len(t)
      /\ \A i \in 1 .. Len(s) + Len(t) :
           (s \o t)[i] = IF i <= Len(s) THEN s[i] ELSE t[i - Len(s)]
  BY ConcatProperties
<1>2. Len(s) \in Nat /\ Len(t) \in Nat
  BY LenProperties
<1>3. ASSUME NEW i \in 1 .. Len(s) PROVE (s \o t)[i] = s[i]
  BY <1>1, <1>2
<1>4. ASSUME NEW i \in 1 .. Len(t) PROVE (s \o t)[Len(s) + i] = t[i]
  <2>1. Len(s) + i \in 1 .. Len(s) + Len(t) /\ ~(Len(s) + i <= Len(s))
        /\ (Len(s) + i) - Len(s) = i
    BY <1>2
  <2> QED
    BY <1>1, <2>1
<1> QED
  BY <1>1, <1>2, <1>3, <1>4

\* The same, of a sequence u that is equal to them.
LEMMA JoinedAs ==
  ASSUME NEW S, NEW s \in Seq(S), NEW t \in Seq(S), NEW u, u = s \o t
  PROVE  /\ u \in Seq(S) /\ Len(s) \in Nat /\ Len(t) \in Nat
         /\ Len(u) = Len(s) + Len(t)
         /\ \A i \in 1 .. Len(s) : u[i] = s[i]
         /\ \A i \in 1 .. Len(t) : u[Len(s) + i] = t[i]
<1> DEFINE v == s \o t
<1>1. /\ v \in Seq(S) /\ Len(s) \in Nat /\ Len(t) \in Nat
      /\ Len(v) = Len(s) + Len(t)
      /\ \A i \in 1 .. Len(s) : v[i] = s[i]
      /\ \A i \in 1 .. Len(t) : v[Len(s) + i] = t[i]
  BY Joining
<1>2. u = v
  OBVIOUS
<1> HIDE DEF v
<1> QED
  BY <1>1, <1>2

\* Results about different calls are as many as the calls.
LEMMA ToldCount ==
  ASSUME Types, ToldOnce
  PROVE  Len(results) = Cardinality(Told)
<1> DEFINE n == Len(results)
           f == [k \in 1 .. n |-> results[k].call]
<1>1. n \in Nat
  BY LenProperties DEF Types
<1>2. f \in Bijection(1 .. n, Told)
  BY DEF Bijection, Injection, Surjection, IsInjective, Told, ToldOnce
<1>3. IsFiniteSet(1 .. n) /\ Cardinality(1 .. n) = n
  BY SMTT(60), <1>1, FS_Interval
<1> HIDE DEF f
<1>4. ExistsBijection(1 .. n, Told)
  BY <1>2 DEF ExistsBijection
<1> QED
  BY <1>3, <1>4, FS_Bijection

\* The calls of a response are numbered and bear the round.
LEMMA NumberedCalls ==
  ASSUME Types, NEW names \in Responses
  PROVE  LET cs == CallsOf(names) IN
         /\ cs \in Seq(Call) /\ (cs = <<>> <=> names = <<>>)
         /\ Len(cs) \in 0 .. MaxCalls /\ DOMAIN cs = 1 .. Len(cs)
         /\ \A i \in 1 .. Len(cs) : cs[i].step = step /\ cs[i].index = i
<1> DEFINE cs == CallsOf(names)
<1>1. PICK n \in 0 .. MaxCalls : names \in [1 .. n -> Tool]
  BY DEF Responses
<1>2. n \in Nat /\ MaxCalls \in Nat /\ \A i \in 1 .. n : i \in 1 .. MaxCalls
  BY <1>1, CallsAssumption
<1>3. cs = [i \in 1 .. n |-> [step |-> step, index |-> i, name |-> names[i]]]
  BY <1>1 DEF CallsOf
<1>4. \A i \in 1 .. n : [step |-> step, index |-> i, name |-> names[i]] \in Call
  BY <1>1, <1>2 DEF Call, Types
<1>5. cs \in [1 .. n -> Call]
  BY <1>3, <1>4
<1>6. cs \in Seq(Call) /\ Len(cs) = n /\ DOMAIN cs = 1 .. n
  <2> HIDE DEF cs
  <2> QED
    BY <1>2, <1>5, AsSequence
<1>7. cs = <<>> <=> names = <<>>
  <2>1. cs = <<>> <=> n = 0
    <3> HIDE DEF cs
    <3> QED
      BY <1>6, EmptySeq
  <2>2. names \in Seq(Tool) /\ Len(names) = n
    BY <1>1, <1>2, AsSequence
  <2>3. names = <<>> <=> n = 0
    BY <2>2, EmptySeq
  <2> QED
    BY <2>1, <2>3
<1>8. \A i \in 1 .. n : cs[i].step = step /\ cs[i].index = i
  BY <1>3
<1> HIDE DEF cs
<1>9. Len(cs) \in 0 .. MaxCalls
  BY <1>1, <1>6
<1>10. /\ cs \in Seq(Call) /\ (cs = <<>> <=> names = <<>>)
       /\ Len(cs) \in 0 .. MaxCalls /\ DOMAIN cs = 1 .. Len(cs)
       /\ \A i \in 1 .. Len(cs) : cs[i].step = step /\ cs[i].index = i
  BY <1>6, <1>7, <1>8, <1>9
<1> QED
  BY <1>10 DEF cs

\* When a group is done, the calls that are finished are the first ones, those
\* behind them wait, and there are such only behind a failure that broke the
\* sequential loop.
LEMMA GroupPrefix ==
  ASSUME Types, Round, InTurn, pc = "group", GroupDone
  PROVE  \E n \in 1 .. Len(calls) :
           /\ Cardinality(Finished) = n
           /\ \A i \in 1 .. n : work[i] \in Final
           /\ n # Len(calls) =>
                /\ mode = "sequential" /\ Broken
                /\ \A i \in n + 1 .. Len(calls) : work[i] = "waiting"
<1> DEFINE len == Len(calls)
<1>1. /\ len \in Nat /\ len >= 1 /\ DOMAIN work = 1 .. len
  BY EmptySeq, LenProperties DEF Types, Round
<1>2. CASE Finished = DOMAIN work
  <2>1. Cardinality(Finished) = len
    BY <1>1, <1>2, FS_Interval
  <2>2. \A i \in 1 .. len : work[i] \in Final
    BY <1>1, <1>2 DEF Finished
  <2> QED
    BY <1>1, <2>1, <2>2
<1>3. CASE Finished # DOMAIN work
  <2>1. mode = "sequential" /\ Broken
    BY <1>3 DEF GroupDone
  <2>2. PICK n \in 1 .. len : Failed(n)
    BY <1>1, <2>1 DEF Broken
  <2>3. config.stopOnError /\ work[n] \in Final /\ work[n] # "waiting"
    BY <2>1, <2>2 DEF Broken, Failed, Final, Outcome
  <2>4. \A i \in 1 .. len : i < n => work[i] \in Final
    BY <1>1, <2>1, <2>3 DEF InTurn
  <2>5. \A i \in 1 .. len : n < i => work[i] = "waiting"
    BY <1>1, <2>1, <2>2, <2>3 DEF InTurn
  <2>6. "waiting" \notin Final
    BY DEF Final, Outcome
  <2>7. ASSUME NEW i \in 1 .. len PROVE work[i] \in Final <=> i <= n
    <3>1. i < n \/ i = n \/ n < i
      BY <1>1
    <3> QED
      BY <1>1, <2>3, <2>4, <2>5, <2>6, <3>1
  <2>8. Finished = 1 .. n
    BY <1>1, <2>7 DEF Finished
  <2>9. Cardinality(Finished) = n
    BY <1>1, <2>8, FS_Interval
  <2>10. /\ \A i \in 1 .. n : i \in 1 .. len /\ i <= n
         /\ \A i \in n + 1 .. len : i \in 1 .. len /\ n < i
    BY <1>1
  <2> QED
    BY <2>1, <2>5, <2>7, <2>9, <2>10
<1> QED
  BY <1>2, <1>3

-----------------------------------------------------------------------------
(* The first state, and the steps between the groups *)

LEMMA InitHolds == Init => IInv
<1> SUFFICES ASSUME Init PROVE IInv
  OBVIOUS
<1>1. config.maxSteps \in Nat \ {0}
  BY ConfigAssumption DEF Init, Config
<1>2. Types
  BY <1>1, RegistryAssumption, EmptySeq DEF Init, Types, NoResult, Reason
<1>3. Len(results) = 0 /\ Len(history) = 0 /\ Len(work) = 0 /\ Told = {}
  BY DEF Init, Told
<1>4. Quiet /\ ToldOnce
  BY <1>3 DEF Quiet, ToldOnce
<1> QED
  BY <1>2, <1>3, <1>4
  DEF Init, IInv, Fresh, Round, InTurn, Together, Granted, OnlyGrantedToolsRun,
      HistoryIsWellFormed, Answering, Accounts, NoCallIsForgotten

LEMMA StartKeeps ==
  ASSUME IInv, Start
  PROVE  IInv'
<1>1. /\ pc = "idle" /\ pc' = "chat" /\ offered' \subseteq Tool
      /\ UNCHANGED <<registry, config, step, history, calls, mode, work, results,
                     result, issued, ran>>
  BY ConfigAssumption DEF Start, IInv, Types, Config, Registered
<1>2. Types'
  BY <1>1 DEF IInv, Types
<1>3. history = <<>> /\ results = <<>> /\ work = <<>> /\ issued = {} /\ ran = {}
  BY <1>1 DEF IInv, Fresh
<1>4. /\ Len(results) = 0 /\ Len(work) = 0 /\ Len(history) = 0 /\ DOMAIN history = {}
      /\ Told' = {}
  BY <1>1, <1>3 DEF Told
<1>5. Quiet' /\ ToldOnce'
  BY <1>1, <1>3, <1>4 DEF Quiet, ToldOnce
<1>6. HistoryIsWellFormed'
  BY <1>1, <1>3, <1>4 DEF HistoryIsWellFormed
<1> QED
  BY <1>1, <1>2, <1>3, <1>4, <1>5, <1>6
  DEF IInv, Fresh, Round, InTurn, Together, Granted, OnlyGrantedToolsRun,
      Answering, Accounts, NoCallIsForgotten

\* A run that ends between the groups, whatever becomes of the calls.
LEMMA ReturnKeeps ==
  ASSUME IInv, pc = "chat", pc' = "returned", Types',
         issued' = issued \cup Range(result'.pending),
         \A i \in 1 .. Len(result'.pending) : result'.pending[i].step = step,
         UNCHANGED <<registry, loopVars, history, mode, work, results, ran>>
  PROVE  IInv'
<1>1. UNCHANGED <<config, step, offered>>
  BY DEF loopVars
<1>2. Told' = Told
  BY DEF Told
<1> DEFINE told == {results[k].call : k \in DOMAIN results}
           pending == Range(result'.pending)
<1>3. DOMAIN results = 1 .. Len(results) /\ told = Told
  BY LenProperties DEF IInv, Types, Told
<1>4. ASSUME NEW c \in pending PROVE c.step = step
  <2>1. result'.pending \in Seq(Call)
    BY DEF Types
  <2>2. DOMAIN result'.pending = 1 .. Len(result'.pending)
    BY <2>1, LenProperties
  <2> QED
    BY <2>2 DEF Range
<1>5. \A c \in told : c.step < step
  BY <1>3 DEF IInv, ToldOnce, Told
<1>6. told \cap pending = {}
  <2>1. step \in Nat
    BY DEF IInv, Types
  <2> QED
    BY <1>4, <1>5, <2>1
<1>7. Len(results) = Cardinality(told)
  BY <1>3, ToldCount DEF IInv
<1>8. issued' \ (told \cup pending) = {} /\ \A r \in ran : r.call \in told
  BY <1>3 DEF IInv, Accounts
<1>9. NoCallIsForgotten'
  BY <1>6, <1>7, <1>8 DEF NoCallIsForgotten
<1>10. Quiet' /\ ToldOnce' /\ OnlyGrantedToolsRun'
  BY <1>1 DEF IInv, Quiet, ToldOnce, OnlyGrantedToolsRun, Permitted
<1> QED
  BY <1>9, <1>10
  DEF IInv, Fresh, Round, InTurn, Together, Granted, HistoryIsWellFormed,
      Answering, Accounts

LEMMA ChatFailsKeeps ==
  ASSUME IInv, ChatFails
  PROVE  IInv'
<1>1. /\ pc = "chat" /\ pc' = "returned"
      /\ result' = [reason |-> "llm_error", pending |-> <<>>]
      /\ UNCHANGED <<registry, loopVars, history, calls, mode, work, results,
                     issued, ran>>
  BY DEF ChatFails, Return
<1>2. result'.pending = <<>> /\ Len(result'.pending) = 0 /\ Range(result'.pending) = {}
  BY <1>1 DEF Range
<1>3. Types'
  BY <1>1, EmptySeq DEF IInv, Types, loopVars, Reason
<1> QED
  BY <1>1, <1>2, <1>3, ReturnKeeps

LEMMA ChatEndsKeeps ==
  ASSUME IInv, NEW names \in Responses, ChatEnds(names)
  PROVE  IInv'
<1> DEFINE cs == CallsOf(names)
<1>1. /\ cs \in Seq(Call) /\ (cs = <<>> <=> names = <<>>)
      /\ \A i \in 1 .. Len(cs) : cs[i].step = step
  BY NumberedCalls DEF IInv
<1> HIDE DEF cs
<1>2. /\ pc = "chat" /\ pc' = "returned" /\ calls' = cs
      /\ issued' = issued \cup Range(cs) /\ result'.pending = cs
      /\ result' \in [reason : Reason, pending : Seq(Call)]
      /\ UNCHANGED <<registry, loopVars, history, mode, work, results, ran>>
  <2>1. pc = "chat" /\ pc' = "returned" /\ calls' = cs /\ issued' = issued \cup Range(cs)
    BY DEF ChatEnds, Return, cs
  <2>2. \E reason \in Reason : result' = [reason |-> reason, pending |-> cs]
    BY <1>1, <2>1 DEF ChatEnds, Return, Reason
  <2> QED
    BY <1>1, <2>1, <2>2 DEF ChatEnds
<1>3. Range(cs) \subseteq Call
  BY <1>1, RangeOfSeq
<1>4. Types'
  BY <1>1, <1>2, <1>3 DEF IInv, Types, loopVars
<1> QED
  BY <1>1, <1>2, <1>4, ReturnKeeps

LEMMA GroupStartsKeeps ==
  ASSUME IInv, NEW names \in Responses, GroupStarts(names)
  PROVE  IInv'
<1> DEFINE cs == CallsOf(names)
           message == [role |-> "assistant", calls |-> cs]
           L == Len(history)
<1>1. /\ cs \in Seq(Call) /\ cs # <<>> /\ DOMAIN cs = 1 .. Len(cs) /\ Len(cs) \in Nat
      /\ \A i \in 1 .. Len(cs) : cs[i].step = step /\ cs[i].index = i
  BY NumberedCalls, CallsAssumption DEF IInv, GroupStarts
<1>2. /\ pc = "chat" /\ pc' = "group" /\ ~config.approval /\ ~LastStep
      /\ calls' = cs /\ history' = Append(history, message)
      /\ mode' = GroupMode(cs) /\ work' = Submitted(cs, mode')
      /\ issued' = issued \cup Range(cs)
      /\ UNCHANGED <<registry, config, step, offered, results, result, ran>>
  BY DEF GroupStarts, loopVars
<1> HIDE DEF cs
<1>3. /\ work' \in Seq(WorkState) /\ Len(work') = Len(cs)
      /\ \A i \in 1 .. Len(cs) :
           work'[i] = IF mode' = "parallel" /\ ~Permitted(cs[i].name)
                      THEN "denied" ELSE "waiting"
  <2>1. work' \in [1 .. Len(cs) -> WorkState]
    BY <1>1, <1>2 DEF Submitted, WorkState, Final
  <2> QED
    BY <1>1, <1>2, <2>1, AsSequence DEF Submitted
<1>4. message \in Message /\ message.role = "assistant" /\ message.calls = cs
  BY <1>1 DEF Message
<1> HIDE DEF message
<1>5. /\ history' \in Seq(Message) /\ L \in Nat /\ Len(history') = L + 1
      /\ \A i \in 1 .. L : history'[i] = history[i]
      /\ history'[L + 1] = message
      /\ DOMAIN history = 1 .. L
  BY <1>2, <1>4, Appended, LenProperties DEF IInv, Types
<1>6. mode' \in {"sequential", "parallel"}
  BY <1>2 DEF GroupMode
<1>7. Types'
  <2>1. issued' \subseteq Call
    BY <1>1, <1>2, RangeOfSeq DEF IInv, Types
  <2> QED
    BY <1>1, <1>2, <1>3, <1>5, <1>6, <2>1 DEF IInv, Types
<1>8. Round'
  <2>1. step \in Nat /\ config.maxSteps \in Nat
    BY ConfigAssumption DEF IInv, Types, Config
  <2>2. step + 1 < config.maxSteps
    BY <1>2, <2>1 DEF LastStep
  <2> QED
    BY <1>1, <1>2, <1>3, <2>2 DEF Round
<1>9. \A i \in 1 .. Len(work') : work'[i] = "denied" \/ work'[i] = "waiting"
  BY <1>3
<1>10. InTurn'
  <2> SUFFICES ASSUME mode' = "sequential",
                      NEW i \in 1 .. Len(work'), work'[i] # "waiting"
               PROVE  FALSE
    BY <1>9 DEF InTurn
  <2> QED
    BY <1>3
<1>11. Together'
  <2> SUFFICES ASSUME mode' = "parallel",
                      NEW i \in 1 .. Len(work'), work'[i] # "denied"
               PROVE  Permitted(cs[i].name) /\ registry[cs[i].name] = "safe"
    BY <1>2 DEF Together, Permitted
  <2>1. i \in 1 .. Len(cs) /\ Permitted(cs[i].name)
    BY <1>3
  <2>2. registry[cs[i].name] = "safe"
    BY <1>1, <1>2, <2>1 DEF GroupMode
  <2> QED
    BY <2>1, <2>2
<1>12. Granted'
  BY <1>9 DEF Granted
<1>13. OnlyGrantedToolsRun'
  BY <1>2 DEF IInv, OnlyGrantedToolsRun, Permitted
<1>14. Answering'
  <2>1. history' # <<>>
    BY <1>5, EmptySeq
  <2>2. history'[Len(history')] = [role |-> "assistant", calls |-> calls']
    BY <1>2, <1>5 DEF message
  <2>3. ASSUME NEW k \in 1 .. Len(history') - 1, history'[k].role = "assistant"
        PROVE  LET ds == history'[k].calls IN
               /\ k + Len(ds) < Len(history')
               /\ \A i \in 1 .. Len(ds) :
                    history'[k + i].role = "tool" /\ history'[k + i].call = ds[i]
               /\ history'[k + Len(ds) + 1].role = "assistant"
    <3> DEFINE ds == history[k].calls
    <3>1. k \in 1 .. L /\ history'[k] = history[k]
      BY <1>5
    <3>2. ds \in Seq(Call)
      <4>1. history[k] \in Message /\ history[k].role = "assistant"
        BY <1>5, <2>3, <3>1, ElementOfSeq DEF IInv, Types
      <4> QED
        BY <4>1 DEF Message
    <3>3. Len(ds) \in Nat /\ DOMAIN ds = 1 .. Len(ds)
      BY <3>2, LenProperties
    <3>4. /\ k + Len(ds) <= L
          /\ \A i \in 1 .. Len(ds) :
               history[k + i].role = "tool" /\ history[k + i].call = ds[i]
          /\ k + Len(ds) < L => history[k + Len(ds) + 1].role = "assistant"
      <4>1. k \in DOMAIN history /\ history[k].role = "assistant" /\ L \in Nat
        BY <1>5, <2>3, <3>1
      <4>2. HistoryIsWellFormed /\ pc = "chat"
        BY <1>2 DEF IInv
      <4>3. /\ k + Len(ds) <= L
            /\ \A i \in DOMAIN ds :
                 history[k + i].role = "tool" /\ history[k + i].call = ds[i]
            /\ k + Len(ds) < L => history[k + Len(ds) + 1].role = "assistant"
        BY <4>1, <4>2 DEF HistoryIsWellFormed
      <4> QED
        BY <3>3, <4>3
    <3> HIDE DEF ds
    <3>5. k + Len(ds) < L + 1
      BY <1>5, <3>1, <3>3, <3>4
    <3>6. ASSUME NEW i \in 1 .. Len(ds)
          PROVE  history'[k + i].role = "tool" /\ history'[k + i].call = ds[i]
      <4>1. k + i \in 1 .. L
        BY <1>5, <3>1, <3>3, <3>4
      <4> QED
        BY <1>5, <3>4, <4>1
    <3>7. history'[k + Len(ds) + 1].role = "assistant"
      <4>1. CASE k + Len(ds) < L
        <5>1. k + Len(ds) + 1 \in 1 .. L
          BY <1>5, <3>1, <3>3, <4>1
        <5> QED
          BY <1>5, <3>4, <4>1, <5>1
      <4>2. CASE k + Len(ds) = L
        <5>1. k + Len(ds) + 1 = L + 1
          BY <4>2
        <5> QED
          BY <1>4, <1>5, <5>1
      <4>3. k + Len(ds) <= L /\ k + Len(ds) \in Nat /\ L \in Nat
        BY <1>5, <3>1, <3>3, <3>4
      <4> QED
        BY <4>1, <4>2, <4>3
    <3>8. history'[k].calls = ds
      BY <3>1 DEF ds
    <3> QED
      BY <1>5, <3>5, <3>6, <3>7, <3>8
  <2> QED
    BY <1>2, <2>1, <2>2, <2>3 DEF Answering
<1>15. ToldOnce'
  BY <1>2 DEF IInv, ToldOnce
<1>16. Accounts'
  <2>1. Told' = Told
    BY <1>2 DEF Told
  <2> QED
    BY <1>2, <2>1 DEF IInv, Accounts
<1> QED
  BY <1>2, <1>7, <1>8, <1>10, <1>11, <1>12, <1>13, <1>14, <1>15, <1>16
  DEF IInv, Fresh, Quiet, HistoryIsWellFormed, NoCallIsForgotten

-----------------------------------------------------------------------------
(* The steps of one call *)

\* A step of a call that is not finished: what follows depends on the turn of
\* the call, on what was checked, and on what has run.
LEMMA CallStepKeeps ==
  ASSUME IInv, pc = "group", NEW i \in 1 .. Len(work), NEW w \in WorkState \ {"waiting"},
         work[i] \notin Final,
         work' = [work EXCEPT ![i] = w],
         UNCHANGED <<registry, pc, loopVars, history, calls, mode, results, result,
                     issued>>,
         mode = "sequential" =>
           \A j \in 1 .. Len(work) :
             j < i => work[j] \in Final /\ (config.stopOnError => ~Failed(j)),
         mode = "parallel" => w # "denied",
         w \in {"admitted", "admitted_missing"} => Permitted(calls[i].name),
         w = "admitted" => calls[i].name \in offered,
         ran' \subseteq [call : Call, late : BOOLEAN],
         OnlyGrantedToolsRun',
         \A r \in ran' \ ran : r.call = calls[i] /\ w = "running",
         work[i] = "running" => w \in Outcome
  PROVE  IInv'
<1> DEFINE n == Len(work)
<1>1. /\ n \in Nat /\ work' \in Seq(WorkState) /\ Len(work') = n
      /\ \A j \in 1 .. n : work'[j] = IF j = i THEN w ELSE work[j]
  BY ExceptSeq, LenProperties DEF IInv, Types
<1>2. UNCHANGED <<config, step, offered>>
  BY DEF loopVars
<1>3. Types'
  BY <1>1, <1>2 DEF IInv, Types
<1>4. Round'
  BY <1>1, <1>2 DEF IInv, Round
<1>5. InTurn'
  <2> SUFFICES ASSUME mode = "sequential", NEW j \in 1 .. n, NEW k \in 1 .. n,
                      j < k, work'[k] # "waiting"
               PROVE  work'[j] \in Final /\ (config.stopOnError => ~Failed(j)')
    BY <1>1, <1>2 DEF InTurn
  <2>1. CASE k = i
    <3>1. work[j] \in Final /\ (config.stopOnError => ~Failed(j)) /\ j # i
      BY <1>1, <2>1
    <3> QED
      BY <1>1, <3>1 DEF Failed
  <2>2. CASE k # i
    <3>1. work[k] # "waiting"
      BY <1>1, <2>2
    <3>2. work[j] \in Final /\ (config.stopOnError => ~Failed(j))
      BY <3>1 DEF IInv, InTurn
    <3>3. j # i
      BY <3>2
    <3> QED
      BY <1>1, <3>2, <3>3 DEF Failed
  <2> QED
    BY <2>1, <2>2
<1>6. Together'
  <2> SUFFICES ASSUME mode = "parallel", NEW j \in 1 .. n, work'[j] # "denied"
               PROVE  Permitted(calls[j].name)' /\ registry[calls[j].name] = "safe"
    BY <1>1 DEF Together
  <2>1. work[j] # "denied"
    BY <1>1 DEF Final, Outcome
  <2> QED
    BY <1>2, <2>1 DEF IInv, Together, Permitted
<1>7. Granted'
  <2> SUFFICES ASSUME NEW j \in 1 .. n
               PROVE  /\ work'[j] \in {"admitted", "admitted_missing"} =>
                           Permitted(calls[j].name)'
                      /\ work'[j] = "admitted" => calls[j].name \in offered
    BY <1>1, <1>2 DEF Granted
  <2>1. CASE j = i
    BY <1>1, <1>2, <2>1 DEF Permitted
  <2>2. CASE j # i
    BY <1>1, <1>2, <2>2 DEF IInv, Granted, Permitted
  <2> QED
    BY <2>1, <2>2
<1>8. Answering' /\ ToldOnce'
  BY <1>2 DEF IInv, Answering, ToldOnce
<1>9. Accounts'
  <2>1. Told' = Told /\ issued' = Told \cup Range(calls)
    BY DEF IInv, Told, Accounts
  <2>2. ASSUME NEW r \in ran'
        PROVE  \/ r.call \in Told
               \/ \E j \in 1 .. n : /\ r.call = calls[j]
                                    /\ work'[j] \in {"running", "ok", "failed"}
    <3>1. CASE r \notin ran
      BY <1>1, <2>2, <3>1
    <3>2. CASE r \in ran
      <4>1. \/ r.call \in Told
            \/ \E j \in 1 .. n : r.call = calls[j] /\ work[j] \in {"running", "ok", "failed"}
        BY <3>2 DEF IInv, Accounts
      <4>2. work[i] \in {"running", "ok", "failed"} => w \in {"ok", "failed"}
        BY DEF Final, Outcome
      <4> QED
        BY <1>1, <4>1, <4>2
    <3> QED
      BY <3>1, <3>2
  <2> QED
    BY <1>1, <2>1, <2>2 DEF Accounts
<1> QED
  BY <1>3, <1>4, <1>5, <1>6, <1>7, <1>8, <1>9
  DEF IInv, Fresh, Quiet, HistoryIsWellFormed, NoCallIsForgotten

\* The turn of a call that has been started.
LEMMA StartedInTurn ==
  ASSUME IInv, pc = "group", mode = "sequential", NEW i \in 1 .. Len(work),
         work[i] # "waiting", NEW j \in 1 .. Len(work), j < i
  PROVE  work[j] \in Final /\ (config.stopOnError => ~Failed(j))
BY DEF IInv, InTurn

LEMMA CheckKeeps ==
  ASSUME IInv, NEW i \in DOMAIN work, Check(i)
  PROVE  IInv'
<1> DEFINE t == calls[i].name
           w == IF ~Permitted(t) THEN "denied"
                ELSE IF ~Admits(t) THEN "failed"
                ELSE IF registry[t] = "missing" THEN "admitted_missing"
                ELSE "admitted"
<1>1. /\ pc = "group" /\ work[i] = "waiting" /\ work' = [work EXCEPT ![i] = w]
      /\ UNCHANGED <<registry, pc, loopVars, history, calls, mode, results, result,
                     issued, ran>>
      /\ mode = "sequential" => (\A j \in 1 .. i - 1 : work[j] \in Final) /\ ~Broken
  BY DEF Check, MayStart
<1>2. Len(work) \in Nat /\ DOMAIN work = 1 .. Len(work) /\ i \in 1 .. Len(work)
  BY LenProperties DEF IInv, Types
<1>3. /\ w \in WorkState \ {"waiting"} /\ work[i] \notin Final
      /\ w \in {"admitted", "admitted_missing"} => Permitted(t)
      /\ w = "admitted" => t \in offered
      /\ w # "running"
  BY <1>1 DEF WorkState, Final, Outcome, Admits
<1>4. ASSUME mode = "parallel" PROVE w # "denied"
  <2>1. Permitted(t)
    BY <1>1, <1>2, <1>4 DEF IInv, Together
  <2> QED
    BY <2>1
<1>5. ASSUME mode = "sequential", NEW j \in 1 .. Len(work), j < i
      PROVE  work[j] \in Final /\ (config.stopOnError => ~Failed(j))
  <2>1. j \in 1 .. i - 1
    BY <1>2, <1>5
  <2> QED
    BY <1>1, <1>2, <1>5, <2>1 DEF Broken
<1> HIDE DEF w
<1>6. OnlyGrantedToolsRun' /\ ran' \subseteq [call : Call, late : BOOLEAN]
  BY <1>1 DEF IInv, Types, OnlyGrantedToolsRun, Permitted, loopVars
<1>7. \A r \in ran' \ ran : r.call = calls[i] /\ w = "running"
  BY <1>1
<1>8. work[i] # "running"
  BY <1>1
<1> QED
  BY <1>1, <1>2, <1>3, <1>4, <1>5, <1>6, <1>7, <1>8, CallStepKeeps

LEMMA ExecuteKeeps ==
  ASSUME IInv, NEW i \in DOMAIN work, Execute(i)
  PROVE  IInv'
<1>1. /\ pc = "group" /\ work[i] \in {"admitted", "admitted_missing"}
      /\ UNCHANGED <<registry, pc, loopVars, history, calls, mode, results, result,
                     issued>>
  BY DEF Execute
<1>2. /\ Len(work) \in Nat /\ DOMAIN work = 1 .. Len(work) /\ i \in 1 .. Len(work)
      /\ work[i] \notin Final /\ work[i] # "waiting" /\ work[i] # "running"
  BY <1>1, LenProperties DEF IInv, Types, Final, Outcome
<1>3. \A j \in 1 .. Len(work) :
        mode = "sequential" /\ j < i =>
          work[j] \in Final /\ (config.stopOnError => ~Failed(j))
  BY <1>1, <1>2, StartedInTurn
<1>4. "failed" \in WorkState \ {"waiting"} /\ "running" \in WorkState \ {"waiting"}
  BY DEF WorkState, Final, Outcome
<1>5. CASE work' = [work EXCEPT ![i] = "failed"] /\ ran' = ran
  <2>1. OnlyGrantedToolsRun' /\ ran' \subseteq [call : Call, late : BOOLEAN]
    BY <1>1, <1>5 DEF IInv, Types, OnlyGrantedToolsRun, Permitted, loopVars
  <2> QED
    BY <1>1, <1>2, <1>3, <1>4, <1>5, <2>1, CallStepKeeps
<1>6. CASE /\ work' = [work EXCEPT ![i] = "running"]
           /\ ran' = ran \cup {[call |-> calls[i], late |-> work[i] = "admitted_missing"]}
  <2> DEFINE new == [call |-> calls[i], late |-> work[i] = "admitted_missing"]
  <2>1. calls[i] \in Call
    BY <1>1, <1>2, ElementOfSeq DEF IInv, Types, Round
  <2>2. ran' \subseteq [call : Call, late : BOOLEAN]
    <3> DEFINE missing == work[i] = "admitted_missing"
    <3>1. missing \in BOOLEAN
      OBVIOUS
    <3>2. [call |-> calls[i], late |-> missing] \in [call : Call, late : BOOLEAN]
      <4> HIDE DEF missing
      <4> QED
        BY <2>1, <3>1
    <3>3. ran \subseteq [call : Call, late : BOOLEAN]
      BY DEF IInv, Types
    <3> QED
      BY <1>6, <3>2, <3>3
  <2>3. /\ Permitted(calls[i].name) /\ ~config.approval
        /\ work[i] = "admitted" => calls[i].name \in offered
    BY <1>1, <1>2 DEF IInv, Granted, Round
  <2>4. OnlyGrantedToolsRun'
    <3> SUFFICES ASSUME NEW r \in ran'
                 PROVE  /\ Permitted(r.call.name) /\ ~config.approval
                        /\ r.call.name \in offered \/ r.late
      BY <1>1 DEF OnlyGrantedToolsRun, Permitted, loopVars
    <3>1. CASE r \in ran
      BY <3>1 DEF IInv, OnlyGrantedToolsRun
    <3>2. CASE r = new
      <4>1. r.call = calls[i] /\ (r.late <=> work[i] = "admitted_missing")
        BY <3>2
      <4> QED
        BY <1>1, <2>3, <4>1
    <3> QED
      BY <1>6, <3>1, <3>2
  <2>5. \A r \in ran' \ ran : r.call = calls[i]
    BY <1>6
  <2> QED
    BY <1>1, <1>2, <1>3, <1>4, <1>6, <2>2, <2>4, <2>5, CallStepKeeps
<1> QED
  BY <1>5, <1>6 DEF Execute

LEMMA ToolReturnsKeeps ==
  ASSUME IInv, NEW i \in DOMAIN work, ToolReturns(i)
  PROVE  IInv'
<1>1. /\ pc = "group" /\ work[i] = "running"
      /\ UNCHANGED <<registry, pc, loopVars, history, calls, mode, results, result,
                     issued, ran>>
  BY DEF ToolReturns
<1>2. PICK w \in Outcome : work' = [work EXCEPT ![i] = w]
  BY DEF ToolReturns
<1>3. /\ Len(work) \in Nat /\ DOMAIN work = 1 .. Len(work) /\ i \in 1 .. Len(work)
      /\ work[i] \notin Final /\ work[i] # "waiting"
      /\ w \in WorkState \ {"waiting"} /\ w \notin {"denied", "admitted", "admitted_missing"}
  BY <1>1, LenProperties DEF IInv, Types, Final, Outcome, WorkState
<1>4. \A j \in 1 .. Len(work) :
        mode = "sequential" /\ j < i =>
          work[j] \in Final /\ (config.stopOnError => ~Failed(j))
  BY <1>1, <1>3, StartedInTurn
<1>5. OnlyGrantedToolsRun' /\ ran' \subseteq [call : Call, late : BOOLEAN]
  BY <1>1 DEF IInv, Types, OnlyGrantedToolsRun, Permitted, loopVars
<1> QED
  BY <1>1, <1>2, <1>3, <1>4, <1>5, CallStepKeeps

LEMMA RegisterKeeps ==
  ASSUME IInv, NEW t \in Tool, NEW flag \in {"unsafe", "safe"}, Register(t, flag)
  PROVE  IInv'
<1>1. /\ registry[t] = "missing" /\ pc # "returned"
      /\ registry' = [registry EXCEPT ![t] = flag]
      /\ UNCHANGED <<pc, config, step, offered, history, calls, mode, work, results,
                     result, issued, ran>>
  BY DEF Register, loopVars
<1>2. Types'
  BY <1>1 DEF IInv, Types, Safety
<1>3. \A u \in Tool : registry[u] = "safe" => registry'[u] = "safe"
  BY <1>1 DEF IInv, Types
<1>4. Together'
  <2> SUFFICES ASSUME pc = "group", mode = "parallel", NEW i \in 1 .. Len(work),
                      work[i] # "denied"
               PROVE  Permitted(calls[i].name) /\ registry'[calls[i].name] = "safe"
    BY <1>1 DEF Together, Permitted
  <2>1. Permitted(calls[i].name) /\ registry[calls[i].name] = "safe"
    BY DEF IInv, Together
  <2>2. calls[i] \in Call
    BY ElementOfSeq DEF IInv, Types, Round
  <2>3. calls[i].name \in Tool
    BY <2>2 DEF Call
  <2> QED
    BY <1>3, <2>1, <2>3
<1>5. Told' = Told
  BY <1>1 DEF Told
<1> QED
  BY <1>1, <1>2, <1>4, <1>5
  DEF IInv, Fresh, Round, Quiet, InTurn, Failed, Granted, Permitted, OnlyGrantedToolsRun,
      HistoryIsWellFormed, Answering, ToldOnce, Accounts, NoCallIsForgotten

-----------------------------------------------------------------------------
(* The end of a group *)

\* What the group has gathered: the outcomes of its first n calls, in order.
LEMMA OutcomesOfPrefix ==
  ASSUME IInv, pc = "group", NEW n \in 1 .. Len(calls), Cardinality(Finished) = n
  PROVE  /\ Outcomes \in Seq(ToolMessage) /\ Len(Outcomes) = n
         /\ \A k \in 1 .. n : Outcomes[k].role = "tool" /\ Outcomes[k].call = calls[k]
<1>1. calls \in Seq(Call) /\ Len(calls) \in Nat /\ n \in Nat /\ n <= Len(calls)
  BY LenProperties DEF IInv, Types
<1>2. \A k \in 1 .. n : calls[k] \in Call
  BY <1>1, ElementOfSeq
<1>3. /\ SubSeq(calls, 1, n) \in Seq(Call) /\ Len(SubSeq(calls, 1, n)) = n
      /\ \A k \in 1 .. n : SubSeq(calls, 1, n)[k] = calls[k]
  BY <1>1, <1>2, SubSeqProperties
<1>4. /\ Answered \in Seq(Call) /\ Len(Answered) = n /\ DOMAIN Answered = 1 .. n
      /\ \A k \in 1 .. n : Answered[k] = calls[k]
  <2>1. Answered = SubSeq(calls, 1, n)
    BY DEF Answered
  <2> QED
    BY <1>3, <2>1, LenProperties
<1>5. ASSUME NEW k \in 1 .. n, NEW good \in BOOLEAN
      PROVE  [role |-> "tool", call |-> Answered[k], success |-> good] \in ToolMessage
  BY <1>2, <1>4, <1>5 DEF ToolMessage
<1>6. ASSUME NEW k \in 1 .. n
      PROVE  [role |-> "tool", call |-> Answered[k],
              success |-> work[Answered[k].index] = "ok"] \in ToolMessage
  <2> DEFINE good == work[Answered[k].index] = "ok"
  <2>1. good \in BOOLEAN
    OBVIOUS
  <2> HIDE DEF good
  <2>2. [role |-> "tool", call |-> Answered[k], success |-> good] \in ToolMessage
    BY <1>5, <2>1
  <2> QED
    BY <2>2 DEF good
<1>7. Outcomes \in [1 .. n -> ToolMessage]
  BY <1>4, <1>6 DEF Outcomes
<1>8. \A k \in 1 .. n : Outcomes[k].role = "tool" /\ Outcomes[k].call = calls[k]
  BY <1>4 DEF Outcomes
<1> QED
  BY <1>1, <1>7, <1>8, AsSequence

\* The results with the outcomes of the group: about different calls still.
LEMMA ResultsGrow ==
  ASSUME IInv, pc = "group", NEW n \in 1 .. Len(calls), Cardinality(Finished) = n,
         results' = results \o Outcomes
  PROVE  /\ results' \in Seq(ToolMessage)
         /\ \A k \in 1 .. Len(results') :
              results'[k].call.step \in Nat /\ results'[k].call.step <= step
         /\ \A k, l \in 1 .. Len(results') :
              results'[k].call = results'[l].call => k = l
         /\ Told' = Told \cup {calls[k] : k \in 1 .. n}
<1> DEFINE R == Len(results)
<1>1. /\ Outcomes \in Seq(ToolMessage) /\ Len(Outcomes) = n
      /\ \A k \in 1 .. n : Outcomes[k].call = calls[k]
  BY OutcomesOfPrefix
<1>2. results \in Seq(ToolMessage) /\ calls \in Seq(Call) /\ step \in Nat
  BY DEF IInv, Types
<1>3. /\ results' \in Seq(ToolMessage) /\ R \in Nat /\ Len(results') = R + n
      /\ \A k \in 1 .. R : results'[k] = results[k]
      /\ \A k \in 1 .. n : results'[R + k] = Outcomes[k]
  <2>1. results \in Seq(ToolMessage) /\ Outcomes \in Seq(ToolMessage)
    BY <1>1, <1>2
  <2>2. /\ results' \in Seq(ToolMessage) /\ R \in Nat
        /\ Len(results') = R + Len(Outcomes)
        /\ \A k \in 1 .. R : results'[k] = results[k]
        /\ \A k \in 1 .. Len(Outcomes) : results'[R + k] = Outcomes[k]
    BY <2>1, JoinedAs
  <2> QED
    BY <1>1, <2>2
<1>4. \A k \in 1 .. n : /\ calls[k] \in Call /\ calls[k].step = step
                        /\ calls[k].index = k /\ k \in Nat
  BY <1>2, ElementOfSeq, LenProperties DEF IInv, Round
<1>5. \A k \in 1 .. R : results[k] \in ToolMessage /\ results[k].call.step < step
  BY <1>2, ElementOfSeq DEF IInv, ToldOnce
<1>6. \A k \in 1 .. R : results[k].call.step \in Nat
  BY <1>5 DEF ToolMessage, Call
<1>7. \A k, l \in 1 .. R : results[k].call = results[l].call => k = l
  BY DEF IInv, ToldOnce
<1> HIDE DEF R
<1>8. ASSUME NEW k \in 1 .. R + n
      PROVE  \/ k \in 1 .. R /\ results'[k].call = results[k].call
             \/ /\ k - R \in 1 .. n /\ results'[k].call = calls[k - R]
                /\ k = R + (k - R)
  <2>1. CASE k \in 1 .. R
    BY <1>3, <2>1
  <2>2. CASE k \notin 1 .. R
    <3>1. k - R \in 1 .. n /\ k = R + (k - R)
      BY <1>3, <1>8, <2>2
    <3>2. results'[R + (k - R)] = Outcomes[k - R]
      BY <1>3, <3>1
    <3> QED
      BY <1>1, <3>1, <3>2
  <2> QED
    BY <2>1, <2>2
<1>9. ASSUME NEW k \in 1 .. R + n
      PROVE  results'[k].call.step \in Nat /\ results'[k].call.step <= step
  <2>1. CASE k \in 1 .. R /\ results'[k].call = results[k].call
    BY <1>2, <1>5, <1>6, <2>1
  <2>2. CASE k - R \in 1 .. n /\ results'[k].call = calls[k - R]
    BY <1>2, <1>4, <2>2
  <2> QED
    BY <1>8, <2>1, <2>2
<1>10. ASSUME NEW k \in 1 .. R + n, NEW l \in 1 .. R + n,
              results'[k].call = results'[l].call
       PROVE  k = l
  <2>1. CASE k \in 1 .. R /\ results'[k].call = results[k].call
    <3>1. results'[l].call.step < step /\ results'[l].call.step \in Nat
      BY <1>5, <1>6, <1>10, <2>1
    <3>2. results'[l].call.step # step
      <4> DEFINE s == results'[l].call.step
      <4>1. s < step /\ s \in Nat
        BY <3>1
      <4> HIDE DEF s
      <4>2. s # step
        BY <1>2, <4>1
      <4> QED
        BY <4>2 DEF s
    <3>3. l \in 1 .. R /\ results'[l].call = results[l].call
      BY <1>4, <1>8, <3>2
    <3> QED
      BY <1>7, <1>10, <2>1, <3>3
  <2>2. CASE k - R \in 1 .. n /\ results'[k].call = calls[k - R] /\ k = R + (k - R)
    <3>1. results'[l].call.step = step /\ results'[l].call.index = k - R
      BY <1>4, <1>10, <2>2
    <3>2. ~(l \in 1 .. R /\ results'[l].call = results[l].call)
      <4> SUFFICES ASSUME l \in 1 .. R, results'[l].call = results[l].call
                   PROVE  FALSE
        OBVIOUS
      <4>1. results[l].call.step < step /\ results[l].call.step = step
        BY <1>5, <3>1
      <4> QED
        BY <1>2, <4>1
    <3>3. l - R \in 1 .. n /\ results'[l].call = calls[l - R] /\ l = R + (l - R)
      BY <1>8, <3>2
    <3>4. l - R = k - R
      BY <1>4, <3>1, <3>3
    <3> QED
      BY <2>2, <3>3, <3>4
  <2> QED
    BY <1>8, <2>1, <2>2
<1>11. Told' = Told \cup {calls[k] : k \in 1 .. n}
  <2>1. ASSUME NEW k \in 1 .. n PROVE R + k \in 1 .. R + n
    BY <1>3, <1>4, <2>1
  <2>2. Told' = {results'[k].call : k \in 1 .. R + n}
    BY <1>3 DEF Told
  <2>3. Told = {results[k].call : k \in 1 .. R}
    BY DEF Told, R
  <2>4. \A k \in 1 .. R : k \in 1 .. R + n
    BY <1>3, <1>4
  <2>5. Told' \subseteq Told \cup {calls[k] : k \in 1 .. n}
    <3> SUFFICES ASSUME NEW k \in 1 .. R + n
                 PROVE  results'[k].call \in Told \cup {calls[j] : j \in 1 .. n}
      BY <2>2
    <3>1. CASE k \in 1 .. R /\ results'[k].call = results[k].call
      BY <2>3, <3>1
    <3>2. CASE k - R \in 1 .. n /\ results'[k].call = calls[k - R]
      BY <3>2
    <3> QED
      BY <1>8, <3>1, <3>2
  <2>6. Told \subseteq Told'
    BY <1>3, <2>2, <2>3, <2>4
  <2>7. {calls[k] : k \in 1 .. n} \subseteq Told'
    <3> SUFFICES ASSUME NEW k \in 1 .. n PROVE calls[k] \in Told'
      OBVIOUS
    <3>1. results'[R + k].call = calls[k] /\ R + k \in 1 .. R + n
      BY <1>1, <1>3, <2>1
    <3> QED
      BY <2>2, <3>1
  <2> QED
    BY <2>5, <2>6, <2>7
<1> QED
  BY <1>3, <1>9, <1>10, <1>11

LEMMA GroupEndsKeeps ==
  ASSUME IInv, GroupEnds
  PROVE  IInv'
<1>1. /\ pc = "group" /\ GroupDone /\ results' = results \o Outcomes
      /\ UNCHANGED <<registry, config, offered, calls, mode, work, issued, ran>>
  BY DEF GroupEnds
<1>2. PICK n \in 1 .. Len(calls) :
           /\ Cardinality(Finished) = n
           /\ \A i \in 1 .. n : work[i] \in Final
           /\ n # Len(calls) =>
                /\ mode = "sequential" /\ Broken
                /\ \A i \in n + 1 .. Len(calls) : work[i] = "waiting"
  BY <1>1, GroupPrefix DEF IInv
<1>3. /\ calls \in Seq(Call) /\ Len(calls) \in Nat /\ DOMAIN calls = 1 .. Len(calls)
      /\ Len(work) = Len(calls) /\ step \in Nat
  BY <1>1, LenProperties DEF IInv, Types, Round
<1>4. /\ results' \in Seq(ToolMessage)
      /\ \A k \in 1 .. Len(results') :
           results'[k].call.step \in Nat /\ results'[k].call.step <= step
      /\ \A k, l \in 1 .. Len(results') :
           results'[k].call = results'[l].call => k = l
      /\ Told' = Told \cup {calls[k] : k \in 1 .. n}
  BY <1>1, <1>2, ResultsGrow
<1>5. \A i \in 1 .. Len(calls) : work[i] \in Final \cup {"waiting"}
  <2> SUFFICES ASSUME NEW i \in 1 .. Len(calls) PROVE work[i] \in Final \cup {"waiting"}
    OBVIOUS
  <2>1. CASE n = Len(calls)
    BY <1>2, <2>1
  <2>2. CASE n # Len(calls)
    <3>1. i \in 1 .. n \/ i \in n + 1 .. Len(calls)
      BY <1>3
    <3> QED
      BY <1>2, <2>2, <3>1
  <2> QED
    BY <2>1, <2>2
<1>6. Quiet'
  BY <1>1, <1>3, <1>5 DEF Quiet
<1>7. OnlyGrantedToolsRun'
  BY <1>1 DEF IInv, OnlyGrantedToolsRun, Permitted
<1>8. issued = Told \cup {calls[k] : k \in 1 .. Len(calls)}
  BY <1>1, <1>3, RangeEquality DEF IInv, Accounts
\* What was entered is among the results: it was finished, and what waits was not.
<1>9. \A r \in ran : r.call \in Told'
  <2> SUFFICES ASSUME NEW r \in ran, NEW i \in 1 .. Len(work),
                      r.call = calls[i], work[i] \in {"running", "ok", "failed"}
               PROVE  r.call \in Told'
    BY <1>1, <1>4 DEF IInv, Accounts
  <2>1. work[i] \in Final /\ work[i] # "waiting"
    BY <1>3, <1>5
  <2>2. i \in 1 .. n
    <3>1. i \in 1 .. n \/ (n # Len(calls) /\ i \in n + 1 .. Len(calls))
      BY <1>3
    <3> QED
      BY <1>2, <2>1, <3>1
  <2> QED
    BY <1>4, <2>2
<1>10. CASE Broken
  <2>1. /\ pc' = "returned" /\ result' = [reason |-> "tool_error", pending |-> <<>>]
        /\ UNCHANGED <<history, step>>
    BY <1>10 DEF GroupEnds, Return
  <2>2. Types'
    BY <1>1, <1>4, <2>1, EmptySeq DEF IInv, Types, Reason
  <2>3. ToldOnce'
    BY <1>4, <2>1 DEF ToldOnce
  <2>4. Len(results') = Cardinality(Told')
    <3>1. (Types /\ ToldOnce => Len(results) = Cardinality(Told))'
      BY ToldCount, PTL
    <3> QED
      BY <2>2, <2>3, <3>1
  <2>5. NoCallIsForgotten'
    <3> DEFINE told == {results'[k].call : k \in DOMAIN results'}
               missing == issued \ (told \cup {})
    <3>1. told = Told' /\ Range(result'.pending) = {}
      BY <1>4, <2>1, LenProperties DEF Told, Range
    <3>2. ASSUME missing # {}
          PROVE  mode = "sequential" /\ \A c \in missing : c.step = step
      <4>1. \A c \in missing : \E k \in 1 .. Len(calls) : c = calls[k] /\ k \notin 1 .. n
        BY <1>4, <1>8, <3>1
      <4>2. n # Len(calls)
        BY <3>2, <4>1
      <4>3. \A c \in missing : c.step = step
        BY <1>1, <4>1 DEF IInv, Round
      <4> QED
        BY <1>2, <4>2, <4>3
    <3>3. Len(results') = Cardinality(told) /\ \A r \in ran : r.call \in told
      BY <1>9, <2>4, <3>1
    <3> HIDE DEF told
    <3> QED
      BY <1>1, <2>1, <3>1, <3>2, <3>3 DEF NoCallIsForgotten, told
  <2> QED
    BY <1>6, <1>7, <2>1, <2>2, <2>3, <2>5
    DEF IInv, Fresh, Round, InTurn, Together, Granted, HistoryIsWellFormed,
        Answering, Accounts
<1>11. CASE ~Broken
  <2>1. /\ history' = history \o Outcomes /\ step' = step + 1 /\ pc' = "chat"
        /\ result' = result
    BY <1>11 DEF GroupEnds
  <2>2. n = Len(calls)
    BY <1>2, <1>11
  <2>3. /\ Outcomes \in Seq(ToolMessage) /\ Len(Outcomes) = n
        /\ \A k \in 1 .. n : Outcomes[k].role = "tool" /\ Outcomes[k].call = calls[k]
    BY <1>1, <1>2, OutcomesOfPrefix
  <2>4. history \in Seq(Message) /\ Outcomes \in Seq(Message)
    <3>1. ToolMessage \subseteq Message
      BY DEF ToolMessage, Message
    <3> QED
      BY <2>3, <3>1, SeqMonotonic DEF IInv, Types
  <2> DEFINE L == Len(history)
  <2>5. /\ history' \in Seq(Message) /\ L \in Nat /\ Len(history') = L + n
        /\ \A k \in 1 .. L : history'[k] = history[k]
        /\ \A k \in 1 .. n : history'[L + k] = Outcomes[k]
    <3>1. /\ history' \in Seq(Message) /\ L \in Nat
          /\ Len(history') = L + Len(Outcomes)
          /\ \A k \in 1 .. L : history'[k] = history[k]
          /\ \A k \in 1 .. Len(Outcomes) : history'[L + k] = Outcomes[k]
      BY <2>1, <2>4, JoinedAs
    <3> QED
      BY <2>3, <3>1
  <2>6. Types'
    <3>1. step + 1 < config.maxSteps
      BY <1>1 DEF IInv, Round
    <3> QED
      BY <1>1, <1>3, <1>4, <2>1, <2>5, <3>1 DEF IInv, Types
  <2>7. ToldOnce'
    <3>1. ASSUME NEW k \in 1 .. Len(results') PROVE results'[k].call.step < step + 1
      <4> DEFINE s == results'[k].call.step
      <4>1. s \in Nat /\ s <= step
        BY <1>4
      <4> HIDE DEF s
      <4>2. s < step + 1
        BY <1>3, <4>1
      <4> QED
        BY <4>2 DEF s
    <3> QED
      BY <1>4, <2>1, <3>1 DEF ToldOnce
  <2>8. Accounts'
    BY <1>1, <1>4, <1>8, <1>9, <2>1, <2>2 DEF Accounts
  <2>9. HistoryIsWellFormed'
    <3>1. L >= 1 /\ history[L] = [role |-> "assistant", calls |-> calls]
      BY <1>1, <2>4, <2>5, EmptySeq DEF IInv, Answering
    <3>2. n \in Nat /\ n >= 1 /\ DOMAIN history' = 1 .. L + n
      BY <1>3, <2>5, LenProperties
    <3> SUFFICES ASSUME NEW k \in DOMAIN history', history'[k].role = "assistant"
                 PROVE  LET cs == history'[k].calls IN
                        /\ k + Len(cs) <= Len(history')
                        /\ \A i \in DOMAIN cs :
                             history'[k + i].role = "tool" /\ history'[k + i].call = cs[i]
                        /\ k + Len(cs) < Len(history') =>
                             history'[k + Len(cs) + 1].role = "assistant"
      BY DEF HistoryIsWellFormed
    <3>3. CASE k \in 1 .. L - 1
      <4> DEFINE cs == history[k].calls
      <4>1. k \in 1 .. L /\ history'[k] = history[k]
        BY <2>5, <3>3
      <4>2. /\ k + Len(cs) < L
            /\ \A i \in 1 .. Len(cs) :
                 history[k + i].role = "tool" /\ history[k + i].call = cs[i]
            /\ history[k + Len(cs) + 1].role = "assistant"
        BY <1>1, <3>3, <4>1 DEF IInv, Answering
      <4>3. cs \in Seq(Call)
        <5>1. history[k] \in Message /\ history[k].role = "assistant"
          BY <2>4, <4>1, ElementOfSeq
        <5> QED
          BY <5>1 DEF Message
      <4>4. Len(cs) \in Nat /\ DOMAIN cs = 1 .. Len(cs)
        BY <4>3, LenProperties
      <4> HIDE DEF cs
      <4>5. ASSUME NEW i \in 1 .. Len(cs)
            PROVE  history'[k + i].role = "tool" /\ history'[k + i].call = cs[i]
        <5>1. k + i \in 1 .. L
          BY SMTT(60), <2>5, <4>1, <4>2, <4>4
        <5> QED
          BY <2>5, <4>2, <5>1
      <4>6. history'[k + Len(cs) + 1].role = "assistant"
        <5>1. k + Len(cs) + 1 \in 1 .. L
          BY <2>5, <4>1, <4>2, <4>4
        <5> QED
          BY <2>5, <4>2, <5>1
      <4>7. k + Len(cs) <= Len(history')
        <5>1. k + Len(cs) <= L + n
          BY <2>5, <3>2, <4>1, <4>2, <4>4
        <5> QED
          BY <2>5, <5>1
      <4>8. history'[k].calls = cs
        BY <4>1 DEF cs
      <4> QED
        BY <4>4, <4>5, <4>6, <4>7, <4>8
    <3>4. CASE k = L
      <4>1. k \in 1 .. L
        BY <2>5, <3>1, <3>4
      <4>2. history'[k].calls = calls
        BY <2>5, <3>1, <3>4, <4>1
      <4>3. \A i \in 1 .. n : history'[L + i].role = "tool" /\ history'[L + i].call = calls[i]
        BY <2>3, <2>5
      <4>4. L + Len(calls) <= Len(history') /\ ~(L + Len(calls) < Len(history'))
        <5>1. L + n <= L + n /\ ~(L + n < L + n)
          BY <2>5, <3>2
        <5> QED
          BY <2>2, <2>5, <5>1
      <4> QED
        BY <1>3, <2>2, <3>4, <4>2, <4>3, <4>4
    <3>5. CASE k \in L + 1 .. L + n
      <4>1. k - L \in 1 .. n /\ L + (k - L) = k
        BY <2>5, <3>2, <3>5
      <4>2. history'[L + (k - L)].role = "tool"
        BY <2>3, <2>5, <4>1
      <4> QED
        BY <4>1, <4>2
    <3>6. k \in 1 .. L - 1 \/ k = L \/ k \in L + 1 .. L + n
      BY <2>5, <3>2
    <3> QED
      BY <3>3, <3>4, <3>5, <3>6
  <2> QED
    BY <1>6, <1>7, <2>1, <2>6, <2>7, <2>8, <2>9
    DEF IInv, Fresh, Round, InTurn, Together, Granted, Answering, NoCallIsForgotten
<1> QED
  BY <1>10, <1>11

-----------------------------------------------------------------------------
(* Theorems *)

\* Every step keeps the invariant.
LEMMA Inductive ==
  ASSUME IInv, [Next]_vars
  PROVE  IInv'
<1>1. CASE Start \/ ChatFails \/ GroupEnds
  BY <1>1, StartKeeps, ChatFailsKeeps, GroupEndsKeeps
<1>2. CASE \E names \in Responses : ChatEnds(names) \/ GroupStarts(names)
  BY <1>2, ChatEndsKeeps, GroupStartsKeeps
<1>3. CASE \E i \in DOMAIN work : Check(i) \/ Execute(i) \/ ToolReturns(i)
  BY <1>3, CheckKeeps, ExecuteKeeps, ToolReturnsKeeps
<1>4. CASE \E t \in Tool, flag \in {"unsafe", "safe"} : Register(t, flag)
  BY <1>4, RegisterKeeps
<1>5. CASE UNCHANGED vars
  <2>1. UNCHANGED <<registry, pc, config, step, offered, history, calls, mode, work,
                    results, result, issued, ran>>
    BY <1>5 DEF vars, loopVars
  <2>2. Types'
    BY <2>1 DEF IInv, Types
  <2>3. Fresh' /\ Round' /\ Quiet' /\ InTurn'
    BY <2>1 DEF IInv, Fresh, Round, Quiet, InTurn, Failed
  <2>4. Together' /\ Granted' /\ OnlyGrantedToolsRun'
    BY <2>1 DEF IInv, Together, Granted, Permitted, OnlyGrantedToolsRun
  <2>5. HistoryIsWellFormed' /\ Answering'
    BY <2>1 DEF IInv, HistoryIsWellFormed, Answering
  <2>6. ToldOnce' /\ Accounts' /\ NoCallIsForgotten'
    BY <2>1 DEF IInv, Told, ToldOnce, Accounts, NoCallIsForgotten
  <2> QED
    BY <2>2, <2>3, <2>4, <2>5, <2>6 DEF IInv
<1> QED
  BY <1>1, <1>2, <1>3, <1>4, <1>5 DEF Next, Progress

\* What the invariant says of the calls of the model.
LEMMA Answers == IInv => CallsAreAnswered
<1> SUFFICES ASSUME IInv PROVE CallsAreAnswered
  OBVIOUS
<1>1. Types
  BY DEF IInv
<1>2. TypeOK
  <2>1. \A k \in DOMAIN history : history[k] \in Message
    BY <1>1, ElementOfSeq, LenProperties DEF Types
  <2>2. \A i \in DOMAIN calls : calls[i] \in Call
    BY <1>1, ElementOfSeq, LenProperties DEF Types
  <2>3. \A i \in DOMAIN work : work[i] \in WorkState
    BY <1>1, ElementOfSeq, LenProperties DEF Types
  <2>4. \A k \in DOMAIN results : results[k] \in Message
    <3>1. \A k \in DOMAIN results : results[k] \in ToolMessage
      BY <1>1, ElementOfSeq, LenProperties DEF Types
    <3> QED
      BY <3>1 DEF ToolMessage, Message
  <2> QED
    BY <1>1, <2>1, <2>2, <2>3, <2>4 DEF Types, TypeOK, WorkState, Reason
<1> QED
  BY <1>2 DEF IInv, CallsAreAnswered

\* What it says of functions that run at the same time.
LEMMA RunsAlone == IInv => UnsafeToolsRunAlone
<1> SUFFICES ASSUME IInv, NEW i \in DOMAIN work, NEW j \in DOMAIN work,
                    work[i] = "running", work[j] = "running", i # j
             PROVE  registry[calls[i].name] = "safe"
  BY DEF UnsafeToolsRunAlone
<1>1. Len(work) \in Nat /\ i \in 1 .. Len(work) /\ j \in 1 .. Len(work)
  BY LenProperties DEF IInv, Types
<1>2. "running" \notin Final
  BY DEF Final, Outcome
<1>3. pc = "group"
  BY <1>1, <1>2 DEF IInv, Quiet
<1>4. i < j \/ j < i
  BY <1>1
<1>5. mode # "sequential"
  BY <1>1, <1>2, <1>3, <1>4 DEF IInv, InTurn
<1>6. mode = "parallel"
  BY <1>5 DEF IInv, Types
<1> QED
  BY <1>1, <1>3, <1>6 DEF IInv, Together

\* The inductive invariant: groups, histories and functions under way fit
\* together between any two steps of a run.
THEOREM IInvHolds == Spec => []IInv
<1>1. Init => IInv
  BY InitHolds
<1>2. IInv /\ [Next]_vars => IInv'
  BY Inductive
<1> QED
  BY <1>1, <1>2, PTL DEF Spec

\* Every call of the model is answered, in the history and in the result of the
\* run, whatever fails, is denied or is registered meanwhile.
THEOREM AnsweredTheorem == Spec => []CallsAreAnswered
BY IInvHolds, Answers, PTL

\* Functions that run at the same time are all registered as parallel_safe.
THEOREM AloneTheorem == Spec => []UnsafeToolsRunAlone
BY IInvHolds, RunsAlone, PTL

\* Only permitted tools that were offered, or registered late, are entered.
THEOREM GrantedTheorem == Spec => []OnlyGrantedToolsRun
<1>1. IInv => OnlyGrantedToolsRun
  BY DEF IInv
<1> QED
  BY <1>1, IInvHolds, PTL

=============================================================================
