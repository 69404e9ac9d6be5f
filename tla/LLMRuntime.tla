----------------------------- MODULE LLMRuntime -----------------------------
(***************************************************************************)
(* LLMRuntime (kernel/llm/runtime.py) with LLMResponseCache and the token  *)
(* and cost ledgers: chat and stream_chat over a route of providers with   *)
(* retries and fallbacks, under an optional token budget.                  *)
(*                                                                         *)
(* All calls are made on one thread.  A chat holds it until it returns; a  *)
(* stream is a generator and holds it between a next() and a yield, so     *)
(* streams interleave with each other and with chats, may be read to the   *)
(* end much later, and may be dropped halfway.                             *)
(*                                                                         *)
(* Tokens stand for the completion tokens of an answer, and the cost of a  *)
(* call is its tokens: one rate for every provider.                        *)
(***************************************************************************)
EXTENDS Integers, Sequences, FiniteSets, FiniteSetsExt

CONSTANTS
  Provider, Routes,  \* the selected provider followed by fallback_providers
  Key,               \* what build_llm_cache_key tells apart
  Budget,            \* LLMTokenBudget.max_completion_tokens
  MaxAttempts,       \* LLMRetryPolicy.max_attempts
  Requests,          \* the requests that are made
  \* Bounds of the model:
  MaxCalls,
  MaxUsage,          \* tokens of one answer
  MaxChunks          \* chunks of one stream

\* Calls are numbered in the order in which they are made.
Call == 1 .. MaxCalls
Nobody == 0

Request ==
  [kind : {"chat", "stream"}, key : Key, route : Routes,
   reserve : 0 .. MaxUsage,   \* max_tokens, 0 when not given
   cached : BOOLEAN]          \* whether the cache is enabled for it

ASSUME RequestAssumption == Requests \subseteq Request /\ Requests # {}
ASSUME RouteAssumption ==
  \A r \in Routes : r \in Seq(Provider) /\ r # <<>>
ASSUME BoundAssumption ==
  /\ Budget \in Nat /\ MaxAttempts \in Nat \ {0}
  /\ MaxCalls \in Nat /\ MaxUsage \in Nat /\ MaxChunks \in Nat

VARIABLES
  strict,   \* LLMTokenBudget.strict
  turn,     \* the call that holds the thread, or Nobody
  request,  \* the arguments of a call
  phase,    \* how far it has come
  route,    \* index of the provider that is asked
  attempt,  \* attempt in the retry loop for that provider
  yielded,  \* chunks yielded in this attempt
  ledger,   \* _usage_ledger
  costs,    \* _cost_ledger.total_cost
  cache,    \* LLMResponseCache._entries: the call that stored the entry
  \* History variables:
  usage,    \* tokens of the answer a provider gave to the call
  answer,   \* <<call, provider>> of the answer a chat returned
  source,   \* the attempt that the last chunk of a running stream came from
  peak      \* most calls under way at one time

progressVars == <<phase, route, attempt, yielded>>
moneyVars == <<ledger, costs>>
historyVars == <<usage, answer, source, peak>>
vars == <<strict, turn, request, progressVars, moneyVars, cache, historyVars>>

\* idle; lookup: a chat before its cache is read; ready: a generator that has
\* not been started; paused: a generator at a yield; asking: waiting for a
\* provider; and the ways to end.
UnderWay == {"lookup", "ready", "paused", "asking"}
Ended == {"done", "over_budget", "failed", "interrupted", "dropped", "refused"}

\* What a failure tells: its category is retried (never configuration), and
\* it is an LLMProviderError.
Failure == [retried : BOOLEAN, provider : BOOLEAN]

Init ==
  /\ strict \in BOOLEAN
  /\ turn = Nobody
  /\ request \in {[c \in Call |-> CHOOSE r \in Requests : TRUE]}
  /\ phase = [c \in Call |-> "idle"]
  /\ route = [c \in Call |-> 1] /\ attempt = [c \in Call |-> 1]
  /\ yielded = [c \in Call |-> 0]
  /\ ledger = 0 /\ costs = 0
  /\ cache = [e \in Provider \X Key |-> Nobody]
  /\ usage = [c \in Call |-> 0] /\ answer = [c \in Call |-> <<>>]
  /\ source = [c \in Call |-> <<>>] /\ peak = 0

(***************************************************************************)
(* Definitions used by the steps.                                          *)
(***************************************************************************)
ProviderOf(c) == request[c].route[route[c]]
Entry(c) == <<ProviderOf(c), request[c].key>>
Open == {c \in Call : phase[c] \in UnderWay}

\* Mutant: what is reserved is not added.
Admissible_NoReserve(r) == ledger <= Budget

\* _check_request_budget: a ledger at the limit is not over it.
Admissible(r) == ledger <= Budget /\ ledger + r.reserve <= Budget

\* Mutant: the first output does not end the retries.
MayRetry_AfterOutput(c, f) == f.retried /\ attempt[c] < MaxAttempts

\* Both retry loops.
MayRetry(c, f) == f.retried /\ attempt[c] < MaxAttempts /\ yielded[c] = 0

\* Mutant: after the last provider comes the first.
NextRoute_Around(c) == (route[c] % Len(request[c].route)) + 1

\* The loop over the attempts of _chat_with_routing and _stream_with_routing.
NextRoute(c) == route[c] + 1

MayFallBack(c, f) ==
  /\ f.retried \/ f.provider
  /\ NextRoute(c) <= Len(request[c].route)
  /\ yielded[c] = 0

\* Mutant: the entry is that of the provider the caller selected.
Stored_Selected(c) ==
  [cache EXCEPT ![<<request[c].route[1], request[c].key>>] = c]

\* _store_cached_response: under the provider that answered.
Stored(c) == [cache EXCEPT ![Entry(c)] = c]

\* apply_usage_to_ledger.
Charge(c, u) == ledger + u

\* _apply_response_usage and _apply_stream_usage raise when this holds.
Over(total) == strict /\ total > Budget

\* _record_cost, then the usage; what follows depends on the budget.
Bill(c, u) ==
  /\ costs' = costs + u
  /\ ledger' = Charge(c, u)
  /\ usage' = [usage EXCEPT ![c] = u]

\* The call has ended, and its local variables with it.
End(c, how) ==
  /\ phase' = [phase EXCEPT ![c] = how] /\ turn' = Nobody
  /\ route' = [route EXCEPT ![c] = 1]
  /\ attempt' = [attempt EXCEPT ![c] = 1]
  /\ yielded' = [yielded EXCEPT ![c] = 0]
  /\ source' = [source EXCEPT ![c] = <<>>]

(***************************************************************************)
(* The calls.                                                              *)
(***************************************************************************)
\* chat and stream_chat up to the budget check, which stream_chat makes at
\* once and not when the generator is first read.
Called(c, r) ==
  /\ turn = Nobody /\ phase[c] = "idle"
  /\ \A b \in Call : b < c => phase[b] # "idle"
  /\ request' = [request EXCEPT ![c] = r]
  /\ UNCHANGED <<strict, route, attempt, yielded, moneyVars, cache, usage,
                 answer, source>>

Refuse(c, r) ==
  /\ strict /\ ~Admissible(r) /\ Called(c, r)
  /\ phase' = [phase EXCEPT ![c] = "refused"]
  /\ UNCHANGED <<turn, peak>>

Begin(c, r) ==
  /\ ~strict \/ Admissible(r)
  /\ Called(c, r)
  /\ IF r.kind = "chat"
     THEN phase' = [phase EXCEPT ![c] = "lookup"] /\ turn' = c
     ELSE phase' = [phase EXCEPT ![c] = "ready"] /\ turn' = Nobody
  /\ peak' = Max({peak, Cardinality(Open) + 1})

\* _get_cached_response for the provider the route has come to.
Lookup(c) ==
  LET hit == request[c].cached /\ cache[Entry(c)] # Nobody IN
  /\ turn = c /\ phase[c] = "lookup"
  /\ IF hit
     THEN /\ End(c, "done")
          /\ answer' = [answer EXCEPT ![c] = <<cache[Entry(c)], ProviderOf(c)>>]
     ELSE /\ phase' = [phase EXCEPT ![c] = "asking"]
          /\ UNCHANGED <<turn, route, attempt, yielded, source, answer>>
  /\ UNCHANGED <<strict, request, moneyVars, cache, usage, peak>>

\* A provider answers a chat with u tokens: they are billed before the budget
\* is looked at, and an answer over the budget is neither returned nor stored.
Answers(c, u) ==
  /\ turn = c /\ phase[c] = "asking" /\ request[c].kind = "chat"
  /\ request[c].reserve > 0 => u <= request[c].reserve
  /\ Bill(c, u)
  /\ IF Over(ledger')
     THEN End(c, "over_budget") /\ UNCHANGED <<cache, answer>>
     ELSE /\ End(c, "done")
          /\ cache' = IF request[c].cached THEN Stored(c) ELSE cache
          /\ answer' = [answer EXCEPT ![c] = <<c, ProviderOf(c)>>]
  /\ UNCHANGED <<strict, request, peak>>

\* A provider fails: the next attempt, the next provider, or the end.
Fails(c, f) ==
  /\ turn = c /\ phase[c] = "asking"
  /\ \/ /\ MayRetry(c, f)
        /\ attempt' = [attempt EXCEPT ![c] = @ + 1]
        /\ yielded' = [yielded EXCEPT ![c] = 0]
        /\ UNCHANGED <<phase, route, turn, source>>
     \/ /\ ~MayRetry(c, f) /\ MayFallBack(c, f)
        /\ route' = [route EXCEPT ![c] = NextRoute(c)]
        /\ attempt' = [attempt EXCEPT ![c] = 1]
        /\ IF request[c].kind = "chat"
           THEN phase' = [phase EXCEPT ![c] = "lookup"]
           ELSE UNCHANGED phase
        /\ UNCHANGED <<yielded, turn, source>>
     \/ /\ ~MayRetry(c, f) /\ ~MayFallBack(c, f)
        /\ End(c, IF yielded[c] > 0 THEN "interrupted" ELSE "failed")
  /\ UNCHANGED <<strict, request, moneyVars, cache, usage, answer, peak>>

\* next() by the reader of a stream.
Read(c) ==
  /\ turn = Nobody /\ phase[c] \in {"ready", "paused"}
  /\ turn' = c /\ phase' = [phase EXCEPT ![c] = "asking"]
  /\ UNCHANGED <<strict, request, route, attempt, yielded, moneyVars, cache,
                 historyVars>>

Yields(c) ==
  /\ turn = c /\ phase[c] = "asking" /\ request[c].kind = "stream"
  /\ yielded[c] < MaxChunks
  /\ yielded' = [yielded EXCEPT ![c] = @ + 1]
  /\ phase' = [phase EXCEPT ![c] = "paused"] /\ turn' = Nobody
  /\ source' = [source EXCEPT ![c] = <<route[c], attempt[c]>>]
  /\ UNCHANGED <<strict, request, route, attempt, moneyVars, cache, usage,
                 answer, peak>>

\* The provider's stream is exhausted; its last chunk may have told u tokens.
StreamEnds(c, u) ==
  /\ turn = c /\ phase[c] = "asking" /\ request[c].kind = "stream"
  /\ request[c].reserve > 0 => u <= request[c].reserve
  /\ u > 0 => yielded[c] > 0
  /\ Bill(c, u)
  /\ End(c, IF Over(ledger') /\ u > 0 THEN "over_budget" ELSE "done")
  /\ UNCHANGED <<strict, request, cache, answer, peak>>

\* The reader drops the generator, after the last chunk perhaps: no handler of
\* the code catches GeneratorExit.
Drop(c) ==
  /\ turn = Nobody /\ phase[c] \in {"ready", "paused"}
  /\ End(c, "dropped")
  /\ UNCHANGED <<strict, request, moneyVars, cache, usage, answer, peak>>

ClearCache ==
  /\ turn = Nobody /\ \E e \in DOMAIN cache : cache[e] # Nobody
  /\ cache' = [e \in DOMAIN cache |-> Nobody]
  /\ UNCHANGED <<strict, turn, request, progressVars, moneyVars, historyVars>>

Runs(c) ==
  \/ Lookup(c) \/ Yields(c)
  \/ \E u \in 0 .. MaxUsage : Answers(c, u) \/ StreamEnds(c, u)
  \/ \E f \in Failure : Fails(c, f)

Next ==
  \/ ClearCache
  \/ \E c \in Call :
       \/ Runs(c) \/ Read(c) \/ Drop(c)
       \/ \E r \in Requests : Refuse(c, r) \/ Begin(c, r)

\* The thread runs, and a provider answers or fails; nobody has to call, and
\* nobody has to read a stream.
Spec == Init /\ [][Next]_vars /\ WF_vars(\E c \in Call : Runs(c))

(***************************************************************************)
(* Properties.                                                             *)
(***************************************************************************)
\* The values a run of the program may hold.
TypeOK ==
  /\ strict \in BOOLEAN /\ turn \in Call \cup {Nobody}
  /\ request \in [Call -> Request]
  /\ phase \in [Call -> {"idle"} \cup UnderWay \cup Ended]
  /\ \A c \in Call : route[c] \in 1 .. Len(request[c].route)
  /\ attempt \in [Call -> 1 .. MaxAttempts]
  /\ yielded \in [Call -> 0 .. MaxChunks]
  /\ ledger \in Nat /\ costs \in Nat
  /\ cache \in [Provider \X Key -> Call \cup {Nobody}]
  /\ usage \in [Call -> 0 .. MaxUsage]
  /\ \A c \in Call : answer[c] \in {<<>>} \cup (Call \X Provider)
  /\ \A c \in Call : source[c] \in {<<>>} \cup (Nat \X Nat)
  /\ peak \in Nat

\* The tokens of the calls that were answered, and their sum.
Paid ==
  [c \in Call |-> IF phase[c] \in {"done", "over_budget"} THEN usage[c] ELSE 0]
Total(tokens) ==
  LET sum[n \in 0 .. MaxCalls] ==
        IF n = 0 THEN 0 ELSE sum[n - 1] + tokens[n]
  IN sum[MaxCalls]

\* The ledger and the costs count the answers of calls that were answered, each
\* once (README 307-308, 341-346): not the attempts that failed, not what came
\* from the cache, not the streams that were dropped or broke off.
LedgerCountsAnswers == ledger = Total(Paid) /\ costs = ledger

\* A strict budget is overrun by no more than the answers of the calls that
\* were under way together; and by one answer less when all of them reserved
\* their tokens, so that calls made one at a time keep to it.
OverrunIsBounded ==
  LET admitted == {c \in Call : phase[c] \notin {"idle", "refused"}}
      allReserve == \A c \in admitted : request[c].reserve > 0
  IN strict /\ admitted # {} =>
       ledger <= Budget + MaxUsage * (IF allReserve THEN peak - 1 ELSE peak)

\* Under a strict budget at most one answer to a chat is ever paid for and
\* thrown away: no later call gets past the check (_check_request_budget,
\* _chat_with_routing 735-737).
OneAnswerWasted ==
  Cardinality({c \in Call : /\ phase[c] = "over_budget"
                            /\ request[c].kind = "chat"}) <= 1

\* The accounts of the runtime: what the ledger counts, how far a strict budget
\* may be overrun, and how much is paid in vain.
AccountsAreKept ==
  TypeOK /\ LedgerCountsAnswers /\ OverrunIsBounded /\ OneAnswerWasted

\* All chunks a reader got come from one attempt of one provider (README
\* 332-333: retries and fallbacks only before the first chunk).
OneSourcePerStream ==
  [][\A c \in Call : source[c] # <<>> => source'[c] \in {source[c], <<>>}]_source

\* What a chat returns was given by the provider it is said to come from, to a
\* request with the same key, and by a call that was itself returned.
AnswersHaveOrigin ==
  \A c \in Call : phase[c] = "done" /\ request[c].kind = "chat" =>
    LET origin == answer[c][1] IN
    /\ request[origin].key = request[c].key
    /\ phase[origin] = "done" /\ answer[origin] = answer[c]

\* Whoever has the thread gives it back, after finitely many attempts.
ThreadIsReturned == turn # Nobody ~> turn = Nobody
=============================================================================
