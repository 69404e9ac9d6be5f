-------------------------- MODULE LLMRuntimeProofs --------------------------
(***************************************************************************)
(* What LLMRuntime keeps for any routes, requests, budget and number of    *)
(* calls: the accounts, the origin of every answer, and the one source of  *)
(* every stream.                                                           *)
(***************************************************************************)
EXTENDS LLMRuntime, FiniteSetTheorems, NaturalsInduction, TLAPS

-----------------------------------------------------------------------------
(* The inductive invariant *)

Types ==
  /\ strict \in BOOLEAN /\ turn \in Call \cup {Nobody}
  /\ request \in [Call -> Request]
  /\ phase \in [Call -> {"idle"} \cup UnderWay \cup Ended]
  /\ route \in [Call -> Nat] /\ attempt \in [Call -> 1 .. MaxAttempts]
  /\ \A c \in Call : route[c] \in 1 .. Len(request[c].route)
  /\ yielded \in [Call -> 0 .. MaxChunks]
  /\ ledger \in Nat /\ costs \in Nat
  /\ cache \in [Provider \X Key -> Call \cup {Nobody}]
  /\ usage \in [Call -> 0 .. MaxUsage]
  /\ answer \in [Call -> {<<>>} \cup (Call \X Provider)]
  /\ source \in [Call -> {<<>>} \cup (Nat \X Nat)]
  /\ peak \in Nat

IsChat(c) == request[c].kind = "chat"
Answered == {"done", "over_budget"}

\* A call has the thread while it looks up or waits for a provider, and only a
\* stream can be suspended.
Turns ==
  \A c \in Call :
    /\ turn = c <=> phase[c] \in {"lookup", "asking"}
    /\ phase[c] = "lookup" => IsChat(c)
    /\ phase[c] \in {"ready", "paused"} => ~IsChat(c)

\* A call that is not under way starts from the beginning, and nothing was
\* given to one that was not answered.
Fresh ==
  \A c \in Call :
    /\ phase[c] \notin UnderWay => route[c] = 1 /\ source[c] = <<>>
    /\ phase[c] \notin Answered => usage[c] = 0

\* A stream that has yielded is at the attempt it yielded from.
Sources ==
  \A c \in Call :
    source[c] # <<>> => source[c] = <<route[c], attempt[c]>> /\ yielded[c] > 0

\* Entries of the cache and answers come from calls that were returned.
GivenBy(ph, req, ans, b, p, k) ==
  /\ ph[b] = "done" /\ req[b].kind = "chat"
  /\ req[b].key = k /\ ans[b] = <<b, p>>
Entries ==
  \A p \in Provider, k \in Key :
    LET b == cache[<<p, k>>] IN
    b # Nobody => GivenBy(phase, request, answer, b, p, k)
Returned ==
  \A c \in Call : phase[c] = "done" /\ IsChat(c) =>
    /\ answer[c] \in Call \X Provider
    /\ GivenBy(phase, request, answer, answer[c][1], answer[c][2], request[c].key)

\* What is spent, and what the calls under way may still cost.
Admitted == {c \in Call : phase[c] \notin {"idle", "refused"}}
Liable == MaxUsage * Cardinality(Open)
Within ==
  strict /\ Admitted # {} => ledger + Liable <= Budget + MaxUsage * peak
\* The same when all have reserved: the last to begin was admitted with what it
\* reserved, and counts for that much until it ends.
Reserved ==
  strict /\ Admitted # {} /\ (\A c \in Admitted : request[c].reserve > 0) =>
    \/ ledger + Liable <= Budget + MaxUsage * peak - MaxUsage
    \/ \E c \in Open :
         ledger + request[c].reserve + Liable <= Budget + MaxUsage * peak

\* After an answer was paid in vain the budget admits no call.
Wasted(c) == phase[c] = "over_budget" /\ IsChat(c)
OneWasted ==
  \A c \in Call : Wasted(c) =>
    /\ strict /\ ledger > Budget
    /\ \A d \in Call : Wasted(d) => d = c
    /\ \A d \in Call : phase[d] \in UnderWay => ~IsChat(d)

IInv ==
  /\ Types /\ Turns /\ Fresh /\ Sources /\ Entries /\ Returned
  /\ LedgerCountsAnswers /\ Within /\ Reserved /\ OneWasted

-----------------------------------------------------------------------------
(* Sums over the calls *)

\* A set that holds 0 and the successor of each of its numbers holds them all.
LEMMA NatSetInduction ==
  ASSUME NEW S, 0 \in S, \A n \in Nat : n \in S => n + 1 \in S
  PROVE  Nat \subseteq S
<1> SUFFICES ASSUME Nat \ S # {} PROVE FALSE
  OBVIOUS
<1>1. PICK x \in Nat \ S : \A y \in Nat \ S : ~ (<<y, x>> \in OpToRel(<, Nat))
  BY NatLessThanWellFounded, WFMin
<1>2. x # 0 /\ x \in Nat /\ x \notin S
  OBVIOUS
<1>3. x - 1 \in Nat /\ x - 1 < x /\ (x - 1) + 1 = x
  BY <1>2
<1>4. <<x - 1, x>> \in OpToRel(<, Nat)
  BY <1>2, <1>3 DEF OpToRel
<1>5. x - 1 \in S
  BY <1>1, <1>3, <1>4
<1> QED
  BY <1>2, <1>3, <1>5

\* The sums of the first tokens, as Total defines them.
Step(f, g, n) == IF n = 0 THEN 0 ELSE g[n - 1] + f[n]
Sums(f, g) == g = [n \in 0 .. MaxCalls |-> Step(f, g, n)]
Summing(f) == CHOOSE g : Sums(f, g)

LEMMA SummingExists ==
  ASSUME NEW f
  PROVE  Sums(f, Summing(f))
<1> DEFINE G == {n \in Nat : \E g : \A m \in 0 .. n : g[m] = Step(f, g, m)}
<1>1. 0 \in G
  <2> DEFINE g == [m \in {0} |-> 0]
  <2>1. \A m \in 0 .. 0 : g[m] = Step(f, g, m)
    BY DEF Step
  <2> QED
    BY <2>1
<1>2. ASSUME NEW n \in Nat, n \in G PROVE n + 1 \in G
  <2>1. PICK g : \A m \in 0 .. n : g[m] = Step(f, g, m)
    BY <1>2
  <2> DEFINE h == [m \in 0 .. n + 1 |-> IF m = n + 1 THEN g[n] + f[n + 1] ELSE g[m]]
  <2>2. (\A m \in 0 .. n : h[m] = g[m]) /\ h[n + 1] = g[n] + f[n + 1]
    OBVIOUS
  <2> HIDE DEF h
  <2>3. ASSUME NEW m \in 0 .. n + 1 PROVE h[m] = Step(f, h, m)
    <3>1. CASE m = n + 1
      <4>1. m # 0 /\ m - 1 = n /\ n \in 0 .. n
        BY <3>1
      <4> QED
        BY <2>2, <3>1, <4>1 DEF Step
    <3>2. CASE m # n + 1
      <4>1. m \in 0 .. n /\ (m # 0 => m - 1 \in 0 .. n)
        BY <3>2
      <4> QED
        BY <2>1, <2>2, <4>1 DEF Step
    <3> QED
      BY <3>1, <3>2
  <2> QED
    BY <2>3
<1>3. Nat \subseteq G
  <2> HIDE DEF G
  <2> QED
    BY <1>1, <1>2, NatSetInduction
<1>4. PICK g : \A m \in 0 .. MaxCalls : g[m] = Step(f, g, m)
  BY <1>3, BoundAssumption
<1> DEFINE k == [m \in 0 .. MaxCalls |-> g[m]]
<1>5. \A m \in 0 .. MaxCalls : k[m] = Step(f, k, m)
  <2> SUFFICES ASSUME NEW m \in 0 .. MaxCalls PROVE k[m] = Step(f, k, m)
    OBVIOUS
  <2>1. m # 0 => m - 1 \in 0 .. MaxCalls
    BY BoundAssumption
  <2> QED
    BY <1>4, <2>1 DEF Step
<1>6. Sums(f, k)
  BY <1>5 DEF Sums
<1> QED
  BY <1>6 DEF Summing

LEMMA SummingSteps ==
  ASSUME NEW f, NEW n \in 0 .. MaxCalls
  PROVE  Summing(f)[n] = IF n = 0 THEN 0 ELSE Summing(f)[n - 1] + f[n]
<1>1. Sums(f, Summing(f))
  BY SummingExists
<1> QED
  BY <1>1 DEF Sums, Step

LEMMA TotalIsSumming ==
  ASSUME NEW f PROVE Total(f) = Summing(f)[MaxCalls]
BY DEF Total, Summing, Sums, Step

\* When the tokens of one call change, the total changes by as much.
LEMMA TotalChanges ==
  ASSUME NEW f \in [Call -> Nat], NEW g \in [Call -> Nat], NEW c \in Call,
         \A b \in Call \ {c} : g[b] = f[b]
  PROVE  /\ Total(f) \in Nat /\ Total(g) \in Nat
         /\ Total(g) + f[c] = Total(f) + g[c]
<1> DEFINE F(n) == Summing(f)[n]
           H(n) == Summing(g)[n]
           x == f[c]
           y == g[c]
           P(n) == /\ F(n) \in Nat /\ H(n) \in Nat
                   /\ c <= n => H(n) + x = F(n) + y
                   /\ n < c => H(n) = F(n)
           G == {n \in Nat : n <= MaxCalls => P(n)}
<1>1. x \in Nat /\ y \in Nat /\ c \in Nat /\ c >= 1 /\ MaxCalls \in Nat /\ c <= MaxCalls
  BY BoundAssumption DEF Call
<1>2. 0 \in G
  <2>1. 0 \in 0 .. MaxCalls
    BY <1>1
  <2>2. F(0) = 0 /\ H(0) = 0
    BY <2>1, SummingSteps
  <2> HIDE DEF F, H, x, y
  <2> QED
    BY <1>1, <2>2
<1>3. ASSUME NEW n \in Nat, n \in G PROVE n + 1 \in G
  <2> SUFFICES ASSUME n + 1 <= MaxCalls PROVE P(n + 1)
    OBVIOUS
  <2>1. P(n)
    BY <1>1, <1>3
  <2>2. n + 1 \in 0 .. MaxCalls /\ n + 1 # 0 /\ (n + 1) - 1 = n /\ n + 1 \in Call
    BY <1>1 DEF Call
  <2>3. F(n + 1) = F(n) + f[n + 1] /\ H(n + 1) = H(n) + g[n + 1]
    BY <2>2, SummingSteps
  <2>4. f[n + 1] \in Nat /\ g[n + 1] \in Nat
    BY <2>2
  <2>5. \/ n + 1 = c /\ f[n + 1] = x /\ g[n + 1] = y
        \/ n + 1 # c /\ f[n + 1] = g[n + 1]
    BY <2>2
  <2> DEFINE u == f[n + 1]
             v == g[n + 1]
             k == F(n)
             l == H(n)
  <2>6. /\ k \in Nat /\ l \in Nat /\ u \in Nat /\ v \in Nat
        /\ c <= n => l + x = k + y
        /\ n < c => l = k
        /\ F(n + 1) = k + u /\ H(n + 1) = l + v
        /\ (n + 1 = c /\ u = x /\ v = y) \/ (n + 1 # c /\ u = v)
    BY <2>1, <2>3, <2>4, <2>5
  <2> HIDE DEF F, H, x, y, u, v, k, l
  <2>7. k + u \in Nat /\ l + v \in Nat
    BY <2>6
  <2>8. c <= n + 1 => (l + v) + x = (k + u) + y
    BY <1>1, <2>6
  <2>9. n + 1 < c => l + v = k + u
    BY <1>1, <2>6
  <2> QED
    BY <2>6, <2>7, <2>8, <2>9
<1>4. Nat \subseteq G
  <2> HIDE DEF G
  <2> QED
    BY <1>2, <1>3, NatSetInduction
<1>5. P(MaxCalls)
  BY <1>1, <1>4
<1>6. F(MaxCalls) = Total(f) /\ H(MaxCalls) = Total(g)
  BY TotalIsSumming
<1> HIDE DEF F, H, x, y
<1>7. Total(f) \in Nat /\ Total(g) \in Nat /\ Total(g) + x = Total(f) + y
  BY <1>1, <1>5, <1>6
<1> QED
  BY <1>7 DEF x, y

\* Nothing adds up to nothing.
LEMMA TotalOfNothing ==
  ASSUME NEW f \in [Call -> {0}]
  PROVE  Total(f) = 0
<1> DEFINE G == {n \in Nat : n <= MaxCalls => Summing(f)[n] = 0}
<1>1. 0 \in G
  BY SummingSteps, BoundAssumption
<1>2. ASSUME NEW n \in Nat, n \in G PROVE n + 1 \in G
  <2> SUFFICES ASSUME n + 1 <= MaxCalls PROVE Summing(f)[n + 1] = 0
    OBVIOUS
  <2>1. /\ n + 1 \in 0 .. MaxCalls /\ n + 1 # 0 /\ (n + 1) - 1 = n /\ n + 1 \in Call
        /\ n <= MaxCalls
    BY BoundAssumption DEF Call
  <2>2. Summing(f)[n + 1] = Summing(f)[n] + f[n + 1]
    BY <2>1, SummingSteps
  <2>3. f[n + 1] = 0 /\ Summing(f)[n] = 0
    BY <1>2, <2>1
  <2> QED
    BY <2>2, <2>3
<1>3. Nat \subseteq G
  <2> HIDE DEF G
  <2> QED
    BY <1>1, <1>2, NatSetInduction
<1> QED
  BY <1>3, TotalIsSumming, BoundAssumption

-----------------------------------------------------------------------------
(* What the steps come to *)

\* A call goes on, ends with u tokens, or begins.
Continues(c) ==
  /\ phase[c] \in UnderWay
  /\ \E s \in UnderWay : phase' = [phase EXCEPT ![c] = s]
  /\ UNCHANGED <<strict, request, ledger, costs, cache, usage, answer, peak>>

EndsWith(c, how, u) ==
  /\ phase[c] \in UnderWay /\ how \in Ended \ {"refused"}
  /\ phase' = [phase EXCEPT ![c] = how]
  /\ ledger' = ledger + u /\ costs' = costs + u
  /\ usage' = [usage EXCEPT ![c] = u]
  /\ request[c].reserve > 0 => u <= request[c].reserve
  /\ how \notin Answered => u = 0
  /\ how = "over_budget" => strict /\ ledger' > Budget
  /\ how = "over_budget" /\ IsChat(c) => turn = c
  /\ how = "done" /\ IsChat(c) =>
       \E b \in Call, p \in Provider :
         /\ answer' = [answer EXCEPT ![c] = <<b, p>>]
         /\ \/ b = c /\ cache' \in {cache, [cache EXCEPT ![<<p, request[c].key>>] = c]}
            \/ b = cache[<<p, request[c].key>>] /\ cache' = cache
  /\ ~(how = "done" /\ IsChat(c)) => UNCHANGED <<cache, answer>>
  /\ UNCHANGED <<strict, request, peak>>

Begins(c, r) ==
  /\ phase[c] = "idle" /\ r \in Request
  /\ strict => ledger + r.reserve <= Budget /\ ledger <= Budget
  /\ request' = [request EXCEPT ![c] = r]
  /\ phase' = [phase EXCEPT ![c] = IF r.kind = "chat" THEN "lookup" ELSE "ready"]
  /\ peak' \in Nat /\ peak' >= peak /\ peak' >= Cardinality(Open) + 1
  /\ UNCHANGED <<strict, ledger, costs, cache, usage, answer>>

\* The invariants that depend on no more than that.
Controls == Types /\ Turns /\ Fresh /\ Sources

\* Indexes of the provider and the entry of a call under way.
LEMMA ProviderType ==
  ASSUME Types, NEW c \in Call
  PROVE  /\ request[c] \in Request /\ request[c].route \in Seq(Provider)
         /\ request[c].key \in Key /\ request[c].reserve \in Nat
         /\ request[c].reserve \in 0 .. MaxUsage
         /\ ProviderOf(c) \in Provider
         /\ Entry(c) = <<ProviderOf(c), request[c].key>>
<1>1. request[c] \in Request
  BY DEF Types
<1>2. /\ request[c].route \in Routes /\ request[c].key \in Key
      /\ request[c].reserve \in 0 .. MaxUsage
  BY <1>1 DEF Request
<1>3. request[c].reserve \in Nat
  BY <1>2, BoundAssumption
<1>4. request[c].route \in Seq(Provider)
  BY <1>2, RouteAssumption
<1>5. ProviderOf(c) \in Provider
  BY <1>4 DEF ProviderOf, Types
<1> QED
  BY <1>1, <1>2, <1>3, <1>4, <1>5 DEF Entry

\* The phases tell which calls have the thread.
LEMMA Apart ==
  /\ "idle" \notin UnderWay /\ UnderWay \cap Ended = {} /\ "idle" \notin Ended
  /\ Answered \subseteq Ended /\ Answered \cap UnderWay = {}
  /\ "refused" \in Ended
BY DEF UnderWay, Ended, Answered

\* How a call that had the thread leaves it.
LEMMA EndControls ==
  ASSUME Controls, NEW c \in Call, NEW how \in Ended, End(c, how),
         turn = c \/ turn = Nobody,
         usage' \in [Call -> 0 .. MaxUsage],
         \A b \in Call \ {c} : usage'[b] = usage[b],
         how \notin Answered => usage'[c] = 0,
         ledger' \in Nat, costs' \in Nat,
         cache' \in [Provider \X Key -> Call \cup {Nobody}],
         answer' \in [Call -> {<<>>} \cup (Call \X Provider)],
         UNCHANGED <<strict, request, peak>>
  PROVE  Controls'
<1>1. /\ turn' = Nobody
      /\ phase' \in [Call -> {"idle"} \cup UnderWay \cup Ended]
      /\ phase'[c] = how /\ \A b \in Call \ {c} : phase'[b] = phase[b]
      /\ route' \in [Call -> Nat]
      /\ route'[c] = 1 /\ \A b \in Call \ {c} : route'[b] = route[b]
      /\ attempt' \in [Call -> 1 .. MaxAttempts]
      /\ \A b \in Call \ {c} : attempt'[b] = attempt[b]
      /\ yielded' \in [Call -> 0 .. MaxChunks]
      /\ \A b \in Call \ {c} : yielded'[b] = yielded[b]
      /\ source' \in [Call -> {<<>>} \cup (Nat \X Nat)]
      /\ source'[c] = <<>> /\ \A b \in Call \ {c} : source'[b] = source[b]
  BY BoundAssumption DEF End, Controls, Types
<1>2. Len(request[c].route) \in Nat /\ 1 \in 1 .. Len(request[c].route)
  BY DEF Controls, Types
<1>3. Types'
  BY <1>1, <1>2 DEF Controls, Types
<1>4. Turns'
  <2>1. how \notin {"lookup", "asking", "ready", "paused"}
    BY DEF Ended
  <2>2. Nobody \notin Call
    BY DEF Nobody, Call
  <2> QED
    BY ZenonT(60), <1>1, <2>1, <2>2 DEF Controls, Turns, IsChat
<1>5. Fresh'
  BY <1>1 DEF Controls, Fresh
<1>6. Sources'
  BY <1>1 DEF Controls, Sources
<1> QED
  BY <1>3, <1>4, <1>5, <1>6 DEF Controls

LEMMA LookupSteps ==
  ASSUME Controls, NEW c \in Call, Lookup(c)
  PROVE  Controls' /\ (Continues(c) \/ EndsWith(c, "done", 0))
<1>1. /\ turn = c /\ phase[c] = "lookup" /\ IsChat(c)
      /\ UNCHANGED <<strict, request, ledger, costs, cache, usage, peak>>
  BY DEF Lookup, Controls, Turns, moneyVars
<1>2. CASE End(c, "done") /\ cache[Entry(c)] # Nobody
           /\ answer' = [answer EXCEPT ![c] = <<cache[Entry(c)], ProviderOf(c)>>]
  <2>1. /\ ProviderOf(c) \in Provider /\ Entry(c) = <<ProviderOf(c), request[c].key>>
        /\ cache[Entry(c)] \in Call
    BY <1>2, ProviderType DEF Controls, Types
  <2>2. answer' \in [Call -> {<<>>} \cup (Call \X Provider)]
    BY <1>2, <2>1 DEF Controls, Types
  <2>3. usage[c] = 0
    BY <1>1 DEF Controls, Fresh, Answered
  <2>4. Controls'
    BY <1>1, <1>2, <2>2, EndControls DEF Controls, Types, Ended, Answered
  <2>5. /\ phase' = [phase EXCEPT ![c] = "done"]
        /\ ledger' = ledger + 0 /\ costs' = costs + 0
        /\ usage' = [usage EXCEPT ![c] = 0]
    BY <1>1, <1>2, <2>3 DEF End, Controls, Types
  <2>6. /\ phase[c] \in UnderWay /\ "done" \in Ended \ {"refused"} /\ "done" \in Answered
    BY <1>1 DEF UnderWay, Ended, Answered
  <2>7. \E b \in Call, p \in Provider :
          /\ answer' = [answer EXCEPT ![c] = <<b, p>>]
          /\ b = cache[<<p, request[c].key>>] /\ cache' = cache
    BY <1>1, <1>2, <2>1
  <2>8. request[c].reserve > 0 => 0 <= request[c].reserve
    BY ProviderType DEF Controls
  <2> QED
    BY <1>1, <2>4, <2>5, <2>6, <2>7, <2>8 DEF EndsWith
<1>3. CASE /\ phase' = [phase EXCEPT ![c] = "asking"]
           /\ UNCHANGED <<turn, route, attempt, yielded, source, answer>>
  <2>1. phase' \in [Call -> {"idle"} \cup UnderWay \cup Ended]
        /\ phase'[c] = "asking" /\ \A b \in Call \ {c} : phase'[b] = phase[b]
    BY <1>3 DEF Controls, Types, UnderWay
  <2>2. Types'
    BY <1>1, <1>3, <2>1 DEF Controls, Types
  <2>3. Turns' /\ Fresh' /\ Sources'
    BY <1>1, <1>3, <2>1 DEF Controls, Turns, Fresh, Sources, IsChat, UnderWay, Answered
  <2>4. Continues(c)
    BY <1>1, <1>3 DEF Continues, UnderWay
  <2> QED
    BY <2>2, <2>3, <2>4 DEF Controls
<1> QED
  BY <1>2, <1>3 DEF Lookup

\* A bill leaves what an answer costs.
LEMMA BillType ==
  ASSUME Controls, NEW c \in Call, NEW u \in 0 .. MaxUsage, Bill(c, u)
  PROVE  /\ ledger' = ledger + u /\ costs' = costs + u
         /\ ledger' \in Nat /\ costs' \in Nat
         /\ usage' = [usage EXCEPT ![c] = u]
         /\ usage' \in [Call -> 0 .. MaxUsage]
         /\ \A b \in Call \ {c} : usage'[b] = usage[b]
BY BoundAssumption DEF Bill, Charge, Controls, Types

LEMMA AnswersSteps ==
  ASSUME Controls, NEW c \in Call, NEW u \in 0 .. MaxUsage, Answers(c, u)
  PROVE  Controls' /\ \E how \in Answered : EndsWith(c, how, u)
<1>1. /\ turn = c /\ phase[c] = "asking" /\ IsChat(c) /\ Bill(c, u)
      /\ request[c].reserve > 0 => u <= request[c].reserve
      /\ UNCHANGED <<strict, request, peak>>
  BY DEF Answers, IsChat
<1>2. /\ ledger' = ledger + u /\ costs' = costs + u
      /\ ledger' \in Nat /\ costs' \in Nat
      /\ usage' = [usage EXCEPT ![c] = u]
      /\ usage' \in [Call -> 0 .. MaxUsage]
      /\ \A b \in Call \ {c} : usage'[b] = usage[b]
  BY <1>1, BillType
<1>3. phase[c] \in UnderWay
  BY <1>1 DEF UnderWay
<1>4. CASE Over(ledger') /\ End(c, "over_budget") /\ UNCHANGED <<cache, answer>>
  <2>1. Controls'
    BY <1>1, <1>2, <1>4, EndControls DEF Controls, Types, Ended, Answered
  <2>2. strict /\ ledger' > Budget
    BY <1>4 DEF Over
  <2>3. "over_budget" \in Ended \ {"refused"} /\ "over_budget" \in Answered
    BY DEF Ended, Answered
  <2>4. phase' = [phase EXCEPT ![c] = "over_budget"]
    BY <1>4 DEF End
  <2>5. EndsWith(c, "over_budget", u)
    BY <1>1, <1>2, <1>3, <1>4, <2>2, <2>3, <2>4 DEF EndsWith
  <2> QED
    BY <2>1, <2>3, <2>5
<1>5. CASE /\ End(c, "done")
           /\ cache' = IF request[c].cached THEN Stored(c) ELSE cache
           /\ answer' = [answer EXCEPT ![c] = <<c, ProviderOf(c)>>]
  <2>1. /\ ProviderOf(c) \in Provider /\ request[c].key \in Key
        /\ Entry(c) = <<ProviderOf(c), request[c].key>>
    BY ProviderType DEF Controls
  <2>2. cache' \in {cache, [cache EXCEPT ![<<ProviderOf(c), request[c].key>>] = c]}
    BY <1>5, <2>1 DEF Stored
  <2>3. cache' \in [Provider \X Key -> Call \cup {Nobody}]
    BY <2>1, <2>2 DEF Controls, Types
  <2>4. answer' \in [Call -> {<<>>} \cup (Call \X Provider)]
    BY <1>5, <2>1 DEF Controls, Types
  <2>5. "done" \in Ended \ {"refused"} /\ "done" \in Answered
    BY DEF Ended, Answered
  <2>6. Controls'
    BY <1>1, <1>2, <1>5, <2>3, <2>4, <2>5, EndControls
  <2>7. phase' = [phase EXCEPT ![c] = "done"]
    BY <1>5 DEF End
  <2>8. EndsWith(c, "done", u)
    BY <1>1, <1>2, <1>3, <1>5, <2>1, <2>2, <2>5, <2>7 DEF EndsWith
  <2> QED
    BY <2>5, <2>6, <2>8
<1> QED
  BY <1>4, <1>5 DEF Answers

LEMMA FailsSteps ==
  ASSUME Controls, NEW c \in Call, NEW f \in Failure, Fails(c, f)
  PROVE  /\ Controls'
         /\ Continues(c) \/ \E how \in Ended \ ({"refused"} \cup Answered) : EndsWith(c, how, 0)
<1>1. /\ turn = c /\ phase[c] = "asking" /\ phase[c] \in UnderWay
      /\ UNCHANGED <<strict, request, ledger, costs, cache, usage, answer, peak>>
  BY DEF Fails, moneyVars, UnderWay
<1>2. CASE /\ MayRetry(c, f)
           /\ attempt' = [attempt EXCEPT ![c] = @ + 1]
           /\ yielded' = [yielded EXCEPT ![c] = 0]
           /\ UNCHANGED <<phase, route, turn, source>>
  <2>1. yielded[c] = 0 /\ source[c] = <<>>
    BY <1>2 DEF MayRetry, Controls, Sources
  <2>2. /\ attempt' \in [Call -> 1 .. MaxAttempts]
        /\ \A b \in Call \ {c} : attempt'[b] = attempt[b]
    BY <1>2, BoundAssumption DEF MayRetry, Controls, Types
  <2>3. yielded' \in [Call -> 0 .. MaxChunks] /\ \A b \in Call \ {c} : yielded'[b] = yielded[b]
    BY <1>2, BoundAssumption DEF Controls, Types
  <2>4. Types'
    BY <1>1, <1>2, <2>2, <2>3 DEF Controls, Types
  <2>5. Turns' /\ Fresh' /\ Sources'
    BY <1>1, <1>2, <2>1, <2>2, <2>3 DEF Controls, Turns, Fresh, Sources, IsChat
  <2>6. Continues(c)
    BY <1>1, <1>2 DEF Continues, Controls, Types
  <2> QED
    BY <2>4, <2>5, <2>6 DEF Controls
<1>3. CASE /\ MayFallBack(c, f)
           /\ route' = [route EXCEPT ![c] = NextRoute(c)]
           /\ attempt' = [attempt EXCEPT ![c] = 1]
           /\ IF request[c].kind = "chat"
              THEN phase' = [phase EXCEPT ![c] = "lookup"]
              ELSE UNCHANGED phase
           /\ UNCHANGED <<yielded, turn, source>>
  <2>1. source[c] = <<>>
    BY <1>3 DEF MayFallBack, Controls, Sources
  <2>2. /\ route' \in [Call -> Nat] /\ route'[c] \in 1 .. Len(request[c].route)
        /\ \A b \in Call \ {c} : route'[b] = route[b]
    BY <1>3 DEF MayFallBack, NextRoute, Controls, Types
  <2>3. /\ attempt' \in [Call -> 1 .. MaxAttempts]
        /\ \A b \in Call \ {c} : attempt'[b] = attempt[b]
    BY <1>3, BoundAssumption DEF Controls, Types
  <2>4. \E s \in {"lookup", "asking"} :
          phase' = [phase EXCEPT ![c] = s] /\ (s = "lookup" => IsChat(c))
    BY <1>1, <1>3 DEF Controls, Types, IsChat
  <2>5. PICK s \in {"lookup", "asking"} :
          phase' = [phase EXCEPT ![c] = s] /\ (s = "lookup" => IsChat(c))
    BY <2>4
  <2>6. s \in UnderWay /\ s \notin Answered
    BY DEF UnderWay, Answered
  <2>7. /\ phase' \in [Call -> {"idle"} \cup UnderWay \cup Ended]
        /\ phase'[c] = s /\ \A b \in Call \ {c} : phase'[b] = phase[b]
    BY <2>5, <2>6 DEF Controls, Types
  <2>8. \A b \in Call : route'[b] \in 1 .. Len(request'[b].route)
    BY <1>1, <2>2 DEF Controls, Types
  <2>9. Types'
    BY <1>1, <1>3, <2>2, <2>3, <2>7, <2>8 DEF Controls, Types
  <2>10. Turns' /\ Fresh' /\ Sources'
    BY <1>1, <1>3, <2>1, <2>2, <2>3, <2>5, <2>6, <2>7
       DEF Controls, Turns, Fresh, Sources, IsChat, Answered
  <2>11. Continues(c)
    BY <1>1, <2>5, <2>6 DEF Continues
  <2> QED
    BY <2>9, <2>10, <2>11 DEF Controls
<1>4. CASE End(c, IF yielded[c] > 0 THEN "interrupted" ELSE "failed")
  <2>1. PICK how \in {"interrupted", "failed"} : End(c, how)
    BY <1>4
  <2>2. how \in Ended /\ how \in Ended \ ({"refused"} \cup Answered)
    BY DEF Ended, Answered
  <2>3. usage[c] = 0 /\ phase[c] \notin Answered
    BY <1>1 DEF Controls, Fresh, Answered
  <2>4. Controls'
    BY <1>1, <2>1, <2>2, <2>3, EndControls DEF Controls, Types
  <2>5. /\ phase' = [phase EXCEPT ![c] = how]
        /\ ledger' = ledger + 0 /\ costs' = costs + 0
        /\ usage' = [usage EXCEPT ![c] = 0]
    BY <1>1, <2>1, <2>3 DEF End, Controls, Types
  <2>6. request[c].reserve > 0 => 0 <= request[c].reserve
    BY ProviderType DEF Controls
  <2>7. EndsWith(c, how, 0)
    BY <1>1, <2>2, <2>5, <2>6 DEF EndsWith, Answered
  <2> QED
    BY <2>2, <2>4, <2>7
<1> QED
  BY <1>2, <1>3, <1>4 DEF Fails

LEMMA ReadSteps ==
  ASSUME Controls, NEW c \in Call, Read(c)
  PROVE  Controls' /\ Continues(c)
<1>1. /\ turn = Nobody /\ phase[c] \in {"ready", "paused"} /\ phase[c] \in UnderWay
      /\ turn' = c /\ phase' = [phase EXCEPT ![c] = "asking"]
      /\ UNCHANGED <<strict, request, route, attempt, yielded, ledger, costs, cache,
                     usage, answer, source, peak>>
  BY DEF Read, moneyVars, historyVars, UnderWay
<1>2. phase' \in [Call -> {"idle"} \cup UnderWay \cup Ended]
      /\ phase'[c] = "asking" /\ \A b \in Call \ {c} : phase'[b] = phase[b]
  BY <1>1 DEF Controls, Types, UnderWay
<1>3. Types'
  BY <1>1, <1>2 DEF Controls, Types
<1>4. Turns'
  <2>1. Nobody \notin Call
    BY DEF Nobody, Call
  <2> QED
    BY <1>1, <1>2, <2>1 DEF Controls, Turns, IsChat
<1>5. Fresh' /\ Sources'
  BY <1>1, <1>2 DEF Controls, Fresh, Sources, UnderWay, Answered
<1>6. Continues(c)
  BY <1>1 DEF Continues, UnderWay
<1> QED
  BY <1>3, <1>4, <1>5, <1>6 DEF Controls

LEMMA YieldsSteps ==
  ASSUME Controls, NEW c \in Call, Yields(c)
  PROVE  Controls' /\ Continues(c)
<1>1. /\ turn = c /\ phase[c] = "asking" /\ ~IsChat(c) /\ phase[c] \in UnderWay
      /\ yielded[c] < MaxChunks
      /\ yielded' = [yielded EXCEPT ![c] = @ + 1]
      /\ phase' = [phase EXCEPT ![c] = "paused"] /\ turn' = Nobody
      /\ source' = [source EXCEPT ![c] = <<route[c], attempt[c]>>]
      /\ UNCHANGED <<strict, request, route, attempt, ledger, costs, cache, usage,
                     answer, peak>>
  BY DEF Yields, moneyVars, UnderWay, IsChat
<1>2. phase' \in [Call -> {"idle"} \cup UnderWay \cup Ended]
      /\ phase'[c] = "paused" /\ \A b \in Call \ {c} : phase'[b] = phase[b]
  BY <1>1 DEF Controls, Types, UnderWay
<1>3. /\ yielded' \in [Call -> 0 .. MaxChunks] /\ yielded'[c] > 0
      /\ \A b \in Call \ {c} : yielded'[b] = yielded[b]
  BY <1>1, BoundAssumption DEF Controls, Types
<1>4. route[c] \in Nat /\ attempt[c] \in Nat
  BY BoundAssumption DEF Controls, Types
<1>5. /\ source' \in [Call -> {<<>>} \cup (Nat \X Nat)]
      /\ source'[c] = <<route[c], attempt[c]>>
      /\ \A b \in Call \ {c} : source'[b] = source[b]
  BY <1>1, <1>4 DEF Controls, Types
<1>6. Types'
  BY <1>1, <1>2, <1>3, <1>5 DEF Controls, Types
<1>7. Turns'
  <2>1. Nobody \notin Call
    BY DEF Nobody, Call
  <2> QED
    BY <1>1, <1>2, <2>1 DEF Controls, Turns, IsChat
<1>8. Fresh' /\ Sources'
  BY <1>1, <1>2, <1>3, <1>5 DEF Controls, Fresh, Sources, UnderWay, Answered
<1>9. Continues(c)
  BY <1>1 DEF Continues, UnderWay
<1> QED
  BY <1>6, <1>7, <1>8, <1>9 DEF Controls

LEMMA StreamEndsSteps ==
  ASSUME Controls, NEW c \in Call, NEW u \in 0 .. MaxUsage, StreamEnds(c, u)
  PROVE  Controls' /\ \E how \in Answered : EndsWith(c, how, u)
<1>1. /\ turn = c /\ phase[c] = "asking" /\ ~IsChat(c) /\ Bill(c, u)
      /\ phase[c] \in UnderWay
      /\ request[c].reserve > 0 => u <= request[c].reserve
      /\ UNCHANGED <<strict, request, cache, answer, peak>>
  BY DEF StreamEnds, IsChat, UnderWay
<1>2. /\ ledger' = ledger + u /\ costs' = costs + u
      /\ ledger' \in Nat /\ costs' \in Nat
      /\ usage' = [usage EXCEPT ![c] = u]
      /\ usage' \in [Call -> 0 .. MaxUsage]
      /\ \A b \in Call \ {c} : usage'[b] = usage[b]
  BY <1>1, BillType
<1>3. PICK how \in Answered :
        End(c, how) /\ (how = "over_budget" => strict /\ ledger' > Budget)
  BY DEF StreamEnds, Over, Answered
<1>4. how \in Ended /\ how \in Ended \ {"refused"}
  BY DEF Ended, Answered
<1>5. Controls'
  BY <1>1, <1>2, <1>3, <1>4, EndControls DEF Controls, Types
<1>6. phase' = [phase EXCEPT ![c] = how]
  BY <1>3 DEF End
<1>7. EndsWith(c, how, u)
  BY <1>1, <1>2, <1>3, <1>4, <1>6 DEF EndsWith
<1> QED
  BY <1>5, <1>7

LEMMA DropSteps ==
  ASSUME Controls, NEW c \in Call, Drop(c)
  PROVE  Controls' /\ EndsWith(c, "dropped", 0)
<1>1. /\ turn = Nobody /\ phase[c] \in {"ready", "paused"} /\ phase[c] \in UnderWay
      /\ End(c, "dropped")
      /\ UNCHANGED <<strict, request, ledger, costs, cache, usage, answer, peak>>
  BY DEF Drop, moneyVars, UnderWay
<1>2. "dropped" \in Ended /\ "dropped" \in Ended \ {"refused"} /\ "dropped" \notin Answered
  BY DEF Ended, Answered
<1>3. usage[c] = 0
  BY <1>1 DEF Controls, Fresh, Answered
<1>4. Controls'
  BY <1>1, <1>2, <1>3, EndControls DEF Controls, Types
<1>5. /\ phase' = [phase EXCEPT ![c] = "dropped"]
      /\ ledger' = ledger + 0 /\ costs' = costs + 0
      /\ usage' = [usage EXCEPT ![c] = 0]
  BY <1>1, <1>3 DEF End, Controls, Types
<1>6. request[c].reserve > 0 => 0 <= request[c].reserve
  BY ProviderType DEF Controls
<1> QED
  BY <1>1, <1>2, <1>4, <1>5, <1>6 DEF EndsWith

\* The calls under way are finitely many.
LEMMA OpenFinite ==
  IsFiniteSet(Open) /\ Cardinality(Open) \in Nat
<1>1. IsFiniteSet(Call)
  BY FS_Interval, BoundAssumption DEF Call
<1>2. Open \subseteq Call
  BY DEF Open
<1> QED
  BY <1>1, <1>2, FS_Subset, FS_CardinalityType

\* A new request takes the place of one that was never used.
LEMMA CalledControls ==
  ASSUME Controls, NEW c \in Call, NEW r \in Requests, Called(c, r),
         NEW s \in {"lookup", "ready", "refused"},
         phase' = [phase EXCEPT ![c] = s],
         turn' = IF s = "lookup" THEN c ELSE Nobody,
         s = "lookup" => r.kind = "chat", s = "ready" => r.kind # "chat",
         peak' \in Nat
  PROVE  Controls' /\ r \in Request
<1>1. /\ turn = Nobody /\ phase[c] = "idle" /\ request' = [request EXCEPT ![c] = r]
      /\ UNCHANGED <<strict, route, attempt, yielded, ledger, costs, cache, usage,
                     answer, source>>
  BY DEF Called, moneyVars
<1>2. r \in Request
  BY RequestAssumption
<1>3. /\ request' \in [Call -> Request] /\ request'[c] = r
      /\ \A b \in Call \ {c} : request'[b] = request[b]
  BY <1>1, <1>2 DEF Controls, Types
<1>4. /\ phase' \in [Call -> {"idle"} \cup UnderWay \cup Ended]
      /\ phase'[c] = s /\ \A b \in Call \ {c} : phase'[b] = phase[b]
  BY DEF Controls, Types, UnderWay, Ended
<1>5. route[c] = 1 /\ source[c] = <<>> /\ usage[c] = 0
  BY <1>1 DEF Controls, Fresh, UnderWay, Answered
<1>6. 1 \in 1 .. Len(r.route)
  <2>1. r.route \in Seq(Provider) /\ r.route # <<>>
    BY <1>2, RouteAssumption DEF Request
  <2> QED
    BY <2>1
<1>7. \A b \in Call : route'[b] \in 1 .. Len(request'[b].route)
  BY <1>1, <1>3, <1>5, <1>6 DEF Controls, Types
<1>8. turn' \in Call \cup {Nobody}
  OBVIOUS
<1>9. Types'
  BY <1>1, <1>3, <1>4, <1>7, <1>8 DEF Controls, Types
<1>10. Turns'
  <2>1. Nobody \notin Call
    BY DEF Nobody, Call
  <2> QED
    BY <1>1, <1>3, <1>4, <2>1 DEF Controls, Turns, IsChat
<1>11. Fresh' /\ Sources'
  BY <1>1, <1>4, <1>5 DEF Controls, Fresh, Sources, UnderWay, Answered
<1> QED
  BY <1>2, <1>9, <1>10, <1>11 DEF Controls

\* The larger of two numbers.
LEMMA LargerOfTwo ==
  ASSUME NEW x \in Nat, NEW y \in Nat
  PROVE  Max({x, y}) \in Nat /\ Max({x, y}) >= x /\ Max({x, y}) >= y
<1>1. \E z \in {x, y} : \A w \in {x, y} : z >= w
  <2>1. x >= y \/ y >= x
    OBVIOUS
  <2> QED
    BY <2>1
<1> QED
  BY <1>1 DEF Max

LEMMA BeginSteps ==
  ASSUME Controls, NEW c \in Call, NEW r \in Requests, Begin(c, r)
  PROVE  Controls' /\ Begins(c, r)
<1>1. /\ ~strict \/ Admissible(r)
      /\ Called(c, r) /\ peak' = Max({peak, Cardinality(Open) + 1})
  BY DEF Begin
<1>2. peak' \in Nat /\ peak' >= peak /\ peak' >= Cardinality(Open) + 1
  <2> DEFINE n == Cardinality(Open) + 1
  <2>1. peak \in Nat /\ n \in Nat /\ peak' = Max({peak, n})
    BY <1>1, OpenFinite DEF Controls, Types
  <2> HIDE DEF n
  <2>2. Max({peak, n}) \in Nat /\ Max({peak, n}) >= peak /\ Max({peak, n}) >= n
    BY <2>1, LargerOfTwo
  <2> QED
    BY <2>1, <2>2 DEF n
<1>3. PICK s \in {"lookup", "ready"} :
        /\ phase' = [phase EXCEPT ![c] = s]
        /\ s = IF r.kind = "chat" THEN "lookup" ELSE "ready"
        /\ turn' = IF s = "lookup" THEN c ELSE Nobody
  BY DEF Begin
<1>4. Controls' /\ r \in Request
  BY <1>1, <1>2, <1>3, CalledControls
<1>5. Begins(c, r)
  BY <1>1, <1>2, <1>3, <1>4 DEF Begins, Called, Admissible, moneyVars
<1> QED
  BY <1>4, <1>5

LEMMA RefuseSteps ==
  ASSUME Controls, NEW c \in Call, NEW r \in Requests, Refuse(c, r)
  PROVE  Controls'
<1>1. /\ Called(c, r) /\ phase' = [phase EXCEPT ![c] = "refused"]
      /\ UNCHANGED <<turn, peak>> /\ turn = Nobody
  BY DEF Refuse, Called
<1>2. peak' \in Nat
  BY <1>1 DEF Controls, Types
<1> QED
  BY <1>1, <1>2, CalledControls

LEMMA ClearCacheSteps ==
  ASSUME Controls, ClearCache
  PROVE  /\ Controls'
         /\ cache' = [e \in Provider \X Key |-> Nobody]
         /\ UNCHANGED <<strict, turn, request, phase, route, attempt, yielded, ledger,
                        costs, usage, answer, source, peak>>
<1>1. /\ UNCHANGED <<strict, turn, request, phase, route, attempt, yielded, ledger,
                     costs, usage, answer, source, peak>>
      /\ cache' = [e \in DOMAIN cache |-> Nobody]
  BY DEF ClearCache, progressVars, moneyVars, historyVars
<1>2. DOMAIN cache = Provider \X Key
  BY DEF Controls, Types
<1>3. Types'
  BY <1>1, <1>2 DEF Controls, Types
<1>4. Turns' /\ Fresh' /\ Sources'
  BY <1>1 DEF Controls, Turns, Fresh, Sources, IsChat
<1> QED
  BY <1>1, <1>2, <1>3, <1>4 DEF Controls

-----------------------------------------------------------------------------
(* The accounts and the answers *)

Accounts == LedgerCountsAnswers /\ Within /\ Reserved /\ OneWasted
Origins == Entries /\ Returned

\* What n answers may cost.
LEMMA Costs ==
  ASSUME NEW n \in Nat
  PROVE  MaxUsage * n \in Nat /\ MaxUsage * (n + 1) = MaxUsage * n + MaxUsage
BY BoundAssumption

LEMMA CostsGrow ==
  ASSUME NEW n \in Nat, NEW m \in Nat, n <= m
  PROVE  MaxUsage * n <= MaxUsage * m
<1> DEFINE d == m - n
<1>1. d \in Nat /\ m = n + d
  OBVIOUS
<1> HIDE DEF d
<1>2. MaxUsage * m = MaxUsage * n + MaxUsage * d
  BY <1>1, BoundAssumption
<1>3. MaxUsage * d \in Nat /\ MaxUsage * n \in Nat
  BY <1>1, Costs
<1> QED
  BY <1>1, <1>2, <1>3, BoundAssumption

LEMMA PaidType ==
  ASSUME Types, Types'
  PROVE  Paid \in [Call -> Nat] /\ Paid' \in [Call -> Nat]
<1>1. \A c \in Call : usage[c] \in Nat /\ usage'[c] \in Nat
  BY BoundAssumption DEF Types
<1>2. Paid \in [Call -> Nat]
  BY <1>1 DEF Paid
<1>3. Paid' \in [Call -> Nat]
  BY <1>1 DEF Paid
<1> QED
  BY <1>2, <1>3

\* What GivenBy says of a call stays true: it has ended.
LEMMA GivenStays ==
  ASSUME NEW b, NEW p, NEW k, GivenBy(phase, request, answer, b, p, k),
         request'[b] = request[b], phase'[b] = phase[b], answer'[b] = answer[b]
  PROVE  GivenBy(phase', request', answer', b, p, k)
BY DEF GivenBy

\* So that a step which changes only calls that have not ended, and neither the
\* answers nor the cache, keeps what is known of both.
LEMMA OriginsStay ==
  ASSUME Controls, Origins, cache' = cache, answer' = answer,
         \A b \in Call : phase[b] = "done" => phase'[b] = "done" /\ request'[b] = request[b],
         \A b \in Call : phase'[b] = "done" /\ IsChat(b)' => phase[b] = "done"
  PROVE  Origins'
<1>1. ASSUME NEW b \in Call, NEW p, NEW k, GivenBy(phase, request, answer, b, p, k)
      PROVE  GivenBy(phase', request', answer', b, p, k)
  BY <1>1, GivenStays DEF GivenBy
<1>2. Entries'
  <2> SUFFICES ASSUME NEW p \in Provider, NEW k \in Key, cache[<<p, k>>] # Nobody
               PROVE  GivenBy(phase', request', answer', cache[<<p, k>>], p, k)
    BY DEF Entries
  <2>1. cache[<<p, k>>] \in Call
    BY DEF Controls, Types
  <2> QED
    BY <1>1, <2>1 DEF Origins, Entries
<1>3. Returned'
  <2> SUFFICES ASSUME NEW d \in Call, phase'[d] = "done", IsChat(d)'
               PROVE  /\ answer[d] \in Call \X Provider
                      /\ GivenBy(phase', request', answer', answer[d][1], answer[d][2],
                                 request'[d].key)
    BY DEF Returned
  <2>1. phase[d] = "done" /\ request'[d] = request[d] /\ IsChat(d)
    BY DEF IsChat
  <2>2. /\ answer[d] \in Call \X Provider
        /\ GivenBy(phase, request, answer, answer[d][1], answer[d][2], request[d].key)
    BY <2>1 DEF Origins, Returned
  <2>3. answer[d][1] \in Call
    BY <2>2
  <2> QED
    BY <1>1, <2>1, <2>2, <2>3
<1> QED
  BY <1>2, <1>3 DEF Origins

LEMMA ContinuesKeeps ==
  ASSUME Controls, Accounts, Origins, NEW c \in Call, Continues(c)
  PROVE  Accounts' /\ Origins'
<1>1. PICK s \in UnderWay : phase' = [phase EXCEPT ![c] = s]
  BY DEF Continues
<1>2. /\ phase[c] \in UnderWay /\ phase'[c] = s
      /\ \A b \in Call \ {c} : phase'[b] = phase[b]
      /\ UNCHANGED <<strict, request, ledger, costs, cache, usage, answer, peak>>
  BY <1>1 DEF Continues, Controls, Types
<1>3. /\ \A b \in Call : phase[b] \in UnderWay <=> phase'[b] \in UnderWay
      /\ \A b \in Call : phase[b] \notin UnderWay => phase'[b] = phase[b]
      /\ \A b \in Call : phase[b] \in UnderWay =>
           /\ phase[b] \notin {"idle", "refused"} \cup Answered
           /\ phase'[b] \notin {"idle", "refused"} \cup Answered
  BY <1>2, Apart DEF Ended
<1>4. Open' = Open /\ Admitted' = Admitted /\ Paid' = Paid
  <2>1. \A b \in Call : phase[b] \in {"idle", "refused"} <=> phase'[b] \in {"idle", "refused"}
    BY <1>3
  <2>2. \A b \in Call : phase[b] \in Answered <=> phase'[b] \in Answered
    BY <1>3
  <2> QED
    BY <1>2, <1>3, <2>1, <2>2 DEF Open, Admitted, Paid, Answered
<1>5. LedgerCountsAnswers'
  BY <1>2, <1>4 DEF Accounts, LedgerCountsAnswers
<1>6. Within' /\ Reserved'
  BY <1>2, <1>4 DEF Accounts, Within, Reserved, Liable
<1>7. OneWasted'
  <2>1. "over_budget" \in Answered
    BY DEF Answered
  <2>2. \A b \in Call : Wasted(b)' <=> Wasted(b)
    BY <1>2, <1>3, <2>1 DEF Wasted, IsChat
  <2> QED
    BY <1>2, <1>3, <2>2 DEF Accounts, OneWasted, IsChat
<1>8. Origins'
  <2>1. "done" \in Answered
    BY DEF Answered
  <2>2. \A b \in Call : phase[b] = "done" <=> phase'[b] = "done"
    BY <1>3, <2>1
  <2> QED
    BY <1>2, <2>2, OriginsStay DEF IsChat
<1> QED
  BY <1>5, <1>6, <1>7, <1>8 DEF Accounts

LEMMA EndsAccounts ==
  ASSUME Controls, Controls', Accounts, NEW c \in Call, NEW how, NEW u \in 0 .. MaxUsage,
         EndsWith(c, how, u)
  PROVE  Accounts'
<1>1. /\ phase[c] \in UnderWay /\ how \in Ended \ {"refused"}
      /\ phase'[c] = how /\ \A b \in Call \ {c} : phase'[b] = phase[b]
      /\ ledger' = ledger + u /\ costs' = costs + u
      /\ usage'[c] = u /\ \A b \in Call \ {c} : usage'[b] = usage[b]
      /\ request[c].reserve > 0 => u <= request[c].reserve
      /\ how \notin Answered => u = 0
      /\ how = "over_budget" => strict /\ ledger' > Budget
      /\ how = "over_budget" /\ IsChat(c) => turn = c
      /\ UNCHANGED <<strict, request, peak>>
  BY DEF EndsWith, Controls, Types
<1>2. /\ u \in Nat /\ ledger \in Nat /\ costs \in Nat /\ peak \in Nat /\ Budget \in Nat
      /\ MaxUsage \in Nat /\ u <= MaxUsage
  BY BoundAssumption DEF Controls, Types
<1>3. LedgerCountsAnswers'
  <2>1. Paid \in [Call -> Nat] /\ Paid' \in [Call -> Nat]
    BY PaidType DEF Controls
  <2>2. \A b \in Call \ {c} : Paid'[b] = Paid[b]
    BY <1>1 DEF Paid
  <2>3. Paid[c] = 0 /\ Paid'[c] = u
    BY <1>1, Apart DEF Paid, Answered
  <2>4. /\ Total(Paid) \in Nat /\ Total(Paid') \in Nat
        /\ Total(Paid') + Paid[c] = Total(Paid) + Paid'[c]
    <3> DEFINE f == Paid
               g == Paid'
    <3>1. f \in [Call -> Nat] /\ g \in [Call -> Nat] /\ \A b \in Call \ {c} : g[b] = f[b]
      BY <2>1, <2>2
    <3> HIDE DEF f, g
    <3>2. Total(f) \in Nat /\ Total(g) \in Nat /\ Total(g) + f[c] = Total(f) + g[c]
      BY <3>1, TotalChanges
    <3> QED
      BY <3>2 DEF f, g
  <2>5. Total(Paid') = Total(Paid) + u
    BY <1>2, <2>3, <2>4
  <2>6. ledger' = Total(Paid') /\ costs' = ledger'
    BY <1>1, <2>5 DEF Accounts, LedgerCountsAnswers
  <2> QED
    BY <2>6 DEF LedgerCountsAnswers
<1> DEFINE n == Cardinality(Open)
           n2 == Cardinality(Open')
<1>4. n \in Nat /\ n2 \in Nat /\ n = n2 + 1 /\ Open' = Open \ {c} /\ c \in Open
  <2>1. c \in Open /\ Open' = Open \ {c}
    BY <1>1, Apart DEF Open
  <2> QED
    <3>1. IsFiniteSet(Open) /\ n \in Nat
      BY OpenFinite
    <3>2. IsFiniteSet(Open \ {c}) /\ Cardinality(Open \ {c}) \in Nat
      BY <3>1, FS_Subset, FS_CardinalityType
    <3>3. Cardinality(Open \ {c}) = n - 1
      BY <2>1, <3>1, FS_RemoveElement
    <3> QED
      BY <2>1, <3>1, <3>2, <3>3
<1>5. Admitted' = Admitted
  BY <1>1, Apart DEF Admitted, Ended
<1> DEFINE o == MaxUsage * n
           o2 == MaxUsage * n2
           top == MaxUsage * peak
<1>6. /\ o \in Nat /\ o2 \in Nat /\ o = o2 + MaxUsage /\ top \in Nat
  <2> HIDE DEF n, n2
  <2> QED
    BY <1>2, <1>4, Costs
<1>7. Liable = o /\ Liable' = o2
  BY DEF Liable
<1>8. Within'
  <2> SUFFICES ASSUME strict, Admitted # {} PROVE ledger' + o2 <= Budget + top
    BY <1>1, <1>5, <1>7 DEF Within
  <2>1. ledger + o <= Budget + top
    BY <1>7 DEF Accounts, Within
  <2> HIDE DEF n, n2, o, o2, top
  <2> QED
    BY <1>1, <1>2, <1>6, <2>1
<1>9. Reserved'
  <2> SUFFICES ASSUME strict, Admitted # {}, \A b \in Admitted : request[b].reserve > 0
               PROVE  \/ ledger' + o2 <= Budget + top - MaxUsage
                      \/ \E b \in Open' :
                           ledger' + request[b].reserve + o2 <= Budget + top
    BY <1>1, <1>5, <1>7 DEF Reserved
  <2>1. \/ ledger + o <= Budget + top - MaxUsage
        \/ \E b \in Open : ledger + request[b].reserve + o <= Budget + top
    BY <1>7 DEF Accounts, Reserved
  <2> HIDE DEF n, n2, o, o2, top
  <2>2. CASE ledger + o <= Budget + top - MaxUsage
    BY <1>1, <1>2, <1>6, <2>2
  <2>3. ASSUME NEW b \in Open, ledger + request[b].reserve + o <= Budget + top
        PROVE  \/ ledger' + o2 <= Budget + top - MaxUsage
               \/ b \in Open' /\ ledger' + request[b].reserve + o2 <= Budget + top
    <3>1. request[b].reserve \in Nat
      BY ProviderType DEF Controls, Open
    <3>2. CASE b = c
      <4>1. c \in Admitted
        BY <1>1, Apart DEF Admitted
      <4>2. u <= request[c].reserve
        BY <1>1, <4>1
      <4> QED
        BY <1>1, <1>2, <1>6, <2>3, <3>1, <3>2, <4>2
    <3>3. CASE b # c
      <4>1. b \in Open'
        BY <1>4, <3>3
      <4> QED
        BY <1>1, <1>2, <1>6, <2>3, <3>1, <4>1
    <3> QED
      BY <3>2, <3>3
  <2> QED
    BY <2>1, <2>2, <2>3
<1>10. OneWasted'
  <2>1. \A b \in Call \ {c} : Wasted(b)' <=> Wasted(b)
    BY <1>1 DEF Wasted, IsChat
  <2>2. CASE Wasted(c)'
    <3>1. how = "over_budget" /\ IsChat(c) /\ turn = c /\ strict /\ ledger' > Budget
      BY <1>1, <2>2 DEF Wasted, IsChat
    <3>2. \A b \in Call : ~Wasted(b)
      BY <1>1, <3>1 DEF Accounts, OneWasted
    <3>3. \A d \in Call \ {c} : phase[d] \in UnderWay => ~IsChat(d)
      BY <3>1 DEF Controls, Turns, UnderWay
    <3>4. phase'[c] \notin UnderWay
      BY <1>1, Apart
    <3>5. \A d \in Call : phase'[d] \in UnderWay => ~IsChat(d)'
      BY <1>1, <3>3, <3>4 DEF IsChat
    <3>6. \A d \in Call : Wasted(d)' => d = c
      BY <2>1, <3>2
    <3> QED
      BY <1>1, <3>1, <3>5, <3>6 DEF OneWasted
  <2>3. CASE ~Wasted(c)'
    <3>1. phase'[c] \notin UnderWay /\ (\A b \in Call : IsChat(b)' <=> IsChat(b))
      BY <1>1, Apart DEF IsChat
    <3>2. \A b \in Call : Wasted(b)' => Wasted(b)
      BY <2>1, <2>3
    <3> HIDE DEF n, n2, o, o2, top
    <3> SUFFICES ASSUME NEW b \in Call, Wasted(b)'
                 PROVE  /\ strict' /\ ledger' > Budget
                        /\ \A d \in Call : Wasted(d)' => d = b
                        /\ \A d \in Call : phase'[d] \in UnderWay => ~IsChat(d)'
      BY DEF OneWasted
    <3>3. /\ strict /\ ledger > Budget
          /\ \A d \in Call : Wasted(d) => d = b
          /\ \A d \in Call : phase[d] \in UnderWay => ~IsChat(d)
      BY <3>2 DEF Accounts, OneWasted
    <3>4. ledger' > Budget
      BY <1>1, <1>2, <3>3
    <3> QED
      BY <1>1, <3>1, <3>2, <3>3, <3>4
  <2> QED
    BY <2>2, <2>3
<1> QED
  BY <1>3, <1>8, <1>9, <1>10 DEF Accounts

LEMMA EndsOrigins ==
  ASSUME Controls, Controls', Origins, NEW c \in Call, NEW how, NEW u, EndsWith(c, how, u)
  PROVE  Origins'
<1>1. /\ phase[c] \in UnderWay /\ phase'[c] = how
      /\ \A b \in Call \ {c} : phase'[b] = phase[b]
      /\ request' = request
  BY DEF EndsWith, Controls, Types
<1> DEFINE Now(b, p, k) == GivenBy(phase, request, answer, b, p, k)
           Then(b, p, k) == GivenBy(phase', request', answer', b, p, k)
<1>2. ASSUME NEW b, NEW p, NEW k, Now(b, p, k) PROVE b # c
  BY <1>1, <1>2 DEF GivenBy, UnderWay
<1>3. CASE ~(how = "done" /\ IsChat(c))
  <2>1. UNCHANGED <<cache, answer>>
    BY <1>3 DEF EndsWith
  <2>2. \A b \in Call : phase[b] = "done" => phase'[b] = "done" /\ request'[b] = request[b]
    BY <1>1 DEF UnderWay
  <2>3. \A b \in Call : phase'[b] = "done" /\ IsChat(b)' => phase[b] = "done"
    BY <1>1, <1>3 DEF IsChat
  <2> QED
    BY <2>1, <2>2, <2>3, OriginsStay
<1>4. CASE how = "done" /\ IsChat(c)
  <2>1. PICK a \in Call, q \in Provider :
          /\ answer' = [answer EXCEPT ![c] = <<a, q>>]
          /\ \/ a = c /\ cache' \in {cache, [cache EXCEPT ![<<q, request[c].key>>] = c]}
             \/ a = cache[<<q, request[c].key>>] /\ cache' = cache
    BY <1>4 DEF EndsWith
  <2>2. /\ answer'[c] = <<a, q>> /\ \A b \in Call \ {c} : answer'[b] = answer[b]
    BY <2>1 DEF Controls, Types
  <2>3. ASSUME NEW b \in Call, NEW p, NEW k, Now(b, p, k) PROVE Then(b, p, k)
    BY <1>1, <1>2, <2>2, <2>3, GivenStays
  <2>4. request[c].key \in Key
    BY ProviderType DEF Controls
  <2>5. Then(a, q, request[c].key)
    <3>1. CASE a = c
      BY <1>1, <1>4, <2>2, <3>1 DEF GivenBy, IsChat
    <3>2. CASE a # c
      <4>1. a # Nobody
        BY DEF Nobody, Call
      <4>2. Now(a, q, request[c].key)
        BY <2>1, <2>4, <3>2, <4>1 DEF Origins, Entries
      <4> QED
        BY <2>3, <4>2
    <3> QED
      BY <3>1, <3>2
  <2>6. Entries'
    <3> SUFFICES ASSUME NEW p \in Provider, NEW k \in Key, cache'[<<p, k>>] # Nobody
                 PROVE  Then(cache'[<<p, k>>], p, k)
      BY DEF Entries
    <3>1. CASE cache'[<<p, k>>] = cache[<<p, k>>]
      <4>1. cache[<<p, k>>] \in Call /\ Now(cache[<<p, k>>], p, k)
        BY <3>1 DEF Origins, Entries, Controls, Types
      <4>2. Then(cache[<<p, k>>], p, k)
        BY <2>3, <4>1
      <4> QED
        BY <3>1, <4>2
    <3>2. CASE cache'[<<p, k>>] # cache[<<p, k>>]
      <4>1. a = c /\ <<p, k>> = <<q, request[c].key>> /\ cache'[<<p, k>>] = c
        BY <2>1, <2>4, <3>2 DEF Controls, Types
      <4>2. p = q /\ k = request[c].key
        BY <4>1
      <4> QED
        BY <2>5, <4>1, <4>2
    <3> QED
      BY <3>1, <3>2
  <2>7. Returned'
    <3> SUFFICES ASSUME NEW d \in Call, phase'[d] = "done", IsChat(d)'
                 PROVE  /\ answer'[d] \in Call \X Provider
                        /\ Then(answer'[d][1], answer'[d][2], request'[d].key)
      BY DEF Returned
    <3>1. CASE d = c
      <4>1. answer'[d] = <<a, q>> /\ request'[d].key = request[c].key
        BY <1>1, <2>2, <3>1
      <4>2. answer'[d][1] = a /\ answer'[d][2] = q /\ answer'[d] \in Call \X Provider
        BY <4>1
      <4> QED
        BY <2>5, <4>1, <4>2
    <3>2. CASE d # c
      <4>1. phase[d] = "done" /\ IsChat(d)
        BY <1>1, <3>2 DEF IsChat
      <4>2. /\ answer[d] \in Call \X Provider
            /\ Now(answer[d][1], answer[d][2], request[d].key)
        BY <4>1 DEF Origins, Returned
      <4>3. answer'[d] = answer[d] /\ request'[d] = request[d] /\ answer[d][1] \in Call
        BY <1>1, <2>2, <3>2, <4>2
      <4>4. Then(answer[d][1], answer[d][2], request[d].key)
        BY <2>3, <4>2, <4>3
      <4> QED
        BY <4>2, <4>3, <4>4
    <3> QED
      BY <3>1, <3>2
  <2> QED
    BY <2>6, <2>7 DEF Origins
<1> QED
  BY <1>3, <1>4

LEMMA BeginsAccounts ==
  ASSUME Controls, Controls', Accounts, Origins, NEW c \in Call, NEW r, Begins(c, r)
  PROVE  Accounts' /\ Origins'
<1>1. /\ phase[c] = "idle" /\ r.reserve \in Nat
      /\ phase'[c] \in {"lookup", "ready"} /\ phase'[c] \in UnderWay
      /\ \A b \in Call \ {c} : phase'[b] = phase[b]
      /\ strict => ledger + r.reserve <= Budget /\ ledger <= Budget
      /\ request'[c] = r /\ \A b \in Call \ {c} : request'[b] = request[b]
      /\ peak' \in Nat /\ peak' >= peak /\ peak' >= Cardinality(Open) + 1
      /\ UNCHANGED <<strict, ledger, costs, cache, usage, answer>>
  BY BoundAssumption DEF Begins, Controls, Types, Request, UnderWay
<1>2. LedgerCountsAnswers'
  <2>1. Paid' = Paid
    BY <1>1 DEF Paid
  <2> QED
    BY <1>1, <2>1 DEF Accounts, LedgerCountsAnswers
<1> DEFINE n == Cardinality(Open)
           n2 == Cardinality(Open')
           o2 == MaxUsage * n2
           top == MaxUsage * peak'
<1>3. n \in Nat /\ n2 = n + 1 /\ c \in Open'
  <2>1. c \notin Open /\ Open' = Open \cup {c}
    BY <1>1, Apart DEF Open
  <2>2. IsFiniteSet(Open) /\ n \in Nat
    BY OpenFinite
  <2> QED
    BY <2>1, <2>2, FS_AddElement
<1>4. o2 \in Nat /\ top \in Nat /\ o2 <= top
  <2> HIDE DEF n, n2
  <2>1. n2 \in Nat /\ n2 <= peak'
    BY <1>1, <1>3 DEF n
  <2> QED
    BY <1>1, <2>1, Costs, CostsGrow
<1>5. Liable' = o2
  BY DEF Liable
<1>6. ledger \in Nat /\ Budget \in Nat
  BY BoundAssumption DEF Controls, Types
<1>7. Within'
  <2> SUFFICES ASSUME strict PROVE ledger + o2 <= Budget + top
    BY <1>1, <1>5 DEF Within
  <2> HIDE DEF n, n2, o2, top
  <2> QED
    BY <1>1, <1>4, <1>6
<1>8. Reserved'
  <2> SUFFICES ASSUME strict
               PROVE  \E b \in Open' : ledger + request'[b].reserve + o2 <= Budget + top
    BY <1>1, <1>5 DEF Reserved
  <2>1. ledger + request'[c].reserve + o2 <= Budget + top
    <3>1. ledger + r.reserve <= Budget /\ request'[c].reserve = r.reserve
      BY <1>1
    <3> HIDE DEF n, n2, o2, top
    <3> QED
      BY <1>1, <1>4, <1>6, <3>1
  <2> QED
    BY <1>3, <2>1
<1>9. OneWasted'
  <2>1. ASSUME NEW b \in Call, Wasted(b)' PROVE FALSE
    <3>1. b # c
      BY <1>1, <2>1 DEF Wasted
    <3>2. Wasted(b)
      BY <1>1, <2>1, <3>1 DEF Wasted, IsChat
    <3>3. strict /\ ledger > Budget
      BY <3>2 DEF Accounts, OneWasted
    <3> QED
      BY <1>1, <1>6, <3>3
  <2> QED
    BY <2>1 DEF OneWasted
<1>10. Origins'
  <2>1. \A b \in Call : phase[b] = "done" => phase'[b] = "done" /\ request'[b] = request[b]
    BY <1>1
  <2>2. \A b \in Call : phase'[b] = "done" /\ IsChat(b)' => phase[b] = "done"
    BY <1>1
  <2> QED
    BY <1>1, <2>1, <2>2, OriginsStay
<1> QED
  BY <1>2, <1>7, <1>8, <1>9, <1>10 DEF Accounts

LEMMA RefuseAccounts ==
  ASSUME Controls, Accounts, Origins, NEW c \in Call, NEW r, Refuse(c, r)
  PROVE  Accounts' /\ Origins'
<1>1. /\ phase[c] = "idle" /\ phase'[c] = "refused"
      /\ \A b \in Call \ {c} : phase'[b] = phase[b]
      /\ \A b \in Call \ {c} : request'[b] = request[b]
      /\ UNCHANGED <<strict, ledger, costs, cache, usage, answer, peak>>
  BY DEF Refuse, Called, Controls, Types, moneyVars
<1>2. Open' = Open /\ Admitted' = Admitted /\ Paid' = Paid /\ c \notin Open /\ c \notin Admitted
  BY <1>1, Apart DEF Open, Admitted, Paid, UnderWay
<1>3. LedgerCountsAnswers'
  BY <1>1, <1>2 DEF Accounts, LedgerCountsAnswers
<1>4. Within'
  BY <1>1, <1>2 DEF Accounts, Within, Liable
<1>5. Reserved'
  <2>1. /\ \A b \in Admitted : request'[b] = request[b]
        /\ \A b \in Open : request'[b] = request[b]
    BY <1>1, <1>2 DEF Admitted, Open
  <2> QED
    BY <1>1, <1>2, <2>1 DEF Accounts, Reserved, Liable
<1>6. OneWasted'
  <2>1. \A b \in Call : Wasted(b)' <=> Wasted(b)
    BY <1>1 DEF Wasted, IsChat
  <2>2. \A b \in Call : phase'[b] \in UnderWay => phase[b] \in UnderWay /\ (IsChat(b)' <=> IsChat(b))
    BY <1>1 DEF IsChat, UnderWay
  <2> QED
    BY <1>1, <2>1, <2>2 DEF Accounts, OneWasted
<1>7. Origins'
  <2>1. \A b \in Call : phase[b] = "done" => phase'[b] = "done" /\ request'[b] = request[b]
    BY <1>1
  <2>2. \A b \in Call : phase'[b] = "done" /\ IsChat(b)' => phase[b] = "done"
    BY <1>1
  <2> QED
    BY <1>1, <2>1, <2>2, OriginsStay
<1> QED
  BY <1>3, <1>4, <1>5, <1>6, <1>7 DEF Accounts

LEMMA ClearCacheAccounts ==
  ASSUME Controls, Accounts, Origins, ClearCache
  PROVE  Accounts' /\ Origins'
<1>1. /\ cache' = [e \in Provider \X Key |-> Nobody]
      /\ UNCHANGED <<strict, request, phase, ledger, costs, usage, answer, peak>>
  BY ClearCacheSteps
<1>2. Open' = Open /\ Admitted' = Admitted /\ Paid' = Paid
  BY <1>1 DEF Open, Admitted, Paid
<1>3. Accounts'
  BY <1>1, <1>2 DEF Accounts, LedgerCountsAnswers, Within, Reserved, Liable, OneWasted,
                    Wasted, IsChat
<1>4. Entries'
  BY <1>1 DEF Entries
<1>5. Returned'
  BY <1>1 DEF Origins, Returned, IsChat
<1> QED
  BY <1>3, <1>4, <1>5 DEF Origins

-----------------------------------------------------------------------------
(* Theorems *)

LEMMA InvariantParts == IInv <=> Controls /\ Accounts /\ Origins
BY DEF IInv, Controls, Accounts, Origins

LEMMA InitHolds == Init => IInv
<1> SUFFICES ASSUME Init PROVE IInv
  OBVIOUS
<1>1. (CHOOSE r \in Requests : TRUE) \in Request
  BY RequestAssumption
<1>2. request \in [Call -> Request]
  BY <1>1 DEF Init
<1>3. /\ strict \in BOOLEAN /\ turn = Nobody
      /\ phase = [c \in Call |-> "idle"]
      /\ route = [c \in Call |-> 1] /\ attempt = [c \in Call |-> 1]
      /\ yielded = [c \in Call |-> 0]
      /\ ledger = 0 /\ costs = 0 /\ cache = [e \in Provider \X Key |-> Nobody]
      /\ usage = [c \in Call |-> 0] /\ answer = [c \in Call |-> <<>>]
      /\ source = [c \in Call |-> <<>>] /\ peak = 0
  BY DEF Init
<1>4. \A c \in Call : route[c] \in 1 .. Len(request[c].route)
  <2> SUFFICES ASSUME NEW c \in Call PROVE 1 \in 1 .. Len(request[c].route)
    BY <1>3
  <2>1. request[c].route \in Seq(Provider) /\ request[c].route # <<>>
    BY <1>2, RouteAssumption DEF Request
  <2> QED
    BY <2>1
<1>5. Types
  BY <1>2, <1>3, <1>4, BoundAssumption DEF Types
<1>6. Nobody \notin Call
  BY DEF Nobody, Call
<1>7. Turns /\ Fresh /\ Sources
  BY <1>3, <1>6 DEF Turns, Fresh, Sources, UnderWay, Answered
<1>8. Entries /\ Returned
  BY <1>3 DEF Entries, Returned
<1>9. LedgerCountsAnswers
  <2>1. Paid \in [Call -> {0}]
    BY <1>3 DEF Paid
  <2> QED
    BY <1>3, <2>1, TotalOfNothing DEF LedgerCountsAnswers
<1>10. Within /\ Reserved /\ OneWasted
  BY <1>3 DEF Within, Reserved, OneWasted, Admitted, Wasted
<1> QED
  BY <1>5, <1>7, <1>8, <1>9, <1>10 DEF IInv

\* Every step keeps the invariant.
LEMMA Inductive ==
  ASSUME IInv, [Next]_vars
  PROVE  IInv'
<1> USE InvariantParts
<1>0. Controls /\ Accounts /\ Origins
  OBVIOUS
<1>1. SUFFICES Controls' /\ Accounts' /\ Origins'
  BY DEF IInv, Controls, Accounts, Origins
<1>2. ASSUME NEW c \in Call, Controls', Continues(c) PROVE Accounts' /\ Origins'
  BY <1>0, <1>2, ContinuesKeeps
<1>3. ASSUME NEW c \in Call, NEW how, NEW u \in 0 .. MaxUsage, Controls',
             EndsWith(c, how, u)
      PROVE  Accounts' /\ Origins'
  BY <1>0, <1>3, EndsAccounts, EndsOrigins
<1>4. 0 \in 0 .. MaxUsage
  BY BoundAssumption
<1>5. CASE ClearCache
  BY <1>0, <1>5, ClearCacheSteps, ClearCacheAccounts
<1>6. ASSUME NEW c \in Call, Lookup(c) PROVE Controls' /\ Accounts' /\ Origins'
  BY <1>0, <1>2, <1>3, <1>4, <1>6, LookupSteps
<1>7. ASSUME NEW c \in Call, Read(c) \/ Yields(c)
      PROVE  Controls' /\ Accounts' /\ Origins'
  BY <1>0, <1>2, <1>7, ReadSteps, YieldsSteps
<1>8. ASSUME NEW c \in Call, NEW u \in 0 .. MaxUsage, Answers(c, u) \/ StreamEnds(c, u)
      PROVE  Controls' /\ Accounts' /\ Origins'
  BY <1>0, <1>3, <1>8, AnswersSteps, StreamEndsSteps
<1>9. ASSUME NEW c \in Call, NEW f \in Failure, Fails(c, f)
      PROVE  Controls' /\ Accounts' /\ Origins'
  <2>1. /\ Controls'
        /\ \/ Continues(c)
           \/ \E how \in Ended \ ({"refused"} \cup Answered) : EndsWith(c, how, 0)
    BY <1>0, <1>9, FailsSteps
  <2> QED
    BY <1>2, <1>3, <1>4, <2>1
<1>10. ASSUME NEW c \in Call, Drop(c) PROVE Controls' /\ Accounts' /\ Origins'
  BY <1>0, <1>3, <1>4, <1>10, DropSteps
<1>11. ASSUME NEW c \in Call, NEW r \in Requests, Begin(c, r)
       PROVE  Controls' /\ Accounts' /\ Origins'
  BY <1>0, <1>11, BeginSteps, BeginsAccounts
<1>12. ASSUME NEW c \in Call, NEW r \in Requests, Refuse(c, r)
       PROVE  Controls' /\ Accounts' /\ Origins'
  BY <1>0, <1>12, RefuseSteps, RefuseAccounts
<1>13. CASE UNCHANGED vars
  <2>1. UNCHANGED <<strict, turn, request, phase, route, attempt, yielded, ledger, costs,
                    cache, usage, answer, source, peak>>
    BY <1>13 DEF vars, progressVars, moneyVars, historyVars
  <2>2. Controls'
    BY <1>0, <2>1 DEF Controls, Types, Turns, Fresh, Sources, IsChat
  <2>3. Origins'
    BY <1>0, <2>1 DEF Origins, Entries, Returned, IsChat
  <2>4. Open' = Open /\ Admitted' = Admitted /\ Paid' = Paid
    BY <2>1 DEF Open, Admitted, Paid
  <2>5. Accounts'
    BY <1>0, <2>1, <2>4 DEF Accounts, LedgerCountsAnswers, Within, Reserved, Liable,
                            OneWasted, Wasted, IsChat
  <2> QED
    BY <2>2, <2>3, <2>5
<1> QED
  BY <1>5, <1>6, <1>7, <1>8, <1>9, <1>10, <1>11, <1>12, <1>13 DEF Next, Runs

\* The inductive invariant: types, turns, origins, ledgers and what is reserved.
THEOREM IInvHolds == Spec => []IInv
<1>1. Init => IInv
  BY InitHolds
<1>2. IInv /\ [Next]_vars => IInv'
  BY Inductive
<1> QED
  BY <1>1, <1>2, PTL DEF Spec

\* The ledger and the costs count every answer once, a strict budget is overrun
\* by what the calls under way together may cost and no more, and one answer at
\* most is paid for and thrown away.
THEOREM AccountsTheorem == Spec => []AccountsAreKept
<1>1. IInv => AccountsAreKept
  <2> SUFFICES ASSUME IInv PROVE AccountsAreKept
    OBVIOUS
  <2>1. TypeOK
    BY DEF IInv, Types, TypeOK
  <2>2. LedgerCountsAnswers
    BY DEF IInv
  <2>3. OverrunIsBounded
    <3> DEFINE top == MaxUsage * peak
    <3>1. /\ Liable \in Nat /\ top \in Nat /\ MaxUsage \in Nat /\ peak \in Nat
          /\ ledger \in Nat /\ Budget \in Nat
      BY OpenFinite, Costs, BoundAssumption DEF IInv, Types, Liable
    <3>2. MaxUsage * (peak - 1) = top - MaxUsage
      BY <3>1
    <3> SUFFICES ASSUME strict, Admitted # {}
                 PROVE  /\ ledger <= Budget + top
                        /\ (\A c \in Admitted : request[c].reserve > 0) =>
                             ledger <= Budget + (top - MaxUsage)
      BY <3>2 DEF OverrunIsBounded, Admitted
    <3>3. ledger + Liable <= Budget + top
      BY DEF IInv, Within
    <3>4. ASSUME \A c \in Admitted : request[c].reserve > 0
          PROVE  ledger <= Budget + (top - MaxUsage)
      <4>1. \/ ledger + Liable <= Budget + top - MaxUsage
            \/ \E c \in Open : ledger + request[c].reserve + Liable <= Budget + top
        BY <3>4 DEF IInv, Reserved
      <4>2. CASE ledger + Liable <= Budget + top - MaxUsage
        <5> HIDE DEF top
        <5> QED
          BY <3>1, <4>2
      <4>3. ASSUME NEW c \in Open, ledger + request[c].reserve + Liable <= Budget + top
            PROVE  ledger <= Budget + (top - MaxUsage)
        <5>1. request[c].reserve \in Nat
          BY ProviderType DEF IInv, Open
        <5>2. Liable >= MaxUsage
          <6>1. Cardinality(Open) \in Nat /\ Cardinality(Open) # 0
            BY OpenFinite, FS_EmptySet
          <6>2. MaxUsage * 1 <= MaxUsage * Cardinality(Open)
            BY <6>1, CostsGrow
          <6> QED
            BY <3>1, <6>2 DEF Liable
        <5> HIDE DEF top
        <5> QED
          BY <3>1, <4>3, <5>1, <5>2
      <4> QED
        BY <4>1, <4>2, <4>3
    <3> HIDE DEF top
    <3> QED
      BY <3>1, <3>3, <3>4
  <2>4. OneAnswerWasted
    <3> DEFINE w == {c \in Call : phase[c] = "over_budget" /\ request[c].kind = "chat"}
    <3>1. \A c, d \in w : c = d
      BY DEF IInv, OneWasted, Wasted, IsChat
    <3>2. CASE w = {}
      BY <3>2, FS_EmptySet DEF OneAnswerWasted
    <3>3. CASE w # {}
      <4>1. PICK c : w = {c}
        BY <3>1, <3>3
      <4> QED
        BY <4>1, FS_Singleton DEF OneAnswerWasted
    <3> QED
      BY <3>2, <3>3
  <2> QED
    BY <2>1, <2>2, <2>3, <2>4 DEF AccountsAreKept
<1> QED
  BY <1>1, IInvHolds, PTL

\* What a chat returns was given by a call that was itself returned, to a
\* request with the same key, by the provider it is said to come from.
THEOREM OriginTheorem == Spec => []AnswersHaveOrigin
<1>1. IInv => AnswersHaveOrigin
  BY DEF IInv, Returned, IsChat, GivenBy, AnswersHaveOrigin
<1> QED
  BY <1>1, IInvHolds, PTL

\* All chunks a reader gets come from one attempt of one provider.
THEOREM SourceTheorem == Spec => OneSourcePerStream
<1> DEFINE A == \A c \in Call : source[c] # <<>> => source'[c] \in {source[c], <<>>}
<1>1. IInv /\ [Next]_vars => [A]_source
  <2> SUFFICES ASSUME IInv, [Next]_vars, source' # source PROVE A
    OBVIOUS
  <2>1. ASSUME NEW c \in Call, NEW how, End(c, how) PROVE A
    BY <2>1 DEF End, IInv, Types
  <2>2. ASSUME NEW c \in Call, Yields(c) PROVE A
    BY <2>2 DEF Yields, IInv, Types, Sources
  <2>3. ASSUME NEW c \in Call, Runs(c) \/ Drop(c) PROVE A
    <3>1. \/ Yields(c) \/ \E how : End(c, how)
      BY <2>3 DEF Runs, Lookup, Answers, StreamEnds, Fails, Drop
    <3> QED
      BY <2>1, <2>2, <3>1
  <2> QED
    BY <2>3 DEF Next, Read, Begin, Refuse, Called, ClearCache, vars, historyVars
<1> QED
  BY <1>1, IInvHolds, PTL DEF Spec, OneSourcePerStream
=============================================================================
