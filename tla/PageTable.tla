------------------------------ MODULE PageTable ------------------------------
(***************************************************************************)
(* ContextMemoryManager (src/memory.rs): the page table of one agent.      *)
(* Every method holds the lock of the tables throughout, so each is a      *)
(* function of the table and of what it hands out.                         *)
(***************************************************************************)
EXTENDS Integers, Sequences, FiniteSetsExt, SequencesExt

CONSTANT DefaultTokens   \* default_max_active_tokens

ASSUME DefaultTokensAssumption == DefaultTokens \in Nat \ {0}

NoTable == 0   \* the max of an agent that has no table
Stub == 0      \* the content of a page that is paged out

\* AgentPageTable::new
NewTable(max) == [max |-> max, active |-> 0, pages |-> <<>>, pending |-> <<>>]

\* What is handed out of a page.
Copy(i, page) == [page |-> i, content |-> page.content]

\* A turn of execute_page_out.  Whether the target is reached does not change
\* any more once it is, so passing over the other pages is breaking off.
PageOut(t, i) ==
  LET page == t.pages[i] IN
  IF page.out \/ t.active <= (t.max * 7) \div 10 THEN t
  ELSE [t EXCEPT !.active = IF @ > page.tokens THEN @ - page.tokens ELSE 0,
                 !.pages[i].out = TRUE, !.pages[i].content = Stub,
                 !.pending = Append(@, Copy(i, page))]

Limited(t) ==
  IF t.active > t.max THEN FoldLeft(PageOut, t, [i \in DOMAIN t.pages |-> i]) ELSE t

AppendFrame(t, z, content) ==
  LET table == IF t.max = NoTable THEN NewTable(DefaultTokens) ELSE t
  IN Limited([table EXCEPT !.active = @ + z,
       !.pages = Append(@, [tokens |-> z, content |-> content, out |-> FALSE])])

\* Mutant: restoring a page that is active counts it twice.
Restored_Again(page) == page.tokens
\* The tokens that a restored page adds.
Restored(page) == IF page.out THEN page.tokens ELSE 0

\* The eviction may take the page just restored, and every page restored in
\* turn; the caller is not told.
PageInFrame(t, i, content) ==
  IF t.max = NoTable \/ i \notin DOMAIN t.pages THEN t
  ELSE Limited([t EXCEPT !.active = @ + Restored(t.pages[i]),
                         !.pages[i].content = content, !.pages[i].out = FALSE])

\* A state: the table; what take_evicted_pages has handed out of it; and, by
\* page, what was last written.
NewState(max) == [table |-> NewTable(max), taken |-> <<>>, written |-> <<>>]

\* The n-th call.  Registering replaces the table, with the copies nobody took.
Operation(s, call, n) ==
  CASE call.op = "register" -> NewState(call.tokens)
    [] call.op = "unregister" -> NewState(NoTable)
    [] call.op = "append" -> [s EXCEPT !.table = AppendFrame(@, call.tokens, n),
                                       !.written = Append(@, n)]
    [] call.op = "page_in" -> [s EXCEPT !.table = PageInFrame(@, call.page, n),
                 !.written = [i \in DOMAIN @ |-> IF i = call.page THEN n ELSE @[i]]]
    [] call.op = "take" -> [s EXCEPT !.table.pending = <<>>,
                                     !.taken = @ \o s.table.pending]

Managed(calls) ==
  FoldLeft(LAMBDA s, n : Operation(s, calls[n], n), NewState(NoTable),
           [n \in DOMAIN calls |-> n])

\* The tokens counted are those of the active pages, within the limit.
TokensAreCounted(calls) ==
  LET t == Managed(calls).table
      active == {i \in DOMAIN t.pages : ~t.pages[i].out}
  IN /\ t.active = FoldSet(LAMBDA i, n : t.pages[i].tokens + n, 0, active)
     /\ t.active <= t.max

\* What was last written to a page is in the page, or in the copy of it that
\* was handed out, or is to be, last.
PagesAreKept(calls) ==
  LET s == Managed(calls)
      copies == s.taken \o s.table.pending
      Last1(i) == CHOOSE k \in DOMAIN copies :
                    /\ copies[k].page = i
                    /\ \A j \in DOMAIN copies : copies[j].page = i => j <= k
  IN \A i \in DOMAIN s.table.pages :
       LET page == s.table.pages[i] IN
       s.written[i] = IF page.out THEN copies[Last1(i)].content ELSE page.content
=============================================================================
