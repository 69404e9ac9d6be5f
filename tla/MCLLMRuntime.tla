---------------------------- MODULE MCLLMRuntime ----------------------------
EXTENDS LLMRuntime

CONSTANTS p, q, j, k

\* The selected provider with its fallback, and the fallback on its own.
MCRoutes == {<<p, q>>, <<q>>}

Chat(key, path, max) ==
  [kind |-> "chat", key |-> key, route |-> path, reserve |-> max,
   cached |-> TRUE]
Stream(path, max) ==
  [kind |-> "stream", key |-> k, route |-> path, reserve |-> max,
   cached |-> FALSE]

MCRequests ==
  {Chat(k, <<p, q>>, 0), Chat(j, <<q>>, 0),
   [Chat(k, <<q>>, 1) EXCEPT !.cached = FALSE],
   Stream(<<p, q>>, 0), Stream(<<q>>, 1)}
=============================================================================
