---------------------------- MODULE OneShotCall ----------------------------
(***************************************************************************)
(* What a caller of AgentProcess.request may rely on: it ends at most once *)
(* and for good, and it ends with an answer only when the target has given *)
(* one to this very request.                                               *)
(***************************************************************************)
VARIABLES state,    \* of the request
          replied   \* whether its target has sent an answer

vars == <<state, replied>>

Init == state = "new" /\ replied = FALSE

\* The request is on its way, or the route refused it.
Issue ==
  /\ state = "new" /\ state' \in {"waiting", "refused"}
  /\ UNCHANGED replied

\* The target need not know that the caller has given up.
Reply ==
  /\ state # "new" /\ state # "refused" /\ ~replied /\ replied' = TRUE
  /\ UNCHANGED state

Answer ==
  /\ state = "waiting" /\ replied /\ state' = "answered"
  /\ UNCHANGED replied

\* It timed out, or its caller was killed.
GiveUp ==
  /\ state = "waiting" /\ state' \in {"timeout", "abandoned"}
  /\ UNCHANGED replied

Next == Issue \/ Reply \/ Answer \/ GiveUp
Spec == Init /\ [][Next]_vars
=============================================================================
