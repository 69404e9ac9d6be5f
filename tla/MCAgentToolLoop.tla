-------------------------- MODULE MCAgentToolLoop --------------------------
EXTENDS AgentToolLoop

CONSTANTS safe, unsafe, late

MCTool == {safe, unsafe, late}

\* Two groups with the default policy; one group under each policy and with
\* each way to offer tools; and a run that wants approval.
Default ==
  [maxSteps |-> 3, mode |-> "sequential", stopOnError |-> TRUE,
   approval |-> FALSE, explicit |-> TRUE, tools |-> {safe, unsafe},
   allowed |-> {}, denied |-> {}, defaultAllow |-> TRUE]

MCConfigs ==
  {[Default EXCEPT !.mode = m, !.stopOnError = s] :
     m \in {"sequential", "parallel"}, s \in BOOLEAN}
  \cup
  {[Default EXCEPT !.maxSteps = 2, !.mode = m, !.stopOnError = s,
                   !.explicit = e, !.allowed = a, !.denied = d,
                   !.defaultAllow = (a = {})] :
     m \in {"sequential", "parallel"}, s \in BOOLEAN, e \in BOOLEAN,
     a \in {{}, {safe, late}}, d \in {{}, {unsafe}}}
  \cup {[Default EXCEPT !.approval = TRUE]}

MCRegistries ==
  {[t \in Tool |-> IF t = safe THEN "safe" ELSE IF t = unsafe THEN "unsafe"
                   ELSE r] : r \in {"missing", "safe"}}
=============================================================================
