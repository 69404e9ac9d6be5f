------------------------------ MODULE Monitors ------------------------------
(***************************************************************************)
(* What the monitors of the kernel make of recorded events: replay and     *)
(* timeline (replay.py, timeline.py), streams of the LLM runtime           *)
(* (llm_stream_monitor.py), agents (metrics.py, dependency_graph.py) and   *)
(* messages (ipc_inspector.py).  Each folds the events into rows; beside   *)
(* each fold stands what the row should say.                               *)
(***************************************************************************)
EXTENDS Integers, Sequences, FiniteSets, SequencesExt

(***************************************************************************)
(* Order.  Events have timestamps and arrive in any order.                 *)
(***************************************************************************)
\* records.sort(key=(timestamp, index))
Chronological(events) ==
  LET order == SetToSortSeq(DOMAIN events, LAMBDA i, j :
                 \/ events[i].time < events[j].time
                 \/ events[i].time = events[j].time /\ i < j)
  IN [k \in DOMAIN order |-> events[order[k]]]

\* Mutant: the limit is taken for the end.
PageEnd_Limit(start, limit) == limit
PageEnd(start, limit) == start + limit

\* replay_events: records[start:stop]
Replayed(events, offset, limit) ==
  LET all == Chronological(events) IN
  SubSeq(all, offset + 1, IF PageEnd(offset, limit) > Len(all) THEN Len(all)
                          ELSE PageEnd(offset, limit))

\* Pages of a replay, one after the other, show every event once, in time.
PagesAreTheReplay(events, limit) ==
  LET page[n \in 0 .. Len(events)] ==
        IF n = 0 THEN Replayed(events, 0, limit)
        ELSE page[n - 1] \o Replayed(events, n * limit, limit)
      shown == page[Len(events)]
  IN /\ Len(shown) = Len(events) /\ ToSet(shown) = ToSet(events)
     /\ \A i \in 1 .. Len(shown) - 1 : shown[i].time <= shown[i + 1].time

(***************************************************************************)
(* build_llm_stream_snapshot, for one provider and model: an event may     *)
(* carry usage, 0 for none.                                                *)
(***************************************************************************)
Requested == [status |-> "requested", chunks |-> 0, usage |-> 0, error |-> FALSE]

\* Mutant: a request leaves the counts of the last stream.
Restarted_Counting(row) == [row EXCEPT !.status = "requested"]
Restarted(row) == Requested

Usage(e, row) == IF e.usage # 0 THEN e.usage ELSE row.usage

StreamStep(row, e) ==
  CASE e.type = "requested" -> Restarted(row)
    [] e.type = "started" -> [row EXCEPT !.status = "streaming"]
    [] e.type = "chunk" -> [row EXCEPT !.status = "streaming", !.chunks = @ + 1,
                                       !.usage = Usage(e, row)]
    [] e.type = "completed" -> [row EXCEPT !.status = "completed",
                                           !.usage = Usage(e, row), !.error = FALSE]
    [] e.type = "failed" -> [row EXCEPT !.status = "failed", !.error = TRUE]
    [] OTHER -> row

StreamRow(events) == FoldLeft(StreamStep, Requested, Chronological(events))

StreamEvents == {"requested", "started", "chunk", "completed", "failed"}

\* When the timestamps differ, the row says what the last stream did, whatever
\* the order in which its events arrived: the chunks and the last usage since
\* the last request, and the last event.
StreamRowIsTrue(events) ==
  LET At(ts) == {i \in DOMAIN events : events[i].type \in ts}
      Last1(is) == CHOOSE i \in is : \A j \in is : events[j].time <= events[i].time
      since == IF At({"requested"}) = {} THEN DOMAIN events
               ELSE {i \in DOMAIN events : events[i].time > events[Last1(At({"requested"}))].time}
      row == StreamRow(events)
      using == {i \in since \cap At({"chunk", "completed"}) : events[i].usage # 0}
      said == since \cap At(StreamEvents)
  IN (\A i, j \in DOMAIN events : i # j => events[i].time # events[j].time) =>
       /\ row.chunks = Cardinality(since \cap At({"chunk"}))
       /\ row.usage = IF using = {} THEN 0 ELSE events[Last1(using)].usage
       /\ row.status = IF said = {} THEN "requested"
                       ELSE CASE events[Last1(said)].type \in {"started", "chunk"} -> "streaming"
                              [] OTHER -> events[Last1(said)].type

(***************************************************************************)
(* build_agent_metrics_snapshot and build_dependency_graph, for one        *)
(* external agent, whose row in the process table may be missing ("none"). *)
(***************************************************************************)
\* _process_status of both modules; the graph shows unknown states as such.
RowStatus(status) ==
  CASE status = "crashed" -> "failed" [] status = "exited" -> "complete"
    [] status = "none" -> "unknown" [] OTHER -> status

Became == [loaded |-> "loaded", started |-> "running", completed |-> "complete",
           failed |-> "failed"]

Ending == {"completed", "failed"}

NoAgent == [status |-> "none", started |-> -1, ended |-> -1]
MetricStep(agent, e) ==
  IF e.type \notin DOMAIN Became THEN agent
  ELSE [agent EXCEPT !.status = Became[e.type],
          !.started = IF e.type = "started" THEN e.time ELSE @,
          !.ended = IF e.type \in Ending THEN e.time ELSE @]

\* The runtime is -1 when it is not known from events.
Metric(row, events) ==
  LET agent == FoldLeft(MetricStep, NoAgent, Chronological(events)) IN
  [status |-> IF agent.status = "none" THEN RowStatus(row) ELSE agent.status,
   runtime |-> IF agent.started = -1 \/ agent.ended = -1 THEN -1
               ELSE IF agent.ended < agent.started THEN 0
               ELSE agent.ended - agent.started]

GraphStep(status, e) == IF e.type \in DOMAIN Became THEN Became[e.type] ELSE status
GraphStatus(row, events) == FoldLeft(GraphStep, RowStatus(row), Chronological(events))

\* The two monitors agree about every agent; a finished one has run from its
\* last start to its end.
MonitorsAgree(row, events) ==
  LET m == Metric(row, events)
      starts == {i \in DOMAIN events : events[i].type = "started"}
      ends == {i \in DOMAIN events : events[i].type \in {"completed", "failed"}}
      Latest(is) == CHOOSE i \in is : \A j \in is : events[j].time <= events[i].time
  IN /\ m.status = GraphStatus(row, events)
     /\ m.status \in {"complete", "failed"} /\ starts # {} /\ ends # {}
          => m.runtime = events[Latest(ends)].time - events[Latest(starts)].time

(***************************************************************************)
(* build_ipc_snapshot, for one sender and receiver.  A record may have no  *)
(* timestamp (0), and a count that is not positive is left out.            *)
(***************************************************************************)
NoConnection == [count |-> 0, latest |-> 0, time |-> 0]

\* _is_later: among records without one the later in the list counts.
Later(e, connection) ==
  \/ e.time # 0 /\ (connection.time = 0 \/ e.time >= connection.time)
  \/ e.time = 0 /\ connection.time = 0

ConnectionStep(connection, e) ==
  IF e.count <= 0 THEN connection
  ELSE [count |-> connection.count + e.count,
        latest |-> IF Later(e, connection) THEN e.id ELSE connection.latest,
        time |-> IF Later(e, connection) THEN e.time ELSE connection.time]

Connection(records) == FoldLeft(ConnectionStep, NoConnection, records)

\* A connection counts the messages of all records, and its latest record is
\* one that no other is later than.
ConnectionIsTrue(records) ==
  LET counted == {i \in DOMAIN records : records[i].count > 0}
      c == Connection(records)
  IN /\ c.count = FoldSet(LAMBDA i, n : records[i].count + n, 0, counted)
     /\ counted # {} =>
          \E i \in counted :
            /\ c.latest = records[i].id
            /\ \A j \in counted :
                 \/ records[j].time < records[i].time
                 \/ records[j].time = records[i].time /\ j <= i
=============================================================================
