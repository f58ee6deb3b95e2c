--------------------------- MODULE MetricsStream ---------------------------
(***************************************************************************)
(* The metrics stream of a worker: the sessions record in                  *)
(* RuntimeMetricsStore, the reporter thread drains the events into the     *)
(* JSONL sink, and the main thread, once pool.run() is over, stops the     *)
(* reporter, emits a last time and closes the sink.                        *)
(*                                                                         *)
(* A line of the file is a record of its sequence number, kind and count:  *)
(* of an event the count is its place among all events recorded, of an     *)
(* overflow row the number of events refused, and a snapshot carries the   *)
(* two totals of the store.                                                *)
(***************************************************************************)
EXTENDS Integers, Sequences, FiniteSets

CONSTANTS Sessions,    \* the sessions of one worker
          Capacity,    \* _STREAM_EVENTS_MAXLEN
          HasFile,     \* a --metrics-json-file or a dashboard is written too
          MaxTicks,    \* bound on the cycles of the reporter thread
          MaxFaults    \* bound on the writes that fail

ASSUME MetricsAssumption ==
  /\ Capacity \in Nat \ {0} /\ HasFile \in BOOLEAN
  /\ MaxTicks \in Nat /\ MaxFaults \in Nat

VARIABLES
  session,    \* what each session has recorded last
  totals,     \* total_sessions_started and total_session_failures
  gauge,      \* the sum of sessions_by_agent
  buffer,     \* _stream_events
  dropped,    \* _metrics_stream_overflow_since_drain
  recorded,   \* number of events recorded, kept or not
  pc,         \* where the reporter thread and the main thread are
  hands,      \* the lines each of them still has to write
  writer,     \* who holds the lock of the sink
  seq, open, file,   \* the sink
  ticks, faults, late  \* late: stop() gave up waiting for the thread

store == <<totals, gauge, buffer, dropped, recorded>>
sink == <<writer, seq, open, file>>
vars == <<session, store, pc, hands, sink, ticks, faults, late>>

Threads == {"reporter", "main"}
Kinds == {"session_started", "session_failed", "session_finished"}
Counted == {"session_started", "session_failed"}

MetricsInit ==
  /\ session = [s \in Sessions |-> "new"]
  /\ totals = [kind \in Counted |-> 0]
  /\ gauge = 0 /\ buffer = <<>> /\ dropped = 0 /\ recorded = 0
  /\ pc = [t \in Threads |-> IF t = "main" THEN "run" ELSE "wait"]
  /\ hands = [t \in Threads |-> <<>>]
  /\ writer = "nobody" /\ seq = 0 /\ open = TRUE /\ file = <<>>
  /\ ticks = 0 /\ faults = 0 /\ late = FALSE

----------------------------------------------------------------------------
(* The sessions. Every record_* takes the lock of the store once.          *)

\* Mutant: a full buffer refuses events without counting them.
AppendEventSilently(kind) ==
  /\ recorded' = recorded + 1
  /\ buffer' = IF Len(buffer) >= Capacity THEN buffer ELSE Append(buffer, [kind |-> kind, at |-> recorded + 1])
  /\ UNCHANGED dropped

\* Mutant: a full buffer evicts its oldest event, as deque(maxlen=...) does.
AppendEventEvicts(kind) ==
  /\ recorded' = recorded + 1
  /\ buffer' = Append(IF Len(buffer) >= Capacity THEN Tail(buffer) ELSE buffer, [kind |-> kind, at |-> recorded + 1])
  /\ dropped' = IF Len(buffer) >= Capacity THEN dropped + 1 ELSE dropped

\* The buffer refuses the newest event when it is full.
AppendEvent(kind) ==
  /\ recorded' = recorded + 1
  /\ IF Len(buffer) >= Capacity
     THEN dropped' = dropped + 1 /\ UNCHANGED buffer
     ELSE buffer' = Append(buffer, [kind |-> kind, at |-> recorded + 1]) /\ UNCHANGED dropped

Record(s, from, kind) ==
  /\ pc["main"] = "run"
  /\ session[s] \in from
  /\ session' = [session EXCEPT ![s] = kind]
  /\ AppendEvent(kind)
  /\ UNCHANGED <<pc, hands, sink, ticks, faults, late>>

RecordStarted(s) ==
  /\ Record(s, {"new"}, "session_started")
  /\ totals' = [totals EXCEPT !["session_started"] = @ + 1]
  /\ gauge' = gauge + 1

RecordFailure(s) ==
  /\ Record(s, {"session_started"}, "session_failed")
  /\ totals' = [totals EXCEPT !["session_failed"] = @ + 1]
  /\ UNCHANGED gauge

RecordFinished(s) ==
  /\ Record(s, {"session_started", "session_failed"}, "session_finished")
  /\ gauge' = gauge - 1
  /\ UNCHANGED totals

----------------------------------------------------------------------------
(* One emission, made by the reporter thread in a cycle and by the main    *)
(* thread in stop(): the JSON file, the snapshot, then the drained events. *)

Goto(t, where) == pc' = [pc EXCEPT ![t] = where]
Rest(t) == Goto(t, IF t = "main" THEN "close" ELSE "wait")

\* An exception ends the thread, or leaves stop() without closing the sink.
Raise(t) == Goto(t, IF t = "main" THEN "raised" ELSE "died")

WriteJson(t) ==
  /\ pc[t] \in {"json", "json only"}
  /\ IF pc[t] = "json" THEN Goto(t, "count") ELSE Rest(t)
  /\ UNCHANGED <<session, store, hands, sink, ticks, faults, late>>

WriteJsonFails(t) ==
  /\ pc[t] \in {"json", "json only"} /\ HasFile
  /\ faults < MaxFaults
  /\ faults' = faults + 1
  /\ Raise(t)
  /\ UNCHANGED <<session, store, hands, sink, ticks, late>>

\* runtime_snapshot() copies the counters under the lock of the store.
TakeSnapshot(t) ==
  /\ pc[t] = "count"
  /\ hands' = [hands EXCEPT ![t] = <<[kind |-> "snapshot", at |-> totals]>>]
  /\ Goto(t, "snapshot")
  /\ UNCHANGED <<session, store, sink, ticks, faults, late>>

Overflow == IF dropped = 0 THEN <<>> ELSE <<[kind |-> "metrics_stream_overflow", at |-> dropped]>>

\* Mutant: the overflow count is cleared and its row forgotten.
DrainForgets(t) ==
  /\ pc[t] = "drain"
  /\ hands' = [hands EXCEPT ![t] = buffer]
  /\ buffer' = <<>> /\ dropped' = 0
  /\ IF buffer = <<>> THEN Rest(t) ELSE Goto(t, "rows")
  /\ UNCHANGED <<session, totals, gauge, recorded, sink, ticks, faults, late>>

Drain(t) ==
  /\ pc[t] = "drain"
  /\ hands' = [hands EXCEPT ![t] = buffer \o Overflow]
  /\ buffer' = <<>> /\ dropped' = 0
  /\ IF buffer \o Overflow = <<>> THEN Rest(t) ELSE Goto(t, "rows")
  /\ UNCHANGED <<session, totals, gauge, recorded, sink, ticks, faults, late>>

Acquire(t) ==
  /\ pc[t] \in {"snapshot", "rows"}
  /\ writer = "nobody"
  /\ IF open
     THEN writer' = t /\ seq' = seq + 1 /\ UNCHANGED pc
     ELSE Raise(t) /\ UNCHANGED <<writer, seq>>
  /\ UNCHANGED <<session, store, hands, open, file, ticks, faults, late>>

Written(t) == Append(file, [seq |-> seq, kind |-> Head(hands[t]).kind, at |-> Head(hands[t]).at])

WriteReturns(t) ==
  /\ writer = t
  /\ writer' = "nobody"
  /\ file' = Written(t)
  /\ hands' = [hands EXCEPT ![t] = Tail(@)]
  /\ \/ pc[t] = "snapshot" /\ Goto(t, "drain")
     \/ pc[t] = "rows" /\ IF Len(hands[t]) = 1 THEN Rest(t) ELSE UNCHANGED pc
  /\ UNCHANGED <<session, store, seq, open, ticks, faults, late>>

\* The line of a failed flush stays in the buffer of the file, or is lost.
WriteFails(t) ==
  /\ writer = t
  /\ faults < MaxFaults
  /\ faults' = faults + 1
  /\ writer' = "nobody"
  /\ \/ UNCHANGED <<file, hands>>
     \/ file' = Written(t) /\ hands' = [hands EXCEPT ![t] = Tail(@)]
  /\ Raise(t)
  /\ UNCHANGED <<session, store, seq, open, ticks, late>>

----------------------------------------------------------------------------
(* The reporter thread between two cycles, and stop().                     *)

Stopping == pc["main"] # "run"

Tick ==
  /\ pc["reporter"] = "wait" /\ ~Stopping
  /\ ticks < MaxTicks
  /\ ticks' = ticks + 1
  /\ Goto("reporter", "count") \/ (HasFile /\ \E due \in {"json", "json only"} : Goto("reporter", due))
  /\ UNCHANGED <<session, store, hands, sink, faults, late>>

ThreadEnds ==
  /\ pc["reporter"] = "wait" /\ Stopping
  /\ Goto("reporter", "ended")
  /\ UNCHANGED <<session, store, hands, sink, ticks, faults, late>>

RunOver ==
  /\ pc["main"] = "run"
  /\ Goto("main", "join")
  /\ UNCHANGED <<session, store, hands, sink, ticks, faults, late>>

Joined ==
  /\ pc["main"] = "join" /\ pc["reporter"] \in {"ended", "died"}
  /\ Goto("main", "json")
  /\ UNCHANGED <<session, store, hands, sink, ticks, faults, late>>

\* Mutant: join() without a timeout.
JoinForever ==
  /\ pc["main"] = "join" /\ pc["reporter"] \in {"ended", "died"}
  /\ Goto("main", "json")
  /\ UNCHANGED <<session, store, hands, sink, ticks, faults, late>>

JoinTimesOut ==
  /\ pc["main"] = "join" /\ pc["reporter"] \notin {"ended", "died"}
  /\ late' = TRUE
  /\ Goto("main", "json")
  /\ UNCHANGED <<session, store, hands, sink, ticks, faults>>

CloseSink ==
  /\ pc["main"] = "close" /\ writer = "nobody"
  /\ open' = FALSE
  /\ Goto("main", "closed")
  /\ UNCHANGED <<session, store, hands, writer, seq, file, ticks, faults, late>>

Emit(t) ==
  \/ WriteJson(t) \/ WriteJsonFails(t) \/ TakeSnapshot(t) \/ Drain(t)
  \/ Acquire(t) \/ WriteReturns(t) \/ WriteFails(t)

MetricsNext ==
  \/ \E s \in Sessions : RecordStarted(s) \/ RecordFailure(s) \/ RecordFinished(s)
  \/ \E t \in Threads : Emit(t)
  \/ Tick \/ ThreadEnds \/ RunOver \/ Joined \/ JoinTimesOut \/ CloseSink
  \/ pc["main"] \in {"closed", "raised"} /\ UNCHANGED vars

MetricsSpec == MetricsInit /\ [][MetricsNext]_vars

\* stop() runs on, and a write to the file returns or fails. Nothing is
\* assumed of the reporter thread outside the lock of the sink.
MetricsFairness ==
  /\ WF_vars(Emit("main"))
  /\ WF_vars(Joined \/ JoinTimesOut \/ CloseSink)
  /\ WF_vars(WriteReturns("reporter") \/ WriteFails("reporter"))

MetricsFairSpec == MetricsSpec /\ MetricsFairness

----------------------------------------------------------------------------
(* Properties.                                                             *)

IsEvent(line) == line.kind \in Kinds
Missing(line) == IF line.kind = "metrics_stream_overflow" THEN line.at ELSE 0
Accounts(line) == IF IsEvent(line) THEN 1 ELSE Missing(line)
Plain(lines) == [i \in DOMAIN lines |-> [kind |-> lines[i].kind, at |-> lines[i].at]]

\* The sum of a weight over the first n of the lines.
Upto(lines, n, Weight(_)) == Cardinality(UNION {{i} \X (1 .. Weight(lines[i])) : i \in 1 .. n})

\* Everything recorded, in the order in which a reader would meet it.
Pipeline == Plain(file) \o hands["reporter"] \o hands["main"] \o buffer \o Overflow

(* Whatever is recorded is in one place, once: in the file, in the hands   *)
(* of a thread, in the buffer, or counted as refused. Late threads, failed *)
(* writes and threads that died take nothing twice and drop nothing        *)
(* uncounted but what was in their hands. The numbers of the lines rise.   *)
EventsAccounted ==
  LET all == Pipeline
  IN  /\ Upto(all, Len(all), Accounts) = recorded
      /\ \A i, j \in DOMAIN all :
           IsEvent(all[i]) /\ IsEvent(all[j]) /\ all[i].at = all[j].at => i = j
      /\ \A i, j \in DOMAIN file : i < j => file[i].seq < file[j].seq
      /\ gauge = Cardinality({s \in Sessions : session[s] \in {"session_started", "session_failed"}})

(* As long as no write failed and stop() did not give up on the thread,    *)
(* the lines tell the events in the order they happened, with an overflow  *)
(* row exactly where the events it counts are missing: an event is the     *)
(* n-th recorded if the lines up to it account for n.  No line number is   *)
(* skipped, and a sink closed by stop() lacks nothing.                     *)
StreamIsWhole ==
  LET all == Pipeline
  IN  ~late /\ faults = 0 =>
        /\ \A i \in DOMAIN all : IsEvent(all[i]) => all[i].at = Upto(all, i, Accounts)
        /\ \A i \in DOMAIN file : file[i].seq = i
        /\ pc["main"] = "closed" => Upto(file, Len(file), Accounts) = recorded

(* A snapshot and the event lines around it agree: it counts all that the  *)
(* lines before it tell, and nothing that the lines up to the next         *)
(* snapshot neither tell nor count as missing.                             *)
SnapshotsReconcile ==
  LET Told(kind, n) == Upto(file, n, LAMBDA line : IF line.kind = kind THEN 1 ELSE 0)
      Covered(kind, n) == Upto(file, n, LAMBDA line : IF line.kind = kind THEN 1 ELSE Missing(line))
      Snapshots == {i \in DOMAIN file : file[i].kind = "snapshot"}
  IN  ~late /\ faults = 0 =>
        \A kind \in Counted :
          /\ \A i \in Snapshots : Told(kind, i) <= file[i].at[kind]
          /\ \A i, j \in Snapshots : i < j => file[i].at[kind] <= Covered(kind, j)

(* stop() returns or raises, whatever the reporter thread is doing: the    *)
(* wait for it is bounded and the lock of the sink is held for one write.  *)
StopReturns == pc["main"] = "join" ~> pc["main"] \in {"closed", "raised"}

----------------------------------------------------------------------------
(* What holds only while the thread ends in time.                          *)

(* jsonl_sink: "Append-only JSONL writer". Read as the history of the      *)
(* worker, a closed file without failed writes lacks nothing.              *)
ClosedFileIsWhole == pc["main"] = "closed" /\ faults = 0 => Upto(file, Len(file), Accounts) = recorded
=============================================================================
