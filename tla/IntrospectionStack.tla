------------------------- MODULE IntrospectionStack -------------------------
(***************************************************************************)
(* What a coroutine pool starts beside its sessions and must take down     *)
(* again: the task factory, the sampling thread, the sampler tasks and the *)
(* socket of IntrospectionRuntime, and the memory watermark monitor.       *)
(*                                                                         *)
(* The workers are processes of one user on one host, so they share the    *)
(* default socket path.  A worker may be killed and leave its socket file. *)
(***************************************************************************)
EXTENDS Integers, FiniteSets, Sequences

CONSTANTS Workers,
          Watched,        \* the worker whose memory is followed
          MaxReadings     \* bound on the readings of its memory monitor

NoWorker == "nobody"

ASSUME StackAssumption == Watched \in Workers /\ NoWorker \notin Workers /\ MaxReadings \in Nat

VARIABLES
  start, close,   \* how far pool.start() and pool.aclose() are
  started,        \* CoroutinePool._started
  running,        \* IntrospectionRuntime._running is set
  holds,          \* what the worker's stack has installed
  path,           \* the worker that bound the socket file, or none
  early,          \* history: the workers closed before their start() returned
  monitor,        \* _memory_monitor_task
  warned,         \* _memory_warned
  readings, warnings  \* history: what the monitor read, and the warnings it logged

stackVars == <<start, close, started, running, holds, path, early>>
monitorVars == <<monitor, warned, readings, warnings>>
vars == <<stackVars, monitorVars>>

Parts == {"factory", "thread", "samplers", "server"}
Bands == {"ok", "warn", "limit", "unreadable"}

StackInit ==
  /\ start = [w \in Workers |-> "no"] /\ close = [w \in Workers |-> "no"]
  /\ started = [w \in Workers |-> FALSE] /\ running = [w \in Workers |-> FALSE]
  /\ holds = [w \in Workers |-> {}]
  /\ path = NoWorker /\ early = {}
  /\ monitor = "off" /\ warned = FALSE /\ readings = <<>> /\ warnings = 0

Turn(f, w, to) == f' = [f EXCEPT ![w] = to]

----------------------------------------------------------------------------
(* pool.start()                                                            *)

StartPool(w) ==
  /\ start[w] = "no" /\ ~started[w]
  /\ Turn(start, w, "setup")
  /\ UNCHANGED <<close, started, running, holds, path, early, monitorVars>>

SetupTimesOut(w) ==
  /\ start[w] = "setup"
  /\ Turn(start, w, "failed")
  /\ UNCHANGED <<close, started, running, holds, path, early, monitorVars>>

\* The stack is installed up to the await of the server; the old socket file is unlinked.
SetupReturns(w) ==
  /\ start[w] = "setup"
  /\ Turn(started, w, TRUE)
  /\ monitor' = IF w = Watched THEN "on" ELSE monitor
  /\ \/ Turn(start, w, "binding") /\ Turn(holds, w, Parts) /\ path' = w
     \/ Turn(start, w, "failed") /\ Turn(holds, w, Parts \ {"server"}) /\ path' = NoWorker
  /\ UNCHANGED <<close, running, early, warned, readings, warnings>>

StartReturns(w) ==
  /\ start[w] = "binding"
  /\ Turn(start, w, "done")
  /\ Turn(running, w, TRUE)
  /\ UNCHANGED <<close, started, holds, path, early, monitorVars>>

----------------------------------------------------------------------------
(* pool.aclose(), the part before the executors.                           *)

\* Mutant: the sampler tasks are cancelled and the thread is left to itself.
SamplersEndOnly(w) ==
  /\ close[w] = "samplers"
  /\ Turn(holds, w, holds[w] \ {"samplers", "server", "factory"})
  /\ Turn(close, w, "server")
  /\ UNCHANGED <<start, started, running, path, early, monitorVars>>

ClosePool(w) ==
  /\ started[w]
  /\ Turn(started, w, FALSE)
  /\ monitor' = IF w = Watched THEN "off" ELSE monitor
  /\ early' = IF start[w] = "done" THEN early ELSE early \cup {w}
  /\ Turn(running, w, FALSE)
  /\ Turn(close, w, IF running[w] THEN "samplers" ELSE "done")
  /\ UNCHANGED <<start, holds, path, warned, readings, warnings>>

\* The tasks have ended: the thread is joined, the factory restored, the server closed.
SamplersEnd(w) ==
  /\ close[w] = "samplers"
  /\ Turn(holds, w, {})
  /\ Turn(close, w, "server")
  /\ UNCHANGED <<start, started, running, path, early, monitorVars>>

\* wait_closed() is over; whatever is at the path is unlinked.
ServerCloses(w) ==
  /\ close[w] = "server"
  /\ path' = NoWorker
  /\ Turn(close, w, "done")
  /\ UNCHANGED <<start, started, running, holds, early, monitorVars>>

\* The process is killed: nothing of it is left but the file.
Killed(w) ==
  /\ start[w] \in {"setup", "binding", "done"} /\ close[w] # "done"
  /\ Turn(start, w, "killed") /\ Turn(close, w, "killed")
  /\ Turn(started, w, FALSE) /\ Turn(running, w, FALSE) /\ Turn(holds, w, {})
  /\ monitor' = IF w = Watched THEN "off" ELSE monitor
  /\ UNCHANGED <<path, early, warned, readings, warnings>>

----------------------------------------------------------------------------
(* The memory watermark.                                                   *)

\* Mutant: every reading that is not in the warn band arms the warning again.
CheckMemoryRearms(band) ==
  /\ monitor = "on" /\ Len(readings) < MaxReadings
  /\ readings' = Append(readings, band)
  /\ monitor' = IF band = "limit" THEN "ended" ELSE "on"
  /\ warned' = (band = "warn")
  /\ warnings' = IF band = "warn" /\ ~warned THEN warnings + 1 ELSE warnings
  /\ UNCHANGED stackVars

\* _check_memory_once: the limit ends the monitor and schedules a close.
CheckMemory(band) ==
  /\ monitor = "on" /\ Len(readings) < MaxReadings
  /\ readings' = Append(readings, band)
  /\ monitor' = IF band = "limit" THEN "ended" ELSE "on"
  /\ warned' = CASE band = "warn" -> TRUE [] band = "ok" -> FALSE [] OTHER -> warned
  /\ warnings' = IF band = "warn" /\ ~warned THEN warnings + 1 ELSE warnings
  /\ UNCHANGED stackVars

----------------------------------------------------------------------------
Up(w) == "server" \in holds[w]
Reaches(w) == path = w /\ Up(w)

LoopOf(w) ==
  \/ StartPool(w) \/ SetupTimesOut(w) \/ SetupReturns(w) \/ StartReturns(w)
  \/ ClosePool(w) \/ SamplersEnd(w) \/ ServerCloses(w)

StackNext ==
  \/ \E band \in Bands : CheckMemory(band)
  \/ \E w \in Workers : LoopOf(w) \/ Killed(w)

StackSpec == StackInit /\ [][StackNext]_vars

----------------------------------------------------------------------------
(* Properties.                                                             *)

(* A pool that was closed after its start() had returned leaves nothing of *)
(* the stack behind: no thread, no task factory, no sampler, no socket.    *)
ClosedStackIsGone ==
  \A w \in Workers \ early : close[w] = "done" => holds[w] = {} /\ path # w

(* The warning comes once per crossing: one for every reading in the warn  *)
(* band that no warn reading precedes since the last reading below it,     *)
(* whatever unreadable or limit readings come between.                     *)
WarnsOncePerCrossing ==
  LET Since(i) == {j \in 1 .. i - 1 : \A k \in j .. i - 1 : readings[k] # "ok"}
      Crossing(i) == readings[i] = "warn" /\ \A j \in Since(i) : readings[j] # "warn"
  IN  warnings = Cardinality({i \in DOMAIN readings : Crossing(i)})

----------------------------------------------------------------------------
(* What the code does not do.                                              *)

(* aclose(): "Stop the samplers, restore the task factory, and remove the  *)
(* socket; idempotent" - also when start() has not returned yet.           *)
ClosedEarlyIsGone ==
  \A w \in Workers : close[w] = "done" /\ start[w] \in {"done", "failed"} => holds[w] = {}

(* "openrtc top" connects to a running worker: a worker whose stack is up  *)
(* is found at the path, unless a worker that is up too has taken it over. *)
RunningWorkerIsFound ==
  (\E w \in Workers : running[w]) => \E w \in Workers : Reaches(w)
=============================================================================
