-------------------------- MODULE SessionSampling --------------------------
(***************************************************************************)
(* The signals behind a row of "openrtc top".  The event loop keeps the    *)
(* registry of live sessions, samples memory, notes blocks and builds the  *)
(* reports; a background thread samples, between any two bytecodes of the  *)
(* loop, which session's task runs, and adds it to the same dictionary     *)
(* that a report reads and replaces.                                       *)
(*                                                                         *)
(* A cpu share is the pair <<count, total>>, a memory share is counted in  *)
(* units of which every number of sessions gets a whole number.            *)
(***************************************************************************)
EXTENDS Integers, FiniteSets, FiniteSetsExt

CONSTANTS Sessions,     \* sessions of one worker
          MaxSamples,   \* bound on the samples of the thread
          MaxReports,   \* bound on the reports asked for
          RssReadings   \* what process_resident_set_bytes() may answer, in units

NoSession == "no session"   \* the loop is idle, or runs a task of no session
NoReading == -1             \* RSS cannot be read on this platform

ASSUME SamplingAssumption ==
  /\ NoSession \notin Sessions /\ IsFiniteSet(Sessions)
  /\ RssReadings \subseteq Nat \cup {NoReading}
  /\ \A rss \in RssReadings : rss = NoReading \/ \A n \in 1 .. Cardinality(Sessions) : rss % n = 0

VARIABLES
  live, over,    \* the registry, and the sessions that have ended
  total,         \* SessionCpuAccumulator._total
  samples,       \* SessionCpuAccumulator._samples; 0 is an absent key
  thread,        \* what the sampling thread is in the middle of
  last,          \* SessionCpuSampler._last_running
  report,        \* the report being built: stage, sessions still to come
  reports,
  share,         \* cpu shares of the last report
  peaks, memory, \* SessionMemorySampler._peaks and _latest
  blocked        \* IntrospectionRuntime._recent_blocks

cpuVars == <<total, samples, thread, last>>
reportVars == <<report, reports, share>>
memoryVars == <<peaks, memory>>
samplingVars == <<live, over, cpuVars, reportVars, memoryVars, blocked>>

None == [s \in {} |-> 0]
At(f, s) == IF s \in DOMAIN f THEN f[s] ELSE 0
OnlyOf(f, set) == [s \in DOMAIN f \cap set |-> f[s]]
Resting == [at |-> "waiting", session |-> NoSession, sum |-> 0, stale |-> FALSE]
NoReport == [stage |-> "none", left |-> {}, grown |-> FALSE]

SamplingInit ==
  /\ live = {} /\ over = {}
  /\ total = 0 /\ samples = [s \in Sessions |-> 0] /\ thread = Resting /\ last = NoSession
  /\ report = NoReport /\ reports = 0 /\ share = None
  /\ peaks = None /\ memory = None /\ blocked = {}

----------------------------------------------------------------------------
(* The thread.                                                             *)

\* Mutant: the total is counted after the sample was added.
ThreadSamplesFirst(s) ==
  /\ thread.at = "waiting" /\ total < MaxSamples
  /\ last' = IF s = NoSession THEN last ELSE s
  /\ samples' = IF s = NoSession THEN samples ELSE [samples EXCEPT ![s] = @ + 1]
  /\ thread' = [Resting EXCEPT !.at = "late"]
  /\ UNCHANGED <<live, over, total, reportVars, memoryVars, blocked>>

\* sample_once: the running session, then the total.
ThreadSamples(s) ==
  /\ thread.at = "waiting" /\ total < MaxSamples
  /\ last' = IF s = NoSession THEN last ELSE s
  /\ total' = total + 1
  /\ thread' = IF s = NoSession THEN Resting ELSE [Resting EXCEPT !.at = "read", !.session = s]
  /\ UNCHANGED <<live, over, samples, reportVars, memoryVars, blocked>>

\* self._samples.get(session_id, 0) + 1
ThreadReads ==
  /\ thread.at = "read"
  /\ thread' = [thread EXCEPT !.at = "store", !.sum = samples[thread.session] + 1]
  /\ UNCHANGED <<live, over, total, samples, last, reportVars, memoryVars, blocked>>

\* The store goes to the dictionary of now, or to the one a report has replaced meanwhile.
ThreadStores ==
  /\ thread.at = "store"
  /\ \/ /\ samples' = [samples EXCEPT ![thread.session] = thread.sum]
        /\ report' = [report EXCEPT !.grown = @ \/ (report.stage = "pruning" /\ samples[thread.session] = 0)]
     \/ (thread.stale \/ report.stage = "pruning") /\ UNCHANGED <<samples, report>>
  /\ thread' = Resting
  /\ UNCHANGED <<live, over, total, last, reports, share, memoryVars, blocked>>

ThreadStep == (\E s \in Sessions \cup {NoSession} : ThreadSamples(s)) \/ ThreadReads \/ ThreadStores

----------------------------------------------------------------------------
(* The event loop. A report is one call, so nothing of the loop comes      *)
(* between its steps; the thread does.                                     *)

LoopFree == report.stage = "none"

SessionStarts(s) ==
  /\ LoopFree /\ s \in Sessions \ (live \cup over)
  /\ live' = live \cup {s}
  /\ UNCHANGED <<over, cpuVars, reportVars, memoryVars, blocked>>

SessionEnds(s) ==
  /\ LoopFree /\ s \in live
  /\ live' = live \ {s} /\ over' = over \cup {s}
  /\ UNCHANGED <<cpuVars, reportVars, memoryVars, blocked>>

SampleMemory(rss) ==
  LET held == OnlyOf(peaks, live)
      each == rss \div Cardinality(live)
  IN  /\ LoopFree
      /\ IF rss = NoReading \/ live = {}
         THEN peaks' = held /\ memory' = None
         ELSE /\ memory' = [s \in live |-> each]
              /\ peaks' = [s \in live |-> Max({At(held, s), each})]
      /\ UNCHANGED <<live, over, cpuVars, reportVars, blocked>>

\* The loop was held up; the session seen running last takes the blame.
LoopBlocks ==
  /\ LoopFree
  /\ last # NoSession
  /\ blocked' = blocked \cup {last}
  /\ UNCHANGED <<live, over, cpuVars, reportVars, memoryVars>>

\* A client connects: the marks that have grown old go, and the cpu report begins.
ReportBegins ==
  /\ LoopFree /\ reports < MaxReports
  /\ reports' = reports + 1
  /\ \E fresh \in SUBSET blocked : blocked' = fresh
  /\ report' = [stage |-> "pruning", left |-> live, grown |-> FALSE]
  /\ share' = None
  /\ UNCHANGED <<live, over, cpuVars, memoryVars>>

\* The new dictionary takes the place of the old one, which the thread may still hold.
ReportPrunes ==
  /\ report.stage = "pruning" /\ ~report.grown
  /\ samples' = [s \in Sessions |-> IF s \in live THEN samples[s] ELSE 0]
  /\ report' = [report EXCEPT !.stage = IF live = {} THEN "none" ELSE "rows"]
  /\ thread' = [thread EXCEPT !.stale = thread.at = "store"]
  /\ UNCHANGED <<live, over, total, last, reports, share, memoryVars, blocked>>

\* "dictionary changed size during iteration": the client gets no snapshot.
ReportFails ==
  /\ report.stage = "pruning" /\ report.grown
  /\ report' = NoReport
  /\ UNCHANGED <<live, over, cpuVars, reports, share, memoryVars, blocked>>

ReportRow(s) ==
  /\ report.stage = "rows" /\ s \in report.left
  /\ share' = [r \in DOMAIN share \cup {s} |-> IF r = s THEN <<samples[s], total>> ELSE share[r]]
  /\ report' = IF report.left = {s} THEN NoReport ELSE [report EXCEPT !.left = @ \ {s}]
  /\ UNCHANGED <<live, over, cpuVars, reports, memoryVars, blocked>>

\* build_session_rows: a session without a signal of one kind shows none of it.
Row(s) ==
  [cpu |-> IF s \in DOMAIN share THEN share[s] ELSE <<0, 0>>,
   mem |-> At(memory, s),
   peak |-> IF s \in DOMAIN memory THEN peaks[s] ELSE 0,
   status |-> IF s \in blocked THEN "slow" ELSE "active"]

RuntimeStep ==
  \/ \E rss \in RssReadings : SampleMemory(rss)
  \/ LoopBlocks

ReportStep == ReportBegins \/ ReportPrunes \/ ReportFails \/ \E s \in Sessions : ReportRow(s)

SessionStep == \E s \in Sessions : SessionStarts(s) \/ SessionEnds(s)

SamplingNext == ThreadStep \/ RuntimeStep \/ ReportStep \/ SessionStep

SamplingSpec == SamplingInit /\ [][SamplingNext]_samplingVars

----------------------------------------------------------------------------
(* The cpu and the memory of a row are sound although the thread writes    *)
(* while a report reads and replaces its dictionary: a session has no more *)
(* samples than were taken, its peak is not below its present memory, and  *)
(* the memory of all sessions adds up to one reading of the process.       *)
TopRowsAreSound ==
  \A s \in live :
    LET row == Row(s)
    IN  /\ row.cpu[1] <= row.cpu[2]
        /\ row.mem <= row.peak
        /\ row.mem > 0 => Cardinality(DOMAIN memory) * row.mem \in RssReadings

(* "cpu_pct is a session's share of sampled running time": the shares of   *)
(* one report add up to no more than the whole.                            *)
SharesAddUp ==
  report.stage = "none" =>
    \A s, r \in DOMAIN share :
      s # r => share[s][1] * share[r][2] + share[r][1] * share[s][2] <= share[s][2] * share[r][2]

(* _recent_blocks is pruned "so the set does not grow unbounded": it holds *)
(* marks of live sessions.                                                 *)
MarksAreOfLiveSessions == blocked \subseteq live
=============================================================================
