------------------------ MODULE Introspection_proofs ------------------------
(***************************************************************************)
(* The introspection stack, the signals behind a row of "openrtc top" and  *)
(* the pages it shows, for every number of workers, sessions, samples,     *)
(* readings and rows; and what becomes of an "openrtc" command line,       *)
(* whatever it is put together from.                                       *)
(***************************************************************************)
EXTENDS SessionSampling, IntrospectionStack, InputsCheck, SequenceLemmas

----------------------------------------------------------------------------
(* The rows.                                                               *)

ThreadType ==
  [at : {"waiting", "read", "store"}, session : Sessions \cup {NoSession}, sum : Nat, stale : BOOLEAN]

SamplingTypes ==
  /\ live \subseteq Sessions
  /\ total \in Nat /\ samples \in [Sessions -> Nat]
  /\ thread \in ThreadType
  /\ thread.at # "waiting" => thread.session \in Sessions

(* The total counts a sample before the sample is added: what the thread   *)
(* is still to add is covered, whatever a report does to the dictionary.   *)
CountInv ==
  /\ \A s \in Sessions : samples[s] <= total
  /\ thread.at = "read" => total > 0 /\ samples[thread.session] < total
  /\ thread.at = "store" => thread.sum <= total

(* A share was read from samples and total together.                       *)
ShareInv == \A s \in DOMAIN share : share[s][1] <= share[s][2]

(* The shares of memory are one reading, and no peak is below its share.   *)
MemoryInv ==
  /\ \A s \in DOMAIN peaks : peaks[s] \in Int
  /\ \A s \in DOMAIN memory :
       /\ s \in DOMAIN peaks /\ memory[s] \in Int /\ memory[s] <= peaks[s]
       /\ Cardinality(DOMAIN memory) * memory[s] \in RssReadings

SamplingInv == SamplingTypes /\ CountInv /\ ShareInv /\ MemoryInv

(* A reading is shared out to the live sessions without a rest.            *)
LEMMA EvenShares ==
  ASSUME SamplingTypes, NEW rss \in RssReadings, rss # NoReading, live # {}
  PROVE  /\ rss \div Cardinality(live) \in Int
         /\ Cardinality(live) * (rss \div Cardinality(live)) = rss
<1>1. IsFiniteSet(live) /\ Cardinality(live) <= Cardinality(Sessions)
  BY SamplingAssumption, FS_Subset DEF SamplingTypes
<1>2. Cardinality(live) \in Nat /\ Cardinality(live) # 0 /\ Cardinality(Sessions) \in Nat
  BY <1>1, SamplingAssumption, FS_CardinalityType, FS_EmptySet
<1>3. rss \in Nat /\ rss % Cardinality(live) = 0
  BY <1>1, <1>2, SamplingAssumption DEF NoReading
<1>4. \A n \in Nat \ {0}, r \in Nat : r \div n \in Int /\ r = n * (r \div n) + (r % n)
  OBVIOUS
<1> HIDE DEF SamplingTypes
<1>5. rss \div Cardinality(live) \in Int
      /\ rss = Cardinality(live) * (rss \div Cardinality(live)) + (rss % Cardinality(live))
  BY <1>2, <1>3, <1>4
<1> QED BY <1>2, <1>3, <1>5

(* The thread keeps the samples below the total.                           *)
LEMMA ThreadCounts ==
  ASSUME SamplingInv, ThreadStep
  PROVE  SamplingInv'
<1> USE DEF SamplingInv, SamplingTypes, CountInv, ThreadType
<1>1. ASSUME NEW s \in Sessions \cup {NoSession}, ThreadSamples(s) PROVE SamplingInv'
  <2>1. UNCHANGED <<live, samples, share, peaks, memory>> /\ total' = total + 1
    BY <1>1 DEF ThreadSamples, reportVars, memoryVars
  <2>2. CASE s = NoSession
    BY <1>1, <2>1, <2>2 DEF ThreadSamples, Resting, ShareInv, MemoryInv
  <2>3. CASE s \in Sessions
    <3>1. thread' = [at |-> "read", session |-> s, sum |-> 0, stale |-> FALSE]
      BY <1>1, <2>3, SamplingAssumption DEF ThreadSamples, Resting
    <3> QED BY <2>1, <2>3, <3>1 DEF ShareInv, MemoryInv
  <2> QED BY <2>2, <2>3
<1>2. CASE ThreadReads
  <2>1. UNCHANGED <<live, samples, total, share, peaks, memory>>
    BY <1>2 DEF ThreadReads, reportVars, memoryVars
  <2>2. thread.at = "read" /\ thread' = [thread EXCEPT !.at = "store", !.sum = samples[thread.session] + 1]
    BY <1>2 DEF ThreadReads
  <2>3. samples[thread.session] + 1 \in Nat
    BY <2>2
  <2>4. thread' = [at |-> "store", session |-> thread.session, sum |-> samples[thread.session] + 1,
                   stale |-> thread.stale]
    BY <2>2
  <2> QED BY <2>1, <2>2, <2>3, <2>4 DEF ShareInv, MemoryInv
<1>3. CASE ThreadStores
  <2>1. UNCHANGED <<live, total, share, peaks, memory>>
    BY <1>3 DEF ThreadStores, memoryVars
  <2>2. thread.at = "store"
        /\ (samples' = [samples EXCEPT ![thread.session] = thread.sum] \/ samples' = samples)
    BY <1>3 DEF ThreadStores
  <2>3. thread' \in ThreadType /\ thread'.at = "waiting"
    BY <1>3 DEF ThreadStores, Resting
  <2> QED BY <2>1, <2>2, <2>3 DEF ShareInv, MemoryInv
<1> QED BY <1>1, <1>2, <1>3 DEF ThreadStep

(* A reading of the memory leaves shares of one reading under their peaks. *)
LEMMA MemoryIsShared ==
  ASSUME SamplingInv, NEW rss \in RssReadings, SampleMemory(rss)
  PROVE  MemoryInv'
<1> DEFINE held == OnlyOf(peaks, live)
<1>0. \A s \in DOMAIN held : held[s] \in Int
  BY DEF SamplingInv, MemoryInv, OnlyOf
<1> HIDE DEF held
<1>1. CASE rss = NoReading \/ live = {}
  <2>1. peaks' = held /\ memory' = None
    BY <1>1 DEF SampleMemory, held
  <2> QED BY <1>0, <2>1 DEF None, MemoryInv
<1>2. CASE rss # NoReading /\ live # {}
  <2> DEFINE each == rss \div Cardinality(live)
  <2>1. each \in Int /\ Cardinality(live) * each = rss
    BY <1>2, EvenShares DEF SamplingInv
  <2>2. /\ memory' = [s \in live |-> each]
        /\ peaks' = [s \in live |-> Max({At(held, s), each})]
    BY <1>2 DEF SampleMemory, held
  <2> HIDE DEF each
  <2>3. \A s \in live : Max({At(held, s), each}) \in Int /\ each <= Max({At(held, s), each})
    <3> SUFFICES ASSUME NEW s \in live
                 PROVE  Max({At(held, s), each}) \in Int /\ each <= Max({At(held, s), each})
      OBVIOUS
    <3>1. At(held, s) \in Int
      BY <1>0 DEF At
    <3> QED BY <2>1, <3>1, MaxOfPair
  <2> QED BY <2>1, <2>2, <2>3 DEF MemoryInv
<1> QED BY <1>1, <1>2

(* The loop: sessions, memory, blocks and reports.                         *)
LEMMA LoopCounts ==
  ASSUME SamplingInv, RuntimeStep \/ ReportStep \/ SessionStep
  PROVE  SamplingInv'
<1> USE DEF SamplingInv
<1>1. ASSUME NEW rss \in RssReadings, SampleMemory(rss) PROVE SamplingInv'
  <2>1. UNCHANGED <<live, total, samples, thread, share>>
    BY <1>1 DEF SampleMemory, cpuVars, reportVars
  <2> QED BY <1>1, <2>1, MemoryIsShared DEF SamplingTypes, CountInv, ShareInv
<1>2. CASE LoopBlocks
  BY <1>2 DEF LoopBlocks, cpuVars, reportVars, memoryVars, SamplingTypes, CountInv, ShareInv, MemoryInv
<1>3. CASE ReportBegins
  <2>1. UNCHANGED <<live, total, samples, thread, memory, peaks>> /\ share' = None
    BY <1>3 DEF ReportBegins, cpuVars, memoryVars
  <2> QED BY <2>1 DEF SamplingTypes, CountInv, ShareInv, MemoryInv, None
<1>4. CASE ReportPrunes
  <2>1. UNCHANGED <<live, total, share, memory, peaks>>
    BY <1>4 DEF ReportPrunes, memoryVars
  <2>2. samples' = [s \in Sessions |-> IF s \in live THEN samples[s] ELSE 0]
    BY <1>4 DEF ReportPrunes
  <2>3. thread' = [at |-> thread.at, session |-> thread.session, sum |-> thread.sum,
                   stale |-> (thread.at = "store")]
    BY <1>4 DEF ReportPrunes, SamplingTypes, ThreadType
  <2> QED BY <2>1, <2>2, <2>3 DEF SamplingTypes, CountInv, ShareInv, MemoryInv, ThreadType
<1>5. CASE ReportFails
  BY <1>5 DEF ReportFails, cpuVars, memoryVars, SamplingTypes, CountInv, ShareInv, MemoryInv
<1>6. ASSUME NEW s \in Sessions, ReportRow(s) PROVE SamplingInv'
  <2>1. UNCHANGED <<live, total, samples, thread, memory, peaks>>
    BY <1>6 DEF ReportRow, cpuVars, memoryVars
  <2>2. share' = [r \in DOMAIN share \cup {s} |-> IF r = s THEN <<samples[s], total>> ELSE share[r]]
    BY <1>6 DEF ReportRow
  <2> QED BY <2>1, <2>2 DEF SamplingTypes, CountInv, ShareInv, MemoryInv
<1>7. ASSUME NEW s \in Sessions, SessionStarts(s) \/ SessionEnds(s) PROVE SamplingInv'
  BY <1>7 DEF SessionStarts, SessionEnds, cpuVars, reportVars, memoryVars, SamplingTypes, CountInv,
     ShareInv, MemoryInv
<1> QED BY <1>1, <1>2, <1>3, <1>4, <1>5, <1>6, <1>7 DEF RuntimeStep, ReportStep, SessionStep

(* The counts of sampler, thread and report stay in line.                  *)
LEMMA SamplingStaysSound == SamplingSpec => []SamplingInv
<1>1. SamplingInit => SamplingInv
  BY DEF SamplingInit, SamplingInv, SamplingTypes, ThreadType, CountInv, ShareInv, MemoryInv, Resting, None
<1>2. SamplingInv /\ UNCHANGED samplingVars => SamplingInv'
  BY DEF SamplingInv, SamplingTypes, CountInv, ShareInv, MemoryInv, samplingVars, cpuVars, reportVars,
     memoryVars
<1>3. SamplingInv /\ [SamplingNext]_samplingVars => SamplingInv'
  BY <1>2, ThreadCounts, LoopCounts DEF SamplingNext
<1> QED BY <1>1, <1>3, PTL DEF SamplingSpec

(* The cpu and the memory of every row are sound although the thread       *)
(* writes between any two steps of a report.                               *)
THEOREM TopIsSound == SamplingSpec => []TopRowsAreSound
<1>1. SamplingInv => TopRowsAreSound
  BY DEF SamplingInv, ShareInv, MemoryInv, TopRowsAreSound, Row, At
<1> QED BY <1>1, SamplingStaysSound, PTL

----------------------------------------------------------------------------
(* Starting and closing the stack.                                         *)

(* How far a worker's start() and aclose() can be, and what it then holds. *)
WorkerShape(w) ==
  /\ start[w] \in {"no", "setup"} => close[w] = "no"
  /\ started[w] => start[w] \notin {"no", "setup"} /\ close[w] = "no"
  /\ started[w] => (start[w] = "done" /\ w \notin early => running[w])
  /\ close[w] = "server" => holds[w] = {}
  /\ close[w] = "done" /\ w \notin early => holds[w] = {} /\ path # w

StackShape ==
  /\ DOMAIN start = Workers /\ DOMAIN close = Workers /\ DOMAIN started = Workers
  /\ DOMAIN running = Workers /\ DOMAIN holds = Workers
  /\ \A w \in Workers : WorkerShape(w)

(* Every step keeps each worker in shape.                                  *)
LEMMA StackStep ==
  ASSUME StackShape, [StackNext]_vars
  PROVE  StackShape'
<1>1. ASSUME NEW w \in Workers, LoopOf(w) \/ Killed(w) PROVE StackShape'
  <2>1. \A v \in Workers \ {w} :
           /\ start'[v] = start[v] /\ close'[v] = close[v] /\ started'[v] = started[v]
           /\ running'[v] = running[v] /\ holds'[v] = holds[v]
           /\ v \in early' <=> v \in early
           /\ path' \in {path, w, NoWorker}
    BY <1>1 DEF LoopOf, StartPool, SetupTimesOut, SetupReturns, StartReturns, ClosePool, SamplersEnd,
       ServerCloses, Killed, Turn, StackShape
  <2>2. /\ DOMAIN start' = Workers /\ DOMAIN close' = Workers /\ DOMAIN started' = Workers
        /\ DOMAIN running' = Workers /\ DOMAIN holds' = Workers
    BY <1>1 DEF LoopOf, StartPool, SetupTimesOut, SetupReturns, StartReturns, ClosePool, SamplersEnd,
       ServerCloses, Killed, Turn, StackShape
  <2>3. ASSUME NEW v \in Workers \ {w} PROVE WorkerShape(v)'
    BY <2>1, <2>3, StackAssumption DEF StackShape, WorkerShape
  <2>4. WorkerShape(w)'
    <3>1. WorkerShape(w) /\ w # NoWorker
      BY StackAssumption DEF StackShape
    <3> USE DEF StackShape, WorkerShape, Turn
    <3>2. CASE StartPool(w) \/ SetupTimesOut(w)
      BY <3>1, <3>2 DEF StartPool, SetupTimesOut
    <3>3. CASE SetupReturns(w)
      BY <3>1, <3>3 DEF SetupReturns
    <3>4. CASE StartReturns(w)
      BY <3>1, <3>4 DEF StartReturns
    <3>5. CASE ClosePool(w)
      BY <3>1, <3>5 DEF ClosePool
    <3>6. CASE SamplersEnd(w) \/ ServerCloses(w)
      BY <3>1, <3>6 DEF SamplersEnd, ServerCloses
    <3>7. CASE Killed(w)
      BY <3>1, <3>7 DEF Killed
    <3> QED BY <1>1, <3>2, <3>3, <3>4, <3>5, <3>6, <3>7 DEF LoopOf
  <2> QED BY <2>2, <2>3, <2>4 DEF StackShape
<1>2. ASSUME NEW band \in Bands, CheckMemory(band) PROVE StackShape'
  BY <1>2 DEF CheckMemory, stackVars, StackShape, WorkerShape
<1>3. CASE UNCHANGED vars
  BY <1>3 DEF vars, stackVars, StackShape, WorkerShape
<1> QED BY <1>1, <1>2, <1>3 DEF StackNext

(* A pool closed after its start() had returned leaves nothing behind.     *)
THEOREM ClosedIsGone == StackSpec => []ClosedStackIsGone
<1>1. StackInit => StackShape
  BY DEF StackInit, StackShape, WorkerShape
<1>2. StackShape /\ [StackNext]_vars => StackShape'
  BY StackStep
<1>3. StackShape => ClosedStackIsGone
  BY DEF StackShape, WorkerShape, ClosedStackIsGone
<1> QED BY <1>1, <1>2, <1>3, PTL DEF StackSpec

----------------------------------------------------------------------------
(* The memory warning.                                                     *)

(* Whether a reading in the warn band comes after the last reading below   *)
(* it, of the first n readings.                                            *)
Aloft(seq, n) == \E j \in 1 .. n : seq[j] = "warn" /\ \A k \in j .. n : seq[k] # "ok"
Crossings(seq) == {i \in DOMAIN seq : seq[i] = "warn" /\ ~ Aloft(seq, i - 1)}

(* The warning is armed unless memory stayed above the band.               *)
WarnInv ==
  /\ readings \in Seq(Bands) /\ warned \in BOOLEAN
  /\ warned <=> Aloft(readings, Len(readings))
  /\ IsFiniteSet(Crossings(readings)) /\ warnings = Cardinality(Crossings(readings))

(* Counting the crossings by the flag is counting them as the property does.*)
LEMMA CrossingsAreThose ==
  ASSUME WarnInv PROVE WarnsOncePerCrossing
<1> DEFINE Since(i) == {j \in 1 .. i - 1 : \A k \in j .. i - 1 : readings[k] # "ok"}
           Crossing(i) == readings[i] = "warn" /\ \A j \in Since(i) : readings[j] # "warn"
<1>1. \A i \in DOMAIN readings : Crossing(i) <=> readings[i] = "warn" /\ ~ Aloft(readings, i - 1)
  BY DEF Aloft
<1>2. {i \in DOMAIN readings : Crossing(i)} = Crossings(readings)
  BY <1>1 DEF Crossings
<1> HIDE DEF Crossing
<1> QED BY <1>2 DEF WarnInv, WarnsOncePerCrossing, Crossing

(* A reading is warned of exactly when it is a crossing.                   *)
LEMMA WarnStep ==
  ASSUME WarnInv, NEW band \in Bands, CheckMemory(band)
  PROVE  WarnInv'
<1> DEFINE n == Len(readings)
<1>1. n \in Nat /\ DOMAIN readings = 1 .. n
  BY DEF WarnInv
<1>2. /\ readings' \in Seq(Bands) /\ Len(readings') = n + 1 /\ DOMAIN readings' = 1 .. n + 1
      /\ readings'[n + 1] = band /\ \A i \in 1 .. n : readings'[i] = readings[i]
  BY DEF CheckMemory, WarnInv
<1> HIDE DEF n
<1>3. ASSUME NEW m \in 0 .. n PROVE Aloft(readings', m) <=> Aloft(readings, m)
  <2>1. 1 .. m \subseteq 1 .. n /\ \A j \in 1 .. m : j .. m \subseteq 1 .. n
    BY <1>1
  <2>2. \A j \in 1 .. m : readings'[j] = readings[j] /\ \A k \in j .. m : readings'[k] = readings[k]
    BY <1>2, <2>1
  <2> QED BY <2>2 DEF Aloft
<1>4. Aloft(readings', n + 1) <=> band = "warn" \/ (band # "ok" /\ Aloft(readings, n))
  <2>1. 1 .. n + 1 = 1 .. n \cup {n + 1} /\ \A j \in 1 .. n : j .. n + 1 = j .. n \cup {n + 1}
    BY <1>1
  <2>2. (n + 1) .. (n + 1) = {n + 1}
    BY <1>1
  <2>3. Aloft(readings', n) <=> Aloft(readings, n)
    BY <1>1, <1>3
  <2>4. Aloft(readings', n + 1)
          <=> (\E j \in 1 .. n : readings'[j] = "warn" /\ \A k \in j .. n + 1 : readings'[k] # "ok")
                \/ (readings'[n + 1] = "warn" /\ \A k \in (n + 1) .. (n + 1) : readings'[k] # "ok")
    BY <2>1 DEF Aloft
  <2>5. (\E j \in 1 .. n : readings'[j] = "warn" /\ \A k \in j .. n + 1 : readings'[k] # "ok")
          <=> band # "ok" /\ Aloft(readings', n)
    BY <1>2, <2>1 DEF Aloft
  <2> QED BY <1>2, <2>2, <2>3, <2>4, <2>5
<1>5. warned' = (IF band = "warn" THEN TRUE ELSE IF band = "ok" THEN FALSE ELSE warned)
  BY DEF CheckMemory
<1>6. (warned' <=> Aloft(readings', n + 1)) /\ warned' \in BOOLEAN
  BY <1>4, <1>5 DEF WarnInv, n
<1>7. Crossings(readings') = IF band = "warn" /\ ~ warned THEN Crossings(readings) \cup {n + 1} ELSE Crossings(readings)
  <2>1. Crossings(readings') = {i \in 1 .. n + 1 : readings'[i] = "warn" /\ ~ Aloft(readings', i - 1)}
    BY <1>2 DEF Crossings
  <2>2. \A i \in 1 .. n : i - 1 \in 0 .. n /\ (Aloft(readings', i - 1) <=> Aloft(readings, i - 1))
    BY <1>1, <1>3
  <2>3. Aloft(readings', (n + 1) - 1) <=> warned
    BY <1>1, <1>3 DEF WarnInv, n
  <2> QED BY <1>1, <1>2, <2>1, <2>2, <2>3 DEF Crossings
<1>8. n + 1 \notin Crossings(readings)
  BY <1>1 DEF Crossings
<1>9. warnings' = IF band = "warn" /\ ~ warned THEN warnings + 1 ELSE warnings
  BY DEF CheckMemory
<1>10. IsFiniteSet(Crossings(readings')) /\ warnings' = Cardinality(Crossings(readings'))
  <2>1. CASE band = "warn" /\ ~ warned
    BY <1>7, <1>8, <1>9, <2>1, FS_AddElement DEF WarnInv
  <2>2. CASE ~(band = "warn" /\ ~ warned)
    BY <1>7, <1>9, <2>2 DEF WarnInv
  <2> QED BY <2>1, <2>2
<1> QED BY <1>2, <1>6, <1>10 DEF WarnInv

(* One warning for every crossing into the warn band, whatever unreadable  *)
(* or limit readings come between.                                         *)
THEOREM OneWarningPerCrossing == StackSpec => []WarnsOncePerCrossing
<1>1. StackInit => WarnInv
  <2> SUFFICES ASSUME StackInit PROVE WarnInv
    OBVIOUS
  <2>1. readings = <<>> /\ DOMAIN readings = {} /\ Len(readings) = 0
    BY DEF StackInit
  <2>2. Crossings(readings) = {} /\ ~ Aloft(readings, 0)
    BY <2>1 DEF Crossings, Aloft
  <2>3. readings \in Seq(Bands) /\ warned = FALSE /\ warnings = 0
    BY DEF StackInit
  <2>4. IsFiniteSet(Crossings(readings)) /\ Cardinality(Crossings(readings)) = 0
    BY <2>2, FS_EmptySet
  <2> QED BY <2>1, <2>2, <2>3, <2>4 DEF WarnInv
<1>2. WarnInv /\ [StackNext]_vars => WarnInv'
  <2> SUFFICES ASSUME WarnInv, [StackNext]_vars PROVE WarnInv'
    OBVIOUS
  <2>1. CASE UNCHANGED <<readings, warned, warnings>>
    BY <2>1 DEF WarnInv
  <2>2. ASSUME NEW w \in Workers, LoopOf(w) \/ Killed(w) PROVE UNCHANGED <<readings, warned, warnings>>
    BY <2>2 DEF LoopOf, StartPool, SetupTimesOut, SetupReturns, StartReturns, ClosePool, SamplersEnd,
       ServerCloses, Killed, monitorVars
  <2>3. UNCHANGED vars => UNCHANGED <<readings, warned, warnings>>
    BY DEF vars, monitorVars
  <2> QED BY <2>1, <2>2, <2>3, WarnStep DEF StackNext
<1> QED BY <1>1, <1>2, CrossingsAreThose, PTL DEF StackSpec

----------------------------------------------------------------------------
(* Pages of "openrtc top", for any table and any number of rows on a page. *)

(* Rounding up: `pages` pages of `size` rows are enough for n rows, and    *)
(* one page less is not.                                                   *)
LEMMA PagesAreEnough ==
  ASSUME NEW n \in Nat, NEW size \in Nat \ {0}
  PROVE  LET pages == AtLeast(1, (n + size - 1) \div size)
         IN  /\ pages \in Nat \ {0}
             /\ n <= pages * size
             /\ pages > 1 => (pages - 1) * size < n
<1> DEFINE q == (n + size - 1) \div size
           r == (n + size - 1) % size
<1>1. q \in Nat /\ r \in 0 .. size - 1 /\ n + size - 1 = q * size + r
  OBVIOUS
<1> HIDE DEF q, r
<1>2. n <= q * size /\ (q - 1) * size < n
  <2>1. (q - 1) * size = q * size - size /\ q * size \in Nat
    BY <1>1
  <2> QED BY <1>1, <2>1
<1>3. CASE q >= 1
  BY <1>1, <1>2, <1>3 DEF AtLeast, q
<1>4. CASE q = 0
  BY <1>1, <1>2, <1>4 DEF AtLeast, q
<1> QED BY <1>1, <1>3, <1>4

(* A page, if there is such a page, is cut from the table: the rows and    *)
(* slots from (page - 1) * size + 1 on, at most size of them.              *)
LEMMA PageIsCut ==
  ASSUME NEW S, NEW rows \in Seq(S), NEW size \in Nat \ {0},
         NEW page \in 1 .. Paginate(rows, 1, size).total
  PROVE  LET first == (page - 1) * size
             end == AtMost(page * size, Len(rows))
         IN  /\ first \in Nat /\ end \in first .. Len(rows)
             /\ Paginate(rows, page, size).rows = SubSeq(rows, first + 1, end)
             /\ Slots(rows, page, size) = [k \in 1 .. (end - first) |-> first + k]
<1> DEFINE pages == AtLeast(1, (Len(rows) + size - 1) \div size)
           first == (page - 1) * size
           end == AtMost(page * size, Len(rows))
           cut == Paginate(rows, page, size)
<1>0. Len(rows) \in Nat
  OBVIOUS
<1>1. pages \in Nat \ {0} /\ (pages > 1 => (pages - 1) * size < Len(rows))
  BY <1>0, PagesAreEnough
<1>2. Paginate(rows, 1, size).total = pages
  BY DEF Paginate
<1> HIDE DEF pages
<1>3. page \in 1 .. pages
  BY <1>2
<1>4. AtLeast(1, AtMost(page, pages)) = page
  BY <1>1, <1>3 DEF AtLeast, AtMost
<1>5. cut.page = page /\ cut.rows = SubSeq(rows, first + 1, end)
  <2>1. ASSUME NEW at, at = AtLeast(1, AtMost(page, pages))
        PROVE  cut = [rows |-> SubSeq(rows, (at - 1) * size + 1, AtMost(at * size, Len(rows))), page |-> at, total |-> pages]
    BY <2>1 DEF Paginate, pages
  <2> QED BY <1>4, <2>1
<1> HIDE DEF cut
<1>6. first \in Nat /\ page * size = first + size /\ first <= (pages - 1) * size
  <2>1. page - 1 \in Nat /\ pages - page \in Nat
    BY <1>1, <1>3
  <2>2. (pages - 1) * size = first + (pages - page) * size /\ (pages - page) * size \in Nat /\ first \in Nat
    <3>1. \A a, b \in Nat : a * size \in Nat /\ (a + b) * size = a * size + b * size
      OBVIOUS
    <3>2. pages - 1 = (page - 1) + (pages - page)
      BY <1>1, <1>3
    <3> QED BY <2>1, <3>1, <3>2
  <2>3. page * size = first + size
    BY <2>1
  <2> QED BY <2>2, <2>3
<1>7. end \in Nat /\ first <= end /\ end <= Len(rows)
  <2>1. first <= Len(rows)
    BY <1>1, <1>3, <1>6
  <2> QED BY <1>6, <2>1 DEF AtMost
<1> HIDE DEF first, end
<1>8. /\ Len(cut.rows) = end - first /\ DOMAIN cut.rows = 1 .. (end - first)
      /\ \A k \in 1 .. (end - first) : cut.rows[k] = rows[first + k]
  <2>1. first + 1 \in 1 .. Len(rows) + 1 /\ end \in first .. Len(rows)
    BY <1>6, <1>7
  <2> QED BY <1>5, <1>6, <1>7, <2>1, SubSeqProperties
<1>9. Slots(rows, page, size) = [k \in 1 .. (end - first) |-> first + k]
  <2>1. AtLeast(size, 0) = size
    BY DEF AtLeast
  <2>2. Slots(rows, page, size) = [k \in DOMAIN cut.rows |-> (cut.page - 1) * size + k]
    BY <2>1 DEF Slots, cut
  <2> QED BY <1>5, <1>8, <2>2 DEF first
<1> QED BY <1>0, <1>5, <1>6, <1>7, <1>9 DEF cut, first, end

(* So each slot of a page stands beside the row of its number.             *)
LEMMA PageHolds ==
  ASSUME NEW S, NEW rows \in Seq(S), NEW size \in Nat \ {0},
         NEW page \in 1 .. Paginate(rows, 1, size).total
  PROVE  LET slots == Slots(rows, page, size)
             first == (page - 1) * size
         IN  /\ Len(slots) = AtMost(page * size, Len(rows)) - first /\ first \in Nat
             /\ DOMAIN slots = 1 .. Len(slots)
             /\ \A k \in DOMAIN slots : slots[k] = first + k /\ Paginate(rows, page, size).rows[k] = rows[first + k]
<1> DEFINE first == (page - 1) * size
           end == AtMost(page * size, Len(rows))
           cut == Paginate(rows, page, size)
           slots == Slots(rows, page, size)
<1>1. /\ first \in Nat /\ end \in first .. Len(rows) /\ Len(rows) \in Nat
      /\ cut.rows = SubSeq(rows, first + 1, end)
      /\ slots = [k \in 1 .. (end - first) |-> first + k]
  BY PageIsCut
<1> HIDE DEF first, end, cut, slots
<1>2. \A k \in 1 .. (end - first) : cut.rows[k] = rows[first + k]
  <2>1. first + 1 \in 1 .. Len(rows) + 1 /\ end \in first .. Len(rows)
    BY <1>1
  <2> QED BY <1>1, <2>1, SubSeqProperties
<1>3. Len(slots) = end - first /\ DOMAIN slots = 1 .. (end - first)
  BY <1>1
<1> QED BY <1>1, <1>2, <1>3 DEF cut, first, end, slots

(* Where `openrtc top` shows a row, and beside which number.               *)
IsOnPage(rows, size, i, page) ==
  \E k \in DOMAIN Slots(rows, page, size) :
    Slots(rows, page, size)[k] = i /\ Paginate(rows, page, size).rows[k] = rows[i]

(* Whoever pages through the table meets each row on one page, under its   *)
(* own number, and on no other page: whatever the number of rows and the   *)
(* size of a page, which may also be none at all.                          *)
THEOREM EachRowIsOnOnePage ==
  ASSUME NEW S, NEW rows \in Seq(S), NEW size \in Int
  PROVE  \A i \in 1 .. Len(rows) : \E page \in 1 .. Paginate(rows, 1, size).total :
           /\ IsOnPage(rows, size, i, page)
           /\ \A other \in 1 .. Paginate(rows, 1, size).total :
                i \in ToSet(Slots(rows, other, size)) => other = page
<1> SUFFICES ASSUME NEW i \in 1 .. Len(rows)
             PROVE  \E page \in 1 .. Paginate(rows, 1, size).total :
                      /\ IsOnPage(rows, size, i, page)
                      /\ \A other \in 1 .. Paginate(rows, 1, size).total :
                           i \in ToSet(Slots(rows, other, size)) => other = page
  OBVIOUS
<1>1. CASE size <= 0
  <2>1. \A page : Paginate(rows, page, size) = [rows |-> rows, page |-> 1, total |-> 1]
    BY <1>1 DEF Paginate
  <2>2. DOMAIN rows = 1 .. Len(rows)
    OBVIOUS
  <2>3. Slots(rows, 1, size) = [k \in 1 .. Len(rows) |-> k]
    BY <1>1, <2>1, <2>2 DEF Slots, AtLeast
  <2>4. IsOnPage(rows, size, i, 1)
    BY <2>1, <2>3 DEF IsOnPage
  <2> QED BY <2>1, <2>4
<1>2. CASE size > 0
  <2> DEFINE pages == Paginate(rows, 1, size).total
             q == (i - 1) \div size
             r == (i - 1) % size
             page == q + 1
  <2>1. size \in Nat \ {0}
    BY <1>2
  <2>2. q \in Nat /\ r \in 0 .. size - 1 /\ i = q * size + r + 1
    BY <2>1
  <2>3. pages \in Nat \ {0} /\ Len(rows) <= pages * size
    <3>1. pages = AtLeast(1, (Len(rows) + size - 1) \div size) /\ Len(rows) \in Nat
      BY <1>2 DEF Paginate
    <3> HIDE DEF pages
    <3> QED BY <2>1, <3>1, PagesAreEnough
  <2> HIDE DEF pages, q, r
  <2>4. page \in 1 .. pages
    <3>1. SUFFICES ASSUME q >= pages PROVE FALSE
      BY <2>2, <2>3
    <3>2. q - pages \in Nat /\ q * size = pages * size + (q - pages) * size /\ (q - pages) * size \in Nat
      BY <2>1, <2>2, <2>3, <3>1
    <3> QED BY <2>2, <2>3, <3>2
  <2>5. IsOnPage(rows, size, i, page)
    <3>1. (page - 1) * size = q * size /\ page * size = q * size + size
      BY <2>1, <2>2
    <3>2. r + 1 \in DOMAIN Slots(rows, page, size)
      BY <2>1, <2>2, <2>4, <3>1, PageHolds DEF AtMost, pages
    <3>3. /\ Slots(rows, page, size)[r + 1] = i
          /\ Paginate(rows, page, size).rows[r + 1] = rows[i]
      BY <2>1, <2>2, <2>4, <3>1, <3>2, PageHolds, SMTT(30) DEF pages
    <3> QED BY <3>2, <3>3 DEF IsOnPage
  <2>6. ASSUME NEW other \in 1 .. pages, i \in ToSet(Slots(rows, other, size)) PROVE other = page
    <3>1. PICK k \in DOMAIN Slots(rows, other, size) : Slots(rows, other, size)[k] = i
      BY <2>6 DEF ToSet
    <3>2. k \in 1 .. size /\ i = (other - 1) * size + k
      <4> DEFINE first == (other - 1) * size
                 end == AtMost(other * size, Len(rows))
      <4>1. other * size = first + size /\ first \in Nat
        BY <2>1, <2>6
      <4>2. /\ end \in first .. Len(rows)
            /\ Slots(rows, other, size) = [n \in 1 .. (end - first) |-> first + n]
        BY <2>1, <2>6, PageIsCut DEF pages
      <4>3. end <= first + size /\ Len(rows) \in Nat
        BY <4>1, <4>2 DEF AtMost
      <4> HIDE DEF first, end
      <4>4. k \in 1 .. (end - first) /\ i = first + k
        BY <3>1, <4>2
      <4>5. k \in 1 .. size
        BY <2>1, <4>1, <4>2, <4>3, <4>4
      <4> QED BY <4>4, <4>5 DEF first
    <3>3. CASE other - 1 > q
      <4>1. (other - 1) * size = q * size + (other - 1 - q) * size /\ (other - 1 - q) * size >= size
        BY <2>1, <2>2, <2>6, <3>3
      <4> QED BY <2>1, <2>2, <3>2, <4>1
    <3>4. CASE other - 1 < q
      <4>1. q * size = (other - 1) * size + (q - (other - 1)) * size /\ (q - (other - 1)) * size >= size
        BY <2>1, <2>2, <2>6, <3>4
      <4> QED BY <2>1, <2>2, <3>2, <4>1
    <3> QED BY <2>2, <2>6, <3>3, <3>4
  <2> QED BY <2>4, <2>5, <2>6 DEF pages
<1> QED BY <1>1, <1>2

(* What the table shows, and in which order.                               *)
Passing(rows, status) == {i \in DOMAIN rows : status \in {"all", rows[i].status}}
Comes(a, b, i, j, sort) == IF a = b THEN i < j ELSE IF sort \in Numeric THEN a > b ELSE a < b
Order(value, sort) ==
  {p \in (DOMAIN value) \X (DOMAIN value) : Comes(value[p[1]], value[p[2]], p[1], p[2], sort)}

(* Rows of any columns.                                                    *)
RowsOf(statuses, names, columns) ==
  [status : statuses, agent : names, tenant : names, shows : UNION {[some -> Int] : some \in SUBSET columns}]

(* Values in order, and where they are equal the rows, is one order of all.*)
LEMMA OrderIsTotal ==
  ASSUME NEW D \in SUBSET Int, NEW value \in [D -> Int], NEW sort
  PROVE  /\ \A i \in D : <<i, i>> \notin Order(value, sort)
         /\ \A i, j \in D : i # j => <<i, j>> \in Order(value, sort) \/ <<j, i>> \in Order(value, sort)
         /\ \A i, j, k \in D : <<i, j>> \in Order(value, sort) /\ <<j, k>> \in Order(value, sort)
                                 => <<i, k>> \in Order(value, sort)
<1>1. \A i, j \in D : <<i, j>> \in Order(value, sort) <=> Comes(value[i], value[j], i, j, sort)
  BY DEF Order
<1>2. \A i \in D : i \in Int /\ value[i] \in Int
  OBVIOUS
<1>3. \A a, b, c, i, j, k \in Int :
        /\ ~Comes(a, a, i, i, sort)
        /\ i # j => Comes(a, b, i, j, sort) \/ Comes(b, a, j, i, sort)
        /\ Comes(a, b, i, j, sort) /\ Comes(b, c, j, k, sort) => Comes(a, c, i, k, sort)
  BY DEF Comes
<1>4. \A i \in D : <<i, i>> \notin Order(value, sort)
  BY <1>1, <1>2, <1>3
<1>5. \A i, j \in D : i # j => <<i, j>> \in Order(value, sort) \/ <<j, i>> \in Order(value, sort)
  BY <1>1, <1>2, <1>3
<1>6. ASSUME NEW i \in D, NEW j \in D, NEW k \in D,
             <<i, j>> \in Order(value, sort), <<j, k>> \in Order(value, sort)
      PROVE  <<i, k>> \in Order(value, sort)
  <2>1. Comes(value[i], value[j], i, j, sort) /\ Comes(value[j], value[k], j, k, sort)
    BY <1>1, <1>6
  <2>2. Comes(value[i], value[k], i, k, sort)
    BY <1>2, <1>3, <2>1
  <2> QED BY <1>1, <2>2
<1> QED BY <1>4, <1>5, <1>6

(* The table is the rows that pass, in the order of the column.            *)
LEMMA TableIsSorted ==
  ASSUME NEW statuses, NEW names, NEW columns, NEW rows \in Seq(RowsOf(statuses, names, columns)),
         NEW sort, NEW status
  PROVE  LET all == FilterAndSort(rows, sort, status, "", "")
             Value(i) == Column(rows[i].shows, sort)
         IN  /\ all \in Seq(DOMAIN rows) /\ ToSet(all) = Passing(rows, status)
             /\ \A i \in DOMAIN rows : Value(i) \in Int
             /\ \A i, j \in DOMAIN all :
                  i < j => Comes(Value(all[i]), Value(all[j]), all[i], all[j], sort)
<1> DEFINE value == [i \in DOMAIN rows |-> Column(rows[i].shows, sort)]
           R == Order(value, sort)
           Passes(i) == status \in {"all", rows[i].status} /\ "" \in {"", rows[i].agent}
                        /\ "" \in {"", rows[i].tenant}
           shown == {i \in DOMAIN rows : Passes(i)}
           Before(i, j) ==
             LET a == Column(rows[i].shows, sort)
                 b == Column(rows[j].shows, sort)
             IN  IF a = b THEN i < j ELSE IF sort \in Numeric THEN a > b ELSE a < b
           all == FilterAndSort(rows, sort, status, "", "")
<1>1. DOMAIN rows = 1 .. Len(rows) /\ Len(rows) \in Nat
  OBVIOUS
<1>2. value \in [DOMAIN rows -> Int]
  <2> SUFFICES ASSUME NEW i \in DOMAIN rows PROVE Column(rows[i].shows, sort) \in Int
    OBVIOUS
  <2> DEFINE shows == rows[i].shows
  <2>1. rows[i] \in RowsOf(statuses, names, columns)
    OBVIOUS
  <2>2. PICK some \in SUBSET columns : shows \in [some -> Int]
    BY <2>1 DEF RowsOf
  <2> HIDE DEF shows
  <2>3. Column(shows, sort) \in Int
    BY <2>2 DEF Column
  <2> QED BY <2>3 DEF shows
<1>3. shown \subseteq DOMAIN rows /\ IsFiniteSet(shown)
  <2>1. IsFiniteSet(1 .. Len(rows))
    <3>1. Len(rows) \in Int
      BY <1>1
    <3> QED BY <3>1, FS_Interval
  <2>2. shown \subseteq DOMAIN rows
    OBVIOUS
  <2> HIDE DEF shown
  <2> QED BY <1>1, <2>1, <2>2, FS_Subset
<1>4. \A i, j \in DOMAIN rows : <<i, j>> \in R <=> Before(i, j)
  <2> SUFFICES ASSUME NEW i \in DOMAIN rows, NEW j \in DOMAIN rows PROVE <<i, j>> \in R <=> Before(i, j)
    OBVIOUS
  <2>1. value[i] = Column(rows[i].shows, sort) /\ value[j] = Column(rows[j].shows, sort)
    OBVIOUS
  <2>2. DOMAIN value = DOMAIN rows
    OBVIOUS
  <2> HIDE DEF value
  <2>3. <<i, j>> \in R <=> Comes(value[i], value[j], i, j, sort)
    BY <2>2 DEF Order
  <2> QED BY <2>1, <2>3 DEF Comes
<1>5. all = [n \in 1 .. Cardinality(shown) |->
               CHOOSE i \in shown : Cardinality({j \in shown : Before(j, i)}) = n - 1]
  BY DEF FilterAndSort
<1>6. all = Ranked(R, shown)
  <2>1. \A i \in shown : {j \in shown : Before(j, i)} = {j \in shown : <<j, i>> \in R}
    <3> HIDE DEF shown, R, Before
    <3> QED BY <1>3, <1>4
  <2> HIDE DEF shown, R, Before, all
  <2>2. \A i \in shown : Cardinality({j \in shown : Before(j, i)}) = Rank(R, shown, i)
    BY <2>1 DEF Rank
  <2> DEFINE Placed(n) == CHOOSE i \in shown : Cardinality({j \in shown : Before(j, i)}) = n - 1
             AtRank(n) == CHOOSE i \in shown : Rank(R, shown, i) = n - 1
  <2>3. \A n : Placed(n) = AtRank(n)
    BY <2>2
  <2>4. Ranked(R, shown) = [n \in 1 .. Cardinality(shown) |-> AtRank(n)]
    BY DEF Ranked
  <2>5. all = [n \in 1 .. Cardinality(shown) |-> Placed(n)]
    BY <1>5
  <2> HIDE DEF Placed, AtRank
  <2> QED BY <2>3, <2>4, <2>5
<1>7. /\ \A i \in shown : <<i, i>> \notin R
      /\ \A i, j \in shown : i # j => <<i, j>> \in R \/ <<j, i>> \in R
      /\ \A i, j, k \in shown : <<i, j>> \in R /\ <<j, k>> \in R => <<i, k>> \in R
  <2>1. DOMAIN rows \in SUBSET Int
    BY <1>1
  <2> HIDE DEF shown, value
  <2> QED BY <1>2, <1>3, <2>1, OrderIsTotal
<1>8. shown = Passing(rows, status)
  BY DEF Passing
<1> HIDE DEF shown, R, all, value
<1>9. /\ all \in Seq(shown) /\ ToSet(all) = shown
      /\ \A m, n \in DOMAIN all : m < n => <<all[m], all[n]>> \in R
  BY <1>3, <1>6, <1>7, RankedIsSorted
<1>10. all \in Seq(DOMAIN rows)
  BY <1>3, <1>9
<1>11. \A i \in DOMAIN rows : value[i] = Column(rows[i].shows, sort) /\ Column(rows[i].shows, sort) \in Int
  BY <1>2 DEF value
<1>12. ASSUME NEW i \in DOMAIN all, NEW j \in DOMAIN all, i < j
       PROVE  Comes(Column(rows[all[i]].shows, sort), Column(rows[all[j]].shows, sort), all[i], all[j], sort)
  <2>1. all[i] \in DOMAIN rows /\ all[j] \in DOMAIN rows
    BY <1>10
  <2>2. <<all[i], all[j]>> \in R
    BY <1>9, <1>12
  <2>3. Comes(value[all[i]], value[all[j]], all[i], all[j], sort)
    BY <2>2 DEF Order, R
  <2> QED BY <1>11, <2>1, <2>3
<1> QED BY <1>8, <1>9, <1>10, <1>11, <1>12 DEF all

(* The pages, one after the other, are the table, and their slots number   *)
(* it through.                                                             *)
LEMMA PagesFlatten ==
  ASSUME NEW S, NEW all \in Seq(S), NEW size \in Int
  PROVE  LET pages == Paginate(all, 1, size).total
         IN  /\ FlattenSeq([page \in 1 .. pages |-> Paginate(all, page, size).rows]) = all
             /\ FlattenSeq([page \in 1 .. pages |-> Slots(all, page, size)]) = [i \in DOMAIN all |-> i]
<1> DEFINE pages == Paginate(all, 1, size).total
           held == [page \in 1 .. pages |-> Paginate(all, page, size).rows]
           slots == [page \in 1 .. pages |-> Slots(all, page, size)]
           numbers == [i \in DOMAIN all |-> i]
           ends == [p \in 0 .. pages |-> IF size <= 0 THEN p * Len(all) ELSE AtMost(p * size, Len(all))]
<1>1. Len(all) \in Nat /\ DOMAIN all = 1 .. Len(all)
  OBVIOUS
<1>2. numbers \in Seq(Nat) /\ Len(numbers) = Len(all)
  <2>1. numbers \in [1 .. Len(all) -> Nat]
    BY <1>1
  <2> QED BY <1>1, <2>1, FunctionIsSequence
<1>3. pages \in Nat \ {0} /\ (size > 0 => Len(all) <= pages * size)
  <2>1. CASE size <= 0
    BY <2>1 DEF Paginate
  <2>2. CASE size > 0
    <3>1. pages = AtLeast(1, (Len(all) + size - 1) \div size)
      BY <2>2 DEF Paginate
    <3>2. size \in Nat \ {0}
      BY <2>2
    <3> HIDE DEF pages
    <3> QED BY <1>1, <3>1, <3>2, PagesAreEnough
  <2> QED BY <2>1, <2>2
<1>4. /\ ends[0] = 0 /\ ends[pages] = Len(all)
      /\ \A p \in 0 .. pages : ends[p] \in 0 .. Len(all)
      /\ \A p \in 1 .. pages : ends[p - 1] <= ends[p]
  <2>1. CASE size <= 0
    <3>1. pages = 1
      BY <2>1 DEF Paginate
    <3> HIDE DEF pages
    <3>2. ends[0] = 0 * Len(all) /\ ends[1] = 1 * Len(all)
      BY <2>1, <3>1
    <3>3. 0 * Len(all) = 0 /\ 1 * Len(all) = Len(all)
      <4>1. \A n \in Nat : 0 * n = 0 /\ 1 * n = n
        OBVIOUS
      <4> QED BY <1>1, <4>1
    <3> HIDE DEF ends
    <3>4. \A p \in 0 .. pages : p = 0 \/ p = 1
      BY <3>1
    <3>5. \A p \in 1 .. pages : p = 1 /\ p - 1 = 0
      BY <3>1
    <3>6. ends[0] = 0 /\ ends[1] = Len(all)
      BY <3>2, <3>3
    <3> QED BY <1>1, <3>1, <3>4, <3>5, <3>6
  <2>2. CASE size > 0
    <3> HIDE DEF pages
    <3>1. \A p \in 0 .. pages : ends[p] = AtMost(p * size, Len(all)) /\ p * size \in Nat
      BY <1>3, <2>2
    <3>2. \A p \in 1 .. pages : p - 1 \in 0 .. pages /\ (p - 1) * size <= p * size
      BY <1>3, <2>2
    <3>3. 0 * size = 0
      OBVIOUS
    <3> HIDE DEF ends
    <3>4. ends[0] = 0 /\ ends[pages] = Len(all)
      BY <1>1, <1>3, <2>2, <3>1, <3>3 DEF AtMost
    <3>5. \A p \in 0 .. pages : ends[p] \in 0 .. Len(all)
      BY <1>1, <3>1 DEF AtMost
    <3>6. \A p \in 1 .. pages : ends[p - 1] <= ends[p]
      BY <1>1, <3>1, <3>2 DEF AtMost
    <3> QED BY <3>4, <3>5, <3>6
  <2> HIDE DEF ends, pages
  <2> QED BY <2>1, <2>2
<1>5. size > 0 => \A p \in 0 .. pages : ends[p] = AtMost(p * size, Len(all))
  BY DEF AtMost
<1>6. ASSUME NEW p \in 1 .. pages
      PROVE  /\ Paginate(all, p, size).rows = SubSeq(all, ends[p - 1] + 1, ends[p])
             /\ Slots(all, p, size) = SubSeq(numbers, ends[p - 1] + 1, ends[p])
  <2>1. CASE size <= 0
    <3>1. pages = 1 /\ Paginate(all, p, size) = [rows |-> all, page |-> 1, total |-> 1]
      BY <2>1 DEF Paginate
    <3>2. Slots(all, p, size) = numbers
      <4>1. Slots(all, p, size) = [k \in 1 .. Len(all) |-> (1 - 1) * AtLeast(size, 0) + k]
        BY <1>1, <3>1 DEF Slots
      <4>2. AtLeast(size, 0) = 0
        BY <2>1 DEF AtLeast
      <4> QED BY <1>1, <4>1, <4>2 DEF numbers
    <3> HIDE DEF pages
    <3>3. p = 1
      BY <3>1
    <3>4. ends[p - 1] = 0 /\ ends[p] = Len(all)
      BY <1>4, <3>1, <3>3
    <3> HIDE DEF numbers
    <3>5. SubSeq(all, 1, Len(all)) = all /\ SubSeq(numbers, 1, Len(all)) = numbers
      BY <1>2
    <3> HIDE DEF ends
    <3> QED BY <3>1, <3>2, <3>4, <3>5
  <2>2. CASE size > 0
    <3> DEFINE first == (p - 1) * size
               end == AtMost(p * size, Len(all))
    <3>1. size \in Nat \ {0}
      BY <2>2
    <3>2. /\ first \in Nat /\ end \in first .. Len(all)
          /\ Paginate(all, p, size).rows = SubSeq(all, first + 1, end)
          /\ Slots(all, p, size) = [k \in 1 .. (end - first) |-> first + k]
      <4> HIDE DEF ends
      <4> QED BY <3>1, PageIsCut
    <3> HIDE DEF ends, pages
    <3>3. ends[p] = end
      BY <2>2, <1>5
    <3>4. ends[p - 1] = first
      <4>1. p - 1 \in 0 .. pages
        BY <1>3
      <4>2. ends[p - 1] = AtMost(first, Len(all))
        BY <1>5, <2>2, <4>1
      <4>3. first \in Nat /\ first <= Len(all)
        <5> HIDE DEF first, end
        <5> QED BY <1>1, <3>2
      <4> HIDE DEF first
      <4>4. AtMost(first, Len(all)) = first
        <5>1. \A a, b \in Nat : a <= b => AtMost(a, b) = a
          BY DEF AtMost
        <5>2. Len(all) \in Nat
          BY <1>1
        <5> QED BY <4>3, <5>1, <5>2
      <4> HIDE DEF ends
      <4> QED BY <4>2, <4>4
    <3> HIDE DEF first, end
    <3>5. Slots(all, p, size) = SubSeq(numbers, first + 1, end)
      <4> DEFINE piece == SubSeq(numbers, first + 1, end)
      <4>1. \A k \in first + 1 .. end : numbers[k] = k /\ k \in Nat
        BY <1>1, <3>2
      <4> HIDE DEF numbers
      <4>2. /\ piece \in Seq(Nat) /\ Len(piece) = end - first
            /\ \A k \in 1 .. end - (first + 1) + 1 : piece[k] = numbers[(first + 1) + k - 1]
        <5>1. first + 1 \in Int /\ end \in Int
          BY <1>1, <3>2
        <5>2. \A k \in first + 1 .. end : numbers[k] \in Nat
          BY <4>1
        <5>3. /\ piece \in Seq(Nat) /\ Len(piece) = IF first + 1 <= end THEN end - (first + 1) + 1 ELSE 0
              /\ \A k \in 1 .. end - (first + 1) + 1 : piece[k] = numbers[(first + 1) + k - 1]
          BY <5>1, <5>2, SubSeqProperties
        <5>4. first <= end
          BY <1>1, <3>2
        <5> HIDE DEF piece
        <5> QED BY <3>2, <5>1, <5>3, <5>4
      <4>3. \A k \in 1 .. end - first : piece[k] = first + k
        <5> TAKE k \in 1 .. end - first
        <5>1. /\ (first + 1) + k - 1 = first + k /\ first + k \in first + 1 .. end
              /\ k \in 1 .. end - (first + 1) + 1
          BY <1>1, <3>2
        <5> QED BY <4>1, <4>2, <5>1
      <4> HIDE DEF piece
      <4>4. piece = [k \in 1 .. (end - first) |-> first + k]
        BY <4>2, <4>3
      <4> QED BY <3>2, <4>4 DEF piece
    <3> QED BY <3>2, <3>3, <3>4, <3>5
  <2> HIDE DEF ends, pages, numbers
  <2> QED BY <2>1, <2>2
<1> HIDE DEF ends
<1>7. /\ held \in Seq(Seq(S)) /\ Len(held) = pages
      /\ slots \in Seq(Seq(Nat)) /\ Len(slots) = pages
  <2>1. \A p \in 1 .. pages : Paginate(all, p, size).rows \in Seq(S) /\ Slots(all, p, size) \in Seq(Nat)
    <3> TAKE p \in 1 .. pages
    <3>1. ends[p - 1] \in 0 .. Len(all) /\ ends[p] \in 0 .. Len(all)
      BY <1>3, <1>4
    <3>2. SubSeq(all, ends[p - 1] + 1, ends[p]) \in Seq(S) /\ SubSeq(numbers, ends[p - 1] + 1, ends[p]) \in Seq(Nat)
      BY <1>1, <1>2, <3>1, SubSeqProperties
    <3> QED BY <1>6, <3>2
  <2>2. held \in [1 .. pages -> Seq(S)] /\ slots \in [1 .. pages -> Seq(Nat)]
    BY <2>1
  <2> HIDE DEF held, slots, pages
  <2>3. pages \in Nat
    BY <1>3
  <2> QED BY <2>2, <2>3, FunctionIsSequence
<1>8. \A p \in 1 .. pages : /\ held[p] = SubSeq(all, ends[p - 1] + 1, ends[p])
                            /\ slots[p] = SubSeq(numbers, ends[p - 1] + 1, ends[p])
  BY <1>6
<1> HIDE DEF held, slots, pages
<1>9. FlattenSeq(held) = all
  BY <1>3, <1>4, <1>7, <1>8, CutsFlatten
<1>10. FlattenSeq(slots) = numbers
  BY <1>2, <1>3, <1>4, <1>7, <1>8, CutsFlatten, ZenonT(40)
<1> QED BY <1>9, <1>10 DEF held, slots, pages, numbers

(* A page that is not there is the nearest that is.                        *)
LEMMA PageIsClamped ==
  ASSUME NEW S, NEW all \in Seq(S), NEW size \in Int, NEW page \in Int
  PROVE  LET pages == Paginate(all, 1, size).total
         IN  Paginate(all, page, size)
               = Paginate(all, IF page < 1 THEN 1 ELSE IF page > pages THEN pages ELSE page, size)
<1> DEFINE pages == Paginate(all, 1, size).total
           nearest == IF page < 1 THEN 1 ELSE IF page > pages THEN pages ELSE page
<1>1. CASE size <= 0
  BY <1>1 DEF Paginate
<1>2. CASE size > 0
  <2> DEFINE count == AtLeast(1, (Len(all) + size - 1) \div size)
  <2>1. pages = count
    BY <1>2 DEF Paginate
  <2> HIDE DEF pages
  <2>2. ASSUME NEW p, NEW q, AtLeast(1, AtMost(p, pages)) = AtLeast(1, AtMost(q, pages))
        PROVE  Paginate(all, p, size) = Paginate(all, q, size)
    <3> DEFINE at == AtLeast(1, AtMost(p, count))
    <3>1. at = AtLeast(1, AtMost(q, count))
      BY <2>1, <2>2
    <3>2. Paginate(all, p, size)
            = [rows |-> SubSeq(all, (at - 1) * size + 1, AtMost(at * size, Len(all))), page |-> at, total |-> count]
      <4>1. ~(size <= 0)
        BY <1>2
      <4> QED BY <4>1, Zenon DEF Paginate
    <3>3. ASSUME NEW a, a = AtLeast(1, AtMost(q, count))
          PROVE  Paginate(all, q, size)
            = [rows |-> SubSeq(all, (a - 1) * size + 1, AtMost(a * size, Len(all))), page |-> a, total |-> count]
      BY <1>2, <3>3 DEF Paginate
    <3> HIDE DEF at, count
    <3> QED BY <3>1, <3>2, <3>3
  <2>3. pages \in Nat \ {0}
    <3>1. size \in Nat \ {0} /\ Len(all) \in Nat
      BY <1>2
    <3> QED BY <2>1, <3>1, PagesAreEnough
  <2>4. AtLeast(1, AtMost(page, pages)) = AtLeast(1, AtMost(nearest, pages))
    BY <2>3 DEF AtLeast, AtMost
  <2> HIDE DEF nearest, count
  <2>5. Paginate(all, page, size) = Paginate(all, nearest, size)
    BY <2>2, <2>4
  <2> QED BY <2>5 DEF nearest, pages
<1> QED BY <1>1, <1>2

(* PagesShowEveryRow, of tables of any rows and columns and pages of any   *)
(* size: paging through shows what passes the filter, whole, once, in the  *)
(* order of the column and numbered through.                               *)
PageInputs(statuses, names, columns, texts) ==
  [kind : {"page"}, rows : Seq(RowsOf(statuses, names, columns)),
   sort : texts, status : texts, size : Int, page : Int]

THEOREM PagesShowTheTable ==
  ASSUME NEW statuses, NEW names, NEW columns, NEW texts,
         input \in PageInputs(statuses, names, columns, texts)
  PROVE  PagesShowEveryRow
<1> DEFINE rows == input.rows
           all == FilterAndSort(rows, input.sort, input.status, "", "")
           pages == Paginate(all, 1, input.size).total
           Value(i) == Column(rows[i].shows, input.sort)
<1>1. /\ rows \in Seq(RowsOf(statuses, names, columns))
      /\ input.size \in Int /\ input.page \in Int
  BY DEF PageInputs
<1>2. /\ all \in Seq(DOMAIN rows) /\ ToSet(all) = Passing(rows, input.status)
      /\ \A i \in DOMAIN rows : Value(i) \in Int
      /\ \A i, j \in DOMAIN all :
           i < j => Comes(Value(all[i]), Value(all[j]), all[i], all[j], input.sort)
  BY <1>1, TableIsSorted
<1>3. ASSUME NEW i \in DOMAIN all, NEW j \in DOMAIN all, i < j
      PROVE  IF input.sort \in Numeric THEN Value(all[i]) >= Value(all[j]) ELSE Value(all[i]) <= Value(all[j])
  <2> HIDE DEF all, Value, rows
  <2>1. all[i] \in DOMAIN rows /\ all[j] \in DOMAIN rows
    BY <1>2
  <2>2. Value(all[i]) \in Int /\ Value(all[j]) \in Int
    BY <1>2, <2>1
  <2>3. Comes(Value(all[i]), Value(all[j]), all[i], all[j], input.sort)
    BY <1>2, <1>3
  <2> QED BY <2>2, <2>3 DEF Comes
<1> HIDE DEF all
<1>4. /\ FlattenSeq([page \in 1 .. pages |-> Paginate(all, page, input.size).rows]) = all
      /\ FlattenSeq([page \in 1 .. pages |-> Slots(all, page, input.size)]) = [i \in DOMAIN all |-> i]
  BY <1>1, <1>2, PagesFlatten
<1>5. Paginate(all, input.page, input.size)
        = Paginate(all, IF input.page < 1 THEN 1 ELSE IF input.page > pages THEN pages ELSE input.page, input.size)
  BY <1>1, <1>2, PageIsClamped
<1>6. ToSet(all) = {i \in DOMAIN rows : input.status \in {"all", rows[i].status}}
  BY <1>2 DEF Passing
<1> QED BY <1>3, <1>4, <1>5, <1>6 DEF PagesShowEveryRow, all

----------------------------------------------------------------------------
(* The command line that LiveKit's program gets.                           *)

(* An option that OpenRTC takes, with its value, or a path; and what a     *)
(* user may hand through: words and options that are none of OpenRTC's, or *)
(* "--" and anything.                                                      *)
OpenRtcItem(Toks, item) ==
  /\ item.of = "openrtc" /\ item.tokens \in Seq(Toks)
  /\ \/ Len(item.tokens) = 1 /\ item.tokens[1].name \in {Word} \cup BoolFlags
     \/ Len(item.tokens) = 1 /\ item.tokens[1].name \in ValuedFlags /\ item.tokens[1].attached
     \/ Len(item.tokens) = 2 /\ item.tokens[1].name \in ValuedFlags /\ ~item.tokens[1].attached

LiveKitItem(Toks, item) ==
  /\ item.of = "livekit" /\ item.tokens \in Seq(Toks) /\ Len(item.tokens) > 0 /\ ~Leading(item)
  /\ \/ Closing(item)
     \/ \A i \in DOMAIN item.tokens : item.tokens[i].name \notin BoolFlags \cup ValuedFlags \cup {EndOfOptions}

Item(Toks, item) == OpenRtcItem(Toks, item) \/ LiveKitItem(Toks, item)

Lefts(Toks) == [out : Seq(Toks), at : {"option", "value", "end"}]
Start == [out |-> <<>>, at |-> "option"]

LEMMA StripTokenType ==
  ASSUME NEW Toks, NEW left \in Lefts(Toks), NEW token \in Toks
  PROVE  StripToken(left, token) \in Lefts(Toks)
<1>1. Append(left.out, token) \in Seq(Toks)
  BY DEF Lefts
<1>2. \A seq \in Seq(Toks) : [left EXCEPT !.out = seq] \in Lefts(Toks)
  BY DEF Lefts
<1>3. \A l \in Lefts(Toks), at \in {"option", "value", "end"} : [l EXCEPT !.at = at] \in Lefts(Toks)
  BY DEF Lefts
<1>4. StripToken(left, token) \in {left, [left EXCEPT !.out = Append(left.out, token)]}
        \cup {[left EXCEPT !.at = at] : at \in {"option", "value"}}
        \cup {[[left EXCEPT !.out = Append(left.out, token)] EXCEPT !.at = "end"]}
  BY DEF StripToken
<1> QED BY <1>1, <1>2, <1>3, <1>4

(* The line is read token by token.                                        *)
LEMMA StripSteps ==
  ASSUME NEW Toks, NEW line \in Seq(Toks)
  PROVE  \E left \in [0 .. Len(line) -> Lefts(Toks)] :
           /\ left[0] = Start
           /\ \A i \in 1 .. Len(line) : left[i] = StripToken(left[i - 1], line[i])
           /\ Strip(line) = left[Len(line)].out
<1> DEFINE N == Len(line)
           step == [n \in 1 .. N |-> [l \in Lefts(Toks) |-> StripToken(l, line[n])]]
           IsLeft(f) == f = [i \in 0 .. N |-> IF i = 0 THEN [out |-> <<>>, at |-> "option"] ELSE StripToken(f[i - 1], line[i])]
           left == CHOOSE f : IsLeft(f)
<1>1. N \in Nat /\ \A n \in 1 .. N : line[n] \in Toks
  OBVIOUS
<1>2. Start \in Lefts(Toks)
  BY DEF Start, Lefts
<1>3. step \in [1 .. N -> [Lefts(Toks) -> Lefts(Toks)]] /\ \A n \in 1 .. N, l \in Lefts(Toks) : step[n][l] = StripToken(l, line[n])
  <2>1. \A n \in 1 .. N, l \in Lefts(Toks) : StripToken(l, line[n]) \in Lefts(Toks)
    BY <1>1, StripTokenType
  <2> HIDE DEF N
  <2> QED BY <2>1
<1> HIDE DEF step, N
<1>4. PICK g : Recursion(g, N, Lefts(Toks), Start, step)
  BY <1>1, <1>2, <1>3, RecursionUpTo
<1>5. /\ g \in [0 .. N -> Lefts(Toks)] /\ g[0] = Start
      /\ \A n \in 1 .. N : g[n] = StripToken(g[n - 1], line[n])
  <2>1. g \in [0 .. N -> Lefts(Toks)] /\ g[0] = Start /\ \A n \in 1 .. N : g[n] = step[n][g[n - 1]]
    BY <1>4 DEF Recursion
  <2>2. ASSUME NEW n \in 1 .. N PROVE g[n] = StripToken(g[n - 1], line[n])
    <3>1. n - 1 \in 0 .. N
      BY <1>1
    <3> QED BY <1>3, <2>1, <3>1
  <2> QED BY <2>1, <2>2
<1>6. IsLeft(g)
  <2>1. ASSUME NEW i \in 0 .. N
        PROVE  g[i] = IF i = 0 THEN [out |-> <<>>, at |-> "option"] ELSE StripToken(g[i - 1], line[i])
    <3>1. i # 0 => i \in 1 .. N
      BY <1>1
    <3> QED BY <1>5, <3>1 DEF Start
  <2>2. g = [i \in 0 .. N |-> g[i]]
    BY <1>5
  <2> QED BY <2>1, <2>2
<1>7. Strip(line) = left[N].out
  BY DEF Strip, N
<1>8. IsLeft(left)
  <2> HIDE DEF IsLeft
  <2> QED BY <1>6
<1> HIDE DEF left
<1>9. left[0] = Start /\ \A i \in 1 .. N : left[i] = StripToken(left[i - 1], line[i])
  BY <1>1, <1>8 DEF Start
<1>10. \A n \in Nat : n <= N => left[n] = g[n]
  <2> DEFINE S == {n \in Nat : n <= N => left[n] = g[n]}
  <2>1. 0 \in S
    BY <1>5, <1>9
  <2>2. ASSUME NEW n \in Nat, n \in S PROVE n + 1 \in S
    <3> SUFFICES ASSUME n + 1 <= N PROVE left[n + 1] = g[n + 1]
      OBVIOUS
    <3>1. left[n] = g[n] /\ n + 1 \in 1 .. N /\ (n + 1) - 1 = n
      BY <1>1, <2>2
    <3> QED BY <1>5, <1>9, <3>1
  <2> HIDE DEF S
  <2>3. \A n \in Nat : n \in S
    BY <2>1, <2>2, InductionOnNat
  <2> QED BY <2>3 DEF S
<1>11. Strip(line) = g[N].out
  BY <1>1, <1>7, <1>10
<1> QED BY <1>5, <1>11 DEF N

(* One token at a time, from each place in the line.                       *)
LEMMA StripTokenIs ==
  ASSUME NEW out, NEW token
  PROVE  /\ StripToken([out |-> out, at |-> "end"], token) = [out |-> Append(out, token), at |-> "end"]
         /\ StripToken([out |-> out, at |-> "value"], token) = [out |-> out, at |-> "option"]
         /\ token.name = EndOfOptions =>
              StripToken([out |-> out, at |-> "option"], token) = [out |-> Append(out, token), at |-> "end"]
         /\ token.name \in BoolFlags \/ (token.name \in ValuedFlags /\ token.attached) =>
              StripToken([out |-> out, at |-> "option"], token) = [out |-> out, at |-> "option"]
         /\ token.name \in ValuedFlags /\ ~token.attached =>
              StripToken([out |-> out, at |-> "option"], token) = [out |-> out, at |-> "value"]
         /\ token.name \notin BoolFlags \cup ValuedFlags \cup {EndOfOptions} =>
              StripToken([out |-> out, at |-> "option"], token) = [out |-> Append(out, token), at |-> "option"]
<1> DEFINE kept == Append(out, token)
<1>1. \A at : [[out |-> out, at |-> at] EXCEPT !.out = Append(@, token)] = [out |-> kept, at |-> at]
  OBVIOUS
<1>2. /\ \A at : [[out |-> out, at |-> "option"] EXCEPT !.at = at] = [out |-> out, at |-> at]
      /\ [[out |-> out, at |-> "value"] EXCEPT !.at = "option"] = [out |-> out, at |-> "option"]
      /\ [[out |-> kept, at |-> "option"] EXCEPT !.at = "end"] = [out |-> kept, at |-> "end"]
  OBVIOUS
<1>3. /\ \A name \in BoolFlags : name # EndOfOptions /\ name \notin ValuedFlags
      /\ \A name \in ValuedFlags : name # EndOfOptions
  BY SMTT(30) DEF BoolFlags, ValuedFlags, EndOfOptions
<1> HIDE DEF kept
<1>4. StripToken([out |-> out, at |-> "end"], token) = [out |-> kept, at |-> "end"]
  BY <1>1 DEF StripToken
<1>5. StripToken([out |-> out, at |-> "value"], token) = [out |-> out, at |-> "option"]
  BY <1>2 DEF StripToken
<1>6. token.name = EndOfOptions => StripToken([out |-> out, at |-> "option"], token) = [out |-> kept, at |-> "end"]
  <2> SUFFICES ASSUME token.name = EndOfOptions
               PROVE  StripToken([out |-> out, at |-> "option"], token) = [out |-> kept, at |-> "end"]
    OBVIOUS
  <2>1. \A l : l.at = "option" => StripToken(l, token) = [[l EXCEPT !.out = Append(@, token)] EXCEPT !.at = "end"]
    BY <1>3 DEF StripToken
  <2> DEFINE l == [out |-> out, at |-> "option"]
  <2>2. l.at = "option" /\ [l EXCEPT !.out = Append(@, token)] = [out |-> kept, at |-> "option"]
    BY <1>1
  <2> HIDE DEF l
  <2>3. StripToken(l, token) = [[out |-> kept, at |-> "option"] EXCEPT !.at = "end"]
    BY <2>1, <2>2
  <2> QED BY <1>2, <2>3 DEF l
<1>7. token.name \in BoolFlags \/ (token.name \in ValuedFlags /\ token.attached) =>
        StripToken([out |-> out, at |-> "option"], token) = [out |-> out, at |-> "option"]
  BY <1>3 DEF StripToken
<1>8. token.name \in ValuedFlags /\ ~token.attached =>
        StripToken([out |-> out, at |-> "option"], token) = [out |-> out, at |-> "value"]
  BY <1>2, <1>3 DEF StripToken
<1>9. token.name \notin BoolFlags \cup ValuedFlags \cup {EndOfOptions} =>
        StripToken([out |-> out, at |-> "option"], token) = [out |-> kept, at |-> "option"]
  BY <1>1 DEF StripToken
<1> QED BY <1>4, <1>5, <1>6, <1>7, <1>8, <1>9 DEF kept

(* What is read of one item: OpenRTC's leaves nothing behind, what is      *)
(* LiveKit's stays whole.                                                  *)
AfterItem(item) == IF Closing(item) /\ item.of = "livekit" THEN "end" ELSE "option"

LEMMA StripItem ==
  ASSUME NEW Toks, NEW item, Item(Toks, item), ~Leading(item), NEW st, NEW out \in Seq(Toks),
         st[0] = [out |-> out, at |-> "option"],
         \A j \in 1 .. Len(item.tokens) : st[j] = StripToken(st[j - 1], item.tokens[j])
  PROVE  st[Len(item.tokens)] = [out |-> out \o PassedOn(item), at |-> AfterItem(item)]
<1> DEFINE tokens == item.tokens
           n == Len(tokens)
<1>1. tokens \in Seq(Toks) /\ n \in Nat \ {0} /\ DOMAIN tokens = 1 .. n
  BY DEF Item, OpenRtcItem, LiveKitItem
<1>2. CASE OpenRtcItem(Toks, item)
  <2> DEFINE first == tokens[1]
  <2>1. /\ item.of = "openrtc" /\ st[1] = StripToken([out |-> out, at |-> "option"], first)
        /\ n = 2 => st[2] = StripToken(st[1], tokens[2])
    BY <1>1, <1>2 DEF OpenRtcItem
  <2>2. out \o PassedOn(item) = out /\ AfterItem(item) = "option"
    <3>1. PassedOn(item) = <<>> /\ AfterItem(item) = "option"
      BY <2>1 DEF PassedOn, AfterItem, LiveKitItem
    <3> QED BY <3>1
  <2>3. \/ n = 1 /\ first.name \in BoolFlags
        \/ n = 1 /\ first.name \in ValuedFlags /\ first.attached
        \/ n = 2 /\ first.name \in ValuedFlags /\ ~first.attached
    BY <1>2 DEF OpenRtcItem, Leading, LooksLikeFlag
  <2> HIDE DEF first, n, tokens
  <2>4. first.name \in BoolFlags \cup ValuedFlags => first.name # EndOfOptions
    BY DEF BoolFlags, ValuedFlags, EndOfOptions
  <2>5. CASE n = 1
    <3>1. st[1] = [out |-> out, at |-> "option"]
      <4>1. first.name \in BoolFlags \/ (first.name \in ValuedFlags /\ first.attached)
        BY <2>3, <2>5
      <4>2. StripToken([out |-> out, at |-> "option"], first) = [out |-> out, at |-> "option"]
        BY <4>1, StripTokenIs
      <4> QED BY <2>1, <4>2
    <3> QED BY <2>2, <2>5, <3>1 DEF n, tokens
  <2>6. CASE n = 2
    <3>2. st[1] = [out |-> out, at |-> "value"]
      <4>1. first.name \in ValuedFlags /\ ~first.attached
        BY <2>3, <2>6
      <4>2. StripToken([out |-> out, at |-> "option"], first) = [out |-> out, at |-> "value"]
        BY <4>1, StripTokenIs
      <4> QED BY <2>1, <4>2
    <3>3. st[2] = [out |-> out, at |-> "option"]
      <4>1. StripToken([out |-> out, at |-> "value"], tokens[2]) = [out |-> out, at |-> "option"]
        BY StripTokenIs
      <4> QED BY <2>1, <2>6, <3>2, <4>1
    <3> QED BY <2>2, <2>6, <3>3 DEF n, tokens
  <2> QED BY <2>3, <2>5, <2>6
<1>3. CASE LiveKitItem(Toks, item)
  <2> DEFINE upTo(j) == out \o SubSeq(tokens, 1, j)
             at(j) == IF j = 0 THEN "option" ELSE AfterItem(item)
             S == {j \in Nat : j <= n => st[j] = [out |-> upTo(j), at |-> at(j)]}
  <2>1. 0 \in S
    <3>1. SubSeq(tokens, 1, 0) = <<>>
      BY <1>1
    <3>2. upTo(0) = out
      BY <3>1
    <3> QED BY <3>2
  <2>2. ASSUME NEW j \in Nat, j \in S PROVE j + 1 \in S
    <3> SUFFICES ASSUME j + 1 <= n PROVE st[j + 1] = [out |-> upTo(j + 1), at |-> at(j + 1)]
      OBVIOUS
    <3> DEFINE token == tokens[j + 1]
               before == [out |-> upTo(j), at |-> at(j)]
    <3>1. j + 1 \in 1 .. n /\ (j + 1) - 1 = j /\ j <= n /\ st[j] = before
      BY <1>1, <2>2
    <3>2. st[j + 1] = StripToken(before, token)
      BY <3>1
    <3>3. Append(upTo(j), token) = upTo(j + 1)
      <4> DEFINE some == SubSeq(tokens, 1, j)
      <4>1. SubSeq(tokens, 1, j + 1) = some \o <<token>>
        <5>1. 1 \in 1 .. n /\ j + 1 \in 1 .. Len(tokens) /\ (j + 1) - 1 = j
          BY <1>1, <3>1
        <5> QED BY <1>1, <5>1, SubSeqRecursiveSecond
      <4>2. some \in Seq(Toks) /\ token \in Toks
        BY <1>1, <3>1
      <4> HIDE DEF token, some
      <4>3. <<token>> \in Seq(Toks) /\ out \o some \in Seq(Toks)
        BY <4>2
      <4>4. out \o (some \o <<token>>) = (out \o some) \o <<token>>
        BY <4>2, <4>3, ConcatAssociative
      <4>5. (out \o some) \o <<token>> = Append(out \o some, token)
        BY <4>2, <4>3, AppendIsConcat
      <4> QED BY <4>1, <4>4, <4>5 DEF some
    <3>4. \/ j = 0 /\ Closing(item) /\ token.name = EndOfOptions
          \/ j > 0 /\ Closing(item)
          \/ ~Closing(item) /\ token.name \notin BoolFlags \cup ValuedFlags \cup {EndOfOptions}
      <4>1. Closing(item) => tokens[1].name = EndOfOptions
        BY DEF Closing
      <4>2. ~Closing(item) => token.name \notin BoolFlags \cup ValuedFlags \cup {EndOfOptions}
        BY <1>1, <1>3, <3>1 DEF LiveKitItem
      <4> QED BY <4>1, <4>2
    <3>5. AfterItem(item) = IF Closing(item) THEN "end" ELSE "option"
      BY <1>3 DEF AfterItem, LiveKitItem
    <3>6. StripToken(before, token) = [out |-> Append(upTo(j), token), at |-> AfterItem(item)]
      <4> DEFINE so == upTo(j)
      <4> HIDE DEF token, so
      <4>1. CASE j = 0
        <5>1. before = [out |-> so, at |-> "option"]
          BY <4>1 DEF so
        <5>2. CASE Closing(item)
          <6>1. token.name = EndOfOptions
            BY <3>4, <4>1, <5>2
          <6>2. StripToken([out |-> so, at |-> "option"], token) = [out |-> Append(so, token), at |-> "end"]
            BY <6>1, StripTokenIs
          <6> QED BY <3>5, <5>1, <5>2, <6>2 DEF so
        <5>3. CASE ~Closing(item)
          <6>1. token.name \notin BoolFlags \cup ValuedFlags \cup {EndOfOptions}
            BY <3>4, <5>3
          <6>2. StripToken([out |-> so, at |-> "option"], token) = [out |-> Append(so, token), at |-> "option"]
            BY <6>1, StripTokenIs
          <6> QED BY <3>5, <5>1, <5>3, <6>2 DEF so
        <5> QED BY <5>2, <5>3
      <4>2. CASE j > 0 /\ Closing(item)
        <5>1. before = [out |-> so, at |-> "end"]
          <6>1. j # 0
            BY <4>2
          <6> QED BY <3>5, <4>2, <6>1 DEF so
        <5>2. StripToken([out |-> so, at |-> "end"], token) = [out |-> Append(so, token), at |-> "end"]
          BY StripTokenIs
        <5> QED BY <3>5, <4>2, <5>1, <5>2 DEF so
      <4>3. CASE j > 0 /\ ~Closing(item)
        <5>1. before = [out |-> so, at |-> "option"]
          BY <3>5, <4>3 DEF so
        <5>2. token.name \notin BoolFlags \cup ValuedFlags \cup {EndOfOptions}
          BY <3>4, <4>3
        <5>3. StripToken([out |-> so, at |-> "option"], token) = [out |-> Append(so, token), at |-> "option"]
          BY <5>2, StripTokenIs
        <5> QED BY <3>5, <4>3, <5>1, <5>3 DEF so
      <4> QED BY <4>1, <4>2, <4>3
    <3>7. at(j + 1) = AfterItem(item)
      OBVIOUS
    <3> HIDE DEF upTo, before, at
    <3> QED BY <3>2, <3>3, <3>6, <3>7
  <2> HIDE DEF S
  <2>3. n \in S
    BY <1>1, <2>1, <2>2, InductionOnNat
  <2>4. upTo(n) = out \o PassedOn(item)
    <3>1. PassedOn(item) = tokens
      BY <1>3 DEF PassedOn, LiveKitItem
    <3>2. SubSeq(tokens, 1, n) = tokens
      BY <1>1
    <3> QED BY <3>1, <3>2
  <2>5. at(n) = AfterItem(item) /\ st[n] = [out |-> upTo(n), at |-> at(n)]
    <3>1. n # 0 /\ n <= n
      BY <1>1
    <3> HIDE DEF upTo, n
    <3> QED BY <2>3, <3>1 DEF S
  <2> QED BY <2>4, <2>5
<1> QED BY <1>2, <1>3 DEF Item

(* The line without OpenRTC's items.                                       *)
LEMMA StripItems ==
  ASSUME NEW Toks, NEW N \in Nat, NEW items, DOMAIN items = 1 .. N,
         \A i \in 1 .. N : Item(Toks, items[i]) /\ ~Leading(items[i]) /\ (Closing(items[i]) => i = N)
  PROVE  Strip(Flatten(items)) = FlattenSeq([i \in 1 .. N |-> PassedOn(items[i])])
<1> DEFINE toks == [i \in 1 .. N |-> items[i].tokens]
           pass == [i \in 1 .. N |-> PassedOn(items[i])]
           line == FlattenSeq(toks)
<1>1. \A i \in 1 .. N : items[i].tokens \in Seq(Toks) /\ PassedOn(items[i]) \in Seq(Toks)
  BY DEF Item, OpenRtcItem, LiveKitItem, PassedOn
<1>2. toks \in Seq(Seq(Toks)) /\ Len(toks) = N /\ pass \in Seq(Seq(Toks)) /\ Len(pass) = N
  <2>1. toks \in [1 .. N -> Seq(Toks)] /\ pass \in [1 .. N -> Seq(Toks)]
    BY <1>1
  <2> HIDE DEF toks, pass
  <2> QED BY <2>1, FunctionIsSequence
<1>3. Flatten(items) = line
  BY DEF Flatten
<1>4. CASE N = 0
  <2>1. toks = <<>> /\ pass = <<>>
    BY <1>2, <1>4, EmptySeq
  <2>2. FlattenSeq(<<>>) = <<>>
    BY DEF FlattenSeq
  <2>3. line = <<>> /\ FlattenSeq(pass) = <<>>
    BY <2>1, <2>2
  <2>4. <<>> \in Seq(Toks) /\ Len(<<>>) = 0
    OBVIOUS
  <2>5. Strip(<<>>) = Start.out
    BY <2>4, StripSteps
  <2>6. Start.out = <<>>
    BY DEF Start
  <2> HIDE DEF line, pass
  <2> QED BY <1>3, <2>3, <2>5, <2>6 DEF pass
<1>5. CASE N > 0
  <2>1. toks[1] = toks[1] /\ \A i \in 1 .. N : toks[i] = items[i].tokens /\ pass[i] = PassedOn(items[i])
    OBVIOUS
  <2> HIDE DEF toks, pass
  <2>2. PICK flat : Flattens(flat, toks) /\ line = flat[N]
    <3>1. toks \in Seq(Seq(Toks)) /\ Len(toks) # 0 /\ Len(toks) = N
      BY <1>2, <1>5
    <3>2. PICK f : /\ f[0] = <<>> /\ \A i \in 1 .. Len(toks) : f[i] = f[i - 1] \o toks[i]
                   /\ FlattenSeq(toks) = f[Len(toks)]
      BY <3>1, FlattenSteps
    <3>3. Flattens(f, toks) /\ line = f[N]
      BY <3>1, <3>2 DEF Flattens
    <3> QED BY <3>3
  <2>3. PICK kept : Flattens(kept, pass) /\ FlattenSeq(pass) = kept[N]
    <3>1. pass \in Seq(Seq(Toks)) /\ Len(pass) # 0 /\ Len(pass) = N
      BY <1>2, <1>5
    <3>2. PICK f : /\ f[0] = <<>> /\ \A i \in 1 .. Len(pass) : f[i] = f[i - 1] \o pass[i]
                   /\ FlattenSeq(pass) = f[Len(pass)]
      BY <3>1, FlattenSteps
    <3>3. Flattens(f, pass) /\ FlattenSeq(pass) = f[N]
      BY <3>1, <3>2 DEF Flattens
    <3> QED BY <3>3
  <2>4. line \in Seq(Toks)
    <3>1. N \in 0 .. Len(toks) /\ N \in 0 .. N
      BY <1>2
    <3>2. Grown(Toks, flat, N, N)
      BY <1>2, <2>2, <3>1, FlatGrows
    <3> QED BY <2>2, <3>2 DEF Grown
  <2> HIDE DEF line
  <2>5. PICK left \in [0 .. Len(line) -> Lefts(Toks)] :
          /\ left[0] = Start
          /\ \A i \in 1 .. Len(line) : left[i] = StripToken(left[i - 1], line[i])
          /\ Strip(line) = left[Len(line)].out
    BY <2>4, StripSteps
  <2> DEFINE at(k) == IF k = 0 THEN "option" ELSE AfterItem(items[k])
             S == {k \in Nat : k <= N => left[Len(flat[k])] = [out |-> kept[k], at |-> at(k)]}
  <2>6. 0 \in S
    <3>1. flat[0] = <<>> /\ kept[0] = <<>>
      BY <2>2, <2>3 DEF Flattens
    <3>2. Len(flat[0]) = 0
      BY <3>1
    <3> QED BY <2>5, <3>1, <3>2 DEF Start
  <2>7. ASSUME NEW k \in Nat, k \in S PROVE k + 1 \in S
    <3> SUFFICES ASSUME k + 1 <= N PROVE left[Len(flat[k + 1])] = [out |-> kept[k + 1], at |-> at(k + 1)]
      OBVIOUS
    <3> DEFINE item == items[k + 1]
               n == Len(item.tokens)
               f == Len(flat[k])
               st == [j \in 0 .. n |-> left[f + j]]
    <3>1. /\ k + 1 \in 1 .. N /\ (k + 1) - 1 = k /\ k \in 0 .. N /\ k \in 0 .. k + 1 /\ k + 1 \in 0 .. N /\ k + 1 \in 0 .. k + 1
      OBVIOUS
    <3>2. Item(Toks, item) /\ ~Leading(item) /\ item.tokens \in Seq(Toks) /\ n \in Nat
      BY <1>1, <3>1
    <3>3. left[f] = [out |-> kept[k], at |-> "option"]
      <4>1. k # 0 => k \in 1 .. N /\ ~Closing(items[k])
        BY <3>1
      <4>2. at(k) = "option"
        BY <4>1 DEF AfterItem
      <4> HIDE DEF at
      <4> QED BY <2>7, <3>1, <4>2
    <3>4. flat[k + 1] = flat[k] \o item.tokens /\ kept[k + 1] = kept[k] \o PassedOn(item)
      BY <1>2, <2>1, <2>2, <2>3, <3>1 DEF Flattens
    <3>5. /\ flat[k] \in Seq(Toks) /\ flat[k + 1] \in Seq(Toks) /\ kept[k] \in Seq(Toks)
          /\ Len(flat[k + 1]) <= Len(line) /\ \A p \in 1 .. Len(flat[k + 1]) : line[p] = flat[k + 1][p]
      <4>1. N \in 0 .. Len(toks) /\ k \in 0 .. Len(pass) /\ k \in 0 .. N /\ k \in 0 .. k /\ k + 1 \in 0 .. N
        BY <1>2, <3>1
      <4>2. Grown(Toks, flat, N, k) /\ Grown(Toks, flat, N, k + 1)
        BY <1>2, <2>2, <4>1, FlatGrows
      <4>3. Grown(Toks, kept, k, k)
        BY <1>2, <2>3, <4>1, FlatGrows
      <4> QED BY <2>2, <4>2, <4>3 DEF Grown
    <3>6. /\ f \in Nat /\ Len(flat[k + 1]) = f + n
          /\ \A j \in 1 .. n : f + j \in 1 .. Len(line) /\ line[f + j] = item.tokens[j]
      <4>1. f \in Nat /\ Len(line) \in Nat
        BY <2>4, <3>5
      <4>2. Len(flat[k + 1]) = f + n
        BY <3>2, <3>4, <3>5
      <4>3. ASSUME NEW j \in 1 .. n PROVE f + j \in 1 .. Len(line) /\ line[f + j] = item.tokens[j]
        <5> HIDE DEF n, f
        <5>1. f + j \in 1 .. f + n /\ ~(f + j <= f) /\ (f + j) - f = j
          BY <3>2, <4>1
        <5>2. flat[k + 1][f + j] = item.tokens[j]
          BY <3>2, <3>4, <3>5, <5>1, ConcatProperties DEF n, f
        <5> QED BY <3>2, <3>5, <4>1, <4>2, <5>1, <5>2
      <4> QED BY <4>1, <4>2, <4>3
    <3> HIDE DEF f, n
    <3>7. /\ st[0] = [out |-> kept[k], at |-> "option"]
          /\ \A j \in 1 .. n : st[j] = StripToken(st[j - 1], item.tokens[j])
      <4>1. st[0] = left[f]
        BY <3>2, <3>6
      <4>2. ASSUME NEW j \in 1 .. n PROVE st[j] = StripToken(st[j - 1], item.tokens[j])
        <5>1. st[j] = left[f + j] /\ st[j - 1] = left[(f + j) - 1]
          <6>1. j - 1 \in 0 .. n /\ j \in 0 .. n /\ f + (j - 1) = (f + j) - 1
            BY <3>2, <3>6
          <6> QED BY <6>1
        <5> DEFINE m == f + j
        <5>2. m \in 1 .. Len(line) /\ line[m] = item.tokens[j]
          BY <3>6
        <5> HIDE DEF m, st, item
        <5>3. left[m] = StripToken(left[m - 1], line[m])
          BY <2>5, <5>2
        <5> QED BY <5>1, <5>2, <5>3 DEF m
      <4> QED BY <3>3, <4>1, <4>2
    <3> HIDE DEF item
    <3>8. st[n] = [out |-> kept[k] \o PassedOn(item), at |-> AfterItem(item)]
      <4> HIDE DEF st
      <4> QED BY <3>2, <3>5, <3>7, StripItem, ZenonT(60) DEF n
    <3>9. st[n] = left[f + n]
      BY <3>2
    <3>10. at(k + 1) = AfterItem(item)
      BY DEF item
    <3> HIDE DEF st, at
    <3> QED BY <3>4, <3>6, <3>8, <3>9, <3>10
  <2> HIDE DEF S
  <2>8. N \in S
    BY <2>6, <2>7, InductionOnNat
  <2>9. left[Len(line)].out = kept[N]
    BY <2>2, <2>8 DEF S
  <2> QED BY <1>3, <2>3, <2>5, <2>9 DEF pass
<1> QED BY <1>4, <1>5

----------------------------------------------------------------------------
(* The leading paths.                                                      *)

(* Inject, case by case.                                                   *)
LEMMA InjectIs ==
  ASSUME NEW Toks, NEW command \in WorkerCommands \cup PathCommands, NEW line \in Seq(Toks)
  PROVE  /\ line = <<>> \/ LooksLikeFlag(line[1]) => Inject(command, line) = line
         /\ line # <<>> /\ ~LooksLikeFlag(line[1]) /\ ~Mentions(line, "--agents-dir") =>
              /\ Len(line) <= 1 \/ LooksLikeFlag(line[2]) =>
                   Inject(command, line) = <<Token("--agents-dir"), line[1]>> \o Tail(line)
              /\ command \in WorkerCommands /\ Len(line) > 1 /\ ~LooksLikeFlag(line[2]) /\ ~Mentions(line, "--metrics-jsonl") =>
                   Inject(command, line) = (<<Token("--agents-dir"), line[1]>> \o <<Token("--metrics-jsonl"), line[2]>>)
                                             \o SubSeq(line, 3, Len(line))
<1>1. line = <<>> \/ LooksLikeFlag(line[1]) => Inject(command, line) = line
  BY DEF Inject
<1>2. ASSUME line # <<>>, ~LooksLikeFlag(line[1]), ~Mentions(line, "--agents-dir"), Len(line) <= 1 \/ LooksLikeFlag(line[2])
      PROVE  Inject(command, line) = <<Token("--agents-dir"), line[1]>> \o Tail(line)
  <2>1. ~(Len(line) > 1 /\ ~LooksLikeFlag(line[2]))
    BY <1>2
  <2> QED BY <1>2, <2>1 DEF Inject
<1>3. ASSUME line # <<>>, ~LooksLikeFlag(line[1]), ~Mentions(line, "--agents-dir"),
             command \in WorkerCommands, Len(line) > 1, ~LooksLikeFlag(line[2]), ~Mentions(line, "--metrics-jsonl")
      PROVE  Inject(command, line) = (<<Token("--agents-dir"), line[1]>> \o <<Token("--metrics-jsonl"), line[2]>>)
                                       \o SubSeq(line, 3, Len(line))
  BY <1>3 DEF Inject
<1> QED BY <1>1, <1>2, <1>3

(* The options that the leading paths become.                              *)
PathOptions == {Token("--agents-dir"), Token("--metrics-jsonl")}

(* What the paths are rewritten to is an item each as well.                *)
Rewritten(items) ==
  [i \in DOMAIN items |->
     IF Leading(items[i])
     THEN [of |-> "openrtc", tokens |-> <<Token(IF i = 1 THEN "--agents-dir" ELSE "--metrics-jsonl"), items[i].tokens[1]>>]
     ELSE items[i]]

LEMMA RewrittenItems ==
  ASSUME NEW Toks, PathOptions \subseteq Toks, NEW items, NEW i \in DOMAIN items, Item(Toks, items[i])
  PROVE  LET item == Rewritten(items)[i]
         IN  /\ Item(Toks, item) /\ ~Leading(item) /\ (Closing(item) <=> Closing(items[i]))
             /\ PassedOn(item) = PassedOn(items[i])
<1> DEFINE item == Rewritten(items)[i]
           word == items[i].tokens[1]
           name == IF i = 1 THEN "--agents-dir" ELSE "--metrics-jsonl"
<1>1. CASE Leading(items[i])
  <2>1. item = [of |-> "openrtc", tokens |-> <<Token(name), word>>]
    BY <1>1 DEF Rewritten
  <2>2. word \in Toks /\ word.name = Word /\ OpenRtcItem(Toks, items[i])
    BY <1>1 DEF Leading, LooksLikeFlag, Item, OpenRtcItem, LiveKitItem
  <2>3. name \in ValuedFlags /\ name \notin {Word, EndOfOptions} /\ Token(name) \in PathOptions
    <3>1. "--agents-dir" \in ValuedFlags /\ "--metrics-jsonl" \in ValuedFlags
      BY DEF ValuedFlags
    <3>2. Word \notin ValuedFlags /\ EndOfOptions \notin ValuedFlags
      BY DEF ValuedFlags, Word, EndOfOptions
    <3>3. name = "--agents-dir" \/ name = "--metrics-jsonl"
      OBVIOUS
    <3> HIDE DEF name
    <3> QED BY <3>1, <3>2, <3>3 DEF PathOptions
  <2> HIDE DEF name, word
  <2>4. Token(name) \in Toks /\ Token(name).name = name /\ Token(name).attached = FALSE
    BY <2>3 DEF Token
  <2>5. /\ item.of = "openrtc" /\ item.tokens = <<Token(name), word>>
        /\ <<Token(name), word>> \in Seq(Toks)
    BY <2>1, <2>2, <2>4
  <2> HIDE DEF item
  <2>6. item.tokens \in Seq(Toks) /\ Len(item.tokens) = 2 /\ item.tokens[1] = Token(name)
    BY <2>5
  <2>7. Item(Toks, item)
    BY <2>3, <2>4, <2>5, <2>6 DEF Item, OpenRtcItem
  <2>8. ~Leading(item) /\ ~Closing(item)
    BY <2>3, <2>4, <2>6 DEF Leading, Closing, LooksLikeFlag
  <2>9. ~Closing(items[i])
    BY <2>2 DEF Closing, Word, EndOfOptions, word
  <2>10. PassedOn(item) = <<>> /\ PassedOn(items[i]) = <<>>
    BY <2>2, <2>5 DEF PassedOn, OpenRtcItem
  <2> QED BY <2>7, <2>8, <2>9, <2>10 DEF item
<1>2. CASE ~Leading(items[i])
  BY <1>2 DEF Rewritten
<1> QED BY <1>1, <1>2

(* The paths become options, and the rest of the line stays.               *)
LEMMA InjectItems ==
  ASSUME NEW Toks, PathOptions \subseteq Toks, NEW command \in WorkerCommands \cup PathCommands, NEW T, NEW items \in Seq(T),
         \A i \in DOMAIN items : Item(Toks, items[i]), WellFormed(command, items)
  PROVE  Inject(command, Flatten(items)) = Flatten(Rewritten(items))
<1> DEFINE N == Len(items)
           toks == [i \in DOMAIN items |-> items[i].tokens]
           others == [i \in DOMAIN items |-> Rewritten(items)[i].tokens]
           line == FlattenSeq(toks)
           paths == {i \in DOMAIN items : Leading(items[i])}
<1>1. N \in Nat /\ DOMAIN items = 1 .. N /\ DOMAIN Rewritten(items) = 1 .. N
  BY DEF Rewritten
<1>2. Flatten(items) = line /\ Flatten(Rewritten(items)) = FlattenSeq(others)
  BY <1>1 DEF Flatten
<1>3. \A i \in 1 .. N : /\ items[i].tokens \in Seq(Toks) /\ Len(items[i].tokens) > 0
                        /\ Rewritten(items)[i].tokens \in Seq(Toks)
  <2> TAKE i \in 1 .. N
  <2>1. Item(Toks, items[i]) /\ Item(Toks, Rewritten(items)[i])
    BY <1>1, RewrittenItems
  <2>2. \A item : Item(Toks, item) => item.tokens \in Seq(Toks) /\ Len(item.tokens) > 0
    <3> SUFFICES ASSUME NEW item, Item(Toks, item) PROVE item.tokens \in Seq(Toks) /\ Len(item.tokens) > 0
      OBVIOUS
    <3>1. CASE OpenRtcItem(Toks, item)
      BY <3>1 DEF OpenRtcItem
    <3>2. CASE LiveKitItem(Toks, item)
      BY <3>2 DEF LiveKitItem
    <3> QED BY <3>1, <3>2 DEF Item
  <2> QED BY <2>1, <2>2
<1>4. toks \in Seq(Seq(Toks)) /\ Len(toks) = N /\ others \in Seq(Seq(Toks)) /\ Len(others) = N
  <2>1. toks \in [1 .. N -> Seq(Toks)] /\ others \in [1 .. N -> Seq(Toks)]
    BY <1>1, <1>3
  <2> HIDE DEF toks, others, N
  <2> QED BY <1>1, <2>1, FunctionIsSequence
<1>5. \A i \in 1 .. N : /\ toks[i] = items[i].tokens /\ others[i] = Rewritten(items)[i].tokens
                        /\ i \notin paths => others[i] = toks[i]
  BY <1>1 DEF Rewritten
<1>6. /\ paths \in {{}, {1}, {1, 2}}
      /\ paths = {1, 2} => command \in WorkerCommands /\ ~Mentions(line, "--metrics-jsonl")
      /\ paths # {} => ~Mentions(line, "--agents-dir")
  BY <1>2 DEF WellFormed
<1>7. ASSUME NEW i \in paths
      PROVE  /\ toks[i] = <<items[i].tokens[1]>> /\ ~LooksLikeFlag(items[i].tokens[1])
             /\ others[i] = <<Token(IF i = 1 THEN "--agents-dir" ELSE "--metrics-jsonl"), items[i].tokens[1]>>
  <2>1. Leading(items[i]) /\ Item(Toks, items[i]) /\ i \in 1 .. N
    BY <1>1
  <2>2. Len(items[i].tokens) = 1 /\ items[i].tokens \in Seq(Toks)
    <3>1. items[i].tokens[1].name = Word /\ OpenRtcItem(Toks, items[i])
      BY <2>1 DEF Leading, LooksLikeFlag, Item, LiveKitItem
    <3>2. Word \notin ValuedFlags
      BY DEF Word, ValuedFlags
    <3> QED BY <3>1, <3>2 DEF OpenRtcItem
  <2>3. items[i].tokens = <<items[i].tokens[1]>>
    BY <2>2
  <2> QED BY <1>1, <1>5, <2>1, <2>3 DEF Rewritten, Leading
<1> HIDE DEF toks, others, line, N, paths
<1>8. CASE N = 0
  <2>1. toks = <<>> /\ others = <<>>
    BY <1>4, <1>8, EmptySeq
  <2>2. FlattenSeq(<<>>) = <<>>
    BY DEF FlattenSeq
  <2>3. line = <<>> /\ FlattenSeq(others) = <<>>
    BY <2>1, <2>2 DEF line
  <2>4. Inject(command, <<>>) = <<>>
    <3>1. <<>> \in Seq(Toks)
      OBVIOUS
    <3> QED BY <3>1, InjectIs
  <2> QED BY <1>2, <2>3, <2>4
<1>9. CASE N > 0
  <2>1. PICK f : Flattens(f, toks) /\ line = f[N]
    <3>1. PICK flat : /\ flat[0] = <<>> /\ \A i \in 1 .. Len(toks) : flat[i] = flat[i - 1] \o toks[i]
                      /\ FlattenSeq(toks) = flat[Len(toks)]
      <4>1. toks \in Seq(Seq(Toks)) /\ Len(toks) # 0
        BY <1>4, <1>9
      <4> QED BY <4>1, FlattenSteps
    <3>2. Flattens(flat, toks) /\ line = flat[N]
      BY <1>4, <3>1 DEF Flattens, line
    <3> QED BY <3>2
  <2>2. PICK g : Flattens(g, others) /\ FlattenSeq(others) = g[N]
    <3>1. PICK flat : /\ flat[0] = <<>> /\ \A i \in 1 .. Len(others) : flat[i] = flat[i - 1] \o others[i]
                      /\ FlattenSeq(others) = flat[Len(others)]
      <4>1. others \in Seq(Seq(Toks)) /\ Len(others) # 0
        BY <1>4, <1>9
      <4> QED BY <4>1, FlattenSteps
    <3>2. Flattens(flat, others) /\ FlattenSeq(others) = flat[N]
      BY <1>4, <3>1 DEF Flattens
    <3> QED BY <3>2
  <2>3. /\ 1 \in 1 .. N /\ f[1] = toks[1] /\ g[1] = others[1]
        /\ N > 1 => 2 \in 1 .. N /\ f[2] = toks[1] \o toks[2] /\ g[2] = others[1] \o others[2]
    <3>1. 1 \in 1 .. N /\ 1 - 1 = 0 /\ 2 - 1 = 1 /\ (N > 1 => 2 \in 1 .. N)
      BY <1>1, <1>9
    <3>2. f[1] = <<>> \o toks[1] /\ g[1] = <<>> \o others[1]
      BY <1>4, <2>1, <2>2, <3>1 DEF Flattens
    <3>3. toks[1] \in Seq(Toks) /\ others[1] \in Seq(Toks)
      BY <1>4, <3>1
    <3>4. f[1] = toks[1] /\ g[1] = others[1]
      BY <3>2, <3>3
    <3>5. N > 1 => f[2] = f[1] \o toks[2] /\ g[2] = g[1] \o others[2]
      BY <1>4, <2>1, <2>2, <3>1 DEF Flattens
    <3> QED BY <3>1, <3>4, <3>5
  <2>4. line \in Seq(Toks) /\ Len(line) > 0 /\ line[1] = items[1].tokens[1]
    <3>1. N \in 0 .. Len(toks) /\ 1 \in 0 .. N
      BY <1>1, <1>4, <1>9
    <3>2. /\ line \in Seq(Toks) /\ Len(f[1]) <= Len(line) /\ \A p \in 1 .. Len(f[1]) : line[p] = f[1][p]
      <4>1. Grown(Toks, f, N, 1)
        BY <1>4, <2>1, <3>1, FlatGrows
      <4> QED BY <2>1, <4>1 DEF Grown
    <3>3. f[1] = items[1].tokens /\ f[1] \in Seq(Toks) /\ Len(f[1]) > 0
      BY <1>3, <1>5, <2>3
    <3>4. 1 \in 1 .. Len(f[1]) /\ Len(line) \in Nat /\ Len(f[1]) \in Nat
      BY <3>2, <3>3
    <3> QED BY <3>2, <3>3, <3>4
  <2>5. CASE paths = {}
    <3>1. others = toks
      <4>1. \A i \in 1 .. N : others[i] = toks[i]
        BY <1>5, <2>5
      <4> QED BY <1>1, <1>4, <4>1, SeqEqual
    <3>2. LooksLikeFlag(line[1])
      BY <1>1, <2>3, <2>4, <2>5 DEF paths, Leading
    <3>3. Inject(command, line) = line
      BY <2>4, <3>2, InjectIs
    <3> QED BY <1>2, <3>1, <3>3 DEF line
  <2>6. CASE paths = {1}
    <3> DEFINE word == items[1].tokens[1]
    <3>1. toks[1] = <<word>> /\ others[1] = <<Token("--agents-dir"), word>> /\ ~LooksLikeFlag(word)
      BY <1>7, <2>6
    <3>2. PICK rest \in Seq(Toks) : line = <<word>> \o rest /\ FlattenSeq(others) = <<Token("--agents-dir"), word>> \o rest
      <4>1. 1 \in 0 .. N /\ \A i \in 1 + 1 .. N : toks[i] = others[i]
        BY <1>1, <1>5, <1>9, <2>6
      <4>2. \E rest \in Seq(Toks) : f[N] = f[1] \o rest /\ g[N] = g[1] \o rest
        <5>1. /\ Len(toks) = Len(others) /\ 1 \in 0 .. Len(toks)
              /\ \A i \in 1 + 1 .. Len(toks) : toks[i] = others[i]
          BY <1>4, <4>1
        <5>2. SameTail(Toks, f, g, Len(toks), 1)
          BY <1>4, <2>1, <2>2, <5>1, FlatTail
        <5> QED BY <1>4, <5>2 DEF SameTail
      <4> QED BY <2>1, <2>2, <2>3, <3>1, <4>2
    <3>3. Len(line) <= 1 \/ LooksLikeFlag(line[2])
      <4>1. CASE N = 1
        BY <2>1, <2>3, <3>1, <4>1
      <4>2. CASE N > 1
        <5> DEFINE second == items[2].tokens
        <5>1. f[2] = <<word>> \o second /\ second \in Seq(Toks) /\ Len(second) > 0 /\ 2 \in 1 .. N
          BY <1>3, <1>5, <2>3, <3>1, <4>2
        <5>2. word \in Toks
          BY <1>3, <2>3
        <5> HIDE DEF second, word
        <5>3. Len(f[2]) >= 2 /\ f[2][2] = second[1] /\ Len(f[2]) \in Nat
          BY <5>1, <5>2
        <5>4. \A p \in 1 .. Len(f[2]) : line[p] = f[2][p]
          <6>1. N \in 0 .. Len(toks) /\ 2 \in 0 .. N
            BY <1>1, <1>4, <5>1
          <6>2. Grown(Toks, f, N, 2)
            BY <1>4, <2>1, <6>1, FlatGrows
          <6> QED BY <2>1, <6>2 DEF Grown
        <5>5. line[2] = second[1]
          BY <5>3, <5>4
        <5>6. LooksLikeFlag(second[1])
          BY <1>1, <2>6, <5>1 DEF paths, Leading, second
        <5> QED BY <5>5, <5>6
      <4> QED BY <1>1, <1>9, <4>1, <4>2
    <3>4. line # <<>> /\ line[1] = word /\ Tail(line) = rest /\ ~Mentions(line, "--agents-dir")
      <4>1. word \in Toks
        BY <1>3, <2>3
      <4>2. ~Mentions(line, "--agents-dir")
        BY <1>6, <2>6
      <4> HIDE DEF word
      <4> QED BY <3>2, <4>1, <4>2
    <3> HIDE DEF word
    <3>5. Inject(command, line) = <<Token("--agents-dir"), line[1]>> \o Tail(line)
      BY <2>4, <3>1, <3>3, <3>4, InjectIs
    <3> QED BY <1>2, <3>2, <3>4, <3>5
  <2>7. CASE paths = {1, 2}
    <3> DEFINE first == items[1].tokens[1]
               second == items[2].tokens[1]
               A == Token("--agents-dir")
               M == Token("--metrics-jsonl")
    <3>0. 1 \in paths /\ 2 \in paths /\ N > 1
      BY <1>1, <2>7 DEF paths
    <3>1. /\ toks[1] = <<first>> /\ others[1] = <<A, first>> /\ ~LooksLikeFlag(first)
          /\ toks[2] = <<second>> /\ others[2] = <<M, second>> /\ ~LooksLikeFlag(second)
      BY <1>7, <3>0
    <3>2. first \in Toks /\ second \in Toks
      BY <1>3, <2>3, <3>0
    <3> HIDE DEF first, second, A, M
    <3>3. f[2] = <<first, second>> /\ g[2] = <<A, first>> \o <<M, second>>
      <4>1. f[2] = <<first>> \o <<second>> /\ g[2] = <<A, first>> \o <<M, second>>
        BY <2>3, <3>0, <3>1
      <4>2. <<first>> \o <<second>> = <<first, second>>
        <5> DEFINE both == <<first>> \o <<second>>
                   pair == <<first, second>>
        <5>1. <<first>> \in Seq(Toks) /\ <<second>> \in Seq(Toks) /\ Len(<<first>>) = 1 /\ Len(<<second>>) = 1
          BY <3>2
        <5>2. /\ both \in Seq(Toks) /\ Len(both) = 1 + 1
              /\ \A i \in 1 .. 1 + 1 : both[i] = IF i <= 1 THEN <<first>>[i] ELSE <<second>>[i - 1]
          BY <5>1, ConcatProperties
        <5>3. pair \in Seq(Toks) /\ Len(pair) = 2 /\ pair[1] = first /\ pair[2] = second
          BY <3>2
        <5>4. \A i \in 1 .. 2 : both[i] = pair[i]
          <6>1. \A i \in 1 .. 2 : i = 1 \/ i = 2
            OBVIOUS
          <6>2. both[1] = first /\ both[2] = second
            BY <5>2
          <6> HIDE DEF both, pair
          <6> QED BY <5>3, <6>1, <6>2
        <5> HIDE DEF both, pair
        <5>5. both = pair
          BY <5>2, <5>3, <5>4, SeqEqual
        <5> QED BY <5>5 DEF both, pair
      <4> QED BY <4>1, <4>2
    <3>4. PICK rest \in Seq(Toks) : line = <<first, second>> \o rest /\ FlattenSeq(others) = (<<A, first>> \o <<M, second>>) \o rest
      <4>1. 2 \in 0 .. N /\ \A i \in 2 + 1 .. N : toks[i] = others[i]
        BY <1>1, <1>5, <3>0, <2>7
      <4>2. \E rest \in Seq(Toks) : f[N] = f[2] \o rest /\ g[N] = g[2] \o rest
        <5>1. /\ Len(toks) = Len(others) /\ 2 \in 0 .. Len(toks)
              /\ \A i \in 2 + 1 .. Len(toks) : toks[i] = others[i]
          BY <1>4, <4>1
        <5>2. SameTail(Toks, f, g, Len(toks), 2)
          BY <1>4, <2>1, <2>2, <5>1, FlatTail
        <5> QED BY <1>4, <5>2 DEF SameTail
      <4> QED BY <2>1, <2>2, <3>3, <4>2
    <3>5. /\ line # <<>> /\ line[1] = first /\ line[2] = second /\ Len(line) = 2 + Len(rest)
      BY <3>2, <3>4
    <3>6. SubSeq(line, 3, Len(line)) = rest
      BY <3>2, <3>4, <3>5
    <3>7. command \in WorkerCommands /\ ~Mentions(line, "--metrics-jsonl") /\ ~Mentions(line, "--agents-dir")
      BY <1>6, <2>7
    <3>8. Len(line) > 1
      BY <3>4, <3>5
    <3>9. Inject(command, line) = (<<A, line[1]>> \o <<M, line[2]>>) \o SubSeq(line, 3, Len(line))
      BY <2>4, <3>1, <3>5, <3>7, <3>8, InjectIs DEF A, M
    <3> QED BY <1>2, <3>4, <3>5, <3>6, <3>9
  <2> QED BY <1>6, <2>5, <2>6, <2>7
<1> QED BY <1>1, <1>8, <1>9

----------------------------------------------------------------------------
(* Options and the environment.                                            *)

EveryOption == UNION {Providers, Runtime, {"--no-watch"}, Reporting, Connection, Joining}

(* The names in the environment are told apart.                            *)
LEMMA NamesDiffer ==
  /\ Connection \subseteq DOMAIN EnvName
  /\ \A o, p \in Connection : EnvName[o] = EnvName[p] => o = p
  /\ \A o \in Connection : \E k \in DOMAIN LiveKitNames : LiveKitNames[k] = EnvName[o]
<1> DEFINE N == LiveKitNames
<1>1. /\ N.url = "LIVEKIT_URL" /\ N.key = "LIVEKIT_API_KEY" /\ N.secret = "LIVEKIT_API_SECRET" /\ N.level = "LIVEKIT_LOG_LEVEL"
      /\ DOMAIN N = {"url", "key", "secret", "level"}
      /\ N["url"] = N.url /\ N["key"] = N.key /\ N["secret"] = N.secret /\ N["level"] = N.level
  BY DEF LiveKitNames
<1> HIDE DEF N
<1>2. /\ EnvName["--url"] = N.url /\ EnvName["--api-key"] = N.key
      /\ EnvName["--api-secret"] = N.secret /\ EnvName["--log-level"] = N.level
  BY DEF EnvName, N
<1>3. \A o \in Connection : o = "--url" \/ o = "--api-key" \/ o = "--api-secret" \/ o = "--log-level"
  BY DEF Connection
<1>4. Connection \subseteq DOMAIN EnvName
  BY <1>3 DEF EnvName
<1>5. \A o, p \in Connection : EnvName[o] = EnvName[p] => o = p
  BY <1>1, <1>2, <1>3
<1>6. \A o \in Connection : \E k \in DOMAIN N : N[k] = EnvName[o]
  BY <1>1, <1>2, <1>3
<1> QED BY <1>4, <1>5, <1>6 DEF N

(* What "connect" was told stands on the line it makes.                    *)
LEMMA ConnectLineSays ==
  ASSUME NEW identity \in BOOLEAN, NEW level \in BOOLEAN
  PROVE  /\ Mentions(ConnectLine(identity, level), "--room")
         /\ identity => Mentions(ConnectLine(identity, level), "--participant-identity")
         /\ level => Mentions(ConnectLine(identity, level), "--log-level")
<1> DEFINE S == {Token("--room"), Token("--participant-identity"), Token("--log-level"), Token(Word)}
           a == <<Token("--room"), Token(Word)>>
           b == IF identity THEN <<Token("--participant-identity"), Token(Word)>> ELSE <<>>
           c == IF level THEN <<Token("--log-level"), Token(Word)>> ELSE <<>>
           line == a \o b \o c
<1>1. \A t \in S : <<t, Token(Word)>> \in Seq(S) /\ Len(<<t, Token(Word)>>) = 2 /\ <<t, Token(Word)>>[1] = t
  OBVIOUS
<1>2. /\ a \in Seq(S) /\ Len(a) = 2 /\ a[1] = Token("--room")
      /\ b \in Seq(S) /\ (identity => Len(b) = 2 /\ b[1] = Token("--participant-identity"))
      /\ c \in Seq(S) /\ (level => Len(c) = 2 /\ c[1] = Token("--log-level"))
  <2>1. <<>> \in Seq(S)
    OBVIOUS
  <2> QED BY <1>1, <2>1
<1>3. ConnectLine(identity, level) = line
  BY DEF ConnectLine
<1> HIDE DEF a, b, c, S
<1>4. /\ a \o b \in Seq(S) /\ Len(a \o b) = 2 + Len(b) /\ Len(b) \in Nat /\ Len(c) \in Nat
      /\ \A i \in 1 .. 2 + Len(b) : (a \o b)[i] = IF i <= 2 THEN a[i] ELSE b[i - 2]
  <2>1. /\ a \o b \in Seq(S) /\ Len(a \o b) = Len(a) + Len(b)
        /\ \A i \in 1 .. Len(a) + Len(b) : (a \o b)[i] = IF i <= Len(a) THEN a[i] ELSE b[i - Len(a)]
    BY <1>2, ConcatProperties
  <2>2. Len(b) \in Nat /\ Len(c) \in Nat /\ Len(a) = 2
    BY <1>2
  <2> QED BY <2>1, <2>2
<1>5. /\ DOMAIN line = 1 .. 2 + Len(b) + Len(c)
      /\ \A i \in 1 .. 2 + Len(b) + Len(c) : line[i] = IF i <= 2 + Len(b) THEN (a \o b)[i] ELSE c[i - (2 + Len(b))]
  <2> DEFINE ab == a \o b
  <2>1. ab \in Seq(S) /\ Len(ab) = 2 + Len(b) /\ c \in Seq(S)
    BY <1>2, <1>4
  <2> HIDE DEF ab
  <2>2. /\ ab \o c \in Seq(S) /\ Len(ab \o c) = Len(ab) + Len(c)
        /\ \A i \in 1 .. Len(ab) + Len(c) : (ab \o c)[i] = IF i <= Len(ab) THEN ab[i] ELSE c[i - Len(ab)]
    BY <2>1, ConcatProperties, ZenonT(40)
  <2>3. DOMAIN (ab \o c) = 1 .. Len(ab \o c)
    BY <2>2
  <2> QED BY <2>1, <2>2, <2>3 DEF ab
<1> HIDE DEF line
<1>6. 1 \in DOMAIN line /\ line[1] = Token("--room")
  BY <1>2, <1>4, <1>5
<1>7. identity => 3 \in DOMAIN line /\ line[3] = Token("--participant-identity")
  BY <1>2, <1>4, <1>5
<1>8. level => 3 + Len(b) \in DOMAIN line /\ line[3 + Len(b)] = Token("--log-level")
  <2>1. level => 3 + Len(b) \in 1 .. 2 + Len(b) + Len(c) /\ ~(3 + Len(b) <= 2 + Len(b)) /\ (3 + Len(b)) - (2 + Len(b)) = 1
    BY <1>2, <1>4
  <2> QED BY <1>2, <1>5, <2>1
<1>9. \A name : Token(name).name = name
  BY DEF Token
<1> QED BY <1>3, <1>6, <1>7, <1>8, <1>9 DEF Mentions

(* A flag wins over the environment, the environment over the default, and *)
(* "--no-watch" goes to HotReloads.                                        *)
OptionsInputs(values) ==
  {in \in [kind : {"options"}, command : WorkerCommands \cup {"connect", "download-files"},
           given : SUBSET (EveryOption \ {"--no-watch"}),
           env : UNION {[names -> values] : names \in {S \in SUBSET values : {EnvName[o] : o \in DOMAIN EnvName} \subseteq S}}] :
     in.given \subseteq DeclaredBy(in.command)}

LEMMA OptionsArrive ==
  ASSUME NEW values, input \in OptionsInputs(values)
  PROVE  HandoffIsClean
<1> DEFINE command == input.command
           given == input.given
           env == input.env
           options == WorkerOptions(command, given, env)
           during == Overridden(command, options, env)
           line == HandedOver(command, <<>>, options["--participant-identity"] # Default, options["--log-level"] # Default)
           set == {o \in Connection : options[o] # Default /\ ~(command = "connect" /\ o = "--log-level")}
           Outside(o) == o \in DOMAIN EnvName /\ o \notin given
<1>0. /\ input.kind = "options" /\ command \in WorkerCommands \cup {"connect", "download-files"}
      /\ given \subseteq DeclaredBy(command) /\ "--no-watch" \notin given
      /\ \A o \in DOMAIN EnvName : EnvName[o] \in DOMAIN env
      /\ env = [name \in DOMAIN env |-> env[name]]
  <2>1. /\ input.kind = "options" /\ command \in WorkerCommands \cup {"connect", "download-files"}
        /\ given \in SUBSET (EveryOption \ {"--no-watch"}) /\ given \subseteq DeclaredBy(command)
        /\ env \in UNION {[names -> values] : names \in {S \in SUBSET values : {EnvName[o] : o \in DOMAIN EnvName} \subseteq S}}
    BY DEF OptionsInputs
  <2>2. PICK names \in SUBSET values : {EnvName[o] : o \in DOMAIN EnvName} \subseteq names /\ env \in [names -> values]
    BY <2>1
  <2> HIDE DEF command, given, env
  <2> QED BY <2>1, <2>2
<1> HIDE DEF command, given, env
<1>1. DeclaredBy(command) \subseteq EveryOption /\ given \subseteq EveryOption
  <2>1. DeclaredBy(command) \subseteq EveryOption
    BY <1>0 DEF DeclaredBy, EveryOption
  <2> QED BY <1>0, <2>1
<1>2. \A o \in DeclaredBy(command) : options[o] = Read(o, given, env)
  BY <1>1 DEF WorkerOptions, EveryOption
<1> HIDE DEF options
<1>3. \A o \in given : options[o] = Flag
  BY <1>0, <1>2 DEF Read
<1>4. \A o \in DeclaredBy(command) \ given :
        options[o] = IF o \in DOMAIN EnvName /\ env[EnvName[o]] # Unset THEN env[EnvName[o]] ELSE Default
  BY <1>2 DEF Read
<1>5. Connection \subseteq DeclaredBy(command) /\ Flag # Default
  BY <1>0 DEF DeclaredBy, Flag, Default
<1>6. \A o \in set : o \in Connection /\ EnvName[o] \in DOMAIN env /\ during[EnvName[o]] = options[o]
  <2> TAKE o \in set
  <2>1. o \in Connection /\ EnvName[o] \in DOMAIN env
    BY <1>0, NamesDiffer
  <2>2. (CHOOSE p \in set : EnvName[p] = EnvName[o]) = o
    BY NamesDiffer
  <2>3. during[EnvName[o]] = options[CHOOSE p \in set : EnvName[p] = EnvName[o]]
    BY <2>1 DEF Overridden
  <2> QED BY <2>1, <2>2, <2>3
<1>7. \A name \in DOMAIN env : (\A o \in set : EnvName[o] # name) => during[name] = env[name]
  BY DEF Overridden
<1>8. DOMAIN during = DOMAIN env
  BY DEF Overridden
<1>9. \A o \in set : o \in given \/ options[o] = env[EnvName[o]]
  BY <1>4, <1>5
<1>10. command = "connect" =>
         /\ Mentions(line, "--room")
         /\ options["--participant-identity"] # Default => Mentions(line, "--participant-identity")
         /\ options["--log-level"] # Default => Mentions(line, "--log-level")
  <2> DEFINE identity == options["--participant-identity"] # Default
             level == options["--log-level"] # Default
  <2>1. identity \in BOOLEAN /\ level \in BOOLEAN
    OBVIOUS
  <2>2. command = "connect" => line = ConnectLine(identity, level)
    BY DEF HandedOver
  <2> HIDE DEF identity, level
  <2>3. /\ Mentions(ConnectLine(identity, level), "--room")
        /\ identity => Mentions(ConnectLine(identity, level), "--participant-identity")
        /\ level => Mentions(ConnectLine(identity, level), "--log-level")
    BY <2>1, ConnectLineSays
  <2> QED BY <2>2, <2>3 DEF identity, level
<1> HIDE DEF during, line
<1>11. \A o : Arrived(o, options, during) =
                 IF o \in Providers \cup Runtime \cup Reporting THEN options[o]
                 ELSE IF command = "connect" /\ o \in Joining \cup {"--log-level"}
                      THEN IF Mentions(line, o) THEN options[o] ELSE Default
                      ELSE during[EnvName[o]]
  <2>1. /\ DOMAIN PoolArguments(options) = Providers \cup Runtime
        /\ \A o \in Providers \cup Runtime : PoolArguments(options)[o] = options[o]
        /\ DOMAIN ReporterArguments(options) = Reporting
        /\ \A o \in Reporting : ReporterArguments(options)[o] = options[o]
    BY DEF PoolArguments, ReporterArguments
  <2>2. \A o : Arrived(o, options, during) =
                CASE o \in DOMAIN PoolArguments(options) -> PoolArguments(options)[o]
                  [] o \in DOMAIN ReporterArguments(options) -> ReporterArguments(options)[o]
                  [] command = "connect" /\ o \in Joining \cup {"--log-level"} -> IF Mentions(line, o) THEN options[o] ELSE Default
                  [] OTHER -> during[EnvName[o]]
    BY DEF Arrived, line, command
  <2>3. \A o : /\ ~(o \in Providers \cup Runtime /\ o \in Reporting)
               /\ o \in Joining \cup {"--log-level"} => o \notin Providers \cup Runtime \cup Reporting
    BY DEF Providers, Runtime, Reporting, Joining
  <2> QED BY <2>1, <2>2, <2>3
<1>12. ASSUME NEW o \in given PROVE Arrived(o, options, during) = Flag
  <2>1. options[o] = Flag /\ options[o] # Default
    BY <1>3, <1>5
  <2>2. CASE o \in Providers \cup Runtime \cup Reporting
    BY <1>11, <2>1, <2>2
  <2>3. CASE o \in Connection
    <3>1. o \notin Providers \cup Runtime \cup Reporting /\ o \notin Joining
      BY <2>3 DEF Connection, Providers, Runtime, Reporting, Joining
    <3>2. CASE command = "connect" /\ o = "--log-level"
      BY <1>10, <1>11, <2>1, <3>1, <3>2
    <3>3. CASE ~(command = "connect" /\ o = "--log-level")
      <4>1. o \in set
        BY <2>1, <2>3, <3>3
      <4> QED BY <1>6, <1>11, <2>1, <3>1, <3>3, <4>1
    <3> QED BY <3>2, <3>3
  <2>4. CASE o \in Joining
    <3>1. command = "connect"
      BY <1>0, <2>4 DEF DeclaredBy, Connection, Providers, Runtime, Reporting, Joining
    <3>2. o \notin Providers \cup Runtime \cup Reporting
      BY <2>4 DEF Providers, Runtime, Reporting, Joining
    <3>3. o = "--room" \/ o = "--participant-identity"
      BY <2>4 DEF Joining
    <3> QED BY <1>10, <1>11, <2>1, <2>4, <3>1, <3>2, <3>3
  <2> QED BY <1>0, <1>1, <2>2, <2>3, <2>4 DEF EveryOption
<1>13. ASSUME NEW o \in DeclaredBy(command), Outside(o)
       PROVE  Arrived(o, options, during) \in {env[EnvName[o]]} \cup (IF env[EnvName[o]] = Unset THEN {Default} ELSE {})
  <2> DEFINE found == {env[EnvName[o]]} \cup (IF env[EnvName[o]] = Unset THEN {Default} ELSE {})
  <2>1. options[o] \in found /\ (options[o] = Default => Default \in found)
    BY <1>4, <1>13
  <2>2. o \in Runtime \/ o \in Connection
    BY <1>13 DEF EnvName, Runtime, Connection
  <2>3. CASE o \in Runtime
    BY <1>11, <2>1, <2>3
  <2>4. CASE o \in Connection
    <3>1. o \notin Providers \cup Runtime \cup Reporting /\ o \notin Joining
      BY <2>4 DEF Connection, Providers, Runtime, Reporting, Joining
    <3>2. CASE command = "connect" /\ o = "--log-level"
      <4>1. options[o] # Default => Mentions(line, o)
        BY <1>10, <3>2
      <4>2. Arrived(o, options, during) = IF Mentions(line, o) THEN options[o] ELSE Default
        BY <1>11, <3>1, <3>2
      <4> QED BY <2>1, <4>1, <4>2
    <3>3. CASE ~(command = "connect" /\ o = "--log-level")
      <4>1. Arrived(o, options, during) = during[EnvName[o]]
        BY <1>11, <3>1, <3>3
      <4>2. CASE o \in set
        BY <1>6, <2>1, <4>1, <4>2
      <4>3. CASE o \notin set
        <5>1. \A p \in set : EnvName[p] # EnvName[o]
          BY <2>4, <4>3, NamesDiffer
        <5>2. EnvName[o] \in DOMAIN env
          BY <1>0, <1>13
        <5>3. during[EnvName[o]] = env[EnvName[o]]
          BY <1>7, <5>1, <5>2
        <5> QED BY <4>1, <5>3
      <4> QED BY <4>2, <4>3
    <3> QED BY <3>2, <3>3
  <2> QED BY <2>2, <2>3, <2>4
<1>14. ASSUME NEW name \in DOMAIN env, during[name] # env[name]
       PROVE  \E o \in given \cap Connection : EnvName[o] = name
  <2>1. PICK o \in set : EnvName[o] = name
    BY <1>7, <1>14
  <2>2. during[name] = options[o] /\ o \in Connection
    BY <1>6, <2>1
  <2> QED BY <1>9, <1>14, <2>1, <2>2
<1>15. Restored(during, env) = env
  <2>1. ASSUME NEW name \in DOMAIN env, \A k \in DOMAIN LiveKitNames : LiveKitNames[k] # name
        PROVE  during[name] = env[name]
    <3>1. \A o \in set : EnvName[o] # name
      BY <2>1, NamesDiffer
    <3> QED BY <1>7, <3>1
  <2>2. Restored(during, env) = [name \in DOMAIN env |-> env[name]]
    BY <1>8, <2>1 DEF Restored
  <2> QED BY <1>0, <2>2
<1> HIDE DEF set
<1> QED BY <1>0, <1>12, <1>13, <1>14, <1>15 DEF HandoffIsClean, options, during, command, given, env

----------------------------------------------------------------------------
(* Whatever items a line is put together from, and however many: LiveKit's *)
(* program finds its own, in order and whole.                              *)
LEMMA LinesAreClean ==
  ASSUME NEW Toks, PathOptions \subseteq Toks, NEW T, NEW items \in Seq(T),
         \A i \in DOMAIN items : Item(Toks, items[i]),
         NEW command \in (WorkerCommands \cup PathCommands) \ {"connect"}, WellFormed(command, items),
         input = [kind |-> "line", command |-> command, items |-> items]
  PROVE  HandoffIsClean
<1> DEFINE N == Len(items)
           again == Rewritten(items)
<1>1. N \in Nat /\ DOMAIN items = 1 .. N /\ DOMAIN again = 1 .. N
  BY DEF Rewritten
<1>2. \A i \in 1 .. N : /\ Item(Toks, again[i]) /\ ~Leading(again[i]) /\ (Closing(again[i]) => i = N)
                         /\ PassedOn(again[i]) = PassedOn(items[i])
  <2> TAKE i \in 1 .. N
  <2>1. /\ Item(Toks, again[i]) /\ ~Leading(again[i]) /\ (Closing(again[i]) <=> Closing(items[i]))
        /\ PassedOn(again[i]) = PassedOn(items[i])
    BY <1>1, RewrittenItems
  <2>2. Closing(items[i]) => i = N
    BY <1>1 DEF WellFormed
  <2> QED BY <2>1, <2>2
<1>3. Inject(command, Flatten(items)) = Flatten(again)
  BY InjectItems
<1> HIDE DEF again, N
<1>4. Strip(Flatten(again)) = FlattenSeq([i \in 1 .. N |-> PassedOn(again[i])])
  BY <1>1, <1>2, StripItems, ZenonT(40)
<1>5. [i \in 1 .. N |-> PassedOn(again[i])] = [i \in DOMAIN items |-> PassedOn(items[i])]
  BY <1>1, <1>2
<1>6. HandedOver(command, Flatten(items), FALSE, FALSE) = FlattenSeq([i \in DOMAIN items |-> PassedOn(items[i])])
  <2>1. HandedOver(command, Flatten(items), FALSE, FALSE) = Strip(Inject(command, Flatten(items)))
    BY DEF HandedOver
  <2> QED BY <1>3, <1>4, <1>5, <2>1
<1>7. input.kind # "options" /\ input.command = command /\ input.items = items
  OBVIOUS
<1> QED BY <1>6, <1>7 DEF HandoffIsClean

(* What the model starts from.                                             *)
SomeNames == {EnvName[o] : o \in DOMAIN EnvName}
LineInputs ==
  {in \in [kind : {"line"}, command : (WorkerCommands \cup PathCommands) \ {"connect"}, items : Seq(Items)] :
     WellFormed(in.command, in.items)}

HandedInputs ==
  /\ input.kind = "line" => input \in LineInputs
  /\ input.kind = "options" => input \in OptionsInputs(SomeNames \cup {"outer", Unset})

LEMMA HandedInit == InputsInit => HandedInputs
<1>1. ASSUME LineInit PROVE HandedInputs
  <2>1. PICK command \in {"start", "download-files"}, items \in SeqOf(Items, MaxItems) :
          WellFormed(command, items) /\ input = [kind |-> "line", command |-> command, items |-> items]
    BY <1>1 DEF LineInit
  <2>2. PICK m \in 0 .. MaxItems : items \in [1 .. m -> Items]
    BY DEF SeqOf
  <2>3. items \in Seq(Items)
    BY <2>2, IsASeq
  <2>4. command \in (WorkerCommands \cup PathCommands) \ {"connect"}
    BY DEF WorkerCommands, PathCommands
  <2> QED BY <2>1, <2>3, <2>4 DEF HandedInputs, LineInputs
<1>2. ASSUME OptionsInit PROVE HandedInputs
  <2> DEFINE values == SomeNames \cup {"outer", Unset}
  <2>1. PICK command \in {"start", "connect", "download-files"}, env \in Environments :
          \E given \in SUBSET (SomeFlags \cap DeclaredBy(command)) :
            input = [kind |-> "options", command |-> command, given |-> given, env |-> env]
    BY <1>2 DEF OptionsInit
  <2>2. PICK given \in SUBSET (SomeFlags \cap DeclaredBy(command)) :
          input = [kind |-> "options", command |-> command, given |-> given, env |-> env]
    BY <2>1
  <2>3. env \in [SomeNames -> values]
    BY DEF Environments, SomeNames
  <2>4. command \in WorkerCommands \cup {"connect", "download-files"}
    BY DEF WorkerCommands
  <2>5. given \subseteq EveryOption \ {"--no-watch"} /\ given \subseteq DeclaredBy(command)
    BY DEF SomeFlags, EveryOption, Providers, Runtime, Reporting, Connection, Joining
  <2>6. SomeNames \in {S \in SUBSET values : {EnvName[o] : o \in DOMAIN EnvName} \subseteq S}
    BY DEF SomeNames
  <2> HIDE DEF values
  <2>7. input \in OptionsInputs(values)
    BY <2>2, <2>3, <2>4, <2>5, <2>6 DEF OptionsInputs
  <2> QED BY <2>2, <2>7 DEF HandedInputs, values
<1>3. ASSUME JobInit \/ PageInit \/ TurnInit \/ RegistrationInit \/ TenancyInit PROVE HandedInputs
  <2>1. JobInit => input.kind = "job"
    BY DEF JobInit
  <2>2. PageInit => input.kind = "page"
    BY DEF PageInit
  <2>3. TurnInit => input.kind = "turn"
    BY DEF TurnInit
  <2>4. RegistrationInit => input.kind = "registration"
    BY DEF RegistrationInit
  <2>5. TenancyInit => input.kind = "tenancy"
    BY DEF TenancyInit
  <2>6. input.kind \notin {"line", "options"}
    BY <1>3, <2>1, <2>2, <2>3, <2>4, <2>5
  <2> QED BY <2>6 DEF HandedInputs
<1> QED BY <1>1, <1>2, <1>3 DEF InputsInit

(* So every command line and every set of options the model starts from is *)
(* handed over clean, whatever items the lines are made of, as long as     *)
(* each is one that LiveKit knows or one that the strip list has.          *)
THEOREM EveryHandoffIsClean ==
  ASSUME NEW Toks, PathOptions \subseteq Toks, \A item \in Items : Item(Toks, item)
  PROVE  InputsSpec => []HandoffIsClean
<1>1. HandedInputs /\ [InputsNext]_input => HandedInputs'
  BY DEF HandedInputs, InputsNext
<1>2. HandedInputs => HandoffIsClean
  <2>1. ASSUME input \in LineInputs PROVE HandoffIsClean
    <3> DEFINE items == input.items
    <3>1. items \in Seq(Items) /\ \A i \in DOMAIN items : Item(Toks, items[i])
      BY <2>1 DEF LineInputs
    <3>2. /\ input.command \in (WorkerCommands \cup PathCommands) \ {"connect"} /\ WellFormed(input.command, items)
          /\ input = [kind |-> "line", command |-> input.command, items |-> items]
      BY <2>1 DEF LineInputs
    <3> HIDE DEF items
    <3> QED BY <3>1, <3>2, LinesAreClean
  <2>2. input.kind \notin {"line", "options"} => HandoffIsClean
    BY DEF HandoffIsClean
  <2> QED BY <2>1, <2>2, OptionsArrive DEF HandedInputs
<1> QED BY <1>1, <1>2, HandedInit, PTL DEF InputsSpec

(* And every page of every table it starts from shows the table.           *)
PagedInputs ==
  input.kind = "page" =>
    input \in PageInputs({"active", "slow"}, {"sales", "acme"}, {"mem_mb", "agent_name"},
                         {Pressed(keys).sort : keys \in Keys} \cup {Pressed(keys).status : keys \in Keys})

THEOREM EveryPageShowsTheTable == InputsSpec => []PagesShowEveryRow
<1>1. InputsInit => PagedInputs
  <2>1. ASSUME PageInit PROVE PagedInputs
    <3> DEFINE columns == {"mem_mb", "agent_name"}
               texts == {Pressed(keys).sort : keys \in Keys} \cup {Pressed(keys).status : keys \in Keys}
               table == RowsOf({"active", "slow"}, {"sales", "acme"}, columns)
    <3>1. PICK rows \in SeqOf(Rows, MaxRows), keys \in Keys, size \in -1 .. MaxRows, page \in -1 .. MaxRows + 1 :
            input = [kind |-> "page", rows |-> rows, sort |-> Pressed(keys).sort, status |-> Pressed(keys).status,
                     size |-> size, page |-> page]
      BY <2>1 DEF PageInit
    <3>2. PICK m \in 0 .. MaxRows : rows \in [1 .. m -> Rows]
      BY DEF SeqOf
    <3>3. Rows \subseteq table
      <4>1. [columns -> 1 .. 2] \subseteq [columns -> Int]
        OBVIOUS
      <4>2. [c \in {} |-> 0] \in [{} -> Int]
        OBVIOUS
      <4>3. [columns -> 1 .. 2] \cup {[c \in {} |-> 0]} \subseteq UNION {[some -> Int] : some \in SUBSET columns}
        <5> HIDE DEF columns
        <5> QED BY <4>1, <4>2
      <4> QED BY <4>3 DEF Rows, RowsOf
    <3> HIDE DEF table, columns
    <3>4. rows \in Seq(table)
      BY <3>2, <3>3, IsASeq
    <3>5. Pressed(keys).sort \in texts /\ Pressed(keys).status \in texts /\ size \in Int /\ page \in Int
      OBVIOUS
    <3> HIDE DEF texts
    <3>6. input \in PageInputs({"active", "slow"}, {"sales", "acme"}, columns, texts)
      BY <3>1, <3>4, <3>5 DEF PageInputs, table
    <3> QED BY <3>6 DEF PagedInputs, columns, texts
  <2>2. JobInit => input.kind = "job"
    BY DEF JobInit
  <2>3. LineInit => input.kind = "line"
    BY DEF LineInit
  <2>4. OptionsInit => input.kind = "options"
    BY DEF OptionsInit
  <2>5. TurnInit => input.kind = "turn"
    BY DEF TurnInit
  <2>6. RegistrationInit => input.kind = "registration"
    BY DEF RegistrationInit
  <2>7. TenancyInit => input.kind = "tenancy"
    BY DEF TenancyInit
  <2>8. input.kind # "page" => PagedInputs
    BY DEF PagedInputs
  <2> QED BY <2>1, <2>2, <2>3, <2>4, <2>5, <2>6, <2>7, <2>8 DEF InputsInit
<1>2. PagedInputs /\ [InputsNext]_input => PagedInputs'
  BY DEF PagedInputs, InputsNext
<1>3. PagedInputs => PagesShowEveryRow
  <2>1. input.kind # "page" => PagesShowEveryRow
    BY DEF PagesShowEveryRow
  <2> QED BY <2>1, PagesShowTheTable DEF PagedInputs
<1> QED BY <1>1, <1>2, <1>3, PTL DEF InputsSpec
=============================================================================
