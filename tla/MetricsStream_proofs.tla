------------------------ MODULE MetricsStream_proofs ------------------------
(***************************************************************************)
(* Theorems about MetricsStream: that no event is lost uncounted whatever  *)
(* fails, and, while nothing fails, what the order of the lines tells.     *)
(***************************************************************************)
EXTENDS MetricsStream, SequenceLemmas

Event    == [kind : Kinds, at : Nat]
Row      == [kind : {"metrics_stream_overflow"}, at : Nat]
Snapshot == [kind : {"snapshot"}, at : [Counted -> Nat]]
Line     == Event \cup Row \cup Snapshot
Numbered(n, l) == [seq |-> n, kind |-> l.kind, at |-> l.at]
FileLine == {Numbered(n, l) : n \in Nat, l \in Line}

ReporterPlaces == {"wait", "json", "json only", "count", "snapshot", "drain", "rows", "died", "ended"}
MainPlaces == {"run", "join", "json", "count", "snapshot", "drain", "rows", "close", "closed", "raised"}

StreamTypes ==
  /\ session \in [Sessions -> Kinds \cup {"new"}]
  /\ totals \in [Counted -> Nat] /\ gauge \in Int
  /\ buffer \in Seq(Event) /\ dropped \in Nat /\ recorded \in Nat
  /\ pc \in [Threads -> ReporterPlaces \cup MainPlaces] /\ pc["reporter"] \in ReporterPlaces /\ pc["main"] \in MainPlaces
  /\ hands \in [Threads -> Seq(Line)]
  /\ writer \in Threads \cup {"nobody"} /\ seq \in Nat /\ open \in BOOLEAN
  /\ file \in Seq(FileLine)
  /\ late \in BOOLEAN /\ faults \in Nat

(* What the hands of a thread have to be at a place.                       *)
Fits(p, h) ==
  /\ p = "snapshot" => Len(h) = 1
  /\ p = "rows" => h # <<>>
  /\ p \notin {"snapshot", "rows", "died", "raised"} => h = <<>>

(* What a thread has in its hands where it is, who may hold the lock, and  *)
(* that a buffer which refused an event has been full since.               *)
StreamShape ==
  /\ \A t \in Threads : Fits(pc[t], hands[t]) /\ (writer = t => pc[t] \in {"snapshot", "rows"})
  /\ dropped > 0 => Len(buffer) >= Capacity
  /\ ~open => pc["main"] = "closed"

StreamIsSound == StreamTypes /\ StreamShape

(* Lines are lines with or without their number.                           *)
LEMMA LinesOfFile ==
  ASSUME NEW f \in Seq(FileLine)
  PROVE  /\ Plain(f) \in Seq(Line) /\ Len(Plain(f)) = Len(f)
         /\ \A i \in 1 .. Len(f) : f[i].seq \in Nat /\ Plain(f)[i].kind = f[i].kind /\ Plain(f)[i].at = f[i].at
         /\ \A n \in Nat, l \in Line :
              /\ Numbered(n, l) \in FileLine
              /\ Append(f, Numbered(n, l)) \in Seq(FileLine)
              /\ Plain(Append(f, Numbered(n, l))) = Append(Plain(f), l)
<1>0. \A l \in Line : l = [kind |-> l.kind, at |-> l.at]
  BY DEF Line, Event, Row, Snapshot
<1>1. \A x \in FileLine : x.seq \in Nat /\ [kind |-> x.kind, at |-> x.at] \in Line
  <2> SUFFICES ASSUME NEW n \in Nat, NEW l \in Line
               PROVE  /\ Numbered(n, l).seq \in Nat
                      /\ [kind |-> Numbered(n, l).kind, at |-> Numbered(n, l).at] \in Line
    BY DEF FileLine
  <2>1. Numbered(n, l).seq = n /\ Numbered(n, l).kind = l.kind /\ Numbered(n, l).at = l.at
    BY DEF Numbered
  <2>2. [kind |-> l.kind, at |-> l.at] = l
    BY <1>0
  <2> QED BY <2>1, <2>2
<1>2. Len(f) \in Nat /\ DOMAIN f = 1 .. Len(f) /\ \A i \in 1 .. Len(f) : f[i] \in FileLine
  OBVIOUS
<1>3. /\ Plain(f) \in [1 .. Len(f) -> Line]
      /\ \A i \in 1 .. Len(f) : f[i].seq \in Nat /\ Plain(f)[i].kind = f[i].kind /\ Plain(f)[i].at = f[i].at
  BY <1>1, <1>2 DEF Plain
<1>4. Plain(f) \in Seq(Line) /\ Len(Plain(f)) = Len(f)
  BY <1>2, <1>3
<1>5. ASSUME NEW n \in Nat, NEW l \in Line
      PROVE  /\ Numbered(n, l) \in FileLine
             /\ Append(f, Numbered(n, l)) \in Seq(FileLine)
             /\ Plain(Append(f, Numbered(n, l))) = Append(Plain(f), l)
  <2> DEFINE r == Numbered(n, l)
             g == Append(f, r)
  <2>1. r \in FileLine /\ r.kind = l.kind /\ r.at = l.at
    <3>1. r \in FileLine
      BY DEF FileLine
    <3> QED BY <3>1 DEF Numbered
  <2> HIDE DEF r
  <2>2. g \in Seq(FileLine) /\ DOMAIN g = 1 .. Len(f) + 1 /\ g[Len(f) + 1] = r
        /\ \A i \in 1 .. Len(f) : g[i] = f[i]
    BY <1>2, <2>1
  <2> HIDE DEF g
  <2>3. [kind |-> r.kind, at |-> r.at] = l
    BY <1>0, <2>1
  <2>4. Plain(g) = [i \in 1 .. Len(f) + 1 |-> IF i = Len(f) + 1 THEN l ELSE Plain(f)[i]]
    <3>1. \A i \in 1 .. Len(f) + 1 : i # Len(f) + 1 => i \in 1 .. Len(f)
      BY <1>2
    <3>2. \A i \in 1 .. Len(f) + 1 :
            [kind |-> g[i].kind, at |-> g[i].at] = IF i = Len(f) + 1 THEN l ELSE Plain(f)[i]
      BY <1>2, <2>2, <2>3, <3>1 DEF Plain
    <3> QED BY <2>2, <3>2 DEF Plain
  <2>5. Append(Plain(f), l) = [i \in 1 .. Len(f) + 1 |-> IF i = Len(f) + 1 THEN l ELSE Plain(f)[i]]
    <3> DEFINE q == Plain(f)
    <3> HIDE DEF q
    <3>1. q \in Seq(Line) /\ Len(q) = Len(f)
      BY <1>4 DEF q
    <3>2. Append(q, l) = [i \in 1 .. Len(f) + 1 |-> IF i = Len(f) + 1 THEN l ELSE q[i]]
      <4> DEFINE new == Append(q, l)
      <4>1. /\ new \in Seq(Line) /\ Len(new) = Len(f) + 1 /\ new[Len(f) + 1] = l
            /\ \A i \in 1 .. Len(f) : new[i] = q[i]
        BY <3>1, AppendMembers
      <4> HIDE DEF new
      <4>2. new = [i \in 1 .. Len(f) + 1 |-> new[i]]
        BY <4>1
      <4>3. \A i \in 1 .. Len(f) + 1 : new[i] = IF i = Len(f) + 1 THEN l ELSE q[i]
        BY <1>2, <4>1
      <4> QED BY <4>2, <4>3 DEF new
    <3> QED BY <3>2 DEF q
  <2> QED BY <2>1, <2>2, <2>4, <2>5 DEF g, r
<1> QED BY <1>3, <1>4, <1>5
----------------------------------------------------------------------------
(* The threads and their hands.                                            *)

(* What is buffered and what was refused are lines.                        *)
LEMMA RestIsLines ==
  ASSUME StreamTypes
  PROVE  /\ buffer \in Seq(Line) /\ Overflow \in Seq(Line) /\ buffer \o Overflow \in Seq(Line)
         /\ \A i \in 1 .. Len(buffer) : buffer[i] \in Event
<1>1. buffer \in Seq(Line) /\ \A i \in 1 .. Len(buffer) : buffer[i] \in Event
  BY DEF StreamTypes, Line
<1>2. Overflow \in Seq(Line)
  <2>1. CASE dropped = 0
    BY <2>1 DEF Overflow
  <2>2. CASE dropped # 0
    <3> DEFINE l == [kind |-> "metrics_stream_overflow", at |-> dropped]
    <3>1. l \in Line
      BY DEF StreamTypes, Line, Row
    <3> HIDE DEF l
    <3>2. <<l>> \in Seq(Line)
      BY <3>1
    <3> QED BY <2>2, <3>2 DEF Overflow, l
  <2> QED BY <2>1, <2>2
<1> QED BY <1>1, <1>2

(* Recording keeps the stream sound.                                       *)
LEMMA RecordStaysSound ==
  ASSUME StreamIsSound, NEW s \in Sessions, RecordStarted(s) \/ RecordFailure(s) \/ RecordFinished(s)
  PROVE  StreamIsSound'
<1>1. PICK kind \in Kinds, from \in SUBSET (Kinds \cup {"new"}) : Record(s, from, kind)
  <2>1. CASE RecordStarted(s)
    <3>1. "session_started" \in Kinds /\ {"new"} \in SUBSET (Kinds \cup {"new"})
      BY DEF Kinds
    <3>2. Record(s, {"new"}, "session_started")
      BY <2>1 DEF RecordStarted
    <3> QED BY <3>1, <3>2
  <2>2. CASE RecordFailure(s)
    <3>1. "session_failed" \in Kinds /\ {"session_started"} \in SUBSET (Kinds \cup {"new"})
      BY DEF Kinds
    <3>2. Record(s, {"session_started"}, "session_failed")
      BY <2>2 DEF RecordFailure
    <3> QED BY <3>1, <3>2
  <2>3. CASE RecordFinished(s)
    <3>1. "session_finished" \in Kinds /\ {"session_started", "session_failed"} \in SUBSET (Kinds \cup {"new"})
      BY DEF Kinds
    <3>2. Record(s, {"session_started", "session_failed"}, "session_finished")
      BY <2>3 DEF RecordFinished
    <3> QED BY <3>1, <3>2
  <2> QED BY <2>1, <2>2, <2>3
<1>2. totals' \in [Counted -> Nat] /\ gauge' \in Int
  BY DEF RecordStarted, RecordFailure, RecordFinished, StreamIsSound, StreamTypes, Counted
<1>3. session' \in [Sessions -> Kinds \cup {"new"}] /\ UNCHANGED <<pc, hands, sink, ticks, faults, late>>
  BY <1>1 DEF Record, StreamIsSound, StreamTypes
<1>4. [kind |-> kind, at |-> recorded + 1] \in Event
  BY DEF StreamIsSound, StreamTypes, Event
<1>5. buffer' \in Seq(Event) /\ dropped' \in Nat /\ recorded' \in Nat /\ (dropped' > 0 => Len(buffer') >= Capacity)
  <2>1. buffer \in Seq(Event) /\ dropped \in Nat /\ recorded \in Nat /\ (dropped > 0 => Len(buffer) >= Capacity)
    BY DEF StreamIsSound, StreamTypes, StreamShape
  <2>2. AppendEvent(kind)
    BY <1>1 DEF Record
  <2> QED BY <1>4, <2>1, <2>2, MetricsAssumption DEF AppendEvent
<1> QED BY <1>2, <1>3, <1>5 DEF StreamIsSound, StreamTypes, StreamShape, sink

(* Where a thread goes, and nobody else.                                   *)
LEMMA GoingKeepsPlaces ==
  ASSUME StreamTypes, NEW t \in Threads, NEW p,
         t = "reporter" => p \in ReporterPlaces, t = "main" => p \in MainPlaces,
         Goto(t, p)
  PROVE  /\ pc' \in [Threads -> ReporterPlaces \cup MainPlaces] /\ pc'["reporter"] \in ReporterPlaces /\ pc'["main"] \in MainPlaces
         /\ pc'[t] = p /\ \A u \in Threads \ {t} : pc'[u] = pc[u]
<1>1. t \in {"reporter", "main"} /\ pc' = [pc EXCEPT ![t] = p] /\ p \in ReporterPlaces \cup MainPlaces
  BY DEF Threads, Goto
<1> QED BY <1>1 DEF StreamTypes, Threads

(* A step of a thread that does not write: it goes to a place that its     *)
(* hands fit, and may empty the buffer into them.                          *)
LEMMA MovingStaysSound ==
  ASSUME StreamIsSound, NEW t \in Threads, NEW p, Goto(t, p),
         t = "reporter" => p \in ReporterPlaces, t = "main" => p \in MainPlaces, writer # t,
         hands' \in [Threads -> Seq(Line)], \A u \in Threads \ {t} : hands'[u] = hands[u],
         Fits(p, hands'[t]),
         (open' = open /\ pc[t] # "closed") \/ p = "closed", open' \in BOOLEAN,
         session' = session, totals' = totals, gauge' = gauge, recorded' = recorded,
         writer' = writer, seq' = seq, file' = file,
         late' \in BOOLEAN, faults' \in Nat,
         (buffer' = buffer /\ dropped' = dropped) \/ (buffer' = <<>> /\ dropped' = 0)
  PROVE  StreamIsSound'
<1>1. /\ pc' \in [Threads -> ReporterPlaces \cup MainPlaces] /\ pc'["reporter"] \in ReporterPlaces /\ pc'["main"] \in MainPlaces
      /\ pc'[t] = p /\ \A u \in Threads \ {t} : pc'[u] = pc[u]
  BY GoingKeepsPlaces DEF StreamIsSound
<1>3. buffer' \in Seq(Event) /\ dropped' \in Nat /\ (dropped' > 0 => Len(buffer') >= Capacity)
  <2>1. <<>> \in Seq(Event)
    OBVIOUS
  <2>2. CASE buffer' = buffer /\ dropped' = dropped
    BY <2>2 DEF StreamIsSound, StreamTypes, StreamShape
  <2>3. CASE buffer' = <<>> /\ dropped' = 0
    BY <2>1, <2>3
  <2> QED BY <2>2, <2>3
<1>4. StreamTypes'
  BY <1>1, <1>3 DEF StreamIsSound, StreamTypes
<1>5. ASSUME NEW u \in Threads
      PROVE  Fits(pc'[u], hands'[u]) /\ (writer' = u => pc'[u] \in {"snapshot", "rows"})
  BY <1>1 DEF StreamIsSound, StreamShape
<1>6. ~open' => pc'["main"] = "closed"
  <2>1. "closed" \notin ReporterPlaces /\ t \in {"reporter", "main"} /\ {"reporter", "main"} = Threads
    BY DEF ReporterPlaces, Threads
  <2> QED BY <1>1, <2>1 DEF StreamIsSound, StreamShape
<1> QED BY <1>3, <1>4, <1>5, <1>6 DEF StreamIsSound, StreamShape

(* Where a thread rests after an emission, and where it is after a fault.  *)
LEMMA RestingPlaces ==
  ASSUME NEW t \in Threads
  PROVE  /\ t = "reporter" => (IF t = "main" THEN "close" ELSE "wait") \in ReporterPlaces
         /\ t = "main" => (IF t = "main" THEN "close" ELSE "wait") \in MainPlaces
         /\ t = "reporter" => (IF t = "main" THEN "raised" ELSE "died") \in ReporterPlaces
         /\ t = "main" => (IF t = "main" THEN "raised" ELSE "died") \in MainPlaces
         /\ \A p \in {"json", "count", "snapshot", "drain", "rows"} : p \in ReporterPlaces /\ p \in MainPlaces
         /\ t \in {"reporter", "main"}
BY DEF Threads, ReporterPlaces, MainPlaces

(* A snapshot, a drain and what comes before them.                         *)
LEMMA PreparingStaysSound ==
  ASSUME StreamIsSound, NEW t \in Threads,
         WriteJson(t) \/ WriteJsonFails(t) \/ TakeSnapshot(t) \/ Drain(t)
  PROVE  StreamIsSound'
<1> DEFINE rest == IF t = "main" THEN "close" ELSE "wait"
           fault == IF t = "main" THEN "raised" ELSE "died"
<1>0. /\ pc[t] \in {"json", "json only", "count", "drain"} => writer # t /\ hands[t] = <<>>
      /\ open \in BOOLEAN /\ late \in BOOLEAN /\ faults \in Nat
      /\ hands \in [Threads -> Seq(Line)]
  BY DEF StreamIsSound, StreamShape, StreamTypes, Fits
<1>a. /\ Fits("count", <<>>) /\ Fits(rest, <<>>) /\ Fits(fault, <<>>)
      /\ \A h : Fits(fault, h) /\ (Len(h) = 1 => Fits("snapshot", h)) /\ (h # <<>> => Fits("rows", h))
  BY DEF Fits
<1>b. /\ t = "reporter" => rest \in ReporterPlaces /\ fault \in ReporterPlaces
      /\ t = "main" => rest \in MainPlaces /\ fault \in MainPlaces
      /\ \A p \in {"json", "count", "snapshot", "drain", "rows"} : p \in ReporterPlaces /\ p \in MainPlaces
  BY RestingPlaces
<1>c. ASSUME pc[t] \in {"json", "json only"}, UNCHANGED <<session, store, hands, sink, late>>, faults' \in Nat,
             NEW p, Fits(p, <<>>), t = "reporter" => p \in ReporterPlaces, t = "main" => p \in MainPlaces, Goto(t, p)
      PROVE  StreamIsSound'
  <2>1. Fits(p, hands'[t]) /\ writer # t /\ pc[t] # "closed" /\ hands' \in [Threads -> Seq(Line)]
        /\ \A u \in Threads \ {t} : hands'[u] = hands[u]
    BY <1>0, <1>c
  <2>3. /\ session' = session /\ totals' = totals /\ gauge' = gauge /\ recorded' = recorded
        /\ writer' = writer /\ seq' = seq /\ file' = file /\ open' = open /\ late' = late
        /\ buffer' = buffer /\ dropped' = dropped /\ hands' = hands
    BY <1>c DEF sink, store
  <2> HIDE DEF rest, fault
  <2>4. open' \in BOOLEAN /\ late' \in BOOLEAN
    BY <1>0, <2>3
  <2> QED BY <1>c, <2>1, <2>3, <2>4, MovingStaysSound
<1>1. CASE WriteJson(t)
  <2>1. /\ pc[t] \in {"json", "json only"} /\ UNCHANGED <<session, store, hands, sink, ticks, faults, late>>
        /\ Goto(t, "count") \/ Goto(t, rest)
        /\ faults' = faults
    BY <1>1 DEF WriteJson, Rest
  <2> HIDE DEF rest, fault
  <2>2. faults' \in Nat
    BY <1>0, <2>1
  <2>3. CASE Goto(t, "count")
    BY <1>a, <1>b, <1>c, <2>1, <2>2, <2>3
  <2>4. CASE Goto(t, rest)
    BY <1>a, <1>b, <1>c, <2>1, <2>2, <2>4
  <2> QED BY <2>1, <2>3, <2>4
<1>2. CASE WriteJsonFails(t)
  <2>1. /\ pc[t] \in {"json", "json only"} /\ UNCHANGED <<session, store, hands, sink, ticks, late>>
        /\ Goto(t, fault) /\ faults' = faults + 1
    BY <1>2 DEF WriteJsonFails, Raise
  <2>2. faults' \in Nat
    <3>1. faults' = faults + 1
      BY <1>2 DEF WriteJsonFails
    <3>2. faults \in Nat
      BY <1>0
    <3> QED BY <3>1, <3>2
  <2> HIDE DEF rest, fault
  <2> QED BY <1>a, <1>b, <1>c, <2>1, <2>2
<1>3. CASE TakeSnapshot(t)
  <2> DEFINE l == [kind |-> "snapshot", at |-> totals]
             h == <<l>>
  <2>1. l \in Line
    BY DEF StreamIsSound, StreamTypes, Line, Snapshot
  <2>2. /\ pc[t] = "count" /\ hands' = [hands EXCEPT ![t] = h] /\ Goto(t, "snapshot")
        /\ UNCHANGED <<session, store, sink, ticks, faults, late>>
    BY <1>3 DEF TakeSnapshot
  <2> HIDE DEF l
  <2>3. h \in Seq(Line) /\ Len(h) = 1
    BY <2>1
  <2>4. Fits("snapshot", h)
    BY <1>a, <2>3
  <2> HIDE DEF h
  <2>5. /\ session' = session /\ totals' = totals /\ gauge' = gauge /\ recorded' = recorded
        /\ writer' = writer /\ seq' = seq /\ file' = file /\ open' = open /\ late' = late /\ faults' = faults
        /\ buffer' = buffer /\ dropped' = dropped
        /\ hands' \in [Threads -> Seq(Line)] /\ hands'[t] = h /\ \A u \in Threads \ {t} : hands'[u] = hands[u]
    BY <1>0, <2>2, <2>3 DEF sink, store
  <2> QED BY <1>0, <1>b, <2>2, <2>4, <2>5, MovingStaysSound
<1>4. CASE Drain(t)
  <2> DEFINE h == buffer \o Overflow
  <2>1. h \in Seq(Line)
    BY RestIsLines DEF StreamIsSound
  <2>2. /\ pc[t] = "drain" /\ hands' = [hands EXCEPT ![t] = h] /\ buffer' = <<>> /\ dropped' = 0
        /\ IF h = <<>> THEN Goto(t, rest) ELSE Goto(t, "rows")
        /\ UNCHANGED <<session, totals, gauge, recorded, sink, ticks, faults, late>>
    BY <1>4 DEF Drain, Rest
  <2> HIDE DEF h
  <2>3. /\ session' = session /\ totals' = totals /\ gauge' = gauge /\ recorded' = recorded
        /\ writer' = writer /\ seq' = seq /\ file' = file /\ open' = open /\ late' = late /\ faults' = faults
        /\ hands' \in [Threads -> Seq(Line)] /\ hands'[t] = h /\ \A u \in Threads \ {t} : hands'[u] = hands[u]
    BY <1>0, <2>1, <2>2 DEF sink, store
  <2> HIDE DEF rest, fault
  <2>4. CASE h = <<>>
    BY <1>0, <1>a, <1>b, <2>2, <2>3, <2>4, MovingStaysSound
  <2>5. CASE h # <<>>
    BY <1>0, <1>a, <1>b, <2>2, <2>3, <2>5, MovingStaysSound
  <2> QED BY <2>4, <2>5
<1> QED BY <1>1, <1>2, <1>3, <1>4

(* The lines around a write: the head of what a thread holds goes last     *)
(* into the file.                                                          *)
LEMMA WrittenLine ==
  ASSUME StreamIsSound, NEW t \in Threads, writer = t
  PROVE  /\ hands[t] \in Seq(Line) /\ hands[t] # <<>> /\ Head(hands[t]) \in Line /\ Tail(hands[t]) \in Seq(Line)
         /\ Len(Tail(hands[t])) = Len(hands[t]) - 1
         /\ Written(t) = Append(file, Numbered(seq, Head(hands[t]))) /\ Written(t) \in Seq(FileLine)
         /\ Plain(Written(t)) = Append(Plain(file), Head(hands[t]))
<1>1. hands[t] \in Seq(Line) /\ hands[t] # <<>>
  <2>1. hands[t] \in Seq(Line) /\ (Len(hands[t]) = 1 \/ hands[t] # <<>>)
    BY DEF StreamIsSound, StreamTypes, StreamShape, Fits
  <2> QED BY <2>1
<1>2. Head(hands[t]) \in Line /\ Tail(hands[t]) \in Seq(Line) /\ Len(Tail(hands[t])) = Len(hands[t]) - 1
  BY <1>1
<1>3. Written(t) = Append(file, Numbered(seq, Head(hands[t])))
  BY DEF Written, Numbered
<1> QED BY <1>1, <1>2, <1>3, LinesOfFile DEF StreamIsSound, StreamTypes

(* The lock of the sink and the writes under it.                           *)
LEMMA WritingStaysSound ==
  ASSUME StreamIsSound, NEW t \in Threads, Acquire(t) \/ WriteReturns(t) \/ WriteFails(t)
  PROVE  StreamIsSound'
<1>1. CASE Acquire(t)
  <2>1. /\ pc[t] \in {"snapshot", "rows"} /\ writer = "nobody" /\ "nobody" \notin Threads
        /\ open \in BOOLEAN /\ late \in BOOLEAN /\ faults \in Nat
    BY <1>1 DEF Acquire, Threads, StreamIsSound, StreamTypes
  <2>2. CASE open
    <3>1. writer' = t /\ seq' = seq + 1 /\ UNCHANGED <<session, store, pc, hands, open, file, ticks, faults, late>>
      BY <1>1, <2>2 DEF Acquire
    <3> QED BY <2>1, <3>1 DEF StreamIsSound, StreamTypes, StreamShape, store
  <2>3. CASE ~open
    <3>1. /\ Goto(t, IF t = "main" THEN "raised" ELSE "died")
          /\ UNCHANGED <<session, store, hands, open, file, ticks, faults, late, writer, seq>>
      BY <1>1, <2>3 DEF Acquire, Raise
    <3>2. /\ session' = session /\ totals' = totals /\ gauge' = gauge /\ recorded' = recorded
          /\ writer' = writer /\ seq' = seq /\ file' = file /\ open' = open /\ late' = late /\ faults' = faults
          /\ buffer' = buffer /\ dropped' = dropped /\ hands' = hands /\ hands \in [Threads -> Seq(Line)]
      BY <3>1 DEF store, StreamIsSound, StreamTypes
    <3> DEFINE fault == IF t = "main" THEN "raised" ELSE "died"
    <3>3. Fits(fault, hands'[t]) /\ (t = "reporter" => fault \in ReporterPlaces) /\ (t = "main" => fault \in MainPlaces)
      BY RestingPlaces DEF Fits
    <3>4. Goto(t, fault)
      BY <3>1
    <3> HIDE DEF fault
    <3> QED BY <2>1, <3>2, <3>3, <3>4, MovingStaysSound
  <2> QED BY <2>2, <2>3
<1>2. ASSUME writer = t, writer' = "nobody", UNCHANGED <<session, store, seq, open, ticks, late>>, faults' \in Nat,
             NEW p, t = "reporter" => p \in ReporterPlaces, t = "main" => p \in MainPlaces,
             pc' = [pc EXCEPT ![t] = p],
             \/ UNCHANGED <<file, hands>> /\ Fits(p, hands[t])
             \/ file' = Written(t) /\ hands' = [hands EXCEPT ![t] = Tail(@)] /\ Fits(p, Tail(hands[t]))
      PROVE  StreamIsSound'
  <2>1. /\ pc' \in [Threads -> ReporterPlaces \cup MainPlaces] /\ pc'["reporter"] \in ReporterPlaces
        /\ pc'["main"] \in MainPlaces /\ pc'[t] = p /\ \A u \in Threads \ {t} : pc'[u] = pc[u]
    BY <1>2, GoingKeepsPlaces DEF StreamIsSound, Goto
  <2>2. hands' \in [Threads -> Seq(Line)] /\ file' \in Seq(FileLine) /\ \A u \in Threads \ {t} : hands'[u] = hands[u]
    BY <1>2, WrittenLine DEF StreamIsSound, StreamTypes
  <2>3. StreamTypes'
    BY <1>2, <2>1, <2>2 DEF StreamIsSound, StreamTypes, store
  <2>4. Fits(p, hands'[t])
    BY <1>2 DEF StreamIsSound, StreamTypes
  <2>5. ASSUME NEW u \in Threads
        PROVE  Fits(pc'[u], hands'[u]) /\ (writer' = u => pc'[u] \in {"snapshot", "rows"})
    <3>1. "nobody" \notin Threads
      BY DEF Threads
    <3> QED BY <1>2, <2>1, <2>2, <2>4, <3>1 DEF StreamIsSound, StreamShape
  <2>6. ~open' => pc'["main"] = "closed"
    <3>1. t \in {"reporter", "main"} /\ "main" \in Threads /\ (~open => pc["main"] = "closed")
      BY DEF Threads, StreamIsSound, StreamShape
    <3>2. pc[t] \in {"snapshot", "rows"}
      BY <1>2 DEF StreamIsSound, StreamShape
    <3> QED BY <1>2, <2>1, <3>1, <3>2
  <2> QED BY <1>2, <2>3, <2>5, <2>6 DEF StreamIsSound, StreamShape, store
<1>3. CASE WriteReturns(t)
  <2>1. /\ writer = t /\ writer' = "nobody" /\ file' = Written(t) /\ hands' = [hands EXCEPT ![t] = Tail(@)]
        /\ UNCHANGED <<session, store, seq, open, ticks, faults, late>>
    BY <1>3 DEF WriteReturns
  <2>2. /\ pc[t] \in {"snapshot", "rows"} /\ (pc[t] = "snapshot" => Len(hands[t]) = 1) /\ faults \in Nat
        /\ pc' = pc => pc' = [pc EXCEPT ![t] = pc[t]]
    BY <2>1 DEF StreamIsSound, StreamTypes, StreamShape, Fits
  <2>3. /\ Len(Tail(hands[t])) = Len(hands[t]) - 1 /\ Tail(hands[t]) \in Seq(Line) /\ hands[t] \in Seq(Line)
    BY <2>1, WrittenLine
  <2> DEFINE h == Tail(hands[t])
             rest == IF t = "main" THEN "close" ELSE "wait"
  <2>a. h = <<>> => Fits("drain", h) /\ Fits(rest, h)
    BY DEF Fits
  <2>b. h # <<>> => Fits("rows", h)
    BY DEF Fits
  <2>c. hands[t] # <<>> /\ (Len(h) = 0 => h = <<>>) /\ (Len(h) # 0 => h # <<>>) /\ Len(hands[t]) \in Nat
    <3>1. hands[t] # <<>>
      BY <2>1, WrittenLine
    <3>2. \A q \in Seq(Line) : (Len(q) = 0 => q = <<>>) /\ (Len(q) # 0 => q # <<>>) /\ Len(q) \in Nat
      OBVIOUS
    <3> QED BY <2>3, <3>1, <3>2
  <2>4. CASE pc[t] = "snapshot"
    <3>1. pc' = [pc EXCEPT ![t] = "drain"]
      BY <1>3, <2>4 DEF WriteReturns, Goto
    <3>2. Fits("drain", Tail(hands[t])) /\ faults' \in Nat
      BY <2>1, <2>2, <2>3, <2>4, <2>a, <2>c
    <3> QED BY <1>2, <2>1, <3>1, <3>2, RestingPlaces
  <2>5. CASE pc[t] = "rows" /\ Len(hands[t]) = 1
    <3>1. pc' = [pc EXCEPT ![t] = rest]
      BY <1>3, <2>5 DEF WriteReturns, Goto, Rest
    <3>2. Fits(rest, Tail(hands[t])) /\ faults' \in Nat
      BY <2>1, <2>2, <2>3, <2>5, <2>a, <2>c
    <3>3. (t = "reporter" => rest \in ReporterPlaces) /\ (t = "main" => rest \in MainPlaces)
      BY RestingPlaces
    <3> HIDE DEF rest
    <3> QED BY <1>2, <2>1, <3>1, <3>2, <3>3
  <2>6. CASE pc[t] = "rows" /\ Len(hands[t]) # 1
    <3>1. pc' = [pc EXCEPT ![t] = "rows"]
      BY <1>3, <2>2, <2>6 DEF WriteReturns
    <3>2. Fits("rows", Tail(hands[t])) /\ faults' \in Nat
      BY <2>1, <2>2, <2>3, <2>6, <2>b, <2>c
    <3> QED BY <1>2, <2>1, <3>1, <3>2, RestingPlaces
  <2> QED BY <2>2, <2>4, <2>5, <2>6
<1>4. CASE WriteFails(t)
  <2>1. /\ writer = t /\ writer' = "nobody" /\ UNCHANGED <<session, store, seq, open, ticks, late>> /\ faults' = faults + 1
        /\ \/ UNCHANGED <<file, hands>>
           \/ file' = Written(t) /\ hands' = [hands EXCEPT ![t] = Tail(@)]
        /\ pc' = [pc EXCEPT ![t] = IF t = "main" THEN "raised" ELSE "died"]
    BY <1>4 DEF WriteFails, Raise, Goto
  <2> DEFINE fault == IF t = "main" THEN "raised" ELSE "died"
  <2>2. faults' \in Nat /\ Fits(fault, hands[t]) /\ Fits(fault, Tail(hands[t]))
    BY <2>1 DEF StreamIsSound, StreamTypes, Fits
  <2>3. (t = "reporter" => fault \in ReporterPlaces) /\ (t = "main" => fault \in MainPlaces)
    BY RestingPlaces
  <2>4. pc' = [pc EXCEPT ![t] = fault]
    BY <2>1
  <2> HIDE DEF fault
  <2> QED BY <1>2, <2>1, <2>2, <2>3, <2>4
<1> QED BY <1>1, <1>3, <1>4

(* The loop of the reporter thread and stop().                             *)
LEMMA BetweenStaysSound ==
  ASSUME StreamIsSound, Tick \/ ThreadEnds \/ RunOver \/ Joined \/ JoinTimesOut \/ CloseSink
  PROVE  StreamIsSound'
<1>0. /\ open \in BOOLEAN /\ late \in BOOLEAN /\ faults \in Nat /\ hands \in [Threads -> Seq(Line)]
      /\ "reporter" \in Threads /\ "main" \in Threads
  BY DEF StreamIsSound, StreamTypes, Threads
<1>1. ASSUME NEW t \in Threads, pc[t] \in {"wait", "run", "join", "close"}
      PROVE  writer # t /\ hands[t] = <<>>
  BY <1>1 DEF StreamIsSound, StreamShape, Fits
<1>2. \A p \in {"count", "json", "json only", "ended", "join", "closed"} : Fits(p, <<>>)
  BY DEF Fits
<1>3. /\ {"count", "json", "json only", "ended"} \subseteq ReporterPlaces
      /\ {"json", "join", "closed"} \subseteq MainPlaces
  BY DEF ReporterPlaces, MainPlaces
<1>4. CASE Tick \/ ThreadEnds
  <2>1. /\ pc["reporter"] = "wait"
        /\ session' = session /\ totals' = totals /\ gauge' = gauge /\ recorded' = recorded
        /\ writer' = writer /\ seq' = seq /\ file' = file /\ open' = open /\ late' = late /\ faults' = faults
        /\ buffer' = buffer /\ dropped' = dropped /\ hands' = hands
    BY <1>4 DEF Tick, ThreadEnds, store, sink
  <2>2. PICK p \in {"count", "json", "json only", "ended"} : Goto("reporter", p)
    <3>1. CASE Tick
      BY <3>1 DEF Tick
    <3>2. CASE ThreadEnds
      BY <3>2 DEF ThreadEnds
    <3> QED BY <1>4, <3>1, <3>2
  <2>3. writer # "reporter" /\ hands["reporter"] = <<>>
    BY <1>0, <1>1, <2>1
  <2>4. /\ hands' \in [Threads -> Seq(Line)] /\ hands'["reporter"] = <<>> /\ open' \in BOOLEAN /\ late' \in BOOLEAN
        /\ faults' \in Nat /\ p \in ReporterPlaces /\ Fits(p, hands'["reporter"])
        /\ \A u \in Threads \ {"reporter"} : hands'[u] = hands[u]
    BY <1>0, <1>2, <1>3, <2>1, <2>3
  <2> QED BY <1>0, <2>1, <2>2, <2>3, <2>4, MovingStaysSound
<1>5. CASE RunOver \/ Joined \/ JoinTimesOut \/ CloseSink
  <2>1. /\ pc["main"] \in {"run", "join", "close"}
        /\ session' = session /\ totals' = totals /\ gauge' = gauge /\ recorded' = recorded
        /\ writer' = writer /\ seq' = seq /\ file' = file /\ faults' = faults
        /\ buffer' = buffer /\ dropped' = dropped /\ hands' = hands
    BY <1>5 DEF RunOver, Joined, JoinTimesOut, CloseSink, store, sink
  <2>2. PICK p \in {"json", "join", "closed"} :
          Goto("main", p) /\ (open' = open \/ p = "closed") /\ open' \in BOOLEAN /\ late' \in BOOLEAN
    <3>1. CASE RunOver
      BY <1>0, <3>1 DEF RunOver, sink
    <3>2. CASE Joined
      BY <1>0, <3>2 DEF Joined, sink
    <3>3. CASE JoinTimesOut
      BY <1>0, <3>3 DEF JoinTimesOut, sink
    <3>4. CASE CloseSink
      BY <1>0, <3>4 DEF CloseSink
    <3> QED BY <1>5, <3>1, <3>2, <3>3, <3>4
  <2>3. writer # "main" /\ hands["main"] = <<>>
    BY <1>0, <1>1, <2>1
  <2>4. /\ hands' \in [Threads -> Seq(Line)] /\ hands'["main"] = <<>>
        /\ faults' \in Nat /\ p \in MainPlaces /\ Fits(p, hands'["main"])
        /\ \A u \in Threads \ {"main"} : hands'[u] = hands[u]
    BY <1>0, <1>2, <1>3, <2>1, <2>3
  <2> QED BY <1>0, <2>1, <2>2, <2>3, <2>4, MovingStaysSound
<1> QED BY <1>4, <1>5

(* Every step keeps the stream sound.                                      *)
LEMMA SoundStep ==
  ASSUME StreamIsSound, [MetricsNext]_vars
  PROVE  StreamIsSound'
<1>1. CASE UNCHANGED vars
  <2>1. /\ session' = session /\ store' = store /\ pc' = pc /\ hands' = hands /\ sink' = sink
        /\ faults' = faults /\ late' = late
    BY <1>1 DEF vars
  <2> QED BY <2>1 DEF store, sink, StreamIsSound, StreamTypes, StreamShape
<1>2. CASE \E s \in Sessions : RecordStarted(s) \/ RecordFailure(s) \/ RecordFinished(s)
  BY <1>2, RecordStaysSound
<1>3. CASE \E t \in Threads : Emit(t)
  BY <1>3, PreparingStaysSound, WritingStaysSound DEF Emit
<1>4. CASE Tick \/ ThreadEnds \/ RunOver \/ Joined \/ JoinTimesOut \/ CloseSink
  BY <1>4, BetweenStaysSound
<1> QED BY <1>1, <1>2, <1>3, <1>4 DEF MetricsNext

(* The stream begins sound.                                                *)
LEMMA SoundInit ==
  ASSUME MetricsInit
  PROVE  StreamIsSound
<1>1. session \in [Sessions -> Kinds \cup {"new"}] /\ totals \in [Counted -> Nat]
  BY DEF MetricsInit
<1>2. /\ buffer \in Seq(Event) /\ hands \in [Threads -> Seq(Line)] /\ file \in Seq(FileLine)
      /\ \A t \in Threads : hands[t] = <<>> /\ pc[t] \in {"run", "wait"} /\ writer # t
  BY DEF MetricsInit, Threads
<1>3. /\ pc \in [Threads -> ReporterPlaces \cup MainPlaces] /\ pc["reporter"] \in ReporterPlaces /\ pc["main"] \in MainPlaces
  <2>1. /\ pc = [t \in Threads |-> IF t = "main" THEN "run" ELSE "wait"] /\ "main" \in Threads /\ "reporter" \in Threads
        /\ "run" \in MainPlaces /\ "wait" \in ReporterPlaces
    BY DEF MetricsInit, Threads, ReporterPlaces, MainPlaces
  <2> QED BY <2>1
<1>4. /\ writer \in Threads \cup {"nobody"} /\ seq \in Nat /\ open = TRUE /\ late \in BOOLEAN /\ faults \in Nat
      /\ gauge \in Int /\ dropped = 0 /\ recorded \in Nat
  <2>1. writer = "nobody" /\ seq = 0 /\ open = TRUE /\ late = FALSE /\ faults = 0 /\ gauge = 0 /\ dropped = 0 /\ recorded = 0
    BY DEF MetricsInit
  <2>2. open = TRUE /\ late \in BOOLEAN
    BY <2>1, Zenon
  <2> QED BY <2>1, <2>2
<1>5. Len(<<>>) = 0
  OBVIOUS
<1>6. \A t \in Threads : Fits(pc[t], hands[t])
  BY <1>2 DEF Fits
<1>7. StreamTypes
  BY <1>1, <1>2, <1>3, <1>4 DEF StreamTypes
<1>8. StreamShape
  BY <1>2, <1>4, <1>6 DEF StreamShape
<1> QED BY <1>7, <1>8 DEF StreamIsSound

(* The types of the stream; a thread holds what its place needs, and the   *)
(* lock of the sink only while it writes.                                  *)
THEOREM StreamStaysSound == MetricsSpec => []StreamIsSound
<1>1. MetricsInit => StreamIsSound
  BY SoundInit
<1>2. StreamIsSound /\ [MetricsNext]_vars => StreamIsSound'
  BY SoundStep
<1> QED BY <1>1, <1>2, PTL DEF MetricsSpec
----------------------------------------------------------------------------
(* What a step does to the lines.                                          *)

(* An event is recorded and counted.                                       *)
Records(kind) ==
  /\ pc["main"] = "run"
  /\ AppendEvent(kind)
  /\ \A k \in Counted : totals'[k] = totals[k] + (IF k = kind THEN 1 ELSE 0)
  /\ UNCHANGED <<pc, hands, sink, faults, late>>

Counters == <<session, totals, gauge, recorded>>

Snaps(t) ==
  /\ pc[t] = "count" /\ hands[t] = <<>> /\ hands'[t] = <<[kind |-> "snapshot", at |-> totals]>>
  /\ file' = file /\ buffer' = buffer /\ dropped' = dropped
  /\ seq' = seq /\ writer' = writer /\ faults' = faults /\ pc'[t] = "snapshot"

Drains(t) ==
  /\ pc[t] = "drain" /\ hands[t] = <<>> /\ hands'[t] = buffer \o Overflow
  /\ file' = file /\ buffer' = <<>> /\ dropped' = 0
  /\ seq' = seq /\ writer' = writer /\ faults' = faults /\ pc'[t] \in {"rows", "close", "wait"}

Writes(t) ==
  /\ writer = t /\ writer' = "nobody" /\ seq' = seq
  /\ file' = Written(t) /\ hands'[t] = Tail(hands[t])
  /\ buffer' = buffer /\ dropped' = dropped
  /\ \/ faults' = faults /\ (IF pc[t] = "snapshot" THEN pc'[t] = "drain" ELSE pc'[t] \in {"rows", "close", "wait"})
     \/ faults' = faults + 1 /\ pc'[t] \in {"died", "raised"}

\* A step of a thread alone.
Others(t) == \A u \in Threads \ {t} : hands'[u] = hands[u] /\ pc'[u] = pc[u]

\* A step that leaves all lines where they are, and no thread between a
\* snapshot and its drain but by a fault.
Keeps ==
  /\ file' = file /\ hands' = hands /\ buffer' = buffer /\ dropped' = dropped
  /\ \A t \in Threads : pc[t] \in {"snapshot", "drain"} => pc'[t] \in {pc[t], "died", "raised"}

(* A session records one event, and counts it when it is a start or a      *)
(* failure.                                                                *)
LEMMA RecordingSteps ==
  ASSUME StreamIsSound, NEW s \in Sessions, RecordStarted(s) \/ RecordFailure(s) \/ RecordFinished(s)
  PROVE  \E kind \in Kinds : Records(kind)
<1>0. totals \in [Counted -> Nat] /\ Counted = {"session_started", "session_failed"} /\ Counted \subseteq Kinds
      /\ "session_finished" \in Kinds \ Counted
  BY DEF StreamIsSound, StreamTypes, Counted, Kinds
<1>1. CASE RecordStarted(s)
  <2>0. totals' = [totals EXCEPT !["session_started"] = @ + 1]
    BY <1>1 DEF RecordStarted
  <2>1. \A k \in Counted : totals'[k] = totals[k] + (IF k = "session_started" THEN 1 ELSE 0)
    BY <1>0, <2>0
  <2> QED BY <1>0, <1>1, <2>1 DEF RecordStarted, Record, Records
<1>2. CASE RecordFailure(s)
  <2>0. totals' = [totals EXCEPT !["session_failed"] = @ + 1]
    BY <1>2 DEF RecordFailure
  <2>1. \A k \in Counted : totals'[k] = totals[k] + (IF k = "session_failed" THEN 1 ELSE 0)
    BY <1>0, <2>0
  <2> QED BY <1>0, <1>2, <2>1 DEF RecordFailure, Record, Records
<1>3. CASE RecordFinished(s)
  <2>0. totals' = totals
    BY <1>3 DEF RecordFinished
  <2>1. \A k \in Counted : totals'[k] = totals[k] + (IF k = "session_finished" THEN 1 ELSE 0)
    BY <1>0, <2>0
  <2> QED BY <1>0, <1>3, <2>1 DEF RecordFinished, Record, Records
<1> QED BY <1>1, <1>2, <1>3

(* Every other step keeps the counters, and either leaves the lines where  *)
(* they are or moves them in one of three ways.                            *)
LEMMA OtherSteps ==
  ASSUME StreamIsSound, [MetricsNext]_vars,
         ~ \E s \in Sessions : RecordStarted(s) \/ RecordFailure(s) \/ RecordFinished(s)
  PROVE  /\ UNCHANGED Counters
         /\ Keeps \/ \E t \in Threads : Others(t) /\ (Snaps(t) \/ Drains(t) \/ Writes(t))
<1>0. hands \in [Threads -> Seq(Line)] /\ pc \in [Threads -> ReporterPlaces \cup MainPlaces]
  BY DEF StreamIsSound, StreamTypes
<1>1. CASE UNCHANGED vars
  BY <1>1 DEF vars, store, sink, Counters, Keeps
<1>a. ASSUME NEW t \in Threads, NEW p, Goto(t, p), pc[t] \notin {"snapshot", "drain"} \/ p \in {"died", "raised"}
      PROVE  \A u \in Threads : pc[u] \in {"snapshot", "drain"} => pc'[u] \in {pc[u], "died", "raised"}
  BY <1>0, <1>a DEF Goto
<1>2. CASE Tick \/ ThreadEnds \/ RunOver \/ Joined \/ JoinTimesOut \/ CloseSink
  <2>1. UNCHANGED Counters /\ file' = file /\ hands' = hands /\ buffer' = buffer /\ dropped' = dropped
    BY <1>2 DEF Tick, ThreadEnds, RunOver, Joined, JoinTimesOut, CloseSink, store, sink, Counters
  <2>2. \E t \in Threads, p \in ReporterPlaces \cup MainPlaces : Goto(t, p) /\ pc[t] \notin {"snapshot", "drain"}
    BY <1>2 DEF Tick, ThreadEnds, RunOver, Joined, JoinTimesOut, CloseSink, Threads, ReporterPlaces, MainPlaces
  <2> QED BY <1>a, <2>1, <2>2 DEF Keeps
<1>3. ASSUME NEW t \in Threads, Emit(t)
      PROVE  UNCHANGED Counters /\ (Keeps \/ (Others(t) /\ (Snaps(t) \/ Drains(t) \/ Writes(t))))
  <2>1. CASE WriteJson(t) \/ WriteJsonFails(t)
    <3>1. UNCHANGED Counters /\ file' = file /\ hands' = hands /\ buffer' = buffer /\ dropped' = dropped
          /\ pc[t] \notin {"snapshot", "drain"}
      BY <2>1 DEF WriteJson, WriteJsonFails, store, sink, Counters
    <3>2. \E p : Goto(t, p)
      BY <2>1 DEF WriteJson, WriteJsonFails, Rest, Raise
    <3> QED BY <1>a, <3>1, <3>2 DEF Keeps
  <2>2. CASE Acquire(t)
    <3>1. UNCHANGED Counters /\ file' = file /\ hands' = hands /\ buffer' = buffer /\ dropped' = dropped
      BY <2>2 DEF Acquire, store, Counters
    <3>2. pc' = pc \/ \E p \in {"died", "raised"} : Goto(t, p)
      BY <2>2 DEF Acquire, Raise
    <3> QED BY <1>a, <3>1, <3>2 DEF Keeps
  <2>3. CASE TakeSnapshot(t)
    <3>1. /\ pc[t] = "count" /\ hands' = [hands EXCEPT ![t] = <<[kind |-> "snapshot", at |-> totals]>>]
          /\ pc' = [pc EXCEPT ![t] = "snapshot"] /\ UNCHANGED Counters
          /\ file' = file /\ buffer' = buffer /\ dropped' = dropped /\ seq' = seq /\ writer' = writer /\ faults' = faults
      BY <2>3 DEF TakeSnapshot, Goto, store, sink, Counters
    <3>2. hands[t] = <<>>
      BY <3>1 DEF StreamIsSound, StreamShape, Fits
    <3>3. Snaps(t)
      BY <1>0, <3>1, <3>2 DEF Snaps
    <3>4. Others(t)
      BY <1>0, <3>1 DEF Others
    <3> QED BY <3>1, <3>3, <3>4
  <2>4. CASE Drain(t)
    <3> DEFINE h == buffer \o Overflow
    <3>1. /\ pc[t] = "drain" /\ hands' = [hands EXCEPT ![t] = h]
          /\ \E p \in {"rows", "close", "wait"} : pc' = [pc EXCEPT ![t] = p]
          /\ UNCHANGED Counters /\ buffer' = <<>> /\ dropped' = 0
          /\ file' = file /\ seq' = seq /\ writer' = writer /\ faults' = faults
      BY <2>4 DEF Drain, Goto, Rest, store, sink, Counters
    <3>2. hands[t] = <<>>
      BY <3>1 DEF StreamIsSound, StreamShape, Fits
    <3>3. PICK p \in {"rows", "close", "wait"} : pc' = [pc EXCEPT ![t] = p]
      BY <3>1
    <3> HIDE DEF h
    <3>4. hands'[t] = h /\ pc'[t] = p /\ Others(t)
      BY <1>0, <3>1, <3>3 DEF Others
    <3>5. Drains(t)
      BY <3>1, <3>2, <3>4 DEF Drains, h
    <3> QED BY <3>1, <3>4, <3>5
  <2>5. CASE WriteReturns(t)
    <3>1. /\ writer = t /\ writer' = "nobody" /\ file' = Written(t) /\ hands' = [hands EXCEPT ![t] = Tail(@)]
          /\ UNCHANGED Counters /\ buffer' = buffer /\ dropped' = dropped /\ seq' = seq /\ faults' = faults
      BY <2>5 DEF WriteReturns, store, Counters
    <3>2. hands'[t] = Tail(hands[t]) /\ \A u \in Threads \ {t} : hands'[u] = hands[u]
      BY <1>0, <3>1
    <3>3. PICK p : /\ pc' = [pc EXCEPT ![t] = p]
                   /\ IF pc[t] = "snapshot" THEN p = "drain" ELSE p \in {"rows", "close", "wait"}
      <4>1. CASE pc[t] = "snapshot"
        <5>1. pc' = [pc EXCEPT ![t] = "drain"]
          BY <2>5, <4>1 DEF WriteReturns, Goto
        <5> QED BY <4>1, <5>1
      <4>2. CASE pc[t] # "snapshot" /\ Len(hands[t]) = 1
        <5>1. \E p \in {"close", "wait"} : pc' = [pc EXCEPT ![t] = p]
          BY <2>5, <4>2 DEF WriteReturns, Rest, Goto
        <5> QED BY <4>2, <5>1
      <4>3. CASE pc[t] # "snapshot" /\ Len(hands[t]) # 1
        <5>1. pc[t] = "rows" /\ pc' = pc
          BY <2>5, <4>3 DEF WriteReturns
        <5>2. pc' = [pc EXCEPT ![t] = "rows"]
          BY <1>0, <5>1
        <5> QED BY <4>3, <5>2
      <4> QED BY <4>1, <4>2, <4>3
    <3>4. pc'[t] = p /\ \A u \in Threads \ {t} : pc'[u] = pc[u]
      BY <1>0, <3>3
    <3>5. Writes(t)
      BY <3>1, <3>2, <3>3, <3>4 DEF Writes
    <3>6. Others(t)
      BY <3>2, <3>4 DEF Others
    <3> QED BY <3>1, <3>5, <3>6
  <2>6. CASE WriteFails(t)
    <3>1. /\ writer = t /\ writer' = "nobody"
          /\ UNCHANGED Counters /\ buffer' = buffer /\ dropped' = dropped /\ seq' = seq /\ faults' = faults + 1
          /\ pc' = [pc EXCEPT ![t] = IF t = "main" THEN "raised" ELSE "died"]
          /\ \/ file' = file /\ hands' = hands
             \/ file' = Written(t) /\ hands' = [hands EXCEPT ![t] = Tail(@)]
      BY <2>6 DEF WriteFails, Raise, Goto, store, Counters
    <3>2. (\A u \in Threads \ {t} : pc'[u] = pc[u]) /\ pc'[t] \in {"died", "raised"}
      BY <1>0, <3>1
    <3>3. CASE file' = file /\ hands' = hands
      <4>1. \E p \in {"died", "raised"} : Goto(t, p)
        BY <3>1 DEF Goto
      <4> QED BY <1>a, <3>1, <3>3, <4>1 DEF Keeps
    <3>4. CASE file' = Written(t) /\ hands' = [hands EXCEPT ![t] = Tail(@)]
      <4>1. hands'[t] = Tail(hands[t]) /\ \A u \in Threads \ {t} : hands'[u] = hands[u]
        BY <1>0, <3>4
      <4>2. Writes(t) /\ Others(t)
        BY <3>1, <3>2, <3>4, <4>1 DEF Writes, Others
      <4> QED BY <3>1, <4>2
    <3> QED BY <3>1, <3>3, <3>4
  <2> QED BY <1>3, <2>1, <2>2, <2>3, <2>4, <2>5, <2>6 DEF Emit
<1>4. CASE pc["main"] \in {"closed", "raised"} /\ UNCHANGED vars
  BY <1>1, <1>4
<1> QED BY <1>1, <1>2, <1>3, <1>4 DEF MetricsNext
----------------------------------------------------------------------------
(* The gauge and the numbers of the lines.                                 *)

Live == {s \in Sessions : session[s] \in {"session_started", "session_failed"}}

GaugeCounts == IsFiniteSet(Live) /\ gauge = Cardinality(Live)

(* The gauge follows the sessions that run.                                *)
LEMMA GaugeStep ==
  ASSUME StreamIsSound, GaugeCounts, [MetricsNext]_vars
  PROVE  GaugeCounts'
<1>0. session \in [Sessions -> Kinds \cup {"new"}] /\ IsFiniteSet(Live) /\ gauge = Cardinality(Live)
  BY DEF StreamIsSound, StreamTypes, GaugeCounts
<1>1. ASSUME NEW s \in Sessions, RecordStarted(s)
      PROVE  GaugeCounts'
  <2>1. session' = [session EXCEPT ![s] = "session_started"] /\ session[s] = "new" /\ gauge' = gauge + 1
    BY <1>1 DEF RecordStarted, Record
  <2>2. s \notin Live /\ Live' = Live \cup {s}
    BY <1>0, <2>1 DEF Live
  <2> QED BY <1>0, <2>1, <2>2, FS_AddElement DEF GaugeCounts
<1>2. ASSUME NEW s \in Sessions, RecordFailure(s)
      PROVE  GaugeCounts'
  <2>1. session' = [session EXCEPT ![s] = "session_failed"] /\ session[s] = "session_started" /\ gauge' = gauge
    BY <1>2 DEF RecordFailure, Record
  <2>2. Live' = Live
    BY <1>0, <2>1 DEF Live
  <2> QED BY <1>0, <2>1, <2>2 DEF GaugeCounts
<1>3. ASSUME NEW s \in Sessions, RecordFinished(s)
      PROVE  GaugeCounts'
  <2>1. session' = [session EXCEPT ![s] = "session_finished"] /\ gauge' = gauge - 1
        /\ session[s] \in {"session_started", "session_failed"}
    BY <1>3 DEF RecordFinished, Record
  <2>2. s \in Live /\ Live' = Live \ {s}
    BY <1>0, <2>1 DEF Live
  <2>3. IsFiniteSet(Live \ {s}) /\ Cardinality(Live \ {s}) = Cardinality(Live) - 1
    BY <1>0, <2>2, FS_RemoveElement
  <2> QED BY <1>0, <2>1, <2>2, <2>3 DEF GaugeCounts
<1>4. CASE ~ \E s \in Sessions : RecordStarted(s) \/ RecordFailure(s) \/ RecordFinished(s)
  <2>1. session' = session /\ gauge' = gauge
    BY <1>4, OtherSteps DEF Counters
  <2> QED BY <1>0, <2>1 DEF GaugeCounts, Live
<1> QED BY <1>1, <1>2, <1>3, <1>4

(* The numbers of the lines rise, to the one that is being written.        *)
Rising(f, n, busy) ==
  /\ \A i \in 1 .. Len(f) : f[i].seq <= n /\ (busy => f[i].seq < n)
  /\ \A i, j \in 1 .. Len(f) : i < j => f[i].seq < f[j].seq

NumbersRise == Rising(file, seq, writer # "nobody")

(* The line that is being written has the highest number.                  *)
LEMMA NextNumber ==
  ASSUME NEW f \in Seq(FileLine), NEW n \in Nat, NEW l \in Line, Rising(f, n, TRUE)
  PROVE  Rising(Append(f, Numbered(n, l)), n, FALSE)
<1> DEFINE r == Numbered(n, l)
           g == Append(f, r)
<1>1. /\ r.seq = n /\ Len(g) = Len(f) + 1 /\ Len(f) \in Nat /\ g[Len(f) + 1] = r
      /\ \A i \in 1 .. Len(f) : g[i] = f[i] /\ f[i].seq \in Nat
  <2>1. r \in FileLine
    BY LinesOfFile
  <2>2. r.seq = n
    BY DEF Numbered
  <2>3. \A i \in 1 .. Len(f) : f[i].seq \in Nat
    BY LinesOfFile
  <2> HIDE DEF r
  <2> QED BY <2>1, <2>2, <2>3
<1> HIDE DEF g, r
<1>2. \A i \in 1 .. Len(f) + 1 : i \in 1 .. Len(f) \/ i = Len(f) + 1
  BY <1>1
<1>3. \A i \in 1 .. Len(g) : g[i].seq <= n
  BY <1>1, <1>2 DEF Rising
<1>4. \A i, j \in 1 .. Len(g) : i < j => g[i].seq < g[j].seq
  <2> SUFFICES ASSUME NEW i \in 1 .. Len(g), NEW j \in 1 .. Len(g), i < j PROVE g[i].seq < g[j].seq
    OBVIOUS
  <2>1. i \in 1 .. Len(f)
    BY <1>1
  <2>2. CASE j \in 1 .. Len(f)
    BY <1>1, <2>1, <2>2 DEF Rising
  <2>3. CASE j = Len(f) + 1
    BY <1>1, <2>1, <2>3 DEF Rising
  <2> QED BY <1>1, <1>2, <2>2, <2>3
<1>5. Rising(g, n, FALSE)
  BY <1>3, <1>4 DEF Rising
<1> QED BY <1>5 DEF g, r

(* What a step does to the sink: nothing, a line begins or a line ends.    *)
SinkSteps ==
  \/ file' = file /\ seq' = seq /\ (writer' = writer \/ writer' = "nobody")
  \/ file' = file /\ writer = "nobody" /\ seq' = seq + 1 /\ writer' # "nobody"
  \/ \E t \in Threads : writer = t /\ file' = Written(t) /\ seq' = seq /\ writer' = "nobody"

(* There is no other way to the file than these.                           *)
LEMMA SinkStep ==
  ASSUME [MetricsNext]_vars
  PROVE  SinkSteps
<1>0. \A t \in Threads : t # "nobody"
  BY DEF Threads
<1>1. ASSUME NEW t \in Threads, Emit(t)
      PROVE  SinkSteps
  <2>1. CASE WriteJson(t) \/ WriteJsonFails(t) \/ TakeSnapshot(t) \/ Drain(t)
    BY <2>1 DEF WriteJson, WriteJsonFails, TakeSnapshot, Drain, sink, SinkSteps
  <2>2. CASE Acquire(t)
    BY <1>0, <2>2 DEF Acquire, SinkSteps
  <2>3. CASE WriteReturns(t) \/ WriteFails(t)
    <3>1. writer = t /\ seq' = seq /\ writer' = "nobody" /\ (file' = file \/ file' = Written(t))
      BY <2>3 DEF WriteReturns, WriteFails
    <3> QED BY <3>1 DEF SinkSteps
  <2> QED BY <1>1, <2>1, <2>2, <2>3 DEF Emit
<1>2. CASE \E s \in Sessions : RecordStarted(s) \/ RecordFailure(s) \/ RecordFinished(s)
  BY <1>2 DEF RecordStarted, RecordFailure, RecordFinished, Record, sink, SinkSteps
<1>3. CASE Tick \/ ThreadEnds \/ RunOver \/ Joined \/ JoinTimesOut \/ CloseSink
  BY <1>3 DEF Tick, ThreadEnds, RunOver, Joined, JoinTimesOut, CloseSink, sink, SinkSteps
<1>4. CASE UNCHANGED vars
  BY <1>4 DEF vars, sink, SinkSteps
<1> QED BY <1>1, <1>2, <1>3, <1>4 DEF MetricsNext

(* So the numbers keep rising.                                             *)
LEMMA RisingStep ==
  ASSUME StreamIsSound, NumbersRise, [MetricsNext]_vars
  PROVE  NumbersRise'
<1>0. /\ seq \in Nat /\ file \in Seq(FileLine) /\ Len(file) \in Nat
      /\ \A i \in 1 .. Len(file) : file[i].seq \in Nat
  <2>1. seq \in Nat /\ file \in Seq(FileLine)
    BY DEF StreamIsSound, StreamTypes
  <2>2. Len(file) \in Nat
    BY <2>1
  <2> QED BY <2>1, <2>2, LinesOfFile
<1>1. CASE file' = file /\ seq' = seq /\ (writer' = writer \/ writer' = "nobody")
  BY <1>1 DEF NumbersRise, Rising
<1>2. CASE file' = file /\ writer = "nobody" /\ seq' = seq + 1 /\ writer' # "nobody"
  BY <1>0, <1>2 DEF NumbersRise, Rising
<1>3. ASSUME NEW t \in Threads, writer = t, file' = Written(t), seq' = seq, writer' = "nobody"
      PROVE  NumbersRise'
  <2>1. Head(hands[t]) \in Line /\ file' = Append(file, Numbered(seq, Head(hands[t])))
    BY <1>3, WrittenLine
  <2>2. Rising(file, seq, TRUE)
    <3>1. writer # "nobody"
      BY <1>3 DEF Threads
    <3> QED BY <3>1 DEF NumbersRise, Rising
  <2>3. Rising(Append(file, Numbered(seq, Head(hands[t]))), seq, FALSE)
    BY <1>0, <2>1, <2>2, NextNumber
  <2>4. (writer # "nobody")' = FALSE
    BY <1>3
  <2> QED BY <1>3, <2>1, <2>3, <2>4 DEF NumbersRise
<1> QED BY <1>1, <1>2, <1>3, SinkStep DEF SinkSteps
----------------------------------------------------------------------------
(* The lines weighed in several ways: how many events one accounts for,    *)
(* whether it is the n-th event, whether it tells an event of a kind, and  *)
(* how many of a kind it may cover.  A snapshot weighs nothing.            *)

accounts   == [l \in Line |-> Accounts(l)]
isEvent(n) == [l \in Line |-> IF IsEvent(l) /\ l.at = n THEN 1 ELSE 0]
tells(k)   == [l \in Line |-> IF l.kind = k THEN 1 ELSE 0]
covers(k)  == [l \in Line |-> IF l.kind = k THEN 1 ELSE Missing(l)]

\* The weight of all lines, by the places in which they are.
Level(w) == Total(w, Plain(file)) + Total(w, hands["reporter"]) + Total(w, hands["main"])
              + Total(w, buffer) + Total(w, Overflow)

(* Events, overflow rows and snapshots are told apart by their kind.       *)
LEMMA KindsOfLines ==
  /\ \A l \in Line : l \in Event \/ l \in Row \/ l \in Snapshot
  /\ Event \subseteq Line /\ Row \subseteq Line /\ Snapshot \subseteq Line
  /\ \A l \in Event : l.kind \in Kinds /\ l.at \in Nat /\ IsEvent(l) /\ Missing(l) = 0 /\ Accounts(l) = 1
  /\ \A l \in Row : l.kind = "metrics_stream_overflow" /\ l.at \in Nat /\ ~IsEvent(l) /\ Missing(l) = l.at /\ Accounts(l) = l.at
  /\ \A l \in Snapshot : l.kind = "snapshot" /\ ~IsEvent(l) /\ Missing(l) = 0 /\ Accounts(l) = 0
  /\ "metrics_stream_overflow" \notin Kinds /\ "snapshot" \notin Kinds
<1>1. "metrics_stream_overflow" \notin Kinds /\ "snapshot" \notin Kinds /\ "metrics_stream_overflow" # "snapshot"
  BY DEF Kinds
<1>2. \A l \in Event : l.kind \in Kinds /\ l.at \in Nat
  BY DEF Event
<1>3. \A l \in Row : l.kind = "metrics_stream_overflow" /\ l.at \in Nat
  BY DEF Row
<1>4. \A l \in Snapshot : l.kind = "snapshot"
  BY DEF Snapshot
<1> QED BY <1>1, <1>2, <1>3, <1>4 DEF Line, IsEvent, Missing, Accounts

(* The weights are weights.                                                *)
LEMMA WeightsOfLines ==
  ASSUME NEW n \in Nat, NEW k \in Counted
  PROVE  /\ accounts \in [Line -> Nat] /\ isEvent(n) \in [Line -> Nat]
         /\ tells(k) \in [Line -> Nat] /\ covers(k) \in [Line -> Nat]
         /\ \A l \in Snapshot : accounts[l] = 0 /\ isEvent(n)[l] = 0 /\ tells(k)[l] = 0 /\ covers(k)[l] = 0
         /\ \A l \in Row : accounts[l] = l.at /\ isEvent(n)[l] = 0 /\ tells(k)[l] = 0 /\ covers(k)[l] = l.at
         /\ \A l \in Event : /\ accounts[l] = 1 /\ isEvent(n)[l] = (IF l.at = n THEN 1 ELSE 0)
                            /\ tells(k)[l] = (IF l.kind = k THEN 1 ELSE 0) /\ covers(k)[l] = tells(k)[l]
<1>0. k \in Kinds
  BY DEF Counted, Kinds
<1>1. \A l \in Line : Accounts(l) \in Nat /\ Missing(l) \in Nat
  BY KindsOfLines
<1>2. accounts \in [Line -> Nat] /\ isEvent(n) \in [Line -> Nat]
  BY <1>1 DEF accounts, isEvent
<1>3. tells(k) \in [Line -> Nat] /\ covers(k) \in [Line -> Nat]
  BY <1>1 DEF tells, covers
<1>4. \A l \in Snapshot : accounts[l] = 0 /\ isEvent(n)[l] = 0 /\ tells(k)[l] = 0 /\ covers(k)[l] = 0
  BY <1>0, KindsOfLines DEF accounts, isEvent, tells, covers
<1>5. \A l \in Row : accounts[l] = l.at /\ isEvent(n)[l] = 0 /\ tells(k)[l] = 0 /\ covers(k)[l] = l.at
  BY <1>0, KindsOfLines DEF accounts, isEvent, tells, covers
<1>6. \A l \in Event : /\ accounts[l] = 1 /\ isEvent(n)[l] = (IF l.at = n THEN 1 ELSE 0)
                      /\ tells(k)[l] = (IF l.kind = k THEN 1 ELSE 0) /\ covers(k)[l] = tells(k)[l]
  BY <1>0, KindsOfLines DEF accounts, isEvent, tells, covers
<1> QED BY <1>2, <1>3, <1>4, <1>5, <1>6

(* The parts of the pipeline are lines.                                    *)
LEMMA PartsAreLines ==
  ASSUME StreamIsSound
  PROVE  /\ Plain(file) \in Seq(Line) /\ hands["reporter"] \in Seq(Line) /\ hands["main"] \in Seq(Line)
         /\ buffer \in Seq(Line) /\ Overflow \in Seq(Line) /\ file \in Seq(FileLine)
<1>1. file \in Seq(FileLine) /\ hands["reporter"] \in Seq(Line) /\ hands["main"] \in Seq(Line)
  BY DEF StreamIsSound, StreamTypes, Threads
<1> QED BY <1>1, LinesOfFile, RestIsLines DEF StreamIsSound

(* Two pieces together weigh the sum.                                      *)
LEMMA TotalOfBoth ==
  ASSUME NEW w \in [Line -> Nat], NEW a \in Seq(Line), NEW b \in Seq(Line)
  PROVE  a \o b \in Seq(Line) /\ Total(w, a \o b) = Total(w, a) + Total(w, b)
<1>1. a \o b \in Seq(Line)
  OBVIOUS
<1> HIDE DEF Line
<1>2. Total(w, a \o b) = Total(w, a) + Total(w, b)
  BY WeighConcat
<1> QED BY <1>1, <1>2

(* Lines weigh a natural number.                                           *)
LEMMA TotalIsNat ==
  ASSUME NEW w \in [Line -> Nat], NEW q \in Seq(Line)
  PROVE  Total(w, q) \in Nat
<1>1. Len(q) \in 0 .. Len(q)
  OBVIOUS
<1> QED BY <1>1, WeighSteps DEF Total

(* Of two pieces the first weighs what it weighs, and then the second.     *)
LEMMA WeighOfBoth ==
  ASSUME NEW w \in [Line -> Nat], NEW a \in Seq(Line), NEW b \in Seq(Line)
  PROVE  /\ \A n \in 0 .. Len(a) : Weigh(w, a \o b, n) = Weigh(w, a, n)
         /\ \A m \in Len(a) .. Len(a \o b) : Weigh(w, a \o b, m) = Total(w, a) + Weigh(w, b, m - Len(a))
<1>1. ASSUME NEW n \in 0 .. Len(a) PROVE Weigh(w, a \o b, n) = Weigh(w, a, n)
  BY WeighConcat
<1>2. ASSUME NEW m \in Len(a) .. Len(a \o b)
      PROVE  Weigh(w, a \o b, m) = Total(w, a) + Weigh(w, b, m - Len(a))
  BY WeighConcat
<1> QED BY <1>1, <1>2

(* The pipeline weighs what its parts weigh.                               *)
LEMMA LevelOfPipeline ==
  ASSUME StreamIsSound, NEW CONSTANT w \in [Line -> Nat]
  PROVE  /\ Pipeline \in Seq(Line) /\ Total(w, Pipeline) = Level(w)
         /\ \A q \in Seq(Line) : Total(w, q) \in Nat
<1> DEFINE f == Plain(file)
           r == hands["reporter"]
           m == hands["main"]
           b == buffer
           v == Overflow
<1>1. f \in Seq(Line) /\ r \in Seq(Line) /\ m \in Seq(Line) /\ b \in Seq(Line) /\ v \in Seq(Line)
  BY PartsAreLines
<1>2. \A q \in Seq(Line) : Total(w, q) \in Nat
  BY TotalIsNat
<1>3. Pipeline = (((f \o r) \o m) \o b) \o v
  BY DEF Pipeline
<1> HIDE DEF f, r, m, b, v
<1>4. f \o r \in Seq(Line) /\ Total(w, f \o r) = Total(w, f) + Total(w, r)
  BY <1>1, TotalOfBoth
<1> DEFINE fr == f \o r
           frm == fr \o m
           frmb == frm \o b
<1> HIDE DEF fr
<1>5. frm \in Seq(Line) /\ Total(w, frm) = Total(w, fr) + Total(w, m)
  <2>1. fr \in Seq(Line)
    BY <1>4 DEF fr
  <2> QED BY <1>1, <2>1, TotalOfBoth
<1> HIDE DEF frm
<1>6. frmb \in Seq(Line) /\ Total(w, frmb) = Total(w, frm) + Total(w, b)
  BY <1>1, <1>5, TotalOfBoth
<1> HIDE DEF frmb
<1>7. frmb \o v \in Seq(Line) /\ Total(w, frmb \o v) = Total(w, frmb) + Total(w, v)
  BY <1>1, <1>6, TotalOfBoth
<1>8. Total(w, frmb \o v) = Total(w, f) + Total(w, r) + Total(w, m) + Total(w, b) + Total(w, v)
  BY <1>1, <1>2, <1>4, <1>5, <1>6, <1>7 DEF fr
<1> QED BY <1>2, <1>3, <1>7, <1>8 DEF Level, f, r, m, b, v, fr, frm, frmb

(* A line written weighs in the file what it weighed in the hands.         *)
LEMMA HeadMoves ==
  ASSUME NEW w \in [Line -> Nat], NEW f \in Seq(Line), NEW h \in Seq(Line), h # <<>>
  PROVE  /\ Append(f, Head(h)) \o Tail(h) = f \o h
         /\ Total(w, Append(f, Head(h))) + Total(w, Tail(h)) = Total(w, f) + Total(w, h)
<1>1. Head(h) \in Line /\ Tail(h) \in Seq(Line) /\ Append(f, Head(h)) \in Seq(Line)
  OBVIOUS
<1>2. Append(f, Head(h)) \o Tail(h) = f \o h
  <2> DEFINE g == Append(f, Head(h)) \o Tail(h)
             k == f \o h
  <2>1. /\ g \in Seq(Line) /\ k \in Seq(Line) /\ Len(g) = Len(f) + Len(h) /\ Len(k) = Len(f) + Len(h)
    OBVIOUS
  <2>2. \A i \in 1 .. Len(f) + Len(h) : g[i] = k[i]
    OBVIOUS
  <2> HIDE DEF g, k
  <2>3. g = k
    BY <2>1, <2>2
  <2> QED BY <2>3 DEF g, k
<1>3. Total(w, Append(f, Head(h)) \o Tail(h)) = Total(w, Append(f, Head(h))) + Total(w, Tail(h))
  BY <1>1, TotalOfBoth
<1>4. Total(w, f \o h) = Total(w, f) + Total(w, h)
  BY TotalOfBoth
<1> QED BY <1>2, <1>3, <1>4

(* Every step but a record moves the lines without a loss: what weighs     *)
(* something still weighs it.                                              *)
LEMMA LevelStays ==
  ASSUME StreamIsSound, NEW CONSTANT w \in [Line -> Nat], \A l \in Snapshot : w[l] = 0,
         Keeps \/ \E t \in Threads : Others(t) /\ (Snaps(t) \/ Drains(t) \/ Writes(t))
  PROVE  Level(w)' = Level(w)
<1> DEFINE F == Total(w, Plain(file))
           H(t) == Total(w, hands[t])
           B == Total(w, buffer)
           V == Total(w, Overflow)
<1>0. /\ Level(w) = F + H("reporter") + H("main") + B + V
      /\ Level(w)' = F' + H("reporter")' + H("main")' + B' + V'
      /\ Threads = {"reporter", "main"}
  BY DEF Level, Threads
<1>1. F \in Nat /\ H("reporter") \in Nat /\ H("main") \in Nat /\ B \in Nat /\ V \in Nat
  BY PartsAreLines, LevelOfPipeline
<1>a. \A t \in Threads : H(t) \in Nat
  BY <1>0, <1>1
<1>2. Total(w, <<>>) = 0
  <2>1. \E l : l \in Line
    <3>1. [kind |-> "metrics_stream_overflow", at |-> 0] \in Row
      BY DEF Row
    <3> QED BY <3>1, KindsOfLines
  <2> QED BY <2>1, WeighOne
<1>3. CASE Keeps
  <2>1. F' = F /\ H("reporter")' = H("reporter") /\ H("main")' = H("main") /\ B' = B /\ V' = V
    BY <1>3 DEF Keeps, Plain, Overflow
  <2> HIDE DEF F, H, B, V
  <2> QED BY <1>0, <2>1
<1>4. ASSUME NEW t \in Threads, Others(t), Snaps(t) \/ Drains(t) \/ Writes(t)
      PROVE  F' + H(t)' + B' + V' = F + H(t) + B + V /\ F' \in Nat /\ H(t)' \in Nat /\ B' \in Nat /\ V' \in Nat
  <2>1. CASE Snaps(t)
    <3> DEFINE l == [kind |-> "snapshot", at |-> totals]
    <3>1. hands[t] = <<>> /\ hands'[t] = <<l>> /\ file' = file /\ buffer' = buffer /\ dropped' = dropped
      BY <2>1 DEF Snaps
    <3>2. l \in Snapshot /\ l \in Line
      BY KindsOfLines DEF StreamIsSound, StreamTypes, Snapshot
    <3> HIDE DEF l
    <3>3. F' = F /\ B' = B /\ V' = V
      BY <3>1 DEF Plain, Overflow
    <3>4. H(t) = 0 /\ H(t)' = 0
      BY <1>2, <3>1, <3>2, WeighOne
    <3> HIDE DEF F, H, B, V
    <3> QED BY <1>1, <3>3, <3>4
  <2>2. CASE Drains(t)
    <3>1. hands[t] = <<>> /\ hands'[t] = buffer \o Overflow /\ file' = file /\ buffer' = <<>> /\ dropped' = 0
      BY <2>2 DEF Drains
    <3>2. F' = F /\ B' = 0 /\ V' = 0 /\ H(t) = 0
      BY <1>2, <3>1 DEF Plain, Overflow
    <3>3. Total(w, buffer \o Overflow) = B + V
      BY PartsAreLines, TotalOfBoth
    <3>4. H(t)' = B + V
      BY <3>1, <3>3
    <3> HIDE DEF F, H, B, V
    <3> QED BY <1>1, <3>2, <3>4
  <2>3. CASE Writes(t)
    <3>1. writer = t /\ file' = Written(t) /\ hands'[t] = Tail(hands[t]) /\ buffer' = buffer /\ dropped' = dropped
      BY <2>3 DEF Writes
    <3>2. B' = B /\ V' = V
      BY <3>1 DEF Overflow
    <3>3. /\ Plain(file)' = Append(Plain(file), Head(hands[t])) /\ hands[t] \in Seq(Line) /\ hands[t] # <<>>
          /\ Tail(hands[t]) \in Seq(Line) /\ Head(hands[t]) \in Line
      <4>1. Plain(file)' = Plain(Written(t))
        BY <3>1 DEF Plain
      <4> QED BY <3>1, <4>1, WrittenLine
    <3>4. Total(w, Append(Plain(file), Head(hands[t]))) + Total(w, Tail(hands[t])) = F + H(t)
      BY <3>3, HeadMoves, PartsAreLines
    <3>5. Append(Plain(file), Head(hands[t])) \in Seq(Line)
      BY <3>3, PartsAreLines
    <3>6. F' = Total(w, Append(Plain(file), Head(hands[t]))) /\ H(t)' = Total(w, Tail(hands[t])) /\ F' \in Nat /\ H(t)' \in Nat
      BY <3>1, <3>3, <3>5, LevelOfPipeline
    <3>7. F' + H(t)' = F + H(t)
      BY <3>4, <3>6
    <3> HIDE DEF F, H, B, V
    <3> QED BY <1>1, <3>2, <3>6, <3>7
  <2> QED BY <1>4, <2>1, <2>2, <2>3
<1>5. ASSUME NEW t \in Threads, Others(t)
      PROVE  \A u \in Threads \ {t} : H(u)' = H(u)
  BY <1>5 DEF Others
<1> HIDE DEF F, H, B, V
<1>6. ASSUME NEW t \in Threads, Others(t), Snaps(t) \/ Drains(t) \/ Writes(t)
      PROVE  Level(w)' = Level(w)
  <2>1. F' + H(t)' + B' + V' = F + H(t) + B + V /\ F' \in Nat /\ H(t)' \in Nat /\ B' \in Nat /\ V' \in Nat
    BY <1>4, <1>6
  <2>2. CASE t = "reporter"
    <3>1. H("main")' = H("main")
      BY <1>0, <1>5, <1>6, <2>2
    <3>2. H(t) = H("reporter") /\ H(t)' = H("reporter")'
      BY <2>2 DEF H
    <3>3. F' + H("reporter")' + B' + V' = F + H("reporter") + B + V /\ F' \in Nat /\ H("reporter")' \in Nat /\ B' \in Nat /\ V' \in Nat
      BY <2>1, <3>2
    <3>4. H("main")' \in Nat
      BY <1>1, <3>1
    <3> QED BY <1>0, <1>1, <3>1, <3>3, <3>4
  <2>3. CASE t = "main"
    <3>1. H("reporter")' = H("reporter")
      BY <1>0, <1>5, <1>6, <2>3
    <3> QED BY <1>0, <1>1, <2>1, <2>3, <3>1
  <2> QED BY <1>0, <2>2, <2>3
<1> QED BY <1>3, <1>6

(* A record adds its event to the buffer, or one to what was refused.      *)
LEMMA RecordedLines ==
  ASSUME StreamIsSound, NEW kind \in Kinds, Records(kind)
  PROVE  LET event == [kind |-> kind, at |-> recorded + 1]
         IN  /\ event \in Event /\ recorded \in Nat /\ recorded' = recorded + 1 /\ file' = file /\ hands' = hands
             /\ \/ buffer' = Append(buffer, event) /\ Overflow = <<>> /\ Overflow' = <<>>
                \/ /\ buffer' = buffer
                   /\ \E n \in Nat : /\ Overflow' = <<[kind |-> "metrics_stream_overflow", at |-> n + 1]>>
                                    /\ \/ Overflow = <<>> /\ n = 0
                                       \/ Overflow = <<[kind |-> "metrics_stream_overflow", at |-> n]>>
<1> DEFINE event == [kind |-> kind, at |-> recorded + 1]
<1>0. /\ buffer \in Seq(Event) /\ dropped \in Nat /\ recorded \in Nat /\ (dropped > 0 => Len(buffer) >= Capacity)
      /\ Len(buffer) \in Nat /\ Capacity \in Nat
  <2>1. buffer \in Seq(Event) /\ dropped \in Nat /\ recorded \in Nat /\ (dropped > 0 => Len(buffer) >= Capacity)
    BY DEF StreamIsSound, StreamTypes, StreamShape
  <2> QED BY <2>1, MetricsAssumption
<1>1. event \in Event
  BY <1>0 DEF Event
<1>2. file' = file /\ hands' = hands /\ recorded' = recorded + 1
  BY DEF Records, AppendEvent, sink
<1>3. CASE Len(buffer) >= Capacity
  <2>1. buffer' = buffer /\ dropped' = dropped + 1
    BY <1>3 DEF Records, AppendEvent
  <2>2. Overflow' = <<[kind |-> "metrics_stream_overflow", at |-> dropped + 1]>>
    BY <1>0, <2>1 DEF Overflow
  <2>3. (Overflow = <<>> /\ dropped = 0) \/ Overflow = <<[kind |-> "metrics_stream_overflow", at |-> dropped]>>
    BY DEF Overflow
  <2> QED BY <1>0, <1>1, <1>2, <2>1, <2>2, <2>3
<1>4. CASE ~(Len(buffer) >= Capacity)
  <2>1. buffer' = Append(buffer, event) /\ dropped' = dropped
    BY <1>4 DEF Records, AppendEvent
  <2>2. dropped = 0
    BY <1>0, <1>4
  <2>3. Overflow = <<>> /\ Overflow' = <<>>
    BY <2>1, <2>2 DEF Overflow
  <2> QED BY <1>0, <1>1, <1>2, <2>1, <2>3
<1> QED BY <1>3, <1>4

(* What weighs each refused event like the refused (the factor c) rises by *)
(* its weight of the event, or by c.                                       *)
LEMMA LevelRises ==
  ASSUME StreamIsSound, NEW kind \in Kinds, Records(kind),
         NEW CONSTANT w \in [Line -> Nat], NEW CONSTANT c \in {0, 1}, \A l \in Row : w[l] = c * l.at
  PROVE  \/ Level(w)' = Level(w) + w[[kind |-> kind, at |-> recorded + 1]]
         \/ Level(w)' = Level(w) + c
<1> DEFINE event == [kind |-> kind, at |-> recorded + 1]
           row(n) == [kind |-> "metrics_stream_overflow", at |-> n]
           F == Total(w, Plain(file))
           R == Total(w, hands["reporter"])
           M == Total(w, hands["main"])
           B == Total(w, buffer)
           V == Total(w, Overflow)
<1>1. F \in Nat /\ R \in Nat /\ M \in Nat /\ B \in Nat /\ V \in Nat
  BY PartsAreLines, LevelOfPipeline
<1>2. Level(w) = F + R + M + B + V /\ Level(w)' = F' + R' + M' + B' + V'
  BY DEF Level
<1>3. F' = F /\ R' = R /\ M' = M /\ event \in Event /\ event \in Line
  BY RecordedLines, KindsOfLines DEF Plain
<1>4. \A n \in Nat : row(n) \in Line /\ w[row(n)] = c * n
  <2>1. \A n \in Nat : row(n) \in Row /\ row(n).at = n
    BY DEF Row
  <2> QED BY <2>1, KindsOfLines
<1>5. Total(w, <<>>) = 0 /\ \A l \in Line : Total(w, <<l>>) = w[l]
  BY <1>3, WeighOne
<1>6. CASE buffer' = Append(buffer, event) /\ Overflow = <<>> /\ Overflow' = <<>>
  <2>1. V' = V
    BY <1>6
  <2>2. Append(buffer, event) = buffer \o <<event>> /\ buffer \in Seq(Line) /\ <<event>> \in Seq(Line)
    <3>1. buffer \in Seq(Line)
      BY PartsAreLines
    <3> HIDE DEF event
    <3> QED BY <1>3, <3>1, SMTT(30)
  <2>3. Total(w, buffer \o <<event>>) = B + w[event]
    <3>1. Total(w, buffer \o <<event>>) = B + Total(w, <<event>>)
      BY <2>2, TotalOfBoth
    <3> QED BY <1>3, <1>5, <3>1
  <2>4. B' = B + w[event] /\ w[event] \in Nat
    BY <1>3, <1>6, <2>2, <2>3
  <2> HIDE DEF F, R, M, B, V, event
  <2>5. Level(w)' = Level(w) + w[event]
    BY <1>1, <1>2, <1>3, <2>1, <2>4
  <2> QED BY <2>5 DEF event
<1>7. ASSUME buffer' = buffer, NEW n \in Nat, Overflow' = <<row(n + 1)>>,
             (Overflow = <<>> /\ n = 0) \/ Overflow = <<row(n)>>
      PROVE  Level(w)' = Level(w) + c
  <2>1. B' = B
    BY <1>7
  <2>2. V' = c * (n + 1)
    <3>1. n + 1 \in Nat
      OBVIOUS
    <3>2. row(n + 1) \in Line /\ w[row(n + 1)] = c * (n + 1)
      BY <1>4, <3>1
    <3>3. V' = Total(w, <<row(n + 1)>>)
      BY <1>7
    <3> HIDE DEF row, V
    <3> QED BY <1>5, <3>2, <3>3
  <2>3. V = c * n
    <3>1. CASE Overflow = <<>> /\ n = 0
      BY <1>5, <3>1
    <3>2. CASE Overflow = <<row(n)>>
      <4>1. V = Total(w, <<row(n)>>)
        BY <3>2
      <4>2. row(n) \in Line /\ w[row(n)] = c * n
        BY <1>4
      <4> HIDE DEF row, V
      <4> QED BY <1>5, <4>1, <4>2
    <3> QED BY <1>7, <3>1, <3>2
  <2> HIDE DEF F, R, M, B, V
  <2>4. V' = V + c
    BY <2>2, <2>3
  <2> QED BY <1>1, <1>2, <1>3, <2>1, <2>4
<1> QED BY <1>6, <1>7, RecordedLines
----------------------------------------------------------------------------
(* The count of the events: every event recorded is accounted for once,    *)
(* and the totals of the store lie between the events of their kind that   *)
(* the lines tell and those they may cover.                                *)

Accounted ==
  /\ Level(accounts) = recorded
  /\ \A n \in Nat : Level(isEvent(n)) <= 1 /\ (n > recorded => Level(isEvent(n)) = 0)
  /\ \A k \in Counted : Level(tells(k)) <= totals[k] /\ totals[k] <= Level(covers(k))

(* Levels are naturals.                                                    *)
LEMMA LevelsAreNaturals ==
  ASSUME StreamIsSound
  PROVE  /\ Level(accounts) \in Nat /\ \A n \in Nat : Level(isEvent(n)) \in Nat
         /\ \A k \in Counted : Level(tells(k)) \in Nat /\ Level(covers(k)) \in Nat /\ totals[k] \in Nat
<1>1. ASSUME NEW CONSTANT w \in [Line -> Nat] PROVE Level(w) \in Nat
  BY LevelOfPipeline
<1>2. /\ accounts \in [Line -> Nat] /\ \A n \in Nat : isEvent(n) \in [Line -> Nat]
      /\ \A k \in Counted : tells(k) \in [Line -> Nat] /\ covers(k) \in [Line -> Nat]
  <2>1. "session_started" \in Counted /\ 0 \in Nat
    BY DEF Counted
  <2> QED BY <2>1, WeightsOfLines
<1>3. \A k \in Counted : totals[k] \in Nat
  BY DEF StreamIsSound, StreamTypes
<1> QED BY <1>1, <1>2, <1>3

(* A record keeps the account.                                             *)
LEMMA RecordIsAccounted ==
  ASSUME StreamIsSound, StreamIsSound', Accounted, NEW kind \in Kinds, Records(kind)
  PROVE  Accounted'
<1> DEFINE event == [kind |-> kind, at |-> recorded + 1]
<1>0. /\ recorded \in Nat /\ recorded' = recorded + 1 /\ event \in Event /\ event.at = recorded + 1 /\ event.kind = kind
      /\ \A k \in Counted : totals'[k] = totals[k] + (IF k = kind THEN 1 ELSE 0)
  BY RecordedLines DEF Records
<1>1. Level(accounts)' = recorded'
  <2>1. "session_started" \in Counted /\ 0 \in Nat
    BY DEF Counted
  <2>2. accounts \in [Line -> Nat] /\ accounts[event] = 1 /\ \A l \in Row : accounts[l] = l.at
    BY <1>0, <2>1, WeightsOfLines
  <2>3. \A l \in Row : accounts[l] = 1 * l.at
    BY <2>2, KindsOfLines
  <2>4. Level(accounts)' = Level(accounts) + 1
    BY <2>2, <2>3, LevelRises
  <2> QED BY <1>0, <2>4 DEF Accounted
<1>2. ASSUME NEW n \in Nat
      PROVE  (Level(isEvent(n)) <= 1 /\ (n > recorded => Level(isEvent(n)) = 0))'
  <2>1. "session_started" \in Counted
    BY DEF Counted
  <2>2. /\ isEvent(n) \in [Line -> Nat] /\ isEvent(n)[event] = (IF recorded + 1 = n THEN 1 ELSE 0)
        /\ \A l \in Row : isEvent(n)[l] = 0
    BY <1>0, <2>1, WeightsOfLines
  <2>3. \A l \in Row : isEvent(n)[l] = 0 * l.at
    BY <2>2, KindsOfLines
  <2>4. \/ Level(isEvent(n))' = Level(isEvent(n)) + (IF recorded + 1 = n THEN 1 ELSE 0)
        \/ Level(isEvent(n))' = Level(isEvent(n)) + 0
    BY <2>2, <2>3, LevelRises
  <2>5. Level(isEvent(n)) \in Nat /\ Level(isEvent(n)) <= 1 /\ (n > recorded => Level(isEvent(n)) = 0)
    BY LevelsAreNaturals DEF Accounted
  <2> QED BY <1>0, <2>4, <2>5
<1>3. ASSUME NEW k \in Counted
      PROVE  (Level(tells(k)) <= totals[k] /\ totals[k] <= Level(covers(k)))'
  <2>1. /\ tells(k) \in [Line -> Nat] /\ covers(k) \in [Line -> Nat]
        /\ tells(k)[event] = (IF kind = k THEN 1 ELSE 0) /\ covers(k)[event] = (IF kind = k THEN 1 ELSE 0)
        /\ \A l \in Row : tells(k)[l] = 0 /\ covers(k)[l] = l.at
    BY <1>0, WeightsOfLines
  <2>2. \A l \in Row : tells(k)[l] = 0 * l.at /\ covers(k)[l] = 1 * l.at
    BY <2>1, KindsOfLines
  <2>3. \/ Level(tells(k))' = Level(tells(k)) + (IF kind = k THEN 1 ELSE 0)
        \/ Level(tells(k))' = Level(tells(k)) + 0
    BY <2>1, <2>2, LevelRises
  <2>4. \/ Level(covers(k))' = Level(covers(k)) + (IF kind = k THEN 1 ELSE 0)
        \/ Level(covers(k))' = Level(covers(k)) + 1
    BY <2>1, <2>2, LevelRises
  <2>5. /\ Level(tells(k)) \in Nat /\ Level(covers(k)) \in Nat /\ totals[k] \in Nat
        /\ Level(tells(k)) <= totals[k] /\ totals[k] <= Level(covers(k))
    BY LevelsAreNaturals DEF Accounted
  <2>6. totals'[k] = totals[k] + (IF k = kind THEN 1 ELSE 0)
    BY <1>0
  <2> QED BY <2>3, <2>4, <2>5, <2>6
<1> QED BY <1>1, <1>2, <1>3 DEF Accounted

(* So does every other step, which moves the lines and counts nothing.     *)
LEMMA AccountedStep ==
  ASSUME StreamIsSound, StreamIsSound', Accounted, [MetricsNext]_vars
  PROVE  Accounted'
<1>1. CASE \E s \in Sessions : RecordStarted(s) \/ RecordFailure(s) \/ RecordFinished(s)
  BY <1>1, RecordingSteps, RecordIsAccounted
<1>2. CASE ~ \E s \in Sessions : RecordStarted(s) \/ RecordFailure(s) \/ RecordFinished(s)
  <2>1. /\ UNCHANGED Counters
        /\ Keeps \/ \E t \in Threads : Others(t) /\ (Snaps(t) \/ Drains(t) \/ Writes(t))
    BY <1>2, OtherSteps
  <2>2. recorded' = recorded /\ totals' = totals
    BY <2>1 DEF Counters
  <2>3. ASSUME NEW CONSTANT w \in [Line -> Nat], \A l \in Snapshot : w[l] = 0
        PROVE  Level(w)' = Level(w)
    BY <2>1, <2>3, LevelStays
  <2>4. ASSUME NEW n \in Nat, NEW k \in Counted
        PROVE  /\ Level(accounts)' = Level(accounts) /\ Level(isEvent(n))' = Level(isEvent(n))
               /\ Level(tells(k))' = Level(tells(k)) /\ Level(covers(k))' = Level(covers(k))
    <3>1. /\ accounts \in [Line -> Nat] /\ isEvent(n) \in [Line -> Nat]
          /\ tells(k) \in [Line -> Nat] /\ covers(k) \in [Line -> Nat]
          /\ \A l \in Snapshot : accounts[l] = 0 /\ isEvent(n)[l] = 0 /\ tells(k)[l] = 0 /\ covers(k)[l] = 0
      BY WeightsOfLines
    <3> QED BY <2>3, <3>1
  <2>5. "session_started" \in Counted /\ 0 \in Nat
    BY DEF Counted
  <2>6. Level(accounts)' = recorded'
    BY <2>2, <2>4, <2>5 DEF Accounted
  <2>7. ASSUME NEW n \in Nat
        PROVE  (Level(isEvent(n)) <= 1 /\ (n > recorded => Level(isEvent(n)) = 0))'
    BY <2>2, <2>4, <2>5 DEF Accounted
  <2>8. ASSUME NEW k \in Counted
        PROVE  (Level(tells(k)) <= totals[k] /\ totals[k] <= Level(covers(k)))'
    BY <2>2, <2>4, <2>5 DEF Accounted
  <2> QED BY <2>6, <2>7, <2>8 DEF Accounted
<1> QED BY <1>1, <1>2

(* In the beginning there is nothing to account for.                       *)
LEMMA AccountedInit ==
  ASSUME MetricsInit
  PROVE  Accounted /\ GaugeCounts /\ NumbersRise
<1>1. ASSUME NEW w \in [Line -> Nat]
      PROVE  Level(w) = 0
  <2>1. \E l : l \in Line
    <3>1. [kind |-> "metrics_stream_overflow", at |-> 0] \in Row
      BY DEF Row
    <3> QED BY <3>1, KindsOfLines
  <2>2. Total(w, <<>>) = 0
    BY <2>1, WeighOne
  <2>3. file = <<>> /\ buffer = <<>> /\ Overflow = <<>> /\ hands["reporter"] = <<>> /\ hands["main"] = <<>>
    BY DEF MetricsInit, Threads, Overflow
  <2>4. Plain(<<>>) = <<>>
    BY DEF Plain
  <2> QED BY <2>2, <2>3, <2>4 DEF Level
<1>2. recorded = 0 /\ (\A k \in Counted : totals[k] = 0) /\ "session_started" \in Counted
  BY DEF MetricsInit, Counted
<1>3. Accounted
  <2>1. ASSUME NEW n \in Nat, NEW k \in Counted
        PROVE  Level(accounts) = 0 /\ Level(isEvent(n)) = 0 /\ Level(tells(k)) = 0 /\ Level(covers(k)) = 0
    BY <1>1, WeightsOfLines
  <2>2. 0 \in Nat
    OBVIOUS
  <2> QED BY <1>2, <2>1, <2>2 DEF Accounted
<1>4. GaugeCounts
  <2>1. Live = {} /\ gauge = 0
    BY DEF MetricsInit, Live
  <2> QED BY <2>1, FS_EmptySet DEF GaugeCounts
<1>5. NumbersRise
  <2>1. file = <<>> /\ 1 .. Len(<<>>) = {}
    BY DEF MetricsInit
  <2> QED BY <2>1 DEF NumbersRise, Rising
<1> QED BY <1>3, <1>4, <1>5

(* A sum over the beginning of the lines is a weight.                      *)
LEMMA UptoIsWeigh ==
  ASSUME NEW q \in Seq(Line), NEW n \in 0 .. Len(q)
  PROVE  /\ Upto(q, n, Accounts) = Weigh(accounts, q, n)
         /\ \A k \in Counted :
              /\ Upto(q, n, LAMBDA line : IF line.kind = k THEN 1 ELSE 0) = Weigh(tells(k), q, n)
              /\ Upto(q, n, LAMBDA line : IF line.kind = k THEN 1 ELSE Missing(line)) = Weigh(covers(k), q, n)
<1>1. \A i \in 1 .. n : q[i] \in Line
  OBVIOUS
<1>2. Upto(q, n, Accounts) = Weigh(accounts, q, n)
  BY <1>1 DEF Upto, Weigh, Units, accounts
<1>3. ASSUME NEW k \in Counted
      PROVE  /\ Upto(q, n, LAMBDA line : IF line.kind = k THEN 1 ELSE 0) = Weigh(tells(k), q, n)
             /\ Upto(q, n, LAMBDA line : IF line.kind = k THEN 1 ELSE Missing(line)) = Weigh(covers(k), q, n)
  BY <1>1 DEF Upto, Weigh, Units, tells, covers
<1> QED BY <1>2, <1>3

(* Nor do the numbers of the lines in the file weigh anything.             *)
LEMMA UptoInFile ==
  ASSUME NEW f \in Seq(FileLine), NEW n \in 0 .. Len(f)
  PROVE  /\ Upto(f, n, Accounts) = Weigh(accounts, Plain(f), n)
         /\ \A k \in Counted :
              /\ Upto(f, n, LAMBDA line : IF line.kind = k THEN 1 ELSE 0) = Weigh(tells(k), Plain(f), n)
              /\ Upto(f, n, LAMBDA line : IF line.kind = k THEN 1 ELSE Missing(line)) = Weigh(covers(k), Plain(f), n)
<1> DEFINE q == Plain(f)
<1>1. /\ q \in Seq(Line) /\ Len(q) = Len(f)
      /\ \A i \in 1 .. Len(f) : q[i].kind = f[i].kind /\ q[i].at = f[i].at
  BY LinesOfFile
<1> HIDE DEF q
<1>2. \A i \in 1 .. n : q[i] \in Line /\ q[i].kind = f[i].kind /\ q[i].at = f[i].at
  BY <1>1
<1>3. Upto(f, n, Accounts) = Weigh(accounts, q, n)
  <2>1. \A i \in 1 .. n : Accounts(f[i]) = accounts[q[i]]
    BY <1>2 DEF accounts, Accounts, IsEvent, Missing
  <2> QED BY <2>1 DEF Upto, Weigh, Units
<1>4. ASSUME NEW k \in Counted
      PROVE  /\ Upto(f, n, LAMBDA line : IF line.kind = k THEN 1 ELSE 0) = Weigh(tells(k), q, n)
             /\ Upto(f, n, LAMBDA line : IF line.kind = k THEN 1 ELSE Missing(line)) = Weigh(covers(k), q, n)
  <2>1. \A i \in 1 .. n : (IF f[i].kind = k THEN 1 ELSE 0) = tells(k)[q[i]]
    BY <1>2 DEF tells
  <2>2. \A i \in 1 .. n : (IF f[i].kind = k THEN 1 ELSE Missing(f[i])) = covers(k)[q[i]]
    BY <1>2 DEF covers, Missing
  <2>3. Upto(f, n, LAMBDA line : IF line.kind = k THEN 1 ELSE 0) = Weigh(tells(k), q, n)
    BY <2>1 DEF Upto, Weigh, Units
  <2>4. Upto(f, n, LAMBDA line : IF line.kind = k THEN 1 ELSE Missing(line)) = Weigh(covers(k), q, n)
    BY <2>2 DEF Upto, Weigh, Units
  <2> QED BY <2>3, <2>4
<1> QED BY <1>3, <1>4 DEF q

(* The account, the gauge and the numbers give the invariant of the runs.  *)
LEMMA AccountedIsEnough ==
  ASSUME StreamIsSound, Accounted, GaugeCounts, NumbersRise
  PROVE  EventsAccounted
<1> DEFINE all == Pipeline
<1>1. all \in Seq(Line) /\ DOMAIN all = 1 .. Len(all) /\ Len(all) \in 0 .. Len(all)
  <2>1. accounts \in [Line -> Nat]
    <3>1. "session_started" \in Counted /\ 0 \in Nat
      BY DEF Counted
    <3> QED BY <3>1, WeightsOfLines
  <2>2. all \in Seq(Line)
    BY <2>1, LevelOfPipeline
  <2> HIDE DEF all
  <2> QED BY <2>2
<1>2. Upto(all, Len(all), Accounts) = recorded
  <2>1. accounts \in [Line -> Nat]
    <3>1. "session_started" \in Counted /\ 0 \in Nat
      BY DEF Counted
    <3> QED BY <3>1, WeightsOfLines
  <2>2. Total(accounts, all) = recorded
    BY <2>1, LevelOfPipeline DEF Accounted
  <2>3. Upto(all, Len(all), Accounts) = Weigh(accounts, all, Len(all))
    BY <1>1, UptoIsWeigh
  <2> QED BY <2>2, <2>3 DEF Total
<1>3. ASSUME NEW i \in DOMAIN all, NEW j \in DOMAIN all,
             IsEvent(all[i]), IsEvent(all[j]), all[i].at = all[j].at
      PROVE  i = j
  <2> DEFINE n == all[i].at
  <2>0. all[i] \in Line /\ all[j] \in Line /\ i \in 1 .. Len(all) /\ j \in 1 .. Len(all)
    BY <1>1
  <2>1. all[i] \in Event /\ all[j] \in Event /\ n \in Nat
    BY <1>3, <2>0, KindsOfLines
  <2>2. isEvent(n) \in [Line -> Nat] /\ isEvent(n)[all[i]] = 1 /\ isEvent(n)[all[j]] = 1
    <3>1. "session_started" \in Counted
      BY DEF Counted
    <3>2. isEvent(n) \in [Line -> Nat]
      BY <2>1, <3>1, WeightsOfLines
    <3> QED BY <1>3, <2>0, <3>2 DEF isEvent
  <2>3. \A k \in Nat : Total(isEvent(k), all) <= 1
    <3> SUFFICES ASSUME NEW CONSTANT k \in Nat PROVE Total(isEvent(k), all) <= 1
      OBVIOUS
    <3>1. "session_started" \in Counted
      BY DEF Counted
    <3>2. isEvent(k) \in [Line -> Nat]
      BY <3>1, WeightsOfLines
    <3>3. Total(isEvent(k), all) = Level(isEvent(k))
      BY <3>2, LevelOfPipeline
    <3> QED BY <3>3 DEF Accounted
  <2> HIDE DEF all, n
  <2> QED BY <1>1, <2>0, <2>1, <2>2, <2>3, TwoWeighTwo
<1>4. DOMAIN file = 1 .. Len(file) /\ \A i, j \in 1 .. Len(file) : i < j => file[i].seq < file[j].seq
  <2>1. DOMAIN file = 1 .. Len(file)
    BY PartsAreLines
  <2> QED BY <2>1 DEF NumbersRise, Rising
<1>5. gauge = Cardinality({s \in Sessions : session[s] \in {"session_started", "session_failed"}})
  BY DEF GaugeCounts, Live
<1> QED BY <1>2, <1>3, <1>4, <1>5 DEF EventsAccounted

(* Whatever write fails, whichever thread dies and however late stop()     *)
(* gives up, every event recorded is in one place once or counted as       *)
(* refused, the lines are numbered upwards and the gauge is the number of  *)
(* sessions that run.                                                      *)
THEOREM EventsStayAccounted == MetricsSpec => []EventsAccounted
<1> DEFINE Inv == Accounted /\ GaugeCounts /\ NumbersRise
<1>1. MetricsInit => Inv
  BY AccountedInit
<1>2. StreamIsSound /\ StreamIsSound' /\ Inv /\ [MetricsNext]_vars => Inv'
  BY AccountedStep, GaugeStep, RisingStep
<1>3. StreamIsSound /\ Inv => EventsAccounted
  BY AccountedIsEnough
<1> QED BY <1>1, <1>2, <1>3, StreamStaysSound, PTL DEF MetricsSpec
----------------------------------------------------------------------------
(* While nothing fails and stop() waits for the thread.                    *)

Punctual == ~late /\ faults = 0

\* The lines are numbered one by one.
OneByOne ==
  /\ seq = Len(file) + (IF writer = "nobody" THEN 0 ELSE 1)
  /\ \A i \in 1 .. Len(file) : file[i].seq = i

\* The main thread emits once the reporter has ended, and after its drain
\* nothing is recorded.
Placed ==
  /\ \A t \in Threads : pc[t] \notin {"died", "raised"}
  /\ pc["main"] \in {"run", "join"} \/ pc["reporter"] = "ended"
  /\ pc["main"] \in {"rows", "close", "closed"} => buffer = <<>> /\ dropped = 0
  /\ OneByOne

(* What has failed stays failed.                                           *)
LEMMA PunctualBefore ==
  ASSUME StreamIsSound, [MetricsNext]_vars, Punctual'
  PROVE  /\ Punctual
         /\ ~JoinTimesOut /\ \A t \in Threads : ~WriteJsonFails(t) /\ ~WriteFails(t)
<1>0. late \in BOOLEAN /\ faults \in Nat /\ ~late' /\ faults' = 0
  BY DEF StreamIsSound, StreamTypes, Punctual
<1>1. ~JoinTimesOut /\ \A t \in Threads : ~WriteJsonFails(t) /\ ~WriteFails(t)
  <2>1. ~JoinTimesOut
    BY <1>0, Zenon DEF JoinTimesOut
  <2>2. faults + 1 # 0
    BY <1>0
  <2> QED BY <1>0, <2>1, <2>2 DEF WriteJsonFails, WriteFails
<1>2. late' = late /\ faults' = faults
  <2>1. CASE UNCHANGED vars
    BY <2>1 DEF vars
  <2>2. CASE \E s \in Sessions : RecordStarted(s) \/ RecordFailure(s) \/ RecordFinished(s)
    BY <2>2 DEF RecordStarted, RecordFailure, RecordFinished, Record
  <2>3. CASE \E t \in Threads : Emit(t)
    BY <1>1, <2>3 DEF Emit, WriteJson, TakeSnapshot, Drain, Acquire, WriteReturns
  <2>4. CASE Tick \/ ThreadEnds \/ RunOver \/ Joined \/ JoinTimesOut \/ CloseSink
    BY <1>1, <2>4 DEF Tick, ThreadEnds, RunOver, Joined, CloseSink
  <2> QED BY <2>1, <2>2, <2>3, <2>4 DEF MetricsNext
<1> QED BY <1>0, <1>1, <1>2 DEF Punctual

(* The line written gets the next number.                                  *)
LEMMA NumberedNext ==
  ASSUME StreamIsSound, Placed, NEW t \in Threads, writer = t, file' = Written(t), seq' = seq, writer' = "nobody"
  PROVE  OneByOne'
<1> DEFINE r == Numbered(seq, Head(hands[t]))
<1>1. Head(hands[t]) \in Line /\ file' = Append(file, r) /\ file \in Seq(FileLine)
  BY WrittenLine DEF StreamIsSound, StreamTypes
<1>2. seq \in Nat /\ Len(file) \in Nat /\ seq = Len(file) + 1
  <2>1. writer # "nobody" /\ seq \in Nat
    BY DEF Threads, StreamIsSound, StreamTypes
  <2> QED BY <1>1, <2>1 DEF Placed, OneByOne
<1>3. r \in FileLine /\ r.seq = seq
  BY <1>1, <1>2, LinesOfFile DEF Numbered
<1> HIDE DEF r
<1>4. Len(file') = Len(file) + 1 /\ file'[Len(file) + 1] = r /\ \A i \in 1 .. Len(file) : file'[i] = file[i]
  BY <1>1, <1>3
<1>5. \A i \in 1 .. Len(file') : i \in 1 .. Len(file) \/ i = Len(file) + 1
  BY <1>2, <1>4
<1>6. \A i \in 1 .. Len(file) : file[i].seq = i
  BY DEF Placed, OneByOne
<1> QED BY <1>2, <1>3, <1>4, <1>5, <1>6 DEF OneByOne

(* One thread goes on, the main thread only after the reporter ended.      *)
LEMMA GoingStaysPlaced ==
  ASSUME StreamIsSound, Placed, NEW t \in Threads, NEW p, Goto(t, p), p \notin {"died", "raised"},
         t = "main" => p \in {"run", "join"} \/ pc["reporter"] = "ended",
         t = "reporter" => pc["main"] \in {"run", "join"} \/ p = "ended",
         t = "main" /\ p \in {"rows", "close", "closed"} => buffer' = <<>> /\ dropped' = 0,
         (buffer' = buffer /\ dropped' = dropped) \/ (buffer' = <<>> /\ dropped' = 0),
         OneByOne'
  PROVE  Placed'
<1>1. /\ Threads = {"reporter", "main"} /\ pc'[t] = p /\ \A u \in Threads \ {t} : pc'[u] = pc[u]
  BY DEF Threads, Goto, StreamIsSound, StreamTypes
<1>2. \A u \in Threads : pc'[u] \notin {"died", "raised"}
  BY <1>1 DEF Placed
<1>3. pc'["main"] \in {"run", "join"} \/ pc'["reporter"] = "ended"
  BY <1>1 DEF Placed
<1>4. pc'["main"] \in {"rows", "close", "closed"} => buffer' = <<>> /\ dropped' = 0
  BY <1>1 DEF Placed
<1> QED BY <1>2, <1>3, <1>4 DEF Placed, OneByOne

(* Who emits does so alone.                                                *)
LEMMA EmitsAlone ==
  ASSUME StreamIsSound, Placed, NEW t \in Threads, pc[t] \notin {"run", "join", "ended"}
  PROVE  /\ t = "main" => pc["reporter"] = "ended"
         /\ t = "reporter" => pc["main"] \in {"run", "join"}
         /\ \A u \in Threads \ {t} : hands[u] = <<>> /\ pc[u] \in {"run", "join", "ended"}
<1>1. /\ t = "main" => pc["reporter"] = "ended"
      /\ t = "reporter" => pc["main"] \in {"run", "join"}
  BY DEF Placed
<1>2. \A u \in Threads \ {t} : pc[u] \in {"run", "join", "ended"}
  BY <1>1 DEF Threads
<1> QED BY <1>1, <1>2 DEF StreamIsSound, StreamShape, Fits

(* Nothing that fails, nobody that is late: the threads stay placed.       *)
LEMMA PlacedStep ==
  ASSUME StreamIsSound, Placed, [MetricsNext]_vars, Punctual'
  PROVE  Placed'
<1>0. /\ Threads = {"reporter", "main"} /\ "reporter" \in Threads /\ "main" \in Threads
      /\ pc["main"] \in MainPlaces /\ OneByOne
      /\ ~JoinTimesOut /\ \A t \in Threads : ~WriteJsonFails(t) /\ ~WriteFails(t)
  BY PunctualBefore DEF Threads, StreamIsSound, StreamTypes, Placed, OneByOne
<1>a. ASSUME UNCHANGED sink
      PROVE  OneByOne'
  BY <1>0, <1>a DEF sink, OneByOne
<1>1. CASE UNCHANGED vars
  BY <1>1 DEF vars, sink, store, Placed, OneByOne
<1>2. CASE \E s \in Sessions : RecordStarted(s) \/ RecordFailure(s) \/ RecordFinished(s)
  <2>1. pc["main"] = "run" /\ pc' = pc /\ UNCHANGED sink
    BY <1>2 DEF RecordStarted, RecordFailure, RecordFinished, Record
  <2> QED BY <1>a, <2>1 DEF Placed, OneByOne
<1>3. ASSUME NEW t \in Threads, Emit(t)
      PROVE  Placed'
  <2>0. pc[t] \notin {"run", "join", "ended"}
    <3>1. writer = t => pc[t] \in {"snapshot", "rows"}
      BY DEF StreamIsSound, StreamShape
    <3> QED BY <1>3, <3>1 DEF Emit, WriteJson, WriteJsonFails, TakeSnapshot, Drain, Acquire, WriteReturns, WriteFails
  <2>1. (t = "main" => pc["reporter"] = "ended") /\ (t = "reporter" => pc["main"] \in {"run", "join"})
    BY <2>0, EmitsAlone
  <2>2. CASE WriteJson(t)
    <3>1. buffer' = buffer /\ dropped' = dropped /\ UNCHANGED sink
      BY <2>2 DEF WriteJson, store
    <3>2. \/ Goto(t, "count")
          \/ t = "reporter" /\ Goto(t, "wait")
      <4>1. "json only" \notin MainPlaces
        BY DEF MainPlaces
      <4> QED BY <1>0, <2>2, <4>1 DEF WriteJson, Rest
    <3> QED BY <1>0, <1>a, <2>1, <3>1, <3>2, GoingStaysPlaced
  <2>3. CASE TakeSnapshot(t)
    <3>1. buffer' = buffer /\ dropped' = dropped /\ UNCHANGED sink /\ Goto(t, "snapshot")
      BY <2>3 DEF TakeSnapshot, store
    <3> QED BY <1>0, <1>a, <2>1, <3>1, GoingStaysPlaced
  <2>4. CASE Drain(t)
    <3>1. buffer' = <<>> /\ dropped' = 0 /\ UNCHANGED sink
      BY <2>4 DEF Drain
    <3>2. \E p \in {"rows", "close", "wait"} : Goto(t, p)
      BY <2>4 DEF Drain, Rest
    <3> QED BY <1>0, <1>a, <2>1, <3>1, <3>2, GoingStaysPlaced
  <2>5. CASE Acquire(t)
    <3>1. open
      <4>1. ~open => pc["main"] = "closed"
        BY DEF StreamIsSound, StreamShape
      <4>2. pc[t] \in {"snapshot", "rows"}
        BY <2>5 DEF Acquire
      <4> QED BY <1>0, <2>1, <4>1, <4>2
    <3>2. /\ writer = "nobody" /\ writer' = t /\ seq' = seq + 1 /\ file' = file /\ pc' = pc
          /\ buffer' = buffer /\ dropped' = dropped
      BY <2>5, <3>1 DEF Acquire, store
    <3>3. t # "nobody" /\ seq \in Nat /\ file \in Seq(FileLine)
      BY <1>0 DEF StreamIsSound, StreamTypes
    <3>4. Len(file) \in Nat
      BY <3>3
    <3>5. OneByOne'
      BY <1>0, <3>2, <3>3, <3>4 DEF OneByOne
    <3> QED BY <3>2, <3>5 DEF Placed, OneByOne
  <2>6. CASE WriteReturns(t)
    <3>1. /\ writer = t /\ file' = Written(t) /\ seq' = seq /\ writer' = "nobody"
          /\ buffer' = buffer /\ dropped' = dropped
      BY <2>6 DEF WriteReturns, store
    <3>2. OneByOne'
      BY <3>1, NumberedNext
    <3>3. CASE pc[t] = "snapshot"
      <4>1. Goto(t, "drain")
        BY <2>6, <3>3 DEF WriteReturns
      <4> QED BY <1>0, <2>1, <3>1, <3>2, <4>1, GoingStaysPlaced
    <3>4. CASE pc[t] = "rows"
      <4>1. t = "main" => buffer = <<>> /\ dropped = 0
        BY <3>4 DEF Placed
      <4>2. pc' = pc \/ \E p \in {"close", "wait"} : Goto(t, p)
        BY <2>6, <3>4 DEF WriteReturns, Rest
      <4>3. CASE pc' = pc
        BY <3>1, <3>2, <4>3 DEF Placed, OneByOne
      <4>4. CASE \E p \in {"close", "wait"} : Goto(t, p)
        BY <1>0, <2>1, <3>1, <3>2, <4>1, <4>4, GoingStaysPlaced
      <4> QED BY <4>2, <4>3, <4>4
    <3> QED BY <2>6, <3>3, <3>4 DEF WriteReturns
  <2> QED BY <1>0, <1>3, <2>2, <2>3, <2>4, <2>5, <2>6 DEF Emit
<1>4. CASE Tick
  <2>1. /\ pc["main"] = "run" /\ UNCHANGED sink /\ buffer' = buffer /\ dropped' = dropped
        /\ \E p \in {"count", "json", "json only"} : Goto("reporter", p)
    BY <1>4 DEF Tick, Stopping, store
  <2> QED BY <1>0, <1>a, <2>1, GoingStaysPlaced
<1>5. CASE ThreadEnds
  <2>1. UNCHANGED sink /\ buffer' = buffer /\ dropped' = dropped /\ Goto("reporter", "ended")
    BY <1>5 DEF ThreadEnds, store
  <2> QED BY <1>0, <1>a, <2>1, GoingStaysPlaced
<1>6. CASE RunOver
  <2>1. UNCHANGED sink /\ buffer' = buffer /\ dropped' = dropped /\ Goto("main", "join")
    BY <1>6 DEF RunOver, store
  <2> QED BY <1>0, <1>a, <2>1, GoingStaysPlaced
<1>7. CASE Joined
  <2>1. UNCHANGED sink /\ buffer' = buffer /\ dropped' = dropped /\ Goto("main", "json") /\ pc["reporter"] \in {"ended", "died"}
    BY <1>7 DEF Joined, store
  <2>2. pc["reporter"] = "ended"
    BY <1>0, <2>1 DEF Placed
  <2> QED BY <1>0, <1>a, <2>1, <2>2, GoingStaysPlaced
<1>8. CASE CloseSink
  <2>1. /\ writer' = writer /\ seq' = seq /\ file' = file /\ buffer' = buffer /\ dropped' = dropped
        /\ Goto("main", "closed") /\ pc["main"] = "close"
    BY <1>8 DEF CloseSink, store
  <2>2. pc["reporter"] = "ended" /\ buffer = <<>> /\ dropped = 0
    BY <2>1 DEF Placed
  <2>3. OneByOne'
    BY <1>0, <2>1 DEF OneByOne
  <2> QED BY <1>0, <2>1, <2>2, <2>3, GoingStaysPlaced
<1> QED BY <1>0, <1>1, <1>2, <1>3, <1>4, <1>5, <1>6, <1>7, <1>8 DEF MetricsNext

\* The lines that were drained, in the order in which they will be read.
Drained == (Plain(file) \o hands["reporter"]) \o hands["main"]

(* The pipeline is what was drained and what was not.                      *)
LEMMA PipelineSplits ==
  ASSUME StreamIsSound
  PROVE  /\ Drained \in Seq(Line) /\ Pipeline = (Drained \o buffer) \o Overflow
         /\ \A w \in [Line -> Nat] :
              Total(w, Drained) = Total(w, Plain(file)) + Total(w, hands["reporter"]) + Total(w, hands["main"])
<1> DEFINE f == Plain(file)
           r == hands["reporter"]
           m == hands["main"]
           fr == f \o r
<1>1. f \in Seq(Line) /\ r \in Seq(Line) /\ m \in Seq(Line)
  BY PartsAreLines
<1>2. Drained = fr \o m /\ Pipeline = ((fr \o m) \o buffer) \o Overflow
  BY DEF Drained, Pipeline
<1> HIDE DEF f, r, m
<1>3. fr \in Seq(Line)
  BY <1>1
<1>4. \A w \in [Line -> Nat] : Total(w, fr) = Total(w, f) + Total(w, r)
  BY <1>1, TotalOfBoth
<1> HIDE DEF fr
<1>5. fr \o m \in Seq(Line)
  BY <1>1, <1>3
<1>6. \A w \in [Line -> Nat] : Total(w, fr \o m) = Total(w, fr) + Total(w, m)
  BY <1>1, <1>3, TotalOfBoth
<1>7. \A w \in [Line -> Nat] : Total(w, fr \o m) = Total(w, f) + Total(w, r) + Total(w, m)
  BY <1>4, <1>6
<1> QED BY <1>2, <1>5, <1>7 DEF f, r, m

(* The lines of an emission follow those drained before, none of them      *)
(* overtakes another.                                                      *)
LEMMA DrainedSteps ==
  ASSUME StreamIsSound, Placed, NEW t \in Threads, Others(t), Snaps(t) \/ Drains(t) \/ Writes(t)
  PROVE  /\ Snaps(t) => Drained' = Drained \o <<[kind |-> "snapshot", at |-> totals]>>
         /\ Drains(t) => Drained' = Drained \o (buffer \o Overflow)
         /\ Writes(t) => Drained' = Drained
<1> DEFINE f == Plain(file)
           h == hands[t]
<1>0. pc[t] \notin {"run", "join", "ended"}
  <2>1. writer = t => pc[t] \in {"snapshot", "rows"}
    BY DEF StreamIsSound, StreamShape
  <2> QED BY <2>1 DEF Snaps, Drains, Writes
<1>1. /\ f \in Seq(Line) /\ h \in Seq(Line) /\ <<>> \in Seq(Line)
      /\ \A q \in Seq(Line) : q \o <<>> = q
  <2>1. f \in Seq(Line) /\ h \in Seq(Line)
    BY PartsAreLines DEF StreamIsSound, StreamTypes
  <2>2. \A q \in Seq(Line) : q \o <<>> = q
    OBVIOUS
  <2> QED BY <2>1, <2>2
<1>2. ASSUME NEW e \in Seq(FileLine), NEW q \in Seq(Line), NEW F \in Seq(Line), F = Plain(e)
      PROVE  /\ (F \o q) \o <<>> = F \o q
             /\ (F \o <<>>) \o q = F \o q
  <2>1. F \o q \in Seq(Line)
    BY <1>2
  <2> QED BY <1>1, <1>2, <2>1
<1>3. \A u \in Threads \ {t} : hands[u] = <<>> /\ hands'[u] = <<>>
  BY <1>0, EmitsAlone DEF Others
<1>4. Threads = {"reporter", "main"} /\ file \in Seq(FileLine)
  BY PartsAreLines DEF Threads
<1>5. Drained = f \o h
  <2>1. CASE t = "reporter"
    <3>1. hands["main"] = <<>>
      BY <1>3, <1>4, <2>1
    <3> QED BY <1>1, <1>2, <1>4, <2>1, <3>1 DEF Drained
  <2>2. CASE t = "main"
    <3>1. hands["reporter"] = <<>>
      BY <1>3, <1>4, <2>2
    <3> QED BY <1>1, <1>2, <1>4, <2>2, <3>1 DEF Drained
  <2> QED BY <1>4, <2>1, <2>2
<1>6. ASSUME NEW e \in Seq(FileLine), file' = e, NEW q \in Seq(Line), hands'[t] = q
      PROVE  Drained' = Plain(e) \o q
  <2>0. Plain(e) \in Seq(Line) /\ Plain(file)' = Plain(e)
    BY <1>6, LinesOfFile DEF Plain
  <2>1. CASE t = "reporter"
    <3>1. hands'["main"] = <<>> /\ hands'["reporter"] = q
      BY <1>3, <1>4, <1>6, <2>1
    <3>2. Drained' = (Plain(e) \o q) \o <<>>
      BY <2>0, <3>1 DEF Drained
    <3> QED BY <1>2, <1>6, <2>0, <3>2
  <2>2. CASE t = "main"
    <3>1. hands'["reporter"] = <<>> /\ hands'["main"] = q
      BY <1>3, <1>4, <1>6, <2>2
    <3>2. Drained' = (Plain(e) \o <<>>) \o q
      BY <2>0, <3>1 DEF Drained
    <3> QED BY <1>2, <1>6, <2>0, <3>2
  <2> QED BY <1>4, <2>1, <2>2
<1>7. ASSUME Snaps(t) \/ Drains(t)
      PROVE  Drained = f /\ file' = file
  <2>1. h = <<>> /\ file' = file
    BY <1>7 DEF Snaps, Drains
  <2> QED BY <1>1, <1>5, <2>1
<1>8. ASSUME Snaps(t)
      PROVE  Drained' = Drained \o <<[kind |-> "snapshot", at |-> totals]>>
  <2> DEFINE l == [kind |-> "snapshot", at |-> totals]
             q == <<l>>
  <2>1. l \in Line
    BY DEF StreamIsSound, StreamTypes, Line, Snapshot
  <2>2. hands'[t] = q
    BY <1>8 DEF Snaps
  <2> HIDE DEF l
  <2>3. q \in Seq(Line)
    BY <2>1
  <2> HIDE DEF q
  <2>4. Drained' = Plain(file) \o q
    BY <1>4, <1>6, <1>7, <1>8, <2>2, <2>3
  <2> QED BY <1>7, <1>8, <2>4 DEF q, l
<1>9. ASSUME Drains(t)
      PROVE  Drained' = Drained \o (buffer \o Overflow)
  <2> DEFINE q == buffer \o Overflow
  <2>1. q \in Seq(Line) /\ hands'[t] = q
    BY <1>9, RestIsLines DEF Drains, StreamIsSound
  <2> HIDE DEF q
  <2>2. Drained' = Plain(file) \o q
    BY <1>4, <1>6, <1>7, <1>9, <2>1
  <2> QED BY <1>7, <1>9, <2>2 DEF q
<1>10. ASSUME Writes(t)
       PROVE  Drained' = Drained
  <2>1. writer = t /\ file' = Written(t) /\ hands'[t] = Tail(h)
    BY <1>10 DEF Writes
  <2>2. /\ Written(t) \in Seq(FileLine) /\ Tail(h) \in Seq(Line) /\ h # <<>>
        /\ Plain(Written(t)) = Append(f, Head(h))
    BY <2>1, WrittenLine
  <2>3. Drained' = Plain(Written(t)) \o Tail(h)
    BY <1>6, <2>1, <2>2
  <2>4. Append(f, Head(h)) \o Tail(h) = f \o h
    <3>1. \E w : w \in [Line -> Nat]
      <4>1. [l \in Line |-> 0] \in [Line -> Nat]
        OBVIOUS
      <4> QED BY <4>1
    <3> HIDE DEF f, h
    <3> QED BY <1>1, <2>2, <3>1, HeadMoves
  <2> QED BY <1>5, <2>2, <2>3, <2>4
<1> QED BY <1>8, <1>9, <1>10
----------------------------------------------------------------------------
(* The order of the events.                                                *)

\* The events of a piece of the stream follow each other, gaps accounted for,
\* after so many before it.
Numbers(before, q) == \A i \in 1 .. Len(q) : IsEvent(q[i]) => q[i].at = before + Weigh(accounts, q, i)

(* One piece after the other.                                              *)
LEMMA NumbersOfBoth ==
  ASSUME NEW a \in Seq(Line), NEW b \in Seq(Line), NEW n \in Nat,
         Numbers(n, a), Numbers(n + Total(accounts, a), b)
  PROVE  Numbers(n, a \o b)
<1> DEFINE c == a \o b
<1>0. accounts \in [Line -> Nat]
  <2>1. "session_started" \in Counted /\ 0 \in Nat
    BY DEF Counted
  <2> QED BY <2>1, WeightsOfLines
<1>1. /\ Len(a) \in Nat /\ Len(b) \in Nat /\ Len(c) = Len(a) + Len(b)
      /\ \A i \in 1 .. Len(a) : c[i] = a[i]
      /\ \A i \in 1 .. Len(b) : c[Len(a) + i] = b[i]
  OBVIOUS
<1>2. \A i \in 0 .. Len(a) : Weigh(accounts, c, i) = Weigh(accounts, a, i)
  BY <1>0, WeighOfBoth
<1>3. \A m \in Len(a) .. Len(c) : Weigh(accounts, c, m) = Total(accounts, a) + Weigh(accounts, b, m - Len(a))
  BY <1>0, WeighOfBoth
<1>4. /\ Total(accounts, a) \in Nat
      /\ \A i \in 0 .. Len(b) : Weigh(accounts, b, i) \in Nat
  <2>1. \A i \in 0 .. Len(b) : Weigh(accounts, b, i) \in Nat
    BY <1>0, WeighSteps
  <2>2. \A i \in 0 .. Len(a) : Weigh(accounts, a, i) \in Nat
    BY <1>0, WeighSteps
  <2> QED BY <1>1, <2>1, <2>2 DEF Total
<1> HIDE DEF c
<1>5. SUFFICES ASSUME NEW i \in 1 .. Len(c), IsEvent(c[i]) PROVE c[i].at = n + Weigh(accounts, c, i)
  BY DEF Numbers, c
<1>6. CASE i \in 1 .. Len(a)
  BY <1>1, <1>2, <1>5, <1>6 DEF Numbers
<1>7. CASE i \notin 1 .. Len(a)
  <2>1. PICK j \in 1 .. Len(b) : i = Len(a) + j
    <3>1. i - Len(a) \in 1 .. Len(b) /\ i = Len(a) + (i - Len(a))
      BY <1>1, <1>7
    <3> QED BY <3>1
  <2>2. c[i] = b[j] /\ b[j].at = n + Total(accounts, a) + Weigh(accounts, b, j)
    BY <1>1, <1>5, <2>1 DEF Numbers
  <2>3. Weigh(accounts, c, i) = Total(accounts, a) + Weigh(accounts, b, j) /\ Weigh(accounts, b, j) \in Nat
    <3>1. i \in Len(a) .. Len(c) /\ i - Len(a) = j
      BY <1>1, <2>1
    <3> QED BY <1>1, <1>3, <1>4, <2>1, <3>1
  <2> QED BY <1>4, <2>2, <2>3
<1> QED BY <1>6, <1>7

(* Lines that are no events are in order, and one event is when it is the  *)
(* next.                                                                   *)
LEMMA NumbersOfFew ==
  ASSUME NEW n \in Nat
  PROVE  /\ Numbers(n, <<>>)
         /\ \A l \in Line : (IsEvent(l) => l.at = n + 1) => Numbers(n, <<l>>)
<1>1. Numbers(n, <<>>)
  BY DEF Numbers
<1>2. ASSUME NEW l \in Line, IsEvent(l) => l.at = n + 1
      PROVE  Numbers(n, <<l>>)
  <2> DEFINE one == <<l>>
  <2>1. one \in Seq(Line) /\ Len(one) = 1 /\ one[1] = l
    OBVIOUS
  <2>2. IsEvent(l) => Total(accounts, one) = 1
    <3>1. accounts \in [Line -> Nat]
      <4>1. "session_started" \in Counted /\ 0 \in Nat
        BY DEF Counted
      <4> QED BY <4>1, WeightsOfLines
    <3>2. IsEvent(l) => accounts[l] = 1
      BY DEF accounts, Accounts
    <3>3. Total(accounts, one) = accounts[l]
      BY <3>1, WeighOne
    <3> QED BY <3>2, <3>3
  <2> HIDE DEF one
  <2>3. IsEvent(l) => Weigh(accounts, one, 1) = 1
    BY <2>1, <2>2 DEF Total
  <2>4. Numbers(n, one)
    BY <1>2, <2>1, <2>3 DEF Numbers
  <2> QED BY <2>4 DEF one
<1> QED BY <1>1, <1>2

EventsInOrder == Numbers(0, Drained) /\ Numbers(Total(accounts, Drained), buffer)

(* An overflow row is no event.                                            *)
LEMMA OverflowNumbers ==
  ASSUME StreamIsSound, NEW n \in Nat
  PROVE  Numbers(n, Overflow)
<1>1. CASE dropped = 0
  BY <1>1, NumbersOfFew DEF Overflow
<1>2. CASE dropped # 0
  <2> DEFINE l == [kind |-> "metrics_stream_overflow", at |-> dropped]
  <2>1. l \in Row
    BY DEF StreamIsSound, StreamTypes, Row
  <2>2. Overflow = <<l>>
    BY <1>2 DEF Overflow
  <2> HIDE DEF l
  <2>3. l \in Line /\ ~IsEvent(l)
    BY <2>1, KindsOfLines
  <2> QED BY <2>2, <2>3, NumbersOfFew
<1> QED BY <1>1, <1>2

(* A record of an event follows in the buffer, or makes the gap longer.    *)
LEMMA RecordStaysInOrder ==
  ASSUME StreamIsSound, Accounted, EventsInOrder, NEW kind \in Kinds, Records(kind)
  PROVE  EventsInOrder'
<1> DEFINE event == [kind |-> kind, at |-> recorded + 1]
           n == Total(accounts, Drained)
<1>0. accounts \in [Line -> Nat] /\ Drained' = Drained
  <2>1. "session_started" \in Counted /\ 0 \in Nat
    BY DEF Counted
  <2>2. accounts \in [Line -> Nat]
    BY <2>1, WeightsOfLines
  <2>3. file' = file /\ hands' = hands
    BY RecordedLines
  <2> QED BY <2>2, <2>3 DEF Drained, Plain
<1>1. CASE buffer' = buffer
  BY <1>0, <1>1 DEF EventsInOrder
<1>2. CASE buffer' = Append(buffer, event) /\ Overflow = <<>>
  <2>1. n \in Nat /\ buffer \in Seq(Line) /\ Total(accounts, buffer) \in Nat /\ Total(accounts, <<>>) = 0
    <3>1. Drained \in Seq(Line) /\ buffer \in Seq(Line) /\ \E l : l \in Line
      BY PipelineSplits, PartsAreLines, RecordedLines, KindsOfLines
    <3> QED BY <1>0, <3>1, LevelOfPipeline, WeighOne
  <2>2. n + Total(accounts, buffer) = recorded
    <3>1. n = Total(accounts, Plain(file)) + Total(accounts, hands["reporter"]) + Total(accounts, hands["main"])
      BY <1>0, PipelineSplits
    <3>2. Level(accounts) = n + Total(accounts, buffer) + Total(accounts, Overflow)
      BY <3>1 DEF Level
    <3> HIDE DEF n
    <3> QED BY <1>2, <2>1, <3>2 DEF Accounted
  <2>3. event \in Line /\ event.at = recorded + 1
    BY RecordedLines, KindsOfLines
  <2> HIDE DEF event, n
  <2>4. Numbers(n + Total(accounts, buffer), <<event>>)
    <3>1. n + Total(accounts, buffer) \in Nat
      BY <2>1
    <3> QED BY <2>2, <2>3, <3>1, NumbersOfFew
  <2>5. <<event>> \in Seq(Line) /\ Append(buffer, event) = buffer \o <<event>>
    BY <2>1, <2>3
  <2>6. Numbers(n, buffer)
    BY DEF EventsInOrder, n
  <2>7. Numbers(n, buffer \o <<event>>)
    BY <2>1, <2>4, <2>5, <2>6, NumbersOfBoth
  <2> QED BY <1>0, <1>2, <2>5, <2>7 DEF EventsInOrder, n
<1> QED BY <1>1, <1>2, RecordedLines

(* The lines move in their order.                                          *)
LEMMA LinesStayInOrder ==
  ASSUME StreamIsSound, Placed, EventsInOrder,
         Keeps \/ \E t \in Threads : Others(t) /\ (Snaps(t) \/ Drains(t) \/ Writes(t))
  PROVE  EventsInOrder'
<1> DEFINE n == Total(accounts, Drained)
<1>0. accounts \in [Line -> Nat]
  <2>1. "session_started" \in Counted /\ 0 \in Nat
    BY DEF Counted
  <2> QED BY <2>1, WeightsOfLines
<1>1. /\ Drained \in Seq(Line) /\ buffer \in Seq(Line) /\ Overflow \in Seq(Line) /\ buffer \o Overflow \in Seq(Line)
      /\ n \in Nat /\ Total(accounts, buffer) \in Nat /\ Numbers(0, Drained) /\ Numbers(n, buffer)
  BY <1>0, PipelineSplits, PartsAreLines, LevelOfPipeline, RestIsLines DEF StreamIsSound, EventsInOrder
<1>2. CASE Keeps
  BY <1>2 DEF Keeps, EventsInOrder, Drained, Plain
<1>3. ASSUME NEW t \in Threads, Others(t), Snaps(t)
      PROVE  EventsInOrder'
  <2> DEFINE l == [kind |-> "snapshot", at |-> totals]
  <2>1. l \in Line /\ ~IsEvent(l) /\ accounts[l] = 0
    <3>1. l \in Snapshot
      BY DEF StreamIsSound, StreamTypes, Snapshot
    <3> QED BY <3>1, KindsOfLines DEF accounts
  <2>2. Drained' = Drained \o <<l>> /\ buffer' = buffer
    BY <1>3, DrainedSteps DEF Snaps
  <2> HIDE DEF l, n
  <2>3. <<l>> \in Seq(Line) /\ Total(accounts, <<l>>) = 0 /\ Numbers(0 + n, <<l>>)
    BY <1>0, <1>1, <2>1, WeighOne, NumbersOfFew
  <2>4. Total(accounts, Drained \o <<l>>) = n
    <3>1. Total(accounts, Drained \o <<l>>) = n + Total(accounts, <<l>>)
      BY <1>0, <1>1, <2>3, TotalOfBoth DEF n
    <3> QED BY <1>1, <2>3, <3>1
  <2>5. Numbers(0, Drained \o <<l>>)
    <3> DEFINE q == <<l>>
    <3>1. q \in Seq(Line) /\ Numbers(0 + Total(accounts, Drained), q)
      BY <2>3 DEF n
    <3> HIDE DEF q
    <3>2. Numbers(0, Drained \o q)
      BY <1>1, <3>1, NumbersOfBoth
    <3> QED BY <3>2 DEF q
  <2> QED BY <1>1, <2>2, <2>4, <2>5 DEF EventsInOrder
<1>4. ASSUME NEW t \in Threads, Others(t), Drains(t)
      PROVE  EventsInOrder'
  <2>1. Drained' = Drained \o (buffer \o Overflow) /\ buffer' = <<>>
    BY <1>4, DrainedSteps DEF Drains
  <2>2. Numbers(n + Total(accounts, buffer), Overflow)
    BY <1>1, OverflowNumbers
  <2>3. Numbers(n, buffer \o Overflow)
    BY <1>1, <2>2, NumbersOfBoth
  <2> DEFINE rest == buffer \o Overflow
  <2> HIDE DEF rest
  <2>4. Numbers(0 + n, rest) /\ rest \in Seq(Line) /\ Drained' = Drained \o rest
    BY <1>1, <2>1, <2>3 DEF rest
  <2>5. Numbers(0, Drained \o rest) /\ Drained \o rest \in Seq(Line)
    BY <1>1, <2>4, NumbersOfBoth
  <2>6. Total(accounts, Drained \o rest) \in Nat
    BY <1>0, <2>5, LevelOfPipeline
  <2>7. Numbers(Total(accounts, Drained \o rest), <<>>)
    BY <2>6, NumbersOfFew
  <2> QED BY <2>1, <2>4, <2>5, <2>7 DEF EventsInOrder
<1>5. ASSUME NEW t \in Threads, Others(t), Writes(t)
      PROVE  EventsInOrder'
  <2>1. Drained' = Drained /\ buffer' = buffer
    BY <1>5, DrainedSteps DEF Writes
  <2> QED BY <2>1 DEF EventsInOrder
<1> QED BY <1>2, <1>3, <1>4, <1>5
----------------------------------------------------------------------------
(* The snapshots among the lines.                                          *)

\* Each snapshot counts what the lines before it tell, at most x, and what
\* a later snapshot has before it covers it; so does everything, once drained.
Tallied(q, k, x, drained) ==
  \A i \in 1 .. Len(q) : q[i].kind = "snapshot" =>
    /\ Weigh(tells(k), q, i) <= q[i].at[k] /\ q[i].at[k] <= x
    /\ \A j \in 1 .. Len(q) : i < j /\ q[j].kind = "snapshot" => q[i].at[k] <= Weigh(covers(k), q, j)
    /\ drained => q[i].at[k] <= Total(covers(k), q)

(* A snapshot taken when everything before was drained.                    *)
LEMMA TallySnapshot ==
  ASSUME NEW k \in Counted, NEW q \in Seq(Line), NEW x \in Nat, NEW l \in Snapshot,
         Tallied(q, k, x, TRUE), l.at[k] = x, Total(tells(k), q) <= x
  PROVE  Tallied(q \o <<l>>, k, x, FALSE)
<1> DEFINE one == <<l>>
           c == q \o one
<1>0. tells(k) \in [Line -> Nat] /\ covers(k) \in [Line -> Nat] /\ l \in Line /\ tells(k)[l] = 0 /\ covers(k)[l] = 0
  <2>1. 0 \in Nat
    OBVIOUS
  <2> QED BY <2>1, WeightsOfLines, KindsOfLines
<1>1. one \in Seq(Line) /\ Len(one) = 1 /\ one[1] = l
  BY <1>0
<1>2. Total(tells(k), one) = 0 /\ Total(covers(k), one) = 0
  BY <1>0, WeighOne
<1> HIDE DEF one
<1>3. /\ Len(q) \in Nat /\ Len(c) = Len(q) + 1 /\ c \in Seq(Line) /\ c[Len(q) + 1] = l
      /\ \A i \in 1 .. Len(q) : c[i] = q[i]
  <2>1. c = Append(q, l)
    BY <1>0, ConcatenateOneOrNone DEF one
  <2>2. Len(q) \in Nat
    OBVIOUS
  <2> HIDE DEF c
  <2> QED BY <1>0, <2>1, <2>2, AppendMembers
<1>4. ASSUME NEW w \in [Line -> Nat], Total(w, one) = 0
      PROVE  /\ \A i \in 0 .. Len(q) : Weigh(w, c, i) = Weigh(w, q, i)
             /\ Weigh(w, c, Len(q) + 1) = Total(w, q)
  <2>1. \A i \in 0 .. Len(q) : Weigh(w, c, i) = Weigh(w, q, i)
    BY <1>1, WeighOfBoth
  <2>2. Total(w, c) = Total(w, q) + Total(w, one) /\ Total(w, q) \in Nat
    BY <1>1, TotalOfBoth, TotalIsNat
  <2> QED BY <1>3, <1>4, <2>1, <2>2 DEF Total
<1> HIDE DEF c
<1>a. /\ \A i \in 0 .. Len(q) : Weigh(tells(k), c, i) = Weigh(tells(k), q, i)
      /\ Weigh(tells(k), c, Len(q) + 1) = Total(tells(k), q)
  BY <1>0, <1>2, <1>4
<1>b. /\ \A i \in 0 .. Len(q) : Weigh(covers(k), c, i) = Weigh(covers(k), q, i)
      /\ Weigh(covers(k), c, Len(q) + 1) = Total(covers(k), q)
  BY <1>0, <1>2, <1>4
<1>5. SUFFICES ASSUME NEW i \in 1 .. Len(c), c[i].kind = "snapshot"
               PROVE  /\ Weigh(tells(k), c, i) <= c[i].at[k] /\ c[i].at[k] <= x
                      /\ \A j \in 1 .. Len(c) : i < j /\ c[j].kind = "snapshot" => c[i].at[k] <= Weigh(covers(k), c, j)
  BY DEF Tallied, c, one
<1>6. CASE i \in 1 .. Len(q)
  <2>0. i \in 0 .. Len(q) /\ c[i] = q[i]
    BY <1>3, <1>6
  <2>1. Weigh(tells(k), c, i) <= c[i].at[k] /\ c[i].at[k] <= x
    BY <1>a, <1>b, <1>3, <1>5, <1>6, <2>0 DEF Tallied
  <2>2. ASSUME NEW j \in 1 .. Len(c), i < j, c[j].kind = "snapshot"
        PROVE  c[i].at[k] <= Weigh(covers(k), c, j)
    <3>1. CASE j \in 1 .. Len(q)
      <4>1. j \in 0 .. Len(q) /\ c[j] = q[j]
        BY <1>3, <3>1
      <4> QED BY <1>b, <1>5, <1>6, <2>0, <2>2, <3>1, <4>1 DEF Tallied
    <3>2. CASE j = Len(q) + 1
      BY <1>a, <1>b, <1>3, <1>5, <1>6, <2>0, <2>2, <3>2 DEF Tallied
    <3> QED BY <1>3, <3>1, <3>2
  <2> QED BY <2>1, <2>2
<1>7. CASE i = Len(q) + 1
  BY <1>a, <1>3, <1>5, <1>7
<1> QED BY <1>3, <1>6, <1>7

(* A drain of lines without a snapshot that cover what was counted.        *)
LEMMA TallyDrain ==
  ASSUME NEW k \in Counted, NEW q \in Seq(Line), NEW x \in Nat, NEW d \in BOOLEAN, NEW r \in Seq(Line),
         \A i \in 1 .. Len(r) : r[i].kind # "snapshot",
         Tallied(q, k, x, d), x <= Total(covers(k), q \o r),
         \A i \in 1 .. Len(q) : q[i].kind = "snapshot" => q[i].at[k] \in Nat
  PROVE  Tallied(q \o r, k, x, TRUE)
<1> DEFINE c == q \o r
<1>0. tells(k) \in [Line -> Nat] /\ covers(k) \in [Line -> Nat]
  <2>1. 0 \in Nat
    OBVIOUS
  <2> QED BY <2>1, WeightsOfLines
<1>1. /\ Len(q) \in Nat /\ Len(r) \in Nat /\ Len(c) = Len(q) + Len(r) /\ c \in Seq(Line)
      /\ \A i \in 1 .. Len(q) : c[i] = q[i]
      /\ \A i \in 1 .. Len(r) : c[Len(q) + i] = r[i]
  OBVIOUS
<1>2. /\ \A i \in 0 .. Len(q) : Weigh(tells(k), c, i) = Weigh(tells(k), q, i)
      /\ \A i \in 0 .. Len(q) : Weigh(covers(k), c, i) = Weigh(covers(k), q, i)
  <2>1. \A i \in 0 .. Len(q) : Weigh(tells(k), c, i) = Weigh(tells(k), q, i)
    BY <1>0, WeighOfBoth
  <2>2. \A i \in 0 .. Len(q) : Weigh(covers(k), c, i) = Weigh(covers(k), q, i)
    BY <1>0, WeighOfBoth
  <2> QED BY <2>1, <2>2
<1>3. x <= Total(covers(k), c) /\ Total(covers(k), c) \in Nat
  BY <1>0, <1>1, TotalIsNat
<1> HIDE DEF c
<1>4. \A i \in 1 .. Len(c) : c[i].kind = "snapshot" => i \in 1 .. Len(q)
  <2> SUFFICES ASSUME NEW i \in 1 .. Len(c), i \notin 1 .. Len(q) PROVE c[i].kind # "snapshot"
    OBVIOUS
  <2>1. i - Len(q) \in 1 .. Len(r) /\ i = Len(q) + (i - Len(q))
    BY <1>1
  <2> QED BY <1>1, <2>1
<1>5. SUFFICES ASSUME NEW i \in 1 .. Len(c), c[i].kind = "snapshot"
               PROVE  /\ Weigh(tells(k), c, i) <= c[i].at[k] /\ c[i].at[k] <= x
                      /\ \A j \in 1 .. Len(c) : i < j /\ c[j].kind = "snapshot" => c[i].at[k] <= Weigh(covers(k), c, j)
                      /\ c[i].at[k] <= Total(covers(k), c)
  BY DEF Tallied, c
<1>6. i \in 1 .. Len(q) /\ c[i] = q[i] /\ q[i].at[k] \in Nat
  BY <1>1, <1>4, <1>5
<1>7. Weigh(tells(k), c, i) <= c[i].at[k] /\ c[i].at[k] <= x
  BY <1>1, <1>2, <1>5, <1>6 DEF Tallied
<1>8. \A j \in 1 .. Len(c) : i < j /\ c[j].kind = "snapshot" => c[i].at[k] <= Weigh(covers(k), c, j)
  <2> SUFFICES ASSUME NEW j \in 1 .. Len(c), i < j, c[j].kind = "snapshot" PROVE c[i].at[k] <= Weigh(covers(k), c, j)
    OBVIOUS
  <2>1. j \in 1 .. Len(q) /\ c[j] = q[j]
    BY <1>1, <1>4
  <2> QED BY <1>1, <1>2, <1>5, <1>6, <2>1 DEF Tallied
<1> QED BY <1>3, <1>6, <1>7, <1>8

(* More sessions counted, or less said of the drain.                       *)
LEMMA TallyGrows ==
  ASSUME NEW k, NEW q, NEW x \in Nat, NEW y \in Nat, NEW d, NEW e, x <= y, e => d,
         Tallied(q, k, x, d), \A i \in 1 .. Len(q) : q[i].kind = "snapshot" => q[i].at[k] \in Nat
  PROVE  Tallied(q, k, y, e)
BY DEF Tallied

\* No thread is between its snapshot and its drain.
AllDrained == \A t \in Threads : pc[t] \notin {"snapshot", "drain"}

SnapshotsInOrder == \A k \in Counted : Tallied(Drained, k, totals[k], AllDrained)

(* A snapshot among the lines carries totals; none waits in the buffer.    *)
LEMMA WhereSnapshotsAre ==
  ASSUME StreamIsSound, NEW k \in Counted
  PROVE  /\ \A q \in Seq(Line) : \A i \in 1 .. Len(q) : q[i].kind = "snapshot" => q[i].at[k] \in Nat
         /\ \A i \in 1 .. Len(buffer \o Overflow) : (buffer \o Overflow)[i].kind # "snapshot"
<1>1. ASSUME NEW q \in Seq(Line), NEW i \in 1 .. Len(q), q[i].kind = "snapshot"
      PROVE  q[i].at[k] \in Nat
  <2>1. q[i] \in Snapshot
    BY <1>1, KindsOfLines
  <2>2. \A l \in Snapshot : l.at \in [Counted -> Nat]
    BY DEF Snapshot
  <2> QED BY <2>1, <2>2
<1>2. /\ buffer \in Seq(Line) /\ Overflow \in Seq(Line)
      /\ \A i \in 1 .. Len(buffer) : buffer[i].kind # "snapshot"
      /\ \A i \in 1 .. Len(Overflow) : Overflow[i].kind # "snapshot"
  <2>1. /\ buffer \in Seq(Line) /\ Overflow \in Seq(Line) /\ \A i \in 1 .. Len(buffer) : buffer[i] \in Event
    BY RestIsLines DEF StreamIsSound
  <2>2. \A l \in Event : l.kind # "snapshot"
    BY KindsOfLines
  <2>3. \A i \in 1 .. Len(Overflow) : Overflow[i].kind # "snapshot"
    BY DEF Overflow
  <2> QED BY <2>1, <2>2, <2>3
<1>3. ASSUME NEW i \in 1 .. Len(buffer \o Overflow)
      PROVE  (buffer \o Overflow)[i].kind # "snapshot"
  <2> DEFINE v == Overflow
             c == buffer \o v
  <2>1. v \in Seq(Line) /\ \A j \in 1 .. Len(v) : v[j].kind # "snapshot"
    BY <1>2
  <2> HIDE DEF v
  <2>2. /\ Len(c) = Len(buffer) + Len(v) /\ Len(buffer) \in Nat /\ Len(v) \in Nat
        /\ \A j \in 1 .. Len(buffer) : c[j] = buffer[j]
        /\ \A j \in 1 .. Len(v) : c[Len(buffer) + j] = v[j]
    BY <1>2, <2>1
  <2>3. i \in 1 .. Len(c)
    BY DEF v
  <2> HIDE DEF c
  <2>4. c[i].kind # "snapshot"
    <3>1. CASE i \in 1 .. Len(buffer)
      BY <1>2, <2>2, <3>1
    <3>2. CASE i \notin 1 .. Len(buffer)
      <4>1. i - Len(buffer) \in 1 .. Len(v) /\ i = Len(buffer) + (i - Len(buffer))
        BY <2>2, <2>3, <3>2
      <4> QED BY <2>1, <2>2, <4>1
    <3> QED BY <3>1, <3>2
  <2> QED BY <2>4 DEF c, v
<1> QED BY <1>1, <1>3

(* What was drained tells at most the totals, and with the rest covers     *)
(* them.                                                                   *)
LEMMA DrainedBetweenTotals ==
  ASSUME StreamIsSound, Accounted, NEW CONSTANT k \in Counted
  PROVE  /\ Drained \in Seq(Line) /\ buffer \o Overflow \in Seq(Line) /\ totals[k] \in Nat
         /\ Total(tells(k), Drained) <= totals[k]
         /\ totals[k] <= Total(covers(k), Drained \o (buffer \o Overflow))
<1> DEFINE rest == buffer \o Overflow
<1>0. /\ Drained \in Seq(Line) /\ buffer \in Seq(Line) /\ Overflow \in Seq(Line) /\ rest \in Seq(Line)
      /\ totals[k] \in Nat
  BY PipelineSplits, PartsAreLines, RestIsLines DEF StreamIsSound, StreamTypes
<1>1. tells(k) \in [Line -> Nat] /\ covers(k) \in [Line -> Nat]
  <2>1. 0 \in Nat
    OBVIOUS
  <2> QED BY <2>1, WeightsOfLines
<1>2. ASSUME NEW CONSTANT w \in [Line -> Nat]
      PROVE  /\ Level(w) = Total(w, Drained) + Total(w, buffer) + Total(w, Overflow)
             /\ Total(w, Drained) \in Nat /\ Total(w, buffer) \in Nat /\ Total(w, Overflow) \in Nat
             /\ Total(w, Drained \o rest) = Level(w)
  <2>1. Total(w, Drained) \in Nat /\ Total(w, buffer) \in Nat /\ Total(w, Overflow) \in Nat
    BY <1>0, TotalIsNat
  <2>2. Total(w, Drained) = Total(w, Plain(file)) + Total(w, hands["reporter"]) + Total(w, hands["main"])
    BY PipelineSplits
  <2>3. Level(w) = Total(w, Drained) + Total(w, buffer) + Total(w, Overflow)
    BY <2>2 DEF Level
  <2>4. Total(w, rest) = Total(w, buffer) + Total(w, Overflow)
    BY <1>0, TotalOfBoth
  <2> HIDE DEF rest
  <2>5. Total(w, Drained \o rest) = Total(w, Drained) + Total(w, rest)
    BY <1>0, TotalOfBoth
  <2> QED BY <2>1, <2>3, <2>4, <2>5
<1>3. /\ Level(tells(k)) = Total(tells(k), Drained) + Total(tells(k), buffer) + Total(tells(k), Overflow)
      /\ Total(tells(k), Drained) \in Nat /\ Total(tells(k), buffer) \in Nat /\ Total(tells(k), Overflow) \in Nat
      /\ Total(covers(k), Drained \o rest) = Level(covers(k))
  BY <1>1, <1>2
<1>4. Level(tells(k)) <= totals[k] /\ totals[k] <= Level(covers(k))
  BY DEF Accounted
<1>5. Total(tells(k), Drained) <= totals[k]
  <2> DEFINE a == Total(tells(k), Drained)
             b == Total(tells(k), buffer)
             c == Total(tells(k), Overflow)
             x == Level(tells(k))
  <2>1. x = a + b + c /\ a \in Nat /\ b \in Nat /\ c \in Nat /\ x <= totals[k]
    BY <1>3, <1>4
  <2> HIDE DEF a, b, c, x
  <2>2. a <= totals[k]
    BY <1>0, <2>1
  <2> QED BY <2>2 DEF a
<1> QED BY <1>0, <1>3, <1>4, <1>5

(* Every step keeps the snapshots in order.                                *)
LEMMA SnapshotsStayInOrder ==
  ASSUME StreamIsSound, StreamIsSound', Accounted, Placed, Placed', SnapshotsInOrder,
         [MetricsNext]_vars, NEW CONSTANT k \in Counted
  PROVE  Tallied(Drained, k, totals[k], AllDrained)'
<1>0. /\ Drained \in Seq(Line) /\ totals[k] \in Nat /\ totals'[k] \in Nat /\ AllDrained \in BOOLEAN
      /\ Tallied(Drained, k, totals[k], AllDrained)
      /\ \A i \in 1 .. Len(Drained) : Drained[i].kind = "snapshot" => Drained[i].at[k] \in Nat
  BY DrainedBetweenTotals, WhereSnapshotsAre DEF SnapshotsInOrder, AllDrained, StreamIsSound, StreamTypes
<1>a. ASSUME Drained' = Drained, totals[k] <= totals'[k], AllDrained' => AllDrained
      PROVE  Tallied(Drained, k, totals[k], AllDrained)'
  <2>1. Tallied(Drained, k, totals'[k], AllDrained')
    BY <1>0, <1>a, TallyGrows
  <2> QED BY <1>a, <2>1
<1>1. ASSUME NEW kind \in Kinds, Records(kind)
      PROVE  Tallied(Drained, k, totals[k], AllDrained)'
  <2>1. Drained' = Drained /\ pc' = pc /\ totals[k] <= totals'[k]
    <3>1. totals'[k] = totals[k] + (IF k = kind THEN 1 ELSE 0) /\ UNCHANGED <<pc, hands, sink, faults, late>>
      BY <1>1 DEF Records
    <3>2. file' = file /\ hands' = hands
      BY <3>1 DEF sink
    <3>3. Drained' = Drained
      BY <3>2 DEF Drained, Plain
    <3> QED BY <1>0, <3>1, <3>3
  <2> QED BY <1>a, <2>1 DEF AllDrained
<1>2. CASE ~ \E s \in Sessions : RecordStarted(s) \/ RecordFailure(s) \/ RecordFinished(s)
  <2>1. /\ totals' = totals
        /\ Keeps \/ \E t \in Threads : Others(t) /\ (Snaps(t) \/ Drains(t) \/ Writes(t))
    BY <1>2, OtherSteps DEF Counters
  <2>2. CASE Keeps
    <3>1. Drained' = Drained
      BY <2>2 DEF Keeps, Drained, Plain
    <3>2. AllDrained' => AllDrained
      BY <2>2 DEF Keeps, AllDrained, Placed
    <3> QED BY <1>0, <1>a, <2>1, <3>1, <3>2
  <2>3. ASSUME NEW t \in Threads, Others(t), Snaps(t)
        PROVE  Tallied(Drained, k, totals[k], AllDrained)'
    <3> DEFINE l == [kind |-> "snapshot", at |-> totals]
    <3>1. AllDrained /\ ~AllDrained'
      <4>1. pc[t] = "count" /\ pc'[t] = "snapshot"
        BY <2>3 DEF Snaps
      <4>2. \A u \in Threads \ {t} : pc[u] \in {"run", "join", "ended"}
        BY <4>1, EmitsAlone
      <4> QED BY <4>1, <4>2 DEF AllDrained
    <3>2. Drained' = Drained \o <<l>>
      BY <2>3, DrainedSteps
    <3>3. l \in Snapshot /\ l.at[k] = totals[k]
      BY DEF StreamIsSound, StreamTypes, Snapshot
    <3>4. Total(tells(k), Drained) <= totals[k] /\ Tallied(Drained, k, totals[k], TRUE)
      BY <1>0, <3>1, DrainedBetweenTotals DEF Tallied
    <3> HIDE DEF l
    <3>5. Tallied(Drained \o <<l>>, k, totals[k], FALSE)
      BY <1>0, <3>3, <3>4, TallySnapshot
    <3>6. Tallied(Drained', k, totals'[k], FALSE)
      BY <2>1, <3>2, <3>5
    <3> QED BY <3>1, <3>6 DEF Tallied
  <2>4. ASSUME NEW t \in Threads, Others(t), Drains(t)
        PROVE  Tallied(Drained, k, totals[k], AllDrained)'
    <3> DEFINE rest == buffer \o Overflow
    <3>1. Drained' = Drained \o rest /\ rest \in Seq(Line) /\ totals[k] <= Total(covers(k), Drained \o rest)
          /\ \A i \in 1 .. Len(rest) : rest[i].kind # "snapshot"
      BY <2>4, DrainedSteps, DrainedBetweenTotals, WhereSnapshotsAre
    <3> HIDE DEF rest
    <3>2. Tallied(Drained \o rest, k, totals[k], TRUE)
      BY <1>0, <3>1, TallyDrain
    <3>3. Tallied(Drained', k, totals'[k], TRUE)
      BY <2>1, <3>1, <3>2
    <3> QED BY <3>3 DEF Tallied
  <2>5. ASSUME NEW t \in Threads, Others(t), Writes(t)
        PROVE  Tallied(Drained, k, totals[k], AllDrained)'
    <3>1. Drained' = Drained
      BY <2>5, DrainedSteps
    <3>2. AllDrained' => AllDrained
      <4>1. pc[t] \in {"snapshot", "rows"}
        BY <2>5 DEF Writes, StreamIsSound, StreamShape
      <4>2. pc[t] = "snapshot" => pc'[t] \in {"drain", "died", "raised"}
        BY <2>5, <2>1 DEF Writes
      <4>3. pc'[t] \notin {"died", "raised"}
        BY DEF Placed
      <4> QED BY <2>5, <4>1, <4>2, <4>3 DEF AllDrained, Others
    <3> QED BY <1>0, <1>a, <2>1, <3>1, <3>2
  <2> QED BY <2>1, <2>2, <2>3, <2>4, <2>5
<1> QED BY <1>1, <1>2, RecordingSteps

(* All of it while the run is punctual.                                    *)
InOrder == Punctual => Placed /\ EventsInOrder /\ SnapshotsInOrder

(* An empty stream is in order.                                            *)
LEMMA InOrderInit ==
  ASSUME MetricsInit
  PROVE  InOrder
<1>1. file = <<>> /\ buffer = <<>> /\ hands["reporter"] = <<>> /\ hands["main"] = <<>>
  BY DEF MetricsInit, Threads
<1>2. Placed
  <2>1. (\A t \in Threads : pc[t] \in {"run", "wait"}) /\ pc["main"] = "run"
    BY DEF MetricsInit, Threads
  <2>2. OneByOne
    <3>1. Len(<<>>) = 0
      OBVIOUS
    <3> QED BY <1>1, <3>1 DEF MetricsInit, OneByOne
  <2> QED BY <2>1, <2>2 DEF Placed
<1>3. Drained = <<>>
  <2>1. Plain(<<>>) = <<>> /\ (<<>> \o <<>>) \o <<>> = <<>>
    BY DEF Plain
  <2> QED BY <1>1, <2>1 DEF Drained
<1>4. EventsInOrder
  BY <1>1, <1>3 DEF EventsInOrder, Numbers
<1>5. SnapshotsInOrder
  BY <1>3 DEF SnapshotsInOrder, Tallied
<1> QED BY <1>2, <1>4, <1>5 DEF InOrder

(* The stream stays in order as long as nothing fails.                     *)
LEMMA InOrderStep ==
  ASSUME StreamIsSound, StreamIsSound', Accounted, InOrder, [MetricsNext]_vars
  PROVE  InOrder'
<1> SUFFICES ASSUME Punctual' PROVE (Placed /\ EventsInOrder /\ SnapshotsInOrder)'
  BY DEF InOrder
<1>1. Placed /\ EventsInOrder /\ SnapshotsInOrder
  BY PunctualBefore DEF InOrder
<1>2. Placed'
  BY <1>1, PlacedStep
<1>3. EventsInOrder'
  <2>1. CASE \E s \in Sessions : RecordStarted(s) \/ RecordFailure(s) \/ RecordFinished(s)
    BY <1>1, <2>1, RecordingSteps, RecordStaysInOrder
  <2>2. CASE ~ \E s \in Sessions : RecordStarted(s) \/ RecordFailure(s) \/ RecordFinished(s)
    BY <1>1, <2>2, OtherSteps, LinesStayInOrder
  <2> QED BY <2>1, <2>2
<1>4. SnapshotsInOrder'
  <2>1. ASSUME NEW CONSTANT k \in Counted
        PROVE  Tallied(Drained, k, totals[k], AllDrained)'
    BY <1>1, <1>2, SnapshotsStayInOrder
  <2> QED BY <2>1 DEF SnapshotsInOrder
<1> QED BY <1>2, <1>3, <1>4

(* What the order of the lines tells.                                      *)
LEMMA InOrderIsWhole ==
  ASSUME StreamIsSound, Accounted, InOrder
  PROVE  StreamIsWhole
<1> DEFINE OrderTold == \A i \in DOMAIN Pipeline :
                          IsEvent(Pipeline[i]) => Pipeline[i].at = Upto(Pipeline, i, Accounts)
           Whole == pc["main"] = "closed" => Upto(file, Len(file), Accounts) = recorded
<1> SUFFICES ASSUME Punctual PROVE OrderTold /\ (\A i \in DOMAIN file : file[i].seq = i) /\ Whole
  <2>1. ~Punctual => StreamIsWhole
    BY DEF Punctual, StreamIsWhole
  <2>2. OrderTold /\ (\A i \in DOMAIN file : file[i].seq = i) /\ Whole => StreamIsWhole
    BY DEF StreamIsWhole
  <2> QED BY <2>1, <2>2
<1>0. accounts \in [Line -> Nat] /\ Placed /\ EventsInOrder /\ file \in Seq(FileLine)
  <2>1. "session_started" \in Counted /\ 0 \in Nat
    BY DEF Counted
  <2> QED BY <2>1, WeightsOfLines, PartsAreLines DEF InOrder
<1>1. ASSUME NEW i \in DOMAIN Pipeline, IsEvent(Pipeline[i])
      PROVE  Pipeline[i].at = Upto(Pipeline, i, Accounts)
  <2> DEFINE d == Drained
             b == buffer
             v == Overflow
             db == d \o b
  <2>1. /\ d \in Seq(Line) /\ b \in Seq(Line) /\ v \in Seq(Line)
        /\ Numbers(0, d) /\ Numbers(Total(accounts, d), b) /\ Total(accounts, d) \in Nat
    BY <1>0, PipelineSplits, PartsAreLines, TotalIsNat DEF EventsInOrder
  <2>2. \A n \in Nat : Numbers(n, v)
    BY OverflowNumbers
  <2>3. Pipeline = db \o v /\ Pipeline \in Seq(Line)
    BY <1>0, PipelineSplits, LevelOfPipeline
  <2> HIDE DEF d, b, v
  <2>4. Numbers(0, db) /\ db \in Seq(Line)
    BY <2>1, NumbersOfBoth
  <2> HIDE DEF db
  <2>5. Total(accounts, db) \in Nat
    BY <1>0, <2>4, TotalIsNat
  <2>6. Numbers(0, db \o v)
    BY <2>1, <2>2, <2>4, <2>5, NumbersOfBoth
  <2> DEFINE all == Pipeline
  <2>7. Numbers(0, all) /\ all \in Seq(Line) /\ i \in DOMAIN all /\ IsEvent(all[i])
    BY <1>1, <2>3, <2>6
  <2> HIDE DEF all
  <2>8. i \in 1 .. Len(all) /\ i \in 0 .. Len(all)
    BY <2>7
  <2>9. all[i].at = 0 + Weigh(accounts, all, i) /\ Weigh(accounts, all, i) \in Nat
    BY <1>0, <2>7, <2>8, WeighSteps DEF Numbers
  <2>10. Upto(all, i, Accounts) = Weigh(accounts, all, i)
    BY <2>7, <2>8, UptoIsWeigh
  <2> QED BY <2>9, <2>10 DEF all
<1>2. \A i \in DOMAIN file : file[i].seq = i
  BY <1>0 DEF Placed, OneByOne
<1>3. ASSUME pc["main"] = "closed"
      PROVE  Upto(file, Len(file), Accounts) = recorded
  <2>1. buffer = <<>> /\ Overflow = <<>> /\ hands["reporter"] = <<>> /\ hands["main"] = <<>>
    <3>1. pc["reporter"] = "ended" /\ buffer = <<>> /\ dropped = 0
      BY <1>0, <1>3 DEF Placed
    <3> QED BY <1>3, <3>1 DEF StreamIsSound, StreamShape, Fits, Threads, Overflow
  <2>2. Total(accounts, <<>>) = 0 /\ Total(accounts, Plain(file)) \in Nat
    <3>1. \E l : l \in Line
      <4>1. [kind |-> "metrics_stream_overflow", at |-> 0] \in Row
        BY DEF Row
      <4> QED BY <4>1, KindsOfLines
    <3> QED BY <1>0, <3>1, WeighOne, PartsAreLines, TotalIsNat
  <2>3. Total(accounts, Plain(file)) = recorded
    BY <2>1, <2>2 DEF Accounted, Level
  <2>4. Upto(file, Len(file), Accounts) = Total(accounts, Plain(file))
    <3>1. Len(file) \in 0 .. Len(file)
      BY <1>0
    <3>2. Upto(file, Len(file), Accounts) = Weigh(accounts, Plain(file), Len(file))
      BY <1>0, <3>1, UptoInFile
    <3> QED BY <1>0, <3>2, LinesOfFile DEF Total
  <2> QED BY <2>3, <2>4
<1> QED BY <1>1, <1>2, <1>3

(* What the snapshots tell of the lines around them.                       *)
LEMMA InOrderReconciles ==
  ASSUME StreamIsSound, Accounted, InOrder
  PROVE  SnapshotsReconcile
<1> SUFFICES ASSUME Punctual, NEW CONSTANT k \in Counted
             PROVE  /\ \A i \in DOMAIN file : file[i].kind = "snapshot" =>
                         Upto(file, i, LAMBDA line : IF line.kind = k THEN 1 ELSE 0) <= file[i].at[k]
                    /\ \A i, j \in DOMAIN file : file[i].kind = "snapshot" /\ file[j].kind = "snapshot" /\ i < j =>
                         file[i].at[k] <= Upto(file, j, LAMBDA line : IF line.kind = k THEN 1 ELSE Missing(line))
  BY DEF SnapshotsReconcile, Punctual
<1> DEFINE f == Plain(file)
<1>0. /\ Tallied(Drained, k, totals[k], AllDrained) /\ file \in Seq(FileLine) /\ f \in Seq(Line) /\ Len(f) = Len(file)
      /\ tells(k) \in [Line -> Nat] /\ covers(k) \in [Line -> Nat] /\ DOMAIN file = 1 .. Len(file) /\ Len(file) \in Nat
      /\ \A i \in 1 .. Len(file) : f[i].kind = file[i].kind /\ f[i].at = file[i].at
  <2>1. 0 \in Nat /\ file \in Seq(FileLine)
    BY PartsAreLines
  <2>2. DOMAIN file = 1 .. Len(file) /\ Len(file) \in Nat
    BY <2>1
  <2> QED BY <2>1, <2>2, WeightsOfLines, LinesOfFile, SMTT(30) DEF InOrder, SnapshotsInOrder
<1>1. /\ Len(Drained) \in Nat /\ Len(f) <= Len(Drained)
      /\ \A i \in 1 .. Len(f) : Drained[i] = f[i]
  <2> DEFINE r == hands["reporter"]
             m == hands["main"]
             fr == f \o r
  <2>1. r \in Seq(Line) /\ m \in Seq(Line) /\ Drained = fr \o m
    BY PartsAreLines DEF Drained
  <2> HIDE DEF f, r, m
  <2>2. fr \in Seq(Line) /\ Len(fr) = Len(f) + Len(r) /\ Len(f) \in Nat /\ Len(r) \in Nat /\ Len(m) \in Nat
        /\ \A i \in 1 .. Len(f) : fr[i] = f[i]
    BY <1>0, <2>1
  <2> HIDE DEF fr
  <2>3. Len(fr \o m) = Len(fr) + Len(m) /\ \A i \in 1 .. Len(fr) : (fr \o m)[i] = fr[i]
    <3>1. fr \in Seq(Line) /\ m \in Seq(Line)
      BY <2>1, <2>2
    <3> QED BY <3>1
  <2> QED BY <2>1, <2>2, <2>3
<1>2. \A i \in 0 .. Len(f) : /\ Weigh(tells(k), Drained, i) = Weigh(tells(k), f, i)
                            /\ Weigh(covers(k), Drained, i) = Weigh(covers(k), f, i)
  <2> SUFFICES ASSUME NEW i \in 0 .. Len(f)
               PROVE  /\ Weigh(tells(k), Drained, i) = Weigh(tells(k), f, i)
                      /\ Weigh(covers(k), Drained, i) = Weigh(covers(k), f, i)
    OBVIOUS
  <2>1. \A j \in 1 .. i : Drained[j] = f[j]
    BY <1>0, <1>1
  <2> QED BY <2>1, WeighPrefix
<1>3. \A i \in 0 .. Len(file) :
        /\ Upto(file, i, LAMBDA line : IF line.kind = k THEN 1 ELSE 0) = Weigh(tells(k), f, i)
        /\ Upto(file, i, LAMBDA line : IF line.kind = k THEN 1 ELSE Missing(line)) = Weigh(covers(k), f, i)
  BY <1>0, UptoInFile
<1> HIDE DEF f
<1>4. ASSUME NEW i \in 1 .. Len(file), file[i].kind = "snapshot"
      PROVE  Weigh(tells(k), f, i) <= file[i].at[k]
  <2>1. i \in 0 .. Len(f) /\ i \in 1 .. Len(Drained) /\ i \in 1 .. Len(f)
    BY <1>0, <1>1
  <2>2. Drained[i].kind = "snapshot" /\ Drained[i].at = file[i].at
    BY <1>0, <1>1, <1>4, <2>1
  <2> QED BY <1>0, <1>2, <2>1, <2>2 DEF Tallied
<1>5. ASSUME NEW i \in 1 .. Len(file), NEW j \in 1 .. Len(file), i < j,
             file[i].kind = "snapshot", file[j].kind = "snapshot"
      PROVE  file[i].at[k] <= Weigh(covers(k), f, j)
  <2>1. /\ i \in 1 .. Len(Drained) /\ i \in 1 .. Len(f)
        /\ j \in 0 .. Len(f) /\ j \in 1 .. Len(Drained) /\ j \in 1 .. Len(f)
    BY <1>0, <1>1
  <2>2. Drained[i].kind = "snapshot" /\ Drained[i].at = file[i].at /\ Drained[j].kind = "snapshot"
    BY <1>0, <1>1, <1>5, <2>1
  <2> QED BY <1>0, <1>2, <1>5, <2>1, <2>2 DEF Tallied
<1>6. \A i \in 1 .. Len(file) : i \in 0 .. Len(file)
  BY <1>0
<1> QED BY <1>0, <1>3, <1>4, <1>5, <1>6

(* While no write fails and stop() waits for the thread, the lines tell    *)
(* the events in the order they were recorded, an overflow row standing    *)
(* where the events it counts are missing, no number is skipped, and the   *)
(* sink closed by stop() lacks nothing.                                    *)
THEOREM StreamStaysWhole == MetricsSpec => []StreamIsWhole
<1>1. MetricsInit => Accounted /\ InOrder
  BY AccountedInit, InOrderInit
<1>2. StreamIsSound /\ StreamIsSound' /\ Accounted /\ InOrder /\ [MetricsNext]_vars => Accounted' /\ InOrder'
  BY AccountedStep, InOrderStep
<1>3. StreamIsSound /\ Accounted /\ InOrder => StreamIsWhole
  BY InOrderIsWhole
<1> QED BY <1>1, <1>2, <1>3, StreamStaysSound, PTL DEF MetricsSpec

(* Under the same conditions a snapshot in the file and the events around  *)
(* it agree: it counts all that the lines before it tell, and the lines    *)
(* before the next one tell, or count as missing, all that it counts.      *)
THEOREM SnapshotsStayReconciled == MetricsSpec => []SnapshotsReconcile
<1>1. MetricsInit => Accounted /\ InOrder
  BY AccountedInit, InOrderInit
<1>2. StreamIsSound /\ StreamIsSound' /\ Accounted /\ InOrder /\ [MetricsNext]_vars => Accounted' /\ InOrder'
  BY AccountedStep, InOrderStep
<1>3. StreamIsSound /\ Accounted /\ InOrder => SnapshotsReconcile
  BY InOrderReconciles
<1> QED BY <1>1, <1>2, <1>3, StreamStaysSound, PTL DEF MetricsSpec
=============================================================================
