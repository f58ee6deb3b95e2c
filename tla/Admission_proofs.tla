-------------------------- MODULE Admission_proofs --------------------------
(***************************************************************************)
(* The breaker, and admission around it, for every set of jobs, every      *)
(* registry, every cap and every setting of the breaker; and the two       *)
(* readings of a job's agent.                                              *)
(***************************************************************************)
EXTENDS Admission, InputsCheck, SequenceLemmas

----------------------------------------------------------------------------
(* The breaker.                                                            *)

(* What any step of a program with breakers does to them.                  *)
BreakerStep ==
  \/ Tick
  \/ \E t \in Tenants : Ask(t)
  \/ \E t \in Tenants, ok \in BOOLEAN : RecordOutcome(t, ok)
  \/ UNCHANGED breakerVars

Recorded(ok) == [at |-> now, ok |-> ok]

(* What is still in the window is the end of what there was, from the      *)
(* first outcome in the window on.                                         *)
LEMMA PruneIsSuffix ==
  ASSUME now \in Nat, NEW seq \in Seq(Outcome)
  PROVE  /\ Prune(seq) \in Seq(Outcome)
         /\ Len(Prune(seq)) <= Len(seq)
         /\ \A i \in 1 .. Len(Prune(seq)) : Prune(seq)[i] = seq[i + Len(seq) - Len(Prune(seq))]
         /\ Len(Prune(seq)) > 0 => Prune(seq)[1].at + Window >= now
<1> DEFINE fresh == {i \in DOMAIN seq : seq[i].at + Window >= now}
           n == Min(fresh \cup {Len(seq) + 1})
<1>1. /\ Len(seq) \in Nat /\ DOMAIN seq = 1 .. Len(seq)
      /\ \A i \in 1 .. Len(seq) : seq[i] \in Outcome
  OBVIOUS
<1>2. fresh \cup {Len(seq) + 1} \subseteq Nat /\ fresh \cup {Len(seq) + 1} # {}
  BY <1>1
<1>3. n \in fresh \cup {Len(seq) + 1}
  BY <1>2, MinOfNat
<1>4. n \in 1 .. Len(seq) + 1
  BY <1>1, <1>3
<1>5. Prune(seq) = SubSeq(seq, n, Len(seq))
  BY DEF Prune
<1> HIDE DEF n
<1>6. \A i \in n .. Len(seq) : seq[i] \in Outcome
  BY <1>1, <1>4
<1>7. /\ Prune(seq) \in Seq(Outcome)
      /\ Len(Prune(seq)) = Len(seq) - n + 1
      /\ \A i \in 1 .. Len(seq) - n + 1 : Prune(seq)[i] = seq[n + i - 1]
  BY <1>1, <1>4, <1>5, <1>6, SubSeqProperties
<1>8. Len(Prune(seq)) > 0 => n \in fresh
  BY <1>1, <1>3, <1>4, <1>7
<1> QED BY <1>1, <1>4, <1>7, <1>8

(* Every step of the breaker keeps its types.                              *)
LEMMA BreakerTypeStep ==
  ASSUME BreakerTypeOK, BreakerStep
  PROVE  BreakerTypeOK'
<1> USE DEF BreakerTypeOK
<1>1. CASE Tick
  BY <1>1 DEF Tick
<1>2. ASSUME NEW t \in Tenants, Ask(t) PROVE BreakerTypeOK'
  <2>1. notices' \in [Tenants -> Seq({"open", "closed"})]
    <3>1. Append(notices[t], "closed") \in Seq({"open", "closed"})
      BY AppendProperties
    <3> QED BY <1>2, <3>1 DEF Ask, Notify, breakerVars
  <2>2. openUntil' \in [Tenants -> SUBSET Nat]
    BY <1>2 DEF Ask, breakerVars
  <2> QED BY <1>2, <2>1, <2>2 DEF Ask, breakerVars
<1>3. ASSUME NEW t \in Tenants, NEW ok \in BOOLEAN, RecordOutcome(t, ok) PROVE BreakerTypeOK'
  <2> DEFINE window == Prune(Append(recent[t], Recorded(ok)))
  <2>1. Recorded(ok) \in Outcome
    BY DEF Recorded, Outcome
  <2>2. Append(recent[t], Recorded(ok)) \in Seq(Outcome)
    BY <2>1
  <2>3. window \in Seq(Outcome)
    BY <2>2, PruneIsSuffix
  <2>4. ended' \in [Tenants -> Seq(Outcome)]
    BY <1>3, <2>1 DEF RecordOutcome, Recorded
  <2>5. /\ recent' \in [Tenants -> Seq(Outcome)]
        /\ openUntil' \in [Tenants -> SUBSET Nat]
        /\ notices' \in [Tenants -> Seq({"open", "closed"})]
    <3> HIDE DEF window
    <3>1. CASE recent' = [recent EXCEPT ![t] = window] /\ UNCHANGED <<openUntil, notices>>
      BY <2>3, <3>1
    <3>2. CASE /\ recent' = [recent EXCEPT ![t] = <<>>]
               /\ openUntil' = [openUntil EXCEPT ![t] = {now + Cooldown}]
               /\ Notify(t, "open")
      <4>1. <<>> \in Seq(Outcome) /\ {now + Cooldown} \in SUBSET Nat
        BY BreakerConstants
      <4> QED BY <3>2, <4>1 DEF Notify
    <3> QED BY <1>3, <3>1, <3>2 DEF RecordOutcome, window, Recorded
  <2> QED BY <1>3, <2>4, <2>5 DEF RecordOutcome
<1>4. CASE UNCHANGED breakerVars
  BY <1>4 DEF breakerVars
<1> QED BY <1>1, <1>2, <1>3, <1>4 DEF BreakerStep

(* Initially the breaker has its types.                                    *)
LEMMA BreakerTypeInit == BreakerInit => BreakerTypeOK
BY DEF BreakerInit, BreakerTypeOK

(* NoticesAlternate is inductive: a breaker opens only where RecordOutcome *)
(* finds it closed, and closes only where Ask finds it open.               *)
LEMMA NoticesInit == BreakerInit => NoticesAlternate
BY DEF BreakerInit, NoticesAlternate, IsOpen

(* A step of the breaker tells at most one notice, the next in turn.       *)
LEMMA NoticesStep ==
  ASSUME BreakerTypeOK, NoticesAlternate, BreakerStep
  PROVE  NoticesAlternate'
<1> SUFFICES ASSUME NEW u \in Tenants
             PROVE  /\ \A i \in DOMAIN notices'[u] :
                         notices'[u][i] = (IF i % 2 = 1 THEN "open" ELSE "closed")
                    /\ openUntil'[u] # {} <=> Len(notices'[u]) % 2 = 1
  BY DEF NoticesAlternate, IsOpen
<1>1. /\ notices[u] \in Seq({"open", "closed"}) /\ notices \in [Tenants -> Seq({"open", "closed"})]
      /\ openUntil \in [Tenants -> SUBSET Nat]
      /\ \A i \in DOMAIN notices[u] : notices[u][i] = (IF i % 2 = 1 THEN "open" ELSE "closed")
      /\ openUntil[u] # {} <=> Len(notices[u]) % 2 = 1
  BY DEF BreakerTypeOK, NoticesAlternate, IsOpen
<1>2. CASE notices'[u] = notices[u] /\ openUntil'[u] = openUntil[u]
  BY <1>1, <1>2
<1>3. CASE /\ notices'[u] = Append(notices[u], "closed")
           /\ openUntil[u] # {} /\ openUntil'[u] = {}
  <2>1. /\ DOMAIN notices'[u] = 1 .. Len(notices[u]) + 1 /\ Len(notices'[u]) = Len(notices[u]) + 1
        /\ \A i \in 1 .. Len(notices[u]) : notices'[u][i] = notices[u][i]
        /\ notices'[u][Len(notices[u]) + 1] = "closed"
    BY <1>1, <1>3, AppendProperties
  <2>2. Len(notices[u]) % 2 = 1 /\ (Len(notices[u]) + 1) % 2 # 1
    <3>1. Len(notices[u]) \in Nat
      BY <1>1
    <3> QED BY <1>1, <1>3, <3>1, Parity
  <2> QED BY <1>1, <1>3, <2>1, <2>2
<1>4. CASE /\ notices'[u] = Append(notices[u], "open")
           /\ openUntil[u] = {} /\ openUntil'[u] # {}
  <2>1. /\ DOMAIN notices'[u] = 1 .. Len(notices[u]) + 1 /\ Len(notices'[u]) = Len(notices[u]) + 1
        /\ \A i \in 1 .. Len(notices[u]) : notices'[u][i] = notices[u][i]
        /\ notices'[u][Len(notices[u]) + 1] = "open"
    BY <1>1, <1>4, AppendProperties
  <2>2. (Len(notices[u]) + 1) % 2 = 1
    <3>1. Len(notices[u]) \in Nat
      BY <1>1
    <3> QED BY <1>1, <1>4, <3>1, Parity
  <2>3. ASSUME NEW i \in 1 .. Len(notices[u]) + 1
        PROVE  notices'[u][i] = (IF i % 2 = 1 THEN "open" ELSE "closed")
    <3>1. CASE i = Len(notices[u]) + 1
      BY <2>1, <2>2, <3>1
    <3>2. CASE i \in 1 .. Len(notices[u])
      BY <1>1, <2>1, <3>2
    <3> QED BY <1>1, <3>1, <3>2
  <2> QED BY <1>4, <2>1, <2>2, <2>3
<1>5. CASE Tick
  BY <1>2, <1>5 DEF Tick
<1>6. ASSUME NEW t \in Tenants, Ask(t) PROVE <1>2!1 \/ <1>3!1
  BY <1>1, <1>6 DEF Ask, Notify, IsOpen, breakerVars
<1>7. ASSUME NEW t \in Tenants, NEW ok \in BOOLEAN, RecordOutcome(t, ok) PROVE <1>2!1 \/ <1>4!1
  BY <1>1, <1>7 DEF RecordOutcome, Notify, IsOpen
<1>8. CASE UNCHANGED breakerVars
  BY <1>2, <1>8 DEF breakerVars
<1> QED BY <1>2, <1>3, <1>4, <1>5, <1>6, <1>7, <1>8 DEF BreakerStep

(* What is in a window is the last that ended, in the order of its times.  *)
WindowIsTheEnd ==
  \A t \in Tenants :
    /\ Len(recent[t]) <= Len(ended[t])
    /\ \A i \in 1 .. Len(recent[t]) : recent[t][i] = ended[t][i + Len(ended[t]) - Len(recent[t])]
    /\ \A i, k \in 1 .. Len(ended[t]) : i <= k => ended[t][i].at <= ended[t][k].at
    /\ \A i \in 1 .. Len(ended[t]) : ended[t][i].at <= now

(* Initially no outcome is in a window.                                    *)
LEMMA WindowInit == BreakerInit => WindowIsTheEnd
BY DEF BreakerInit, WindowIsTheEnd

(* Recording an outcome keeps the window the end of what has ended.        *)
LEMMA RecordedWindow ==
  ASSUME BreakerTypeOK, WindowIsTheEnd,
         NEW t \in Tenants, NEW ok \in BOOLEAN, RecordOutcome(t, ok)
  PROVE  LET window == Prune(Append(recent[t], Recorded(ok)))
         IN  /\ window \in Seq(Outcome)
             /\ ended' = [ended EXCEPT ![t] = Append(@, Recorded(ok))]
             /\ Len(window) <= Len(ended'[t])
             /\ \A i \in 1 .. Len(window) :
                  /\ window[i] = ended'[t][i + Len(ended'[t]) - Len(window)]
                  /\ window[i].at + Window >= now
             /\ \A i, k \in 1 .. Len(ended'[t]) : i <= k => ended'[t][i].at <= ended'[t][k].at
             /\ \A i \in 1 .. Len(ended'[t]) : ended'[t][i].at <= now
<1> DEFINE e == ended[t]  r == recent[t]  o == Recorded(ok)
           s == Append(r, o)  window == Prune(s)  e2 == Append(e, o)
<1>1. /\ e \in Seq(Outcome) /\ r \in Seq(Outcome) /\ o \in Outcome /\ now \in Nat
      /\ o.at = now
  BY DEF BreakerTypeOK, Recorded, Outcome
<1>2. ended' = [ended EXCEPT ![t] = e2] /\ ended'[t] = e2
  BY DEF RecordOutcome, Recorded, BreakerTypeOK
<1>3. /\ Len(r) <= Len(e)
      /\ \A i \in 1 .. Len(r) : r[i] = e[i + Len(e) - Len(r)]
      /\ \A i, k \in 1 .. Len(e) : i <= k => e[i].at <= e[k].at
      /\ \A i \in 1 .. Len(e) : e[i].at <= now
  BY DEF WindowIsTheEnd
<1> HIDE DEF e, r, o
<1>4. /\ e2 \in Seq(Outcome) /\ Len(e2) = Len(e) + 1 /\ e2[Len(e) + 1] = o
      /\ \A i \in 1 .. Len(e) : e2[i] = e[i]
  BY <1>1, AppendProperties
<1>5. /\ s \in Seq(Outcome) /\ Len(s) = Len(r) + 1 /\ s[Len(r) + 1] = o
      /\ \A i \in 1 .. Len(r) : s[i] = r[i]
  BY <1>1, AppendProperties
<1> HIDE DEF s, e2
<1>6. /\ window \in Seq(Outcome) /\ Len(window) <= Len(s)
      /\ \A i \in 1 .. Len(window) : window[i] = s[i + Len(s) - Len(window)]
      /\ Len(window) > 0 => window[1].at + Window >= now
  BY <1>1, <1>5, PruneIsSuffix
<1> HIDE DEF window
<1>7. Len(e) \in Nat /\ Len(r) \in Nat /\ Len(window) \in Nat
  BY <1>1, <1>6
<1>8. \A i \in 1 .. Len(s) : s[i] = e2[i + Len(e2) - Len(s)]
  <2> SUFFICES ASSUME NEW i \in 1 .. Len(s) PROVE s[i] = e2[i + Len(e2) - Len(s)]
    OBVIOUS
  <2>1. CASE i = Len(r) + 1
    BY <1>4, <1>5, <1>7, <2>1
  <2>2. CASE i \in 1 .. Len(r)
    BY <1>3, <1>4, <1>5, <1>7, <2>2, SMTT(30)
  <2> QED BY <1>5, <1>7, <2>1, <2>2
<1>9. \A i \in 1 .. Len(window) : window[i] = e2[i + Len(e2) - Len(window)]
  <2> SUFFICES ASSUME NEW i \in 1 .. Len(window)
               PROVE  window[i] = e2[i + Len(e2) - Len(window)]
    OBVIOUS
  <2> DEFINE j == i + Len(s) - Len(window)
  <2>1. j \in 1 .. Len(s) /\ j + Len(e2) - Len(s) = i + Len(e2) - Len(window)
    BY <1>4, <1>5, <1>6, <1>7
  <2>2. window[i] = s[j]
    BY <1>6
  <2> HIDE DEF j
  <2> QED BY <1>8, <2>1, <2>2
<1>10. /\ \A i, k \in 1 .. Len(e2) : i <= k => e2[i].at <= e2[k].at
       /\ \A i \in 1 .. Len(e2) : e2[i].at <= now
  <2>1. \A i \in 1 .. Len(e2) : i \in 1 .. Len(e) \/ i = Len(e) + 1
    BY <1>4, <1>7
  <2>2. ASSUME NEW i \in 1 .. Len(e2) PROVE e2[i].at <= now
    <3>1. CASE i \in 1 .. Len(e)
      BY <1>3, <1>4, <3>1
    <3>2. CASE i = Len(e) + 1
      BY <1>1, <1>4, <3>2
    <3> QED BY <2>1, <3>1, <3>2
  <2> QED BY <1>1, <1>3, <1>4, <1>7, <2>1, <2>2, SMTT(30)
<1>11. \A i \in 1 .. Len(window) : window[i].at + Window >= now
  <2> SUFFICES ASSUME NEW i \in 1 .. Len(window) PROVE window[i].at + Window >= now
    OBVIOUS
  <2>1. window[1].at <= window[i].at
    <3>1. 1 \in 1 .. Len(window) /\ Len(window) <= Len(e2)
      BY <1>3, <1>4, <1>5, <1>6, <1>7
    <3> DEFINE at1 == 1 + Len(e2) - Len(window)  at2 == i + Len(e2) - Len(window)
    <3>2. at1 \in 1 .. Len(e2) /\ at2 \in 1 .. Len(e2) /\ at1 <= at2
      BY <1>4, <1>7, <3>1
    <3>3. window[1] = e2[at1] /\ window[i] = e2[at2]
      BY <1>9, <3>1
    <3> HIDE DEF at1, at2
    <3> QED BY <1>10, <3>2, <3>3
  <2>2. window[1].at \in Nat /\ window[i].at \in Nat
    <3>1. window[1] \in Outcome /\ window[i] \in Outcome
      BY <1>6, <1>7, ElementOfSeq
    <3> QED BY <3>1 DEF Outcome
  <2> QED BY <1>1, <1>6, <1>7, <2>1, <2>2, BreakerConstants, SMTT(30)
<1>12. Len(window) <= Len(e2)
  BY <1>3, <1>4, <1>5, <1>6, <1>7
<1> QED BY <1>2, <1>6, <1>9, <1>10, <1>11, <1>12 DEF window, s, r, o, e2, e

(* Every step of the breaker does.                                         *)
LEMMA WindowStep ==
  ASSUME BreakerTypeOK, WindowIsTheEnd, BreakerStep
  PROVE  WindowIsTheEnd'
<1>1. CASE Tick
  <2>1. \A t \in Tenants : \A i \in 1 .. Len(ended[t]) : ended[t][i].at \in Nat
    <3> SUFFICES ASSUME NEW t \in Tenants, NEW i \in 1 .. Len(ended[t])
                 PROVE  ended[t][i].at \in Nat
      OBVIOUS
    <3>1. ended[t] \in Seq(Outcome)
      BY DEF BreakerTypeOK
    <3>2. ended[t][i] \in Outcome
      BY <3>1, ElementOfSeq
    <3> QED BY <3>2 DEF Outcome
  <2>2. now \in Nat /\ now' = now + 1 /\ UNCHANGED <<recent, ended>>
    BY <1>1 DEF Tick, BreakerTypeOK
  <2>3. \A t \in Tenants : \A i \in 1 .. Len(ended[t]) : ended[t][i].at <= now'
    <3> SUFFICES ASSUME NEW t \in Tenants, NEW i \in 1 .. Len(ended[t])
                 PROVE  ended[t][i].at <= now'
      OBVIOUS
    <3>1. ended[t][i].at <= now /\ ended[t][i].at \in Nat
      BY <2>1 DEF WindowIsTheEnd
    <3> QED BY <2>2, <3>1
  <2> QED BY <2>2, <2>3 DEF WindowIsTheEnd
<1>2. ASSUME NEW t \in Tenants, Ask(t) PROVE WindowIsTheEnd'
  BY <1>2 DEF Ask, WindowIsTheEnd, breakerVars
<1>3. ASSUME NEW t \in Tenants, NEW ok \in BOOLEAN, RecordOutcome(t, ok) PROVE WindowIsTheEnd'
  <2> DEFINE window == Prune(Append(recent[t], Recorded(ok)))
             Ends(r, e) ==
               /\ Len(r) <= Len(e)
               /\ \A i \in 1 .. Len(r) : r[i] = e[i + Len(e) - Len(r)]
               /\ \A i, k \in 1 .. Len(e) : i <= k => e[i].at <= e[k].at
               /\ \A i \in 1 .. Len(e) : e[i].at <= now
  <2>1. /\ ended' = [ended EXCEPT ![t] = Append(@, Recorded(ok))]
        /\ Ends(window, ended'[t])
    BY <1>3, RecordedWindow
  <2>2. recent' = [recent EXCEPT ![t] = window] \/ recent' = [recent EXCEPT ![t] = <<>>]
    BY <1>3 DEF RecordOutcome, Recorded
  <2>3. Ends(<<>>, ended'[t])
    <3>1. ended'[t] \in Seq(Outcome)
      BY <1>3, BreakerTypeStep DEF BreakerTypeOK, BreakerStep
    <3>2. Len(<<>>) <= Len(ended'[t]) /\ Len(<<>>) = 0
      BY <3>1
    <3> QED BY <2>1, <3>2
  <2>4. recent \in [Tenants -> Seq(Outcome)] /\ ended \in [Tenants -> Seq(Outcome)] /\ now' = now
    BY <1>3 DEF BreakerTypeOK, RecordOutcome
  <2>5. \A u \in Tenants \ {t} : recent'[u] = recent[u] /\ ended'[u] = ended[u] /\ Ends(recent[u], ended[u])
    BY <2>1, <2>2, <2>4 DEF WindowIsTheEnd
  <2> HIDE DEF Ends, window
  <2>6. Ends(recent'[t], ended'[t])
    <3>1. recent'[t] = window \/ recent'[t] = <<>>
      BY <2>2, <2>4
    <3> QED BY <2>1, <2>3, <3>1
  <2>7. \A u \in Tenants : Ends(recent'[u], ended'[u])
    <3>1. SUFFICES ASSUME NEW u \in Tenants \ {t} PROVE Ends(recent'[u], ended'[u])
      BY <2>6
    <3>2. recent'[u] = recent[u] /\ ended'[u] = ended[u]
      BY <2>5
    <3> QED BY <2>5, <3>2
  <2> QED BY <2>4, <2>7 DEF WindowIsTheEnd, Ends
<1>4. CASE UNCHANGED breakerVars
  BY <1>4 DEF breakerVars, WindowIsTheEnd
<1> QED BY <1>1, <1>2, <1>3, <1>4 DEF BreakerStep

(* The failures of a sequence of outcomes that fall in a window.           *)
Within(e, from, to) ==
  {i \in DOMAIN e : ~e[i].ok /\ from <= e[i].at + Window /\ e[i].at <= to}

(* The failures in a stretch of time are places of one finite sequence.    *)
LEMMA FailuresAreFinite ==
  ASSUME NEW e \in Seq(Outcome), NEW from, NEW to
  PROVE  IsFiniteSet(Within(e, from, to)) /\ Cardinality(Within(e, from, to)) \in Nat
<1>1. DOMAIN e = 1 .. Len(e) /\ Len(e) \in Nat
  OBVIOUS
<1>2. IsFiniteSet(1 .. Len(e))
  BY <1>1, FS_Interval
<1>3. Within(e, from, to) \subseteq 1 .. Len(e)
  BY <1>1 DEF Within
<1> QED BY <1>2, <1>3, FS_Subset, FS_CardinalityType

(* What ends later takes no failure out of a stretch that is over.         *)
LEMMA FailuresStay ==
  ASSUME NEW e \in Seq(Outcome), NEW o \in Outcome, NEW from, NEW to
  PROVE  Cardinality(Within(e, from, to)) <= Cardinality(Within(Append(e, o), from, to))
<1>1. Append(e, o) \in Seq(Outcome)
  OBVIOUS
<1>2. Within(e, from, to) \subseteq Within(Append(e, o), from, to)
  BY DEF Within
<1> QED BY <1>1, <1>2, FailuresAreFinite, FS_Subset

(* The comparison of the failure rate survives more failures and fewer     *)
(* samples.                                                                *)
LEMMA ProductsCompare ==
  ASSUME NEW c \in Nat, NEW e \in Nat, NEW d \in Nat, NEW n \in Nat, NEW m \in Nat, NEW l \in Nat,
         c <= e, m <= l, c * d > n * l
  PROVE  e * d > n * m
<1>1. c * d <= e * d /\ n * m <= n * l
  OBVIOUS
<1>2. c * d \in Nat /\ e * d \in Nat /\ n * m \in Nat /\ n * l \in Nat
  OBVIOUS
<1> QED BY <1>1, <1>2

(* A window that trips holds enough failures, and they all ended within    *)
(* one window before now.                                                  *)
LEMMA TrippingIsEarned ==
  ASSUME BreakerTypeOK, WindowIsTheEnd,
         NEW t \in Tenants, NEW ok \in BOOLEAN, RecordOutcome(t, ok),
         Trips(Prune(Append(recent[t], Recorded(ok))))
  PROVE  Cardinality(Within(ended'[t], now, now)) * RatioDen > RatioNum * MinSamples
<1> DEFINE window == Prune(Append(recent[t], Recorded(ok)))
           off == Len(ended'[t]) - Len(window)
           lost == {i \in DOMAIN window : ~window[i].ok}
           f == [i \in lost |-> i + off]
<1>1. /\ window \in Seq(Outcome)
      /\ Len(window) <= Len(ended'[t])
      /\ \A i \in 1 .. Len(window) :
           window[i] = ended'[t][i + Len(ended'[t]) - Len(window)] /\ window[i].at + Window >= now
      /\ \A i \in 1 .. Len(ended'[t]) : ended'[t][i].at <= now
  BY RecordedWindow
<1>2. ended'[t] \in Seq(Outcome)
  BY BreakerTypeStep DEF BreakerTypeOK, BreakerStep
<1>3. Len(window) >= MinSamples /\ Cardinality(lost) * RatioDen > RatioNum * Len(window)
  BY DEF Trips, Failed
<1> HIDE DEF window
<1>4. /\ off \in Nat /\ Len(window) \in Nat /\ Len(ended'[t]) \in Nat
      /\ DOMAIN window = 1 .. Len(window) /\ DOMAIN ended'[t] = 1 .. Len(ended'[t])
  BY <1>1, <1>2
<1>5. ASSUME NEW i \in lost PROVE i + off \in Within(ended'[t], now, now)
  <2>1. i \in 1 .. Len(window) /\ i + off \in 1 .. Len(ended'[t])
    BY <1>4
  <2>2. window[i] = ended'[t][i + off] /\ window[i].at + Window >= now
    BY <1>1, <1>4, <2>1
  <2>3. window[i] \in Outcome
    BY <1>1, <2>1, ElementOfSeq
  <2>4. ended'[t][i + off].at <= now
    BY <1>1, <2>1
  <2>5. now \in Nat /\ window[i].at \in Nat
    BY <2>3 DEF Outcome, BreakerTypeOK
  <2>6. now <= ended'[t][i + off].at + Window
    BY <2>2, <2>5, BreakerConstants
  <2> QED BY <1>4, <2>1, <2>2, <2>4, <2>6 DEF Within
<1>6. f \in Injection(lost, Within(ended'[t], now, now))
  <2>1. f \in [lost -> Within(ended'[t], now, now)]
    BY <1>5
  <2>2. \A i, k \in lost : f[i] = f[k] => i = k
    BY <1>4
  <2> QED BY <2>1, <2>2 DEF Injection, IsInjective
<1>7. /\ Cardinality(lost) <= Cardinality(Within(ended'[t], now, now))
      /\ Cardinality(lost) \in Nat
  BY <1>2, <1>6, FailuresAreFinite, FS_Injection, FS_CardinalityType
<1>8. Cardinality(Within(ended'[t], now, now)) \in Nat
  BY <1>2, FailuresAreFinite
<1> QED BY <1>3, <1>4, <1>7, <1>8, ProductsCompare, BreakerConstants

(* Initially no breaker has opened.                                        *)
LEMMA EarnedInit == BreakerInit => LockoutIsEarned
BY DEF BreakerInit, LockoutIsEarned

(* A breaker opens only for failures that are in its window, and they      *)
(* stay told.                                                              *)
LEMMA EarnedStep ==
  ASSUME BreakerTypeOK, WindowIsTheEnd, LockoutIsEarned, BreakerStep
  PROVE  LockoutIsEarned'
<1> DEFINE Enough(e, opened) ==
             Cardinality(Within(e, opened, opened)) * RatioDen > RatioNum * MinSamples
<1>1. SUFFICES ASSUME NEW u \in Tenants, NEW until \in openUntil'[u]
               PROVE  \E opened \in 0 .. now' : until = opened + Cooldown /\ Enough(ended'[u], opened)
  BY DEF LockoutIsEarned, FailuresIn, Within
<1>2. /\ now \in Nat /\ now' \in {now, now + 1}
      /\ ended'[u] = ended[u] \/ \E o \in Outcome : ended'[u] = Append(ended[u], o)
  BY DEF BreakerStep, BreakerTypeOK, Tick, Ask, RecordOutcome, breakerVars, Outcome
<1>3. CASE until \in openUntil[u]
  <2>1. PICK opened \in 0 .. now : until = opened + Cooldown /\ Enough(ended[u], opened)
    BY <1>3 DEF LockoutIsEarned, FailuresIn, Within
  <2>2. opened \in 0 .. now'
    BY <1>2
  <2>3. Enough(ended'[u], opened)
    <3>1. CASE ended'[u] = ended[u]
      BY <2>1, <3>1
    <3>2. ASSUME NEW o \in Outcome, ended'[u] = Append(ended[u], o) PROVE Enough(ended'[u], opened)
      <4>1. ended[u] \in Seq(Outcome) /\ ended'[u] \in Seq(Outcome)
        BY <3>2 DEF BreakerTypeOK
      <4>2. Cardinality(Within(ended[u], opened, opened)) <= Cardinality(Within(ended'[u], opened, opened))
        BY <3>2, <4>1, FailuresStay
      <4>3. /\ Cardinality(Within(ended[u], opened, opened)) \in Nat
            /\ Cardinality(Within(ended'[u], opened, opened)) \in Nat
        BY <4>1, FailuresAreFinite
      <4> QED BY <2>1, <4>2, <4>3, ProductsCompare, BreakerConstants
    <3> QED BY <1>2, <3>1, <3>2
  <2> QED BY <2>1, <2>2, <2>3
<1>4. CASE until \notin openUntil[u]
  <2>1. PICK ok \in BOOLEAN : RecordOutcome(u, ok)
    BY <1>1, <1>4 DEF BreakerStep, BreakerTypeOK, Tick, Ask, RecordOutcome, breakerVars
  <2>2. /\ until = now + Cooldown /\ now' = now
        /\ Trips(Prune(Append(recent[u], Recorded(ok))))
    BY <1>1, <1>4, <2>1 DEF RecordOutcome, Recorded, BreakerTypeOK
  <2>3. Enough(ended'[u], now)
    BY <2>1, <2>2, TrippingIsEarned
  <2>4. now \in 0 .. now'
    BY <1>2, <2>2
  <2> QED BY <2>2, <2>3, <2>4
<1> QED BY <1>3, <1>4

----------------------------------------------------------------------------
(* Admission.                                                              *)

(* A session's agent is registered and its tenant is one the breaker and   *)
(* the gauges know, unless building the session raises.                    *)
LEMMA PrefixedIsRegistered ==
  ASSUME NEW o \in JobShapes
  PROVE  PrefixedBy(Registry, o) \in ToSet(Registry) \cup {NoName}
<1> DEFINE hits == {i \in DOMAIN Registry : Registry[i] \in o.prefixes}
<1>1. hits \subseteq Nat
  BY AdmissionConstants
<1>2. hits # {} => Min(hits) \in hits
  BY <1>1, MinOfNat
<1> QED BY <1>2 DEF PrefixedBy, ToSet

(* What a resolver answers is registered, or an error.                     *)
LEMMA AgentIsRegistered ==
  ASSUME NEW o \in JobShapes
  PROVE  ResolveAgent(Registry, o) \in Names \cup {Error}
<1>1. ToSet(Registry) \subseteq Names
  BY AdmissionConstants DEF ToSet
<1>2. Registry # <<>> => Registry[1] \in Names
  BY AdmissionConstants
<1>3. PrefixedBy(Registry, o) # NoName => PrefixedBy(Registry, o) \in Names
  BY <1>1, PrefixedIsRegistered
<1>4. o.router \in Names \cup {"defer", "raises"}
  BY DEF JobShapes
<1> QED BY <1>1, <1>2, <1>3, <1>4 DEF ResolveAgent

(* What a tenant is read as is a tenant of the instance.                   *)
LEMMA TenantIsKnown ==
  ASSUME NEW o \in JobShapes
  PROVE  SessionTenant(o) \in Tenants \cup {Error}
<1>1. TenantKey(o) \in TenantKeys
  BY DEF TenantKey, JobShapes, Metadata
<1>2. CASE TenantKey(o) \in {<<"missing">>, <<"empty">>, <<"malformed">>}
  BY <1>2, AdmissionConstants DEF SessionTenant
<1>3. CASE TenantKey(o) \in {"exact", "padded"} \X TenantIds
  <2>1. TenantKey(o)[2] \in Tenants
    BY <1>3, AdmissionConstants
  <2>2. SessionTenant(o) \in {DefaultTenant, Error, TenantKey(o)[2]}
    BY <1>3 DEF SessionTenant
  <2> QED BY <2>1, <2>2, AdmissionConstants
<1> QED BY <1>1, <1>2, <1>3 DEF TenantKeys

(* A session is counted under keys the gauges have.                        *)
LEMMA StartableIsKnown ==
  ASSUME AdmissionTypeOK, NEW j \in Jobs
  PROVE  /\ shape[j] \in JobShapes /\ shape[j] \in Offers
         /\ Startable(j) => Agent(j) \in Names /\ Tenant(j) \in Tenants
<1>1. shape[j] \in JobShapes /\ shape[j] \in Offers
  BY AdmissionConstants DEF AdmissionTypeOK
<1> QED BY <1>1, AgentIsRegistered, TenantIsKnown DEF Startable, Agent, Tenant

Stages == {"offered", "locked_out", "rejected", "screened", "accepted",
           "running", "ending", "failing", "closed"}

(* Only a session that could be built runs.                                *)
RunningIsStartable == \A j \in Jobs : stage[j] = "running" => Startable(j)

(* A step of admission is, for the breakers, one of theirs.                *)
LEMMA AdmissionStepsBreaker ==
  ASSUME AdmissionTypeOK, RunningIsStartable, [AdmissionNext]_vars
  PROVE  BreakerStep
<1>1. CASE ClockTicks
  BY <1>1 DEF ClockTicks, BreakerStep
<1>2. ASSUME NEW j \in Jobs, Screen(j) PROVE BreakerStep
  BY <1>2 DEF Screen, BreakerStep
<1>3. ASSUME NEW j \in Jobs, BaseDecides(j) \/ StartSession(j) \/ RefuseSession(j) \/ Reap(j)
      PROVE  BreakerStep
  BY <1>3 DEF BaseDecides, StartSession, RefuseSession, Reap, BreakerStep
<1>4. ASSUME NEW j \in Jobs, NEW ok \in BOOLEAN, EndSession(j, ok) PROVE BreakerStep
  <2>1. Tenant(j) \in Tenants /\ RecordOutcome(Tenant(j), ok)
    BY <1>4, StartableIsKnown DEF EndSession, RunningIsStartable
  <2> QED BY <2>1 DEF BreakerStep
<1>5. CASE UNCHANGED vars
  BY <1>5 DEF vars, BreakerStep
<1> QED BY <1>1, <1>2, <1>3, <1>4, <1>5 DEF AdmissionNext, Job

(* Type correctness, with what it rests on: a job is underway only after   *)
(* it was screened, so there are finitely many, and only a session that    *)
(* could be built runs.                                                    *)
AdmissionIsSound == AdmissionTypeOK /\ RunningIsStartable /\ IsFiniteSet(Underway)

(* Initially the worker is sound.                                          *)
LEMMA SoundInit == AdmissionInit => AdmissionIsSound
<1> SUFFICES ASSUME AdmissionInit PROVE AdmissionIsSound
  OBVIOUS
<1>1. AdmissionTypeOK
  BY BreakerTypeInit DEF AdmissionInit, AdmissionTypeOK
<1>2. Underway = {}
  BY DEF AdmissionInit, Underway
<1>3. RunningIsStartable
  BY DEF AdmissionInit, RunningIsStartable
<1> QED BY <1>1, <1>2, <1>3, FS_EmptySet DEF AdmissionIsSound

(* Every step of it keeps it sound.                                        *)
LEMMA SoundStep ==
  ASSUME AdmissionIsSound, [AdmissionNext]_vars
  PROVE  AdmissionIsSound'
<1> USE DEF AdmissionIsSound
<1>1. BreakerTypeOK'
  BY AdmissionStepsBreaker, BreakerTypeStep DEF AdmissionTypeOK
<1>2. shape' = shape
  BY DEF AdmissionNext, ClockTicks, Job, Screen, BaseDecides, StartSession, RefuseSession,
         EndSession, Reap, vars
<1>3. \A j \in Jobs : Startable(j)' = Startable(j)
  BY <1>2 DEF Startable, Agent, Tenant
<1> USE DEF Stages
<1>4. CASE ClockTicks \/ UNCHANGED vars
  <2>1. UNCHANGED <<shape, stage, byAgent, byTenant, worker, blamed, burst>>
    BY <1>4 DEF ClockTicks, vars
  <2> QED BY <1>1, <1>3, <2>1 DEF AdmissionTypeOK, RunningIsStartable, Underway, worker
<1>5. ASSUME NEW j \in Jobs, Screen(j) PROVE AdmissionIsSound'
  <2>1. \E next \in {"locked_out", "rejected", "screened"} : Becomes(j, next)
    BY <1>5 DEF Screen
  <2>2. stage' \in [Jobs -> Stages] /\ RunningIsStartable'
    BY <1>3, <2>1 DEF AdmissionTypeOK, RunningIsStartable, Becomes
  <2>3. Underway' \subseteq Underway \cup {j}
    BY <2>1 DEF Becomes, Underway, AdmissionTypeOK
  <2>4. IsFiniteSet(Underway')
    BY <2>3, FS_AddElement, FS_Subset
  <2>5. burst' \in [agent : [Names -> Nat], tenant : [Tenants -> Nat]]
    <3>1. CASE burst' = burst
      BY <3>1 DEF AdmissionTypeOK
    <3>2. ASSUME NEW a \in Names, NEW t \in Tenants, NEW x \in Nat, NEW y \in Nat,
                 burst' = [burst EXCEPT !.agent[a] = x, !.tenant[t] = y]
          PROVE  burst' \in [agent : [Names -> Nat], tenant : [Tenants -> Nat]]
      BY <3>2 DEF AdmissionTypeOK
    <3> DEFINE AlikeAgent == {k \in Underway : Agent(k) = Agent(j)} \cup {j}
               AlikeTenant == {k \in Underway : Tenant(k) = Tenant(j)} \cup {j}
               x == Max({burst.agent[Agent(j)], Cardinality(AlikeAgent)})
               y == Max({burst.tenant[Tenant(j)], Cardinality(AlikeTenant)})
    <3>3. CASE /\ Startable(j)
               /\ burst' = [burst EXCEPT !.agent[Agent(j)] = x, !.tenant[Tenant(j)] = y]
      <4>1. Cardinality(AlikeAgent) \in Nat /\ Cardinality(AlikeTenant) \in Nat
        BY FS_AddElement, FS_Subset, FS_CardinalityType
      <4>2. Agent(j) \in Names /\ Tenant(j) \in Tenants
        BY <3>3, StartableIsKnown
      <4>3. burst.agent[Agent(j)] \in Nat /\ burst.tenant[Tenant(j)] \in Nat
        BY <4>2 DEF AdmissionTypeOK
      <4>4. x \in Nat /\ y \in Nat
        BY <4>1, <4>3, MaxOfPair
      <4> QED BY <3>2, <3>3, <4>2, <4>4
    <3>4. burst' = burst \/ <3>3!1
      BY <1>5 DEF Screen
    <3> QED BY <3>1, <3>3, <3>4
  <2> QED BY <1>1, <1>2, <1>5, <2>2, <2>4, <2>5 DEF AdmissionTypeOK, Screen, worker
<1>6. ASSUME NEW j \in Jobs, BaseDecides(j) PROVE AdmissionIsSound'
  <2>1. stage' \in [Jobs -> Stages] /\ RunningIsStartable' /\ Underway' \subseteq Underway
    BY <1>3, <1>6 DEF BaseDecides, Becomes, AdmissionTypeOK, RunningIsStartable, Underway
  <2> QED BY <1>1, <1>2, <1>6, <2>1, FS_Subset DEF BaseDecides, AdmissionTypeOK, worker
<1>7. ASSUME NEW j \in Jobs, StartSession(j) PROVE AdmissionIsSound'
  <2>1. stage' \in [Jobs -> Stages] /\ RunningIsStartable' /\ Underway' \subseteq Underway
    BY <1>3, <1>7 DEF StartSession, Becomes, AdmissionTypeOK, RunningIsStartable, Underway
  <2>2. Agent(j) \in Names /\ Tenant(j) \in Tenants
    BY <1>7, StartableIsKnown DEF StartSession
  <2>3. byAgent' \in [Names -> Nat] /\ byTenant' \in [Tenants -> Nat]
    BY <1>7, <2>2 DEF StartSession, AdmissionTypeOK
  <2> QED BY <1>1, <1>2, <1>7, <2>1, <2>3, FS_Subset DEF StartSession, AdmissionTypeOK, worker
<1>8. ASSUME NEW j \in Jobs, RefuseSession(j) PROVE AdmissionIsSound'
  <2>1. stage' \in [Jobs -> Stages] /\ RunningIsStartable' /\ Underway' \subseteq Underway
    BY <1>3, <1>8 DEF RefuseSession, Becomes, AdmissionTypeOK, RunningIsStartable, Underway
  <2> QED BY <1>1, <1>2, <1>8, <2>1, FS_Subset DEF RefuseSession, AdmissionTypeOK, worker
<1>9. ASSUME NEW j \in Jobs, NEW ok \in BOOLEAN, EndSession(j, ok) PROVE AdmissionIsSound'
  <2>1. stage' \in [Jobs -> Stages] /\ RunningIsStartable' /\ Underway' \subseteq Underway
    BY <1>3, <1>9 DEF EndSession, Becomes, AdmissionTypeOK, RunningIsStartable, Underway
  <2>2. Agent(j) \in Names /\ Tenant(j) \in Tenants
    BY <1>9, StartableIsKnown DEF EndSession, RunningIsStartable
  <2>3. \A n \in Nat : Max({0, n - 1}) \in Nat
    BY MaxOfPair
  <2>4. byAgent' \in [Names -> Nat] /\ byTenant' \in [Tenants -> Nat]
    BY <1>9, <2>2, <2>3 DEF EndSession, Decremented, AdmissionTypeOK
  <2> QED BY <1>1, <1>2, <1>9, <2>1, <2>4, FS_Subset DEF EndSession, AdmissionTypeOK, worker
<1>10. ASSUME NEW j \in Jobs, Reap(j) PROVE AdmissionIsSound'
  <2>1. stage' \in [Jobs -> Stages] /\ RunningIsStartable' /\ Underway' \subseteq Underway
    BY <1>3, <1>10 DEF Reap, Becomes, AdmissionTypeOK, RunningIsStartable, Underway
  <2>2. failures' \in Nat /\ failed' \subseteq Jobs
    BY <1>10 DEF Reap, AdmissionTypeOK
  <2>3. tripped' \in BOOLEAN
    <3>1. CASE stage[j] = "ending"
      BY <1>10, <3>1 DEF Reap
    <3>2. CASE stage[j] # "ending"
      <4>1. tripped' = (tripped \/ failures' >= FailureLimit)
        BY <1>10, <3>2 DEF Reap
      <4> QED BY <4>1, Zenon
    <3> QED BY <3>1, <3>2
  <2> QED BY <1>1, <1>2, <1>10, <2>1, <2>2, <2>3, FS_Subset DEF Reap, AdmissionTypeOK
<1> QED BY <1>4, <1>5, <1>6, <1>7, <1>8, <1>9, <1>10 DEF AdmissionNext, Job

(* AdmissionTypeOK is an invariant: the gauges never leave the naturals,    *)
(* and no key is counted that they do not have.                            *)
THEOREM AdmissionTypeCorrect == AdmissionSpec => []AdmissionTypeOK
<1>1. AdmissionInit => AdmissionIsSound
  BY SoundInit
<1>2. AdmissionIsSound /\ [AdmissionNext]_vars => AdmissionIsSound'
  BY SoundStep
<1>3. AdmissionIsSound => AdmissionTypeOK
  BY DEF AdmissionIsSound
<1> QED BY <1>1, <1>2, <1>3, PTL DEF AdmissionSpec

(* No step leaves the types, and the gauges count exactly the sessions     *)
(* that run.                                                               *)
THEOREM AdmissionStaysSound == AdmissionSpec => []AdmissionIsSound
<1>1. AdmissionInit => AdmissionIsSound
  BY SoundInit
<1>2. AdmissionIsSound /\ [AdmissionNext]_vars => AdmissionIsSound'
  BY SoundStep
<1> QED BY <1>1, <1>2, PTL DEF AdmissionSpec

(* What on_state_change hears is "open" and "closed" in turn, ending with  *)
(* what the breaker is, whatever jobs and outcomes arrive in between.      *)
THEOREM NoticesInTurn == AdmissionSpec => []NoticesAlternate
<1>1. AdmissionInit => NoticesAlternate
  BY NoticesInit DEF AdmissionInit
<1>2. AdmissionIsSound /\ NoticesAlternate /\ [AdmissionNext]_vars => NoticesAlternate'
  BY AdmissionStepsBreaker, NoticesStep DEF AdmissionIsSound, AdmissionTypeOK
<1> QED BY <1>1, <1>2, AdmissionStaysSound, PTL DEF AdmissionSpec

(* A breaker is open only for enough failures of its tenant, which ended   *)
(* within one window before it opened.                                     *)
THEOREM LockoutsAreEarned == AdmissionSpec => []LockoutIsEarned
<1> DEFINE Inv == WindowIsTheEnd /\ LockoutIsEarned
<1>1. AdmissionInit => Inv
  BY WindowInit, EarnedInit DEF AdmissionInit
<1>2. AdmissionIsSound /\ Inv /\ [AdmissionNext]_vars => Inv'
  BY AdmissionStepsBreaker, WindowStep, EarnedStep DEF AdmissionIsSound, AdmissionTypeOK
<1> QED BY <1>1, <1>2, AdmissionStaysSound, PTL DEF AdmissionSpec

----------------------------------------------------------------------------
(* The caps.                                                               *)

(* The filter and the resolver read a job's agent alike when no custom     *)
(* router picks one, and its tenant when no id has blanks around it.       *)
NoRouter == \A o \in Offers : o.router \notin Names
NoPadding == \A o \in Offers : TenantKey(o)[1] # "padded"

(* The routing asked twice: for any registry and any job, where no custom  *)
(* router decides and the resolver finds an agent, the per-agent filter    *)
(* names that agent.                                                       *)
LEMMA OneReadingOfTheAgent ==
  ASSUME NEW agents \in Seq(Names), NEW job \in JobShapes,
         job.router = "defer", ResolveAgent(agents, job) # Error
  PROVE  RequestAgent(agents, job) = ResolveAgent(agents, job)
<1>1. ToSet(agents) \subseteq Names
  BY DEF ToSet
<1>2. NoName \notin ToSet(agents) /\ "defer" \notin Names
  BY <1>1, RoutingConstants
<1>3. agents # <<>>
  BY DEF ResolveAgent
<1> QED BY <1>2, <1>3 DEF ResolveAgent, RequestAgent

(* Every input that is a job has the types of one.                         *)
JobsAreTyped == IsJob => input.agents \in Seq(Names) /\ input.job \in JobShapes

(* The inputs to begin with are typed.                                     *)
LEMMA JobsAreTypedInit == InputsInit => JobsAreTyped
<1> SUFFICES ASSUME InputsInit, IsJob PROVE input.agents \in Seq(Names) /\ input.job \in JobShapes
  BY DEF JobsAreTyped
<1>1. JobInit
  BY DEF InputsInit, IsJob, LineInit, OptionsInit, PageInit, TurnInit, RegistrationInit, TenancyInit
<1>2. PICK agents \in SeqOf(Names, 2), job \in Shapes : input = [kind |-> "job", agents |-> agents, job |-> job]
  BY <1>1 DEF JobInit
<1>3. PICK m \in 0 .. 2 : agents \in [1 .. m -> Names]
  BY <1>2 DEF SeqOf
<1>4. agents \in Seq(Names)
  BY <1>3, IsASeq
<1> QED BY <1>2, <1>4 DEF Shapes

(* The filter that checks an agent's cap (_resolve_request_agent_name) and *)
(* the resolver the session runs on read a job alike, for every set of     *)
(* agents; a name a room carries for an agent that is not registered, read *)
(* differently by the two, ends in a session that does not run.            *)
THEOREM FilterAgreesWithResolver == InputsSpec => []FilterMirrorsRouting
<1>1. JobsAreTyped /\ [InputsNext]_input => JobsAreTyped'
  BY DEF JobsAreTyped, IsJob, InputsNext
<1>2. JobsAreTyped => FilterMirrorsRouting
  <2> SUFFICES ASSUME JobsAreTyped, IsJob, input.job.router = "defer",
                      ResolveAgent(input.agents, input.job) # Error
               PROVE  RequestAgent(input.agents, input.job) = ResolveAgent(input.agents, input.job)
    BY DEF FilterMirrorsRouting
  <2> QED BY OneReadingOfTheAgent DEF JobsAreTyped
<1> QED BY <1>1, <1>2, JobsAreTypedInit, PTL DEF InputsSpec

(* The same of the jobs a worker is offered.                               *)
LEMMA AgentIsReadAlike ==
  ASSUME NoRouter, NEW o \in Offers, ResolveAgent(Registry, o) # Error
  PROVE  RequestAgent(Registry, o) = ResolveAgent(Registry, o)
<1>1. o \in JobShapes
  BY AdmissionConstants
<1>2. o.router = "defer"
  BY <1>1 DEF NoRouter, JobShapes, ResolveAgent
<1> QED BY <1>1, <1>2, AdmissionConstants, OneReadingOfTheAgent

(* Without padding the tenant's filters and the session name one tenant.   *)
LEMMA TenantIsReadAlike ==
  ASSUME NoPadding, NEW o \in Offers, SessionTenant(o) # Error
  PROVE  RequestTenant(o) = SessionTenant(o)
<1>1. TenantKey(o) \in TenantKeys
  BY AdmissionConstants DEF TenantKey, JobShapes, Metadata
<1>2. CASE TenantKey(o) \in {<<"missing">>, <<"empty">>}
  BY <1>2 DEF RequestTenant, SessionTenant
<1>3. TenantKey(o) # <<"malformed">>
  BY DEF SessionTenant
<1>4. CASE TenantKey(o) \in {"exact", "padded"} \X TenantIds
  <2>1. TenantKey(o)[1] = "exact"
    BY <1>4 DEF NoPadding
  <2>2. TenantKey(o) \notin {<<"missing">>, <<"empty">>}
    BY <2>1
  <2> QED BY <1>3, <2>1, <2>2 DEF RequestTenant, SessionTenant
<1> QED BY <1>1, <1>2, <1>3, <1>4 DEF TenantKeys

(* How many more calls a key may have than its cap: what is running and    *)
(* what is underway, together, stay within the cap but for the burst.      *)
Contained(cap, running, underway, peak) ==
  running + Cardinality(underway) <= cap - 1 + Max({1, peak})

(* What a step does to one key: nothing that adds to it, the start of a    *)
(* call that was underway, or one more underway below the cap, which the   *)
(* burst has then counted.                                                 *)
Relieves(running, underway, peak, running2, underway2, peak2) ==
  running2 <= running /\ underway2 \subseteq underway /\ peak2 = peak
Starts(running, underway, peak, running2, underway2, peak2) ==
  running2 = running + 1 /\ (\E j \in underway : underway2 = underway \ {j}) /\ peak2 = peak
Admits(cap, running, underway2, running2, peak2) ==
  running2 = running /\ running < cap /\ Cardinality(underway2) <= peak2

(* How the bound of a cap moves with its gauge and its accepted jobs.      *)
LEMMA ContainedStays ==
  ASSUME NEW cap \in Nat, NEW n \in Nat, NEW n2 \in Nat, NEW p \in Nat, NEW p2 \in Nat,
         NEW U, NEW V, IsFiniteSet(U), IsFiniteSet(V),
         Contained(cap, n, U, p),
         \/ Relieves(n, U, p, n2, V, p2)
         \/ Starts(n, U, p, n2, V, p2)
         \/ Admits(cap, n, V, n2, p2)
  PROVE  Contained(cap, n2, V, p2)
<1>1. Cardinality(U) \in Nat /\ Cardinality(V) \in Nat
  BY FS_CardinalityType
<1>2. /\ Max({1, p}) = (IF 1 >= p THEN 1 ELSE p)
      /\ Max({1, p2}) = (IF 1 >= p2 THEN 1 ELSE p2)
  BY MaxOfPair
<1>3. CASE Relieves(n, U, p, n2, V, p2)
  <2>1. Cardinality(V) <= Cardinality(U)
    BY <1>3, FS_Subset DEF Relieves
  <2> QED BY <1>1, <1>2, <1>3, <2>1 DEF Contained, Relieves
<1>4. CASE Starts(n, U, p, n2, V, p2)
  <2>1. Cardinality(V) = Cardinality(U) - 1
    BY <1>4, FS_RemoveElement DEF Starts
  <2> QED BY <1>1, <1>2, <1>4, <2>1 DEF Contained, Starts
<1>5. CASE Admits(cap, n, V, n2, p2)
  BY <1>1, <1>2, <1>5 DEF Contained, Admits
<1> QED BY <1>3, <1>4, <1>5

(* The calls of one agent, or of one tenant, that are underway.            *)
UnderwayFor(a) == {k \in Underway : Startable(k) /\ Agent(k) = a}
UnderwayOf(t)  == {k \in Underway : Startable(k) /\ Tenant(k) = t}

(* What one step does to an agent's calls and to a tenant's.               *)
AgentMoves(a) ==
  \/ Relieves(byAgent[a], UnderwayFor(a), burst.agent[a],
              byAgent'[a], UnderwayFor(a)', burst'.agent[a])
  \/ Starts(byAgent[a], UnderwayFor(a), burst.agent[a],
            byAgent'[a], UnderwayFor(a)', burst'.agent[a])
  \/ a \in DOMAIN AgentCap =>
       Admits(AgentCap[a], byAgent[a], UnderwayFor(a)', byAgent'[a], burst'.agent[a])
TenantMoves(t) ==
  \/ Relieves(byTenant[t], UnderwayOf(t), burst.tenant[t],
              byTenant'[t], UnderwayOf(t)', burst'.tenant[t])
  \/ Starts(byTenant[t], UnderwayOf(t), burst.tenant[t],
            byTenant'[t], UnderwayOf(t)', burst'.tenant[t])
  \/ t \in DOMAIN TenantCap =>
       Admits(TenantCap[t], byTenant[t], UnderwayOf(t)', byTenant'[t], burst'.tenant[t])

(* Of two counts the larger is at least the other.                         *)
LEMMA PeakCovers ==
  ASSUME NEW U, NEW V, IsFiniteSet(U), V \subseteq U, NEW p \in Nat
  PROVE  /\ Max({p, Cardinality(U)}) \in Nat
         /\ Cardinality(V) <= Max({p, Cardinality(U)})
<1>1. Cardinality(U) \in Nat /\ Cardinality(V) \in Nat /\ Cardinality(V) <= Cardinality(U)
  BY FS_Subset, FS_CardinalityType
<1> QED BY <1>1, MaxOfPair

(* A screening admits its job's agent and tenant and touches no other.     *)
LEMMA ScreenMoves ==
  ASSUME NoRouter, NoPadding, AdmissionIsSound, NEW j \in Jobs, Screen(j),
         NEW a \in Names, NEW t \in Tenants
  PROVE  AgentMoves(a) /\ TenantMoves(t)
<1> DEFINE AlikeAgent == {k \in Underway : Agent(k) = Agent(j)} \cup {j}
           AlikeTenant == {k \in Underway : Tenant(k) = Tenant(j)} \cup {j}
           x == Max({burst.agent[Agent(j)], Cardinality(AlikeAgent)})
           y == Max({burst.tenant[Tenant(j)], Cardinality(AlikeTenant)})
<1>1. /\ stage \in [Jobs -> Stages] /\ shape \in [Jobs -> Offers]
      /\ byAgent \in [Names -> Nat] /\ byTenant \in [Tenants -> Nat]
      /\ burst \in [agent : [Names -> Nat], tenant : [Tenants -> Nat]]
      /\ shape' = shape /\ byAgent' = byAgent /\ byTenant' = byTenant
      /\ IsFiniteSet(Underway)
  BY DEF AdmissionIsSound, AdmissionTypeOK, Stages, Screen
<1>2. \A k \in Jobs : Agent(k)' = Agent(k) /\ Tenant(k)' = Tenant(k) /\ (Startable(k)' <=> Startable(k))
  BY <1>1 DEF Agent, Tenant, Startable
<1>3. CASE burst' = burst /\ Underway' \cap {k \in Jobs : Startable(k)} \subseteq Underway
  <2>1. UnderwayFor(a)' \subseteq UnderwayFor(a) /\ UnderwayOf(t)' \subseteq UnderwayOf(t)
    BY <1>2, <1>3 DEF UnderwayFor, UnderwayOf, Underway
  <2> QED BY <1>1, <1>3, <2>1 DEF AgentMoves, TenantMoves, Relieves
<1>4. CASE /\ WithinCaps(j) /\ Startable(j) /\ Underway' = Underway \cup {j}
           /\ burst' = [burst EXCEPT !.agent[Agent(j)] = x, !.tenant[Tenant(j)] = y]
  <2>1. Agent(j) \in Names /\ Tenant(j) \in Tenants /\ shape[j] \in Offers
    BY <1>4, StartableIsKnown DEF AdmissionIsSound
  <2>2. /\ RequestAgent(Registry, shape[j]) = Agent(j)
        /\ RequestTenant(shape[j]) = Tenant(j)
    BY <1>4, <2>1, AgentIsReadAlike, TenantIsReadAlike DEF Startable, Agent, Tenant
  <2>3. IsFiniteSet(AlikeAgent) /\ IsFiniteSet(AlikeTenant)
    BY <1>1, FS_AddElement, FS_Subset
  <2>4. /\ burst'.agent = [burst.agent EXCEPT ![Agent(j)] = x]
        /\ burst'.tenant = [burst.tenant EXCEPT ![Tenant(j)] = y]
    BY <1>1, <1>4
  <2>5. ASSUME a = Agent(j) PROVE AgentMoves(a)
    <3>1. UnderwayFor(a)' \subseteq AlikeAgent
      BY <1>2, <1>4, <2>5 DEF UnderwayFor, Underway
    <3>2. Cardinality(UnderwayFor(a)') <= x /\ burst'.agent[a] = x
      BY <1>1, <2>1, <2>3, <2>4, <2>5, <3>1, PeakCovers
    <3>3. a \in DOMAIN AgentCap => byAgent[a] < AgentCap[a]
      BY <1>1, <1>4, <2>2, <2>5, AdmissionConstants DEF WithinCaps, Full
    <3> QED BY <1>1, <3>2, <3>3 DEF AgentMoves, Admits
  <2>6. ASSUME a # Agent(j) PROVE AgentMoves(a)
    <3>1. UnderwayFor(a)' \subseteq UnderwayFor(a) /\ burst'.agent[a] = burst.agent[a]
      BY <1>1, <1>2, <1>4, <2>1, <2>4, <2>6 DEF UnderwayFor, Underway
    <3> QED BY <1>1, <3>1 DEF AgentMoves, Relieves
  <2>7. ASSUME t = Tenant(j) PROVE TenantMoves(t)
    <3>1. UnderwayOf(t)' \subseteq AlikeTenant
      BY <1>2, <1>4, <2>7 DEF UnderwayOf, Underway
    <3>2. Cardinality(UnderwayOf(t)') <= y /\ burst'.tenant[t] = y
      BY <1>1, <2>1, <2>3, <2>4, <2>7, <3>1, PeakCovers
    <3>3. t \in DOMAIN TenantCap => byTenant[t] < TenantCap[t]
      BY <1>1, <1>4, <2>2, <2>7, AdmissionConstants DEF WithinCaps, Full
    <3> QED BY <1>1, <3>2, <3>3 DEF TenantMoves, Admits
  <2>8. ASSUME t # Tenant(j) PROVE TenantMoves(t)
    <3>1. UnderwayOf(t)' \subseteq UnderwayOf(t) /\ burst'.tenant[t] = burst.tenant[t]
      BY <1>1, <1>2, <1>4, <2>1, <2>4, <2>8 DEF UnderwayOf, Underway
    <3> QED BY <1>1, <3>1 DEF TenantMoves, Relieves
  <2> QED BY <2>5, <2>6, <2>7, <2>8
<1>5. <1>3!1 \/ <1>4!1
  <2>1. CASE CircuitOpen(j) \/ ~WithinCaps(j)
    <3>1. burst' = burst /\ \E next \in {"locked_out", "rejected"} : Becomes(j, next)
      BY <2>1 DEF Screen
    <3>2. Underway' \subseteq Underway
      BY <1>1, <3>1 DEF Underway, Becomes
    <3> QED BY <3>1, <3>2
  <2>2. CASE ~CircuitOpen(j) /\ WithinCaps(j)
    <3>1. Becomes(j, "screened")
      BY <2>2 DEF Screen
    <3>2. Underway' = Underway \cup {j}
      BY <1>1, <3>1 DEF Underway, Becomes
    <3>3. CASE Startable(j)
      BY <2>2, <3>2, <3>3 DEF Screen
    <3>4. CASE ~Startable(j)
      BY <2>2, <3>2, <3>4 DEF Screen
    <3> QED BY <3>3, <3>4
  <2> QED BY <2>1, <2>2
<1> QED BY <1>3, <1>4, <1>5

(* What a step does to one gauge and to the jobs accepted for it.          *)
LEMMA AdmissionMoves ==
  ASSUME NoRouter, NoPadding, AdmissionIsSound, [AdmissionNext]_vars,
         NEW a \in Names, NEW t \in Tenants
  PROVE  AgentMoves(a) /\ TenantMoves(t)
<1>1. /\ stage \in [Jobs -> Stages] /\ shape \in [Jobs -> Offers]
      /\ byAgent \in [Names -> Nat] /\ byTenant \in [Tenants -> Nat]
  BY DEF AdmissionIsSound, AdmissionTypeOK, Stages
<1>2. \A k \in Jobs : Agent(k)' = Agent(k) /\ Tenant(k)' = Tenant(k) /\ (Startable(k)' <=> Startable(k))
  <2>1. shape' = shape
    BY DEF AdmissionNext, ClockTicks, Job, Screen, BaseDecides, StartSession, RefuseSession,
           EndSession, Reap, vars
  <2> QED BY <2>1 DEF Agent, Tenant, Startable
<1>3. CASE /\ Underway' \subseteq Underway /\ burst' = burst
           /\ byAgent'[a] <= byAgent[a] /\ byTenant'[t] <= byTenant[t]
  <2>1. UnderwayFor(a)' \subseteq UnderwayFor(a) /\ UnderwayOf(t)' \subseteq UnderwayOf(t)
    BY <1>2, <1>3 DEF UnderwayFor, UnderwayOf, Underway
  <2> QED BY <1>3, <2>1 DEF AgentMoves, TenantMoves, Relieves
<1>4. CASE ClockTicks \/ UNCHANGED vars
  <2>1. UNCHANGED <<stage, byAgent, byTenant, burst>>
    BY <1>4 DEF ClockTicks, vars
  <2> QED BY <1>1, <1>3, <2>1 DEF Underway
<1>5. ASSUME NEW j \in Jobs, StartSession(j) PROVE AgentMoves(a) /\ TenantMoves(t)
  <2>1. /\ Agent(j) \in Names /\ Tenant(j) \in Tenants /\ Startable(j)
        /\ j \in Underway /\ Underway' = Underway \ {j} /\ burst' = burst
    BY <1>1, <1>5, StartableIsKnown DEF StartSession, Becomes, Underway, AdmissionIsSound
  <2>2. ASSUME a = Agent(j) PROVE AgentMoves(a)
    <3>1. j \in UnderwayFor(a) /\ UnderwayFor(a)' = UnderwayFor(a) \ {j}
      BY <1>2, <2>1, <2>2 DEF UnderwayFor, Underway
    <3> QED BY <1>1, <1>5, <2>1, <2>2, <3>1 DEF AgentMoves, Starts, StartSession
  <2>3. ASSUME a # Agent(j) PROVE AgentMoves(a)
    <3>1. UnderwayFor(a)' \subseteq UnderwayFor(a) /\ byAgent'[a] = byAgent[a]
      BY <1>1, <1>2, <1>5, <2>1, <2>3 DEF UnderwayFor, Underway, StartSession
    <3> QED BY <1>1, <2>1, <3>1 DEF AgentMoves, Relieves
  <2>4. ASSUME t = Tenant(j) PROVE TenantMoves(t)
    <3>1. j \in UnderwayOf(t) /\ UnderwayOf(t)' = UnderwayOf(t) \ {j}
      BY <1>2, <2>1, <2>4 DEF UnderwayOf, Underway
    <3> QED BY <1>1, <1>5, <2>1, <2>4, <3>1 DEF TenantMoves, Starts, StartSession
  <2>5. ASSUME t # Tenant(j) PROVE TenantMoves(t)
    <3>1. UnderwayOf(t)' \subseteq UnderwayOf(t) /\ byTenant'[t] = byTenant[t]
      BY <1>1, <1>2, <1>5, <2>1, <2>5 DEF UnderwayOf, Underway, StartSession
    <3> QED BY <1>1, <2>1, <3>1 DEF TenantMoves, Relieves
  <2> QED BY <2>2, <2>3, <2>4, <2>5
<1>6. ASSUME NEW j \in Jobs, BaseDecides(j) \/ RefuseSession(j) \/ Reap(j) PROVE <1>3!1
  BY <1>1, <1>6 DEF BaseDecides, RefuseSession, Reap, Becomes, Underway
<1>7. ASSUME NEW j \in Jobs, NEW ok \in BOOLEAN, EndSession(j, ok) PROVE <1>3!1
  <2>1. Underway' \subseteq Underway /\ burst' = burst
    BY <1>1, <1>7 DEF EndSession, Becomes, Underway
  <2>2. \A n \in Nat : Max({0, n - 1}) <= n
    BY MaxOfPair
  <2> QED BY <1>1, <1>7, <2>1, <2>2 DEF EndSession, Decremented
<1> QED BY <1>3, <1>4, <1>5, <1>6, <1>7, ScreenMoves DEF AdmissionNext, Job

(* SoftCaps is not inductive: what is already underway will run.  With it  *)
(* counted, it is.                                                         *)
CapsHold ==
  /\ \A a \in DOMAIN AgentCap :
       Contained(AgentCap[a], byAgent[a], UnderwayFor(a), burst.agent[a])
  /\ \A t \in DOMAIN TenantCap :
       Contained(TenantCap[t], byTenant[t], UnderwayOf(t), burst.tenant[t])

(* Every step keeps the bound of every cap.                                *)
LEMMA CapsHoldStep ==
  ASSUME NoRouter, NoPadding, AdmissionIsSound, AdmissionIsSound', CapsHold, [AdmissionNext]_vars
  PROVE  CapsHold'
<1>1. \A a, t : /\ IsFiniteSet(UnderwayFor(a)) /\ IsFiniteSet(UnderwayFor(a)')
                /\ IsFiniteSet(UnderwayOf(t)) /\ IsFiniteSet(UnderwayOf(t)')
  <2>1. \A a, t : /\ UnderwayFor(a) \subseteq Underway /\ UnderwayFor(a)' \subseteq Underway'
                  /\ UnderwayOf(t) \subseteq Underway /\ UnderwayOf(t)' \subseteq Underway'
    BY DEF UnderwayFor, UnderwayOf
  <2>2. IsFiniteSet(Underway) /\ IsFiniteSet(Underway')
    BY DEF AdmissionIsSound
  <2> QED BY <2>1, <2>2, FS_Subset
<1>2. /\ byAgent \in [Names -> Nat] /\ byAgent' \in [Names -> Nat]
      /\ byTenant \in [Tenants -> Nat] /\ byTenant' \in [Tenants -> Nat]
      /\ burst \in [agent : [Names -> Nat], tenant : [Tenants -> Nat]]
      /\ burst' \in [agent : [Names -> Nat], tenant : [Tenants -> Nat]]
  BY DEF AdmissionIsSound, AdmissionTypeOK
<1>3. Tenants # {} /\ Names # {}
  BY AdmissionConstants, RoutingConstants
<1>4. ASSUME NEW a \in DOMAIN AgentCap
      PROVE  Contained(AgentCap[a], byAgent'[a], UnderwayFor(a)', burst'.agent[a])
  <2>1. a \in Names /\ AgentCap[a] \in Nat
    BY AdmissionConstants
  <2>2. AgentMoves(a)
    BY <1>3, <2>1, AdmissionMoves
  <2> DEFINE U == UnderwayFor(a)  V == UnderwayFor(a)'
             n == byAgent[a]  n2 == byAgent'[a]
             p == burst.agent[a]  p2 == burst'.agent[a]
  <2>3. Contained(AgentCap[a], n, U, p)
    BY DEF CapsHold
  <2>4. n \in Nat /\ n2 \in Nat /\ p \in Nat /\ p2 \in Nat
    BY <1>2, <2>1
  <2>5. IsFiniteSet(U) /\ IsFiniteSet(V)
    BY <1>1
  <2>6. \/ Relieves(n, U, p, n2, V, p2)
        \/ Starts(n, U, p, n2, V, p2)
        \/ Admits(AgentCap[a], n, V, n2, p2)
    BY <2>2 DEF AgentMoves
  <2> HIDE DEF U, V, n, n2, p, p2
  <2>7. Contained(AgentCap[a], n2, V, p2)
    BY <2>1, <2>3, <2>4, <2>5, <2>6, ContainedStays
  <2> QED BY <2>7 DEF V, n2, p2
<1>5. ASSUME NEW t \in DOMAIN TenantCap
      PROVE  Contained(TenantCap[t], byTenant'[t], UnderwayOf(t)', burst'.tenant[t])
  <2>1. t \in Tenants /\ TenantCap[t] \in Nat
    BY AdmissionConstants
  <2>2. TenantMoves(t)
    BY <1>3, <2>1, AdmissionMoves
  <2> DEFINE U == UnderwayOf(t)  V == UnderwayOf(t)'
             n == byTenant[t]  n2 == byTenant'[t]
             p == burst.tenant[t]  p2 == burst'.tenant[t]
  <2>3. Contained(TenantCap[t], n, U, p)
    BY DEF CapsHold
  <2>4. n \in Nat /\ n2 \in Nat /\ p \in Nat /\ p2 \in Nat
    BY <1>2, <2>1
  <2>5. IsFiniteSet(U) /\ IsFiniteSet(V)
    BY <1>1
  <2>6. \/ Relieves(n, U, p, n2, V, p2)
        \/ Starts(n, U, p, n2, V, p2)
        \/ Admits(TenantCap[t], n, V, n2, p2)
    BY <2>2 DEF TenantMoves
  <2> HIDE DEF U, V, n, n2, p, p2
  <2>7. Contained(TenantCap[t], n2, V, p2)
    BY <2>1, <2>3, <2>4, <2>5, <2>6, ContainedStays
  <2> QED BY <2>7 DEF V, n2, p2
<1> QED BY <1>4, <1>5 DEF CapsHold

(* Initially nobody is counted.                                            *)
LEMMA CapsHoldInit == AdmissionInit => CapsHold
<1> SUFFICES ASSUME AdmissionInit PROVE CapsHold
  OBVIOUS
<1>1. \A a, t : UnderwayFor(a) = {} /\ UnderwayOf(t) = {}
  BY DEF AdmissionInit, UnderwayFor, UnderwayOf, Underway
<1>2. Cardinality({}) = 0 /\ Max({1, 0}) = 1
  BY FS_EmptySet, MaxOfPair
<1>3. ASSUME NEW cap \in Nat \ {0} PROVE Contained(cap, 0, {}, 0)
  BY <1>2 DEF Contained
<1>4. \A a \in DOMAIN AgentCap : /\ byAgent[a] = 0 /\ burst.agent[a] = 0
                                 /\ AgentCap[a] \in Nat \ {0}
  BY AdmissionConstants DEF AdmissionInit
<1>5. \A t \in DOMAIN TenantCap : /\ byTenant[t] = 0 /\ burst.tenant[t] = 0
                                  /\ TenantCap[t] \in Nat \ {0}
  BY AdmissionConstants DEF AdmissionInit
<1> QED BY <1>1, <1>3, <1>4, <1>5 DEF CapsHold

(* The caps are soft by the burst and by nothing else, whatever the caps   *)
(* are and however many jobs are offered; where the filter and the         *)
(* resolver may read a job differently, nothing holds.                     *)
THEOREM CapsAreSoft ==
  ASSUME NoRouter, NoPadding
  PROVE  AdmissionSpec => []SoftCaps
<1>1. AdmissionInit => CapsHold
  BY CapsHoldInit
<1>2. AdmissionIsSound /\ AdmissionIsSound' /\ CapsHold /\ [AdmissionNext]_vars => CapsHold'
  BY NoRouter, NoPadding, CapsHoldStep
<1>3. AdmissionIsSound /\ CapsHold => SoftCaps
  <2> SUFFICES ASSUME AdmissionIsSound, CapsHold PROVE SoftCaps
    OBVIOUS
  <2>1. /\ byAgent \in [Names -> Nat] /\ byTenant \in [Tenants -> Nat]
        /\ burst \in [agent : [Names -> Nat], tenant : [Tenants -> Nat]]
    BY DEF AdmissionIsSound, AdmissionTypeOK
  <2>2. \A a, t : Cardinality(UnderwayFor(a)) \in Nat /\ Cardinality(UnderwayOf(t)) \in Nat
    <3>1. \A a, t : UnderwayFor(a) \subseteq Underway /\ UnderwayOf(t) \subseteq Underway
      BY DEF UnderwayFor, UnderwayOf
    <3> QED BY <3>1, FS_Subset, FS_CardinalityType DEF AdmissionIsSound
  <2>3. \A n \in Nat : Max({1, n}) \in Nat
    BY MaxOfPair
  <2>4. \A c, n, k, m \in Int : n \in Nat /\ c + n <= k - 1 + m => c <= k - 1 + m
    OBVIOUS
  <2>5. ASSUME NEW a \in DOMAIN AgentCap
        PROVE  byAgent[a] <= AgentCap[a] - 1 + Max({1, burst.agent[a]})
    <3>1. /\ byAgent[a] \in Nat /\ burst.agent[a] \in Nat /\ AgentCap[a] \in Nat
          /\ Cardinality(UnderwayFor(a)) \in Nat
      BY <2>1, <2>2, AdmissionConstants
    <3>2. byAgent[a] + Cardinality(UnderwayFor(a)) <= AgentCap[a] - 1 + Max({1, burst.agent[a]})
      BY DEF CapsHold, Contained
    <3> QED BY <2>3, <2>4, <3>1, <3>2
  <2>6. ASSUME NEW t \in DOMAIN TenantCap
        PROVE  byTenant[t] <= TenantCap[t] - 1 + Max({1, burst.tenant[t]})
    <3>1. /\ byTenant[t] \in Nat /\ burst.tenant[t] \in Nat /\ TenantCap[t] \in Nat
          /\ Cardinality(UnderwayOf(t)) \in Nat
      BY <2>1, <2>2, AdmissionConstants
    <3>2. byTenant[t] + Cardinality(UnderwayOf(t)) <= TenantCap[t] - 1 + Max({1, burst.tenant[t]})
      BY DEF CapsHold, Contained
    <3> QED BY <2>3, <2>4, <3>1, <3>2
  <2> QED BY <2>5, <2>6 DEF SoftCaps
<1> QED BY <1>1, <1>2, <1>3, AdmissionStaysSound, PTL DEF AdmissionSpec

----------------------------------------------------------------------------
(* A tenant that is locked out.                                            *)

FailuresOf(e) == {i \in DOMAIN e : ~e[i].ok}
BlamedOf(t)   == {k \in blamed : Tenant(k) = t}

(* Every failure a tenant's breaker was told of is a session of that       *)
(* tenant which is over, and no session is told twice.                     *)
FailuresAreSessions ==
  /\ IsFiniteSet(blamed)
  /\ \A k \in blamed : stage[k] \in {"failing", "closed"}
  /\ \A t \in Tenants : Cardinality(FailuresOf(ended[t])) <= Cardinality(BlamedOf(t))

(* The failures among some outcomes are finitely many.                     *)
LEMMA FailuresCount ==
  ASSUME NEW e \in Seq(Outcome)
  PROVE  IsFiniteSet(FailuresOf(e)) /\ Cardinality(FailuresOf(e)) \in Nat
<1>1. IsFiniteSet(1 .. Len(e)) /\ FailuresOf(e) \subseteq 1 .. Len(e)
  BY FS_Interval DEF FailuresOf
<1> QED BY <1>1, FS_Subset, FS_CardinalityType

(* One more outcome adds itself to the failures if it is one.              *)
LEMMA FailuresAppend ==
  ASSUME NEW e \in Seq(Outcome), NEW o \in Outcome
  PROVE  Cardinality(FailuresOf(Append(e, o)))
           = IF o.ok THEN Cardinality(FailuresOf(e)) ELSE Cardinality(FailuresOf(e)) + 1
<1>1. /\ DOMAIN e = 1 .. Len(e) /\ Len(e) \in Nat
      /\ DOMAIN Append(e, o) = 1 .. Len(e) + 1
      /\ \A i \in 1 .. Len(e) : Append(e, o)[i] = e[i]
      /\ Append(e, o)[Len(e) + 1] = o
  OBVIOUS
<1>2. IsFiniteSet(FailuresOf(e))
  BY FailuresCount
<1>3. FailuresOf(Append(e, o)) = IF o.ok THEN FailuresOf(e) ELSE FailuresOf(e) \cup {Len(e) + 1}
  BY <1>1 DEF FailuresOf
<1>4. Len(e) + 1 \notin FailuresOf(e)
  BY <1>1 DEF FailuresOf
<1>5. Cardinality(FailuresOf(e) \cup {Len(e) + 1}) = Cardinality(FailuresOf(e)) + 1
  BY <1>2, <1>4, FS_AddElement
<1> QED BY <1>3, <1>5

(* Initially nobody is blamed.                                             *)
LEMMA SessionsBlamedInit == AdmissionInit => FailuresAreSessions
<1> SUFFICES ASSUME AdmissionInit PROVE FailuresAreSessions
  OBVIOUS
<1>1. blamed = {} /\ \A t \in Tenants : FailuresOf(ended[t]) = {} /\ BlamedOf(t) = {}
  BY DEF AdmissionInit, BreakerInit, FailuresOf, BlamedOf
<1> QED BY <1>1, FS_EmptySet DEF FailuresAreSessions

(* Every failure the breaker is told of is that of a session of that       *)
(* tenant.                                                                 *)
LEMMA SessionsBlamedStep ==
  ASSUME AdmissionIsSound, FailuresAreSessions, [AdmissionNext]_vars
  PROVE  FailuresAreSessions'
<1>1. /\ stage \in [Jobs -> Stages] /\ blamed \subseteq Jobs /\ IsFiniteSet(blamed)
      /\ ended \in [Tenants -> Seq(Outcome)] /\ now \in Nat
  BY DEF AdmissionIsSound, AdmissionTypeOK, BreakerTypeOK, Stages, FailuresAreSessions
<1>2. \A k \in Jobs : Tenant(k)' = Tenant(k)
  <2>1. shape' = shape
    BY DEF AdmissionNext, ClockTicks, Job, Screen, BaseDecides, StartSession, RefuseSession,
           EndSession, Reap, vars
  <2> QED BY <2>1 DEF Tenant
<1>3. CASE /\ UNCHANGED <<blamed, ended>>
           /\ \A k \in blamed : stage'[k] \in {"failing", "closed"}
  <2>1. \A t \in Tenants : BlamedOf(t)' = BlamedOf(t)
    BY <1>1, <1>2, <1>3 DEF BlamedOf
  <2> QED BY <1>3, <2>1 DEF FailuresAreSessions
<1>4. CASE ClockTicks \/ UNCHANGED vars
  BY <1>3, <1>4 DEF ClockTicks, Tick, vars, breakerVars, FailuresAreSessions
<1>5. ASSUME NEW j \in Jobs, Screen(j) PROVE FailuresAreSessions'
  <2>1. UNCHANGED <<blamed, ended>>
    BY <1>5 DEF Screen, Ask, breakerVars
  <2>2. \E next \in Stages : Becomes(j, next) /\ stage[j] = "offered"
    BY <1>5 DEF Screen, Stages
  <2> QED BY <1>1, <1>3, <2>1, <2>2 DEF Becomes, FailuresAreSessions
<1>6. ASSUME NEW j \in Jobs, BaseDecides(j) \/ StartSession(j) \/ RefuseSession(j) \/ Reap(j)
      PROVE  FailuresAreSessions'
  <2>1. UNCHANGED <<blamed, ended>>
    BY <1>6 DEF BaseDecides, StartSession, RefuseSession, Reap, breakerVars
  <2>2. \A k \in blamed : stage'[k] \in {"failing", "closed"}
    BY <1>1, <1>6 DEF BaseDecides, StartSession, RefuseSession, Reap, Becomes, FailuresAreSessions
  <2> QED BY <1>3, <2>1, <2>2
<1>7. ASSUME NEW j \in Jobs, NEW ok \in BOOLEAN, EndSession(j, ok) PROVE FailuresAreSessions'
  <2> DEFINE u == Tenant(j)
  <2>1. u \in Tenants /\ stage[j] = "running"
    BY <1>7, StartableIsKnown DEF EndSession, AdmissionIsSound, RunningIsStartable
  <2>2. /\ Recorded(ok) \in Outcome /\ Recorded(ok).ok = ok
        /\ ended' = [ended EXCEPT ![u] = Append(@, Recorded(ok))]
    BY <1>1, <1>7 DEF EndSession, RecordOutcome, Recorded, Outcome
  <2>3. blamed' = IF ok THEN blamed ELSE blamed \cup {j}
    BY <1>7 DEF EndSession
  <2>4. j \notin blamed
    BY <2>1 DEF FailuresAreSessions
  <2>5. \A k \in blamed' : stage'[k] \in {"failing", "closed"}
    BY <1>1, <1>7, <2>3 DEF EndSession, Becomes, FailuresAreSessions
  <2>6. IsFiniteSet(blamed')
    BY <1>1, <2>3, FS_AddElement
  <2>7. ASSUME NEW t \in Tenants
        PROVE  Cardinality(FailuresOf(ended'[t])) <= Cardinality(BlamedOf(t)')
    <3>1. Cardinality(FailuresOf(ended[t])) <= Cardinality(BlamedOf(t))
      BY DEF FailuresAreSessions
    <3>2. CASE t # u \/ ok
      <4>1. BlamedOf(t)' = BlamedOf(t)
        BY <1>1, <1>2, <2>3, <3>2 DEF BlamedOf
      <4>2. Cardinality(FailuresOf(ended'[t])) = Cardinality(FailuresOf(ended[t]))
        <5>1. CASE t # u
          BY <1>1, <2>1, <2>2, <5>1
        <5>2. CASE t = u /\ ok
          BY <1>1, <2>1, <2>2, <5>2, FailuresAppend
        <5> QED BY <3>2, <5>1, <5>2
      <4> QED BY <3>1, <4>1, <4>2
    <3>3. CASE t = u /\ ~ok
      <4>1. BlamedOf(t)' = BlamedOf(t) \cup {j} /\ j \notin BlamedOf(t)
        BY <1>1, <1>2, <2>3, <2>4, <3>3 DEF BlamedOf
      <4>2. IsFiniteSet(BlamedOf(t))
        BY <1>1, FS_Subset DEF BlamedOf
      <4>3. Cardinality(BlamedOf(t)') = Cardinality(BlamedOf(t)) + 1 /\ Cardinality(BlamedOf(t)) \in Nat
        BY <4>1, <4>2, FS_AddElement, FS_CardinalityType
      <4>4. /\ Cardinality(FailuresOf(ended'[t])) = Cardinality(FailuresOf(ended[t])) + 1
            /\ Cardinality(FailuresOf(ended[t])) \in Nat
        BY <1>1, <2>1, <2>2, <3>3, FailuresCount, FailuresAppend
      <4> QED BY <3>1, <4>3, <4>4
    <3> QED BY <3>2, <3>3
  <2> QED BY <2>5, <2>6, <2>7 DEF FailuresAreSessions
<1> QED BY <1>4, <1>5, <1>6, <1>7 DEF AdmissionNext, Job

(* A job is locked out where LockoutIsEarned holds of its tenant, and the  *)
(* sessions that earned it stay blamed.                                    *)
LEMMA LockoutNamesStep ==
  ASSUME AdmissionIsSound, FailuresAreSessions, FailuresAreSessions', LockoutIsEarned,
         LockoutNamesItsTenant, [AdmissionNext]_vars
  PROVE  LockoutNamesItsTenant'
<1> DEFINE Many(c) == c * RatioDen > RatioNum * MinSamples
<1>1. /\ stage \in [Jobs -> Stages] /\ blamed \subseteq Jobs /\ ended \in [Tenants -> Seq(Outcome)]
      /\ IsFiniteSet(blamed) /\ IsFiniteSet(blamed')
  BY DEF AdmissionIsSound, AdmissionTypeOK, BreakerTypeOK, Stages, FailuresAreSessions
<1>2. \A k \in Jobs : Tenant(k)' = Tenant(k) /\ shape'[k] = shape[k]
  <2>1. shape' = shape
    BY DEF AdmissionNext, ClockTicks, Job, Screen, BaseDecides, StartSession, RefuseSession,
           EndSession, Reap, vars
  <2> QED BY <2>1 DEF Tenant
<1>3. blamed \subseteq blamed'
  BY DEF AdmissionNext, ClockTicks, Job, Screen, BaseDecides, StartSession, RefuseSession,
         EndSession, Reap, vars
<1>4. \A c, d \in Nat : c <= d /\ Many(c) => Many(d)
  BY ProductsCompare, BreakerConstants
<1>5. ASSUME NEW t, Many(Cardinality(BlamedOf(t))) PROVE Many(Cardinality(BlamedOf(t)'))
  <2>1. BlamedOf(t) \subseteq BlamedOf(t)' /\ BlamedOf(t)' \subseteq blamed' /\ BlamedOf(t) \subseteq blamed
    BY <1>1, <1>2, <1>3 DEF BlamedOf
  <2>2. IsFiniteSet(BlamedOf(t)) /\ IsFiniteSet(BlamedOf(t)')
    BY <1>1, <2>1, FS_Subset
  <2>3. /\ Cardinality(BlamedOf(t)) \in Nat /\ Cardinality(BlamedOf(t)') \in Nat
        /\ Cardinality(BlamedOf(t)) <= Cardinality(BlamedOf(t)')
    BY <2>1, <2>2, FS_Subset, FS_CardinalityType
  <2> HIDE DEF Many
  <2> QED BY <1>4, <1>5, <2>3
<1>6. ASSUME NEW j \in Jobs, stage'[j] = "locked_out"
      PROVE  Many(Cardinality(BlamedOf(RequestTenant(shape[j]))))
  <2> DEFINE t == RequestTenant(shape[j])
  <2>1. CASE stage[j] = "locked_out"
    BY <2>1 DEF LockoutNamesItsTenant, BlamedOf
  <2>2. CASE stage[j] # "locked_out"
    <3>1. Screen(j)
      BY <1>1, <1>6, <2>2 DEF AdmissionNext, ClockTicks, Job, Screen, BaseDecides, StartSession,
         RefuseSession, EndSession, Reap, Becomes, vars
    <3>2. CircuitOpen(j)
      BY <1>1, <1>6, <3>1 DEF Screen, Becomes
    <3>3. t \in Tenants /\ \E until \in openUntil[t] : now < until
      BY <3>2 DEF CircuitOpen, Rejects
    <3>4. PICK opened \in 0 .. now : Many(Cardinality(Within(ended[t], opened, opened)))
      BY <3>3 DEF LockoutIsEarned, FailuresIn, Within
    <3>5. /\ Within(ended[t], opened, opened) \subseteq FailuresOf(ended[t])
          /\ IsFiniteSet(FailuresOf(ended[t])) /\ Cardinality(FailuresOf(ended[t])) \in Nat
      BY <1>1, <3>3, FailuresCount DEF Within, FailuresOf
    <3>6. /\ Cardinality(Within(ended[t], opened, opened)) <= Cardinality(FailuresOf(ended[t]))
          /\ Cardinality(Within(ended[t], opened, opened)) \in Nat
      BY <3>5, FS_Subset, FS_CardinalityType
    <3>7. Cardinality(FailuresOf(ended[t])) <= Cardinality(BlamedOf(t))
      BY <3>3 DEF FailuresAreSessions
    <3>8. Cardinality(BlamedOf(t)) \in Nat
      BY <1>1, FS_Subset, FS_CardinalityType DEF BlamedOf
    <3> HIDE DEF Many, t
    <3>9. Cardinality(Within(ended[t], opened, opened)) <= Cardinality(BlamedOf(t))
      BY <3>5, <3>6, <3>7, <3>8
    <3>10. Many(Cardinality(BlamedOf(t)))
      BY <1>4, <3>4, <3>6, <3>8, <3>9
    <3> QED BY <3>10 DEF t
  <2> QED BY <2>1, <2>2
<1> HIDE DEF Many
<1>7. \A j \in Jobs : \A t : stage'[j] = "locked_out" /\ t = RequestTenant(shape[j])
                        => Many(Cardinality(BlamedOf(t)'))
  BY <1>5, <1>6
<1> QED BY <1>2, <1>7 DEF LockoutNamesItsTenant, BlamedOf, Many

(* While its breaker is open no call of a tenant joins those in hand.      *)
LEMMA LockedOutStep ==
  ASSUME NoPadding, AdmissionIsSound, [AdmissionNext]_vars,
         NEW t \in Tenants, NEW until \in openUntil[t], now < until
  PROVE  InHand(t)' \subseteq InHand(t)
<1>1. stage \in [Jobs -> Stages] /\ shape \in [Jobs -> Offers]
  BY DEF AdmissionIsSound, AdmissionTypeOK, Stages
<1>2. \A k \in Jobs : Tenant(k)' = Tenant(k)
  <2>1. shape' = shape
    BY DEF AdmissionNext, ClockTicks, Job, Screen, BaseDecides, StartSession, RefuseSession,
           EndSession, Reap, vars
  <2> QED BY <2>1 DEF Tenant
<1>3. SUFFICES ASSUME NEW j \in Jobs, Tenant(j) = t,
                      stage'[j] \in {"screened", "accepted", "running"}
               PROVE  stage[j] \in {"screened", "accepted", "running"}
  BY <1>2 DEF InHand, Underway
<1>4. ~Screen(j)
  <2>1. SUFFICES ASSUME Screen(j) PROVE FALSE
    OBVIOUS
  <2>2. Error \notin Tenants
    BY RoutingConstants, AdmissionConstants DEF Error, DefaultTenant
  <2>3. RequestTenant(shape[j]) = t
    BY <1>1, <1>3, <2>2, TenantIsReadAlike DEF Tenant
  <2>4. CircuitOpen(j)
    BY <2>3 DEF CircuitOpen, Rejects
  <2> QED BY <1>1, <1>3, <2>1, <2>4 DEF Screen, Becomes
<1>5. CASE ClockTicks \/ UNCHANGED vars
  BY <1>3, <1>5 DEF ClockTicks, vars
<1>6. ASSUME NEW k \in Jobs, Job(k), k # j PROVE stage'[j] = stage[j]
  BY <1>1, <1>6 DEF Job, Screen, BaseDecides, StartSession, RefuseSession, EndSession, Reap, Becomes
<1>7. CASE Job(j)
  BY <1>1, <1>3, <1>4, <1>7 DEF Job, BaseDecides, StartSession, RefuseSession, EndSession, Reap,
     Becomes, Stages
<1> QED BY <1>3, <1>5, <1>6, <1>7 DEF AdmissionNext

(* A job is refused by the breaker for failed sessions of its own tenant,  *)
(* and while the breaker is open that tenant's calls only drain.  An id    *)
(* with blanks around it names one tenant to the filter and another to the *)
(* session, so of those nothing is claimed.                                *)
THEOREM LockedOutDrains ==
  ASSUME NoPadding
  PROVE  AdmissionSpec => LockedOutTenantDrains
<1> DEFINE Drains == \A t \in Tenants :
             \A until \in openUntil[t] : now < until => InHand(t)' \subseteq InHand(t)
<1>1. AdmissionInit => FailuresAreSessions
  BY SessionsBlamedInit
<1>2. AdmissionIsSound /\ FailuresAreSessions /\ [AdmissionNext]_vars => FailuresAreSessions'
  BY SessionsBlamedStep
<1>3. AdmissionInit => LockoutNamesItsTenant
  BY DEF AdmissionInit, LockoutNamesItsTenant
<1>4. AdmissionIsSound /\ FailuresAreSessions /\ FailuresAreSessions' /\ LockoutIsEarned
        /\ LockoutNamesItsTenant /\ [AdmissionNext]_vars => LockoutNamesItsTenant'
  BY LockoutNamesStep
<1>5. AdmissionIsSound /\ [AdmissionNext]_vars => [Drains]_vars
  BY NoPadding, LockedOutStep
<1> HIDE DEF Drains
<1>6. AdmissionSpec => []LockoutNamesItsTenant /\ [][Drains]_vars
  BY <1>1, <1>2, <1>3, <1>4, <1>5, AdmissionStaysSound, LockoutsAreEarned, PTL DEF AdmissionSpec
<1> QED BY <1>6 DEF LockedOutTenantDrains, Drains
=============================================================================
