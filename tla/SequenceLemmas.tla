--------------------------- MODULE SequenceLemmas ---------------------------
(***************************************************************************)
(* Facts about naturals, maxima and sequences that the proofs of the       *)
(* components share.  The induction theorems of the library take an        *)
(* operator; these take a set, which a proof can instantiate.              *)
(***************************************************************************)
EXTENDS SequencesExt, FiniteSetsExt, FiniteSetTheorems, SequenceTheorems, TLAPS

(* A set of naturals has a least element, since < is well-founded.         *)
LEMMA LeastElement ==
  ASSUME NEW T, T \subseteq Nat, T # {}
  PROVE  \E x \in T : \A y \in T : x <= y
<1> DEFINE R == {p \in Nat \X Nat : p[1] < p[2]}
<1>1. IsWellFoundedOn(R, Nat)
  BY NatLessThanWellFounded DEF OpToRel
<1>2. \A x, y \in Nat : x < y => <<x, y>> \in R
  OBVIOUS
<1> HIDE DEF R
<1>3. PICK x \in T : \A y \in T : <<y, x>> \notin R
  BY <1>1, WFMin
<1>4. ASSUME NEW y \in T PROVE x <= y
  <2>1. x \in Nat /\ y \in Nat
    OBVIOUS
  <2>2. ~(y < x)
    BY <1>2, <1>3, <2>1
  <2> QED BY <2>1, <2>2
<1> QED BY <1>4

(* Induction on the naturals: the property is a set.                       *)
LEMMA InductionOnNat ==
  ASSUME NEW S, 0 \in S, \A n \in Nat : n \in S => n + 1 \in S
  PROVE  Nat \subseteq S
<1>1. SUFFICES ASSUME Nat \ S # {} PROVE FALSE
  OBVIOUS
<1>2. PICK x \in Nat \ S : \A y \in Nat \ S : x <= y
  BY <1>1, LeastElement
<1>3. x # 0 /\ x - 1 \in Nat
  BY <1>2
<1>4. x - 1 \in S
  BY <1>2, <1>3
<1> QED BY <1>2, <1>3, <1>4

(* Min of a set of naturals is its least element.                          *)
LEMMA MinOfNat ==
  ASSUME NEW T, T \subseteq Nat, T # {}
  PROVE  Min(T) \in T /\ \A y \in T : Min(T) <= y
<1>1. PICK x \in T : \A y \in T : x <= y
  BY LeastElement
<1> QED BY <1>1 DEF Min

(* Max of a pair of integers.                                              *)
LEMMA MaxOfPair ==
  ASSUME NEW a \in Int, NEW b \in Int
  PROVE  Max({a, b}) = IF a >= b THEN a ELSE b
<1> DEFINE m == IF a >= b THEN a ELSE b
<1>1. m \in {a, b} /\ \A y \in {a, b} : m >= y
  OBVIOUS
<1>2. \A x \in {a, b} : (\A y \in {a, b} : x >= y) => x = m
  OBVIOUS
<1> HIDE DEF m
<1>3. Max({a, b}) \in {a, b} /\ \A y \in {a, b} : Max({a, b}) >= y
  BY <1>1 DEF Max
<1>4. Max({a, b}) = m
  BY <1>2, <1>3
<1> QED BY <1>4 DEF m

(* Odd and even alternate.                                                 *)
LEMMA Parity ==
  ASSUME NEW n \in Nat
  PROVE  (n + 1) % 2 = 1 <=> n % 2 # 1
OBVIOUS

(* Max of a bounded set of naturals is its greatest element.               *)
LEMMA MaxOfBounded ==
  ASSUME NEW n \in Nat, NEW T, T \subseteq 0 .. n, T # {}
  PROVE  Max(T) \in T /\ \A y \in T : y <= Max(T)
<1> DEFINE U == {n - y : y \in T}
<1>0. \A y \in T : y \in Int /\ 0 <= y /\ y <= n /\ n - y \in Nat
  OBVIOUS
<1>1. PICK x \in U : \A y \in U : x <= y
  <2>1. U \subseteq Nat /\ U # {}
    BY <1>0
  <2> HIDE DEF U
  <2> QED BY <2>1, LeastElement
<1>2. PICK z \in T : x = n - z
  BY <1>1
<1>3. \A y \in T : z >= y
  <2> TAKE y \in T
  <2>1. n - z <= n - y
    BY <1>1, <1>2
  <2> QED BY <1>0, <2>1
<1> QED BY <1>0, <1>3 DEF Max

(* Appending adds one member.                                              *)
LEMMA AppendMembers ==
  ASSUME NEW S, NEW seq \in Seq(S), NEW e \in S
  PROVE  /\ Append(seq, e) \in Seq(S) /\ Len(Append(seq, e)) = Len(seq) + 1
         /\ DOMAIN Append(seq, e) = 1 .. Len(seq) + 1
         /\ \A i \in 1 .. Len(seq) : Append(seq, e)[i] = seq[i]
         /\ Append(seq, e)[Len(seq) + 1] = e
         /\ ToSet(Append(seq, e)) = ToSet(seq) \cup {e}
<1> DEFINE new == Append(seq, e)
<1>1. /\ new \in Seq(S) /\ Len(new) = Len(seq) + 1
      /\ DOMAIN new = 1 .. Len(seq) + 1 /\ DOMAIN seq = 1 .. Len(seq)
      /\ \A i \in 1 .. Len(seq) : new[i] = seq[i]
      /\ new[Len(seq) + 1] = e
  OBVIOUS
<1> HIDE DEF new
<1>2. 1 .. Len(seq) + 1 = 1 .. Len(seq) \cup {Len(seq) + 1}
  OBVIOUS
<1>3. ToSet(new) = ToSet(seq) \cup {e}
  BY <1>1, <1>2 DEF ToSet
<1> QED BY <1>1, <1>3 DEF new

(* A sequence without repetition is as long as it has members.             *)
LEMMA InjectiveLength ==
  ASSUME NEW S, NEW seq \in Seq(S), IsInjective(seq)
  PROVE  IsFiniteSet(ToSet(seq)) /\ Cardinality(ToSet(seq)) = Len(seq)
<1>1. Len(seq) \in Nat /\ DOMAIN seq = 1 .. Len(seq)
  OBVIOUS
<1>2. IsFiniteSet(1 .. Len(seq)) /\ Cardinality(1 .. Len(seq)) = Len(seq)
  BY <1>1, FS_Interval, SMTT(30)
<1>3. seq \in [1 .. Len(seq) -> ToSet(seq)] /\ \A x \in ToSet(seq) : \E i \in 1 .. Len(seq) : seq[i] = x
  BY <1>1 DEF ToSet
<1>4. seq \in Surjection(1 .. Len(seq), ToSet(seq)) /\ seq \in Injection(1 .. Len(seq), ToSet(seq))
  BY <1>1, <1>3 DEF Surjection, Injection, IsInjective
<1> QED BY <1>2, <1>4, FS_Surjection

(* Concatenating one element, or none.                                     *)
LEMMA ConcatenateOneOrNone ==
  ASSUME NEW S, NEW seq \in Seq(S), NEW e \in S
  PROVE  seq \o <<e>> = Append(seq, e) /\ seq \o <<>> = seq
OBVIOUS

(* What is appended where it was not yet repeats nothing.                  *)
LEMMA AppendRepeatsNothing ==
  ASSUME NEW S, NEW seq \in Seq(S), NEW e \in S, IsInjective(seq), e \notin ToSet(seq)
  PROVE  IsInjective(Append(seq, e))
<1>1. \A i \in 1 .. Len(seq) : seq[i] # e
  BY DEF ToSet
<1>2. \A i, j \in 1 .. Len(seq) : seq[i] = seq[j] => i = j
  BY DEF IsInjective
<1> QED BY <1>1, <1>2 DEF IsInjective

(* Taking one place out repeats nothing and brings nothing new.            *)
LEMMA RemovedPlace ==
  ASSUME NEW S, NEW seq \in Seq(S), IsInjective(seq), NEW i \in DOMAIN seq
  PROVE  RemoveAt(seq, i) \in Seq(S) /\ IsInjective(RemoveAt(seq, i))
<1> DEFINE a == SubSeq(seq, 1, i - 1)
           b == SubSeq(seq, i + 1, Len(seq))
           new == a \o b
<1>0. Len(seq) \in Nat /\ DOMAIN seq = 1 .. Len(seq) /\ i \in 1 .. Len(seq)
  OBVIOUS
<1>1. a \in Seq(S) /\ Len(a) = i - 1 /\ \A k \in 1 .. i - 1 : a[k] = seq[k]
  BY <1>0
<1>2. b \in Seq(S) /\ Len(b) = Len(seq) - i /\ \A k \in 1 .. Len(seq) - i : b[k] = seq[k + i]
  BY <1>0
<1> HIDE DEF a, b
<1>3. new \in Seq(S) /\ DOMAIN new = 1 .. Len(seq) - 1
  <2>0. a \in Seq(S) /\ b \in Seq(S)
    BY <1>1, <1>2
  <2>1. new \in Seq(S) /\ Len(new) = Len(a) + Len(b)
    BY <2>0
  <2>2. Len(new) = Len(seq) - 1
    BY <1>0, <1>1, <1>2, <2>1
  <2> HIDE DEF new
  <2> QED BY <2>1, <2>2
<1>4. \A k \in 1 .. Len(seq) - 1 : new[k] = IF k < i THEN seq[k] ELSE seq[k + 1]
  <2> SUFFICES ASSUME NEW k \in 1 .. Len(seq) - 1 PROVE new[k] = IF k < i THEN seq[k] ELSE seq[k + 1]
    OBVIOUS
  <2>1. CASE k < i
    BY <1>0, <1>1, <1>2, <2>1
  <2>2. CASE ~(k < i)
    <3>1. k - (i - 1) \in 1 .. Len(seq) - i /\ (k - (i - 1)) + i = k + 1
      BY <1>0, <2>2
    <3>2. new[k] = b[k - (i - 1)]
      BY <1>0, <1>1, <1>2, <2>2
    <3> QED BY <1>2, <2>2, <3>1, <3>2
  <2> QED BY <2>1, <2>2
<1> HIDE DEF new
<1>5. ASSUME NEW k \in 1 .. Len(seq) - 1, NEW l \in 1 .. Len(seq) - 1, new[k] = new[l]
      PROVE  k = l
  <2> DEFINE from(m) == IF m < i THEN m ELSE m + 1
  <2>1. from(k) \in 1 .. Len(seq) /\ from(l) \in 1 .. Len(seq) /\ (from(k) = from(l) => k = l)
    BY <1>0
  <2>2. new[k] = seq[from(k)] /\ new[l] = seq[from(l)]
    BY <1>4
  <2> HIDE DEF from
  <2>3. from(k) = from(l)
    BY <1>0, <1>5, <2>1, <2>2 DEF IsInjective
  <2> QED BY <2>1, <2>3
<1>6. IsInjective(new)
  BY <1>3, <1>5 DEF IsInjective
<1> QED BY <1>3, <1>6 DEF RemoveAt, new, a, b
----------------------------------------------------------------------------
(* The sum of a weight over the beginning of a sequence: its members, once *)
(* for each unit of their weight.                                          *)
Units(w, seq, n) == UNION {{i} \X (1 .. w[seq[i]]) : i \in 1 .. n}
Weigh(w, seq, n) == Cardinality(Units(w, seq, n))
Total(w, seq) == Weigh(w, seq, Len(seq))

(* One element more adds its weight.                                       *)
LEMMA UnitsStep ==
  ASSUME NEW S, NEW w \in [S -> Nat], NEW seq \in Seq(S), NEW n \in 0 .. Len(seq), n + 1 \in 1 .. Len(seq),
         IsFiniteSet(Units(w, seq, n))
  PROVE  IsFiniteSet(Units(w, seq, n + 1)) /\ Weigh(w, seq, n + 1) = Weigh(w, seq, n) + w[seq[n + 1]]
<1> DEFINE k == w[seq[n + 1]]
           new == {n + 1} \X (1 .. k)
           old == Units(w, seq, n)
<1>0. IsFiniteSet(old)
  OBVIOUS
<1>1. k \in Nat /\ n \in Nat
  OBVIOUS
<1>2. 1 .. n + 1 = 1 .. n \cup {n + 1}
  BY <1>1
<1>3. Units(w, seq, n + 1) = old \cup new
  BY <1>2 DEF Units
<1>4. old \cap new = {}
  BY <1>1 DEF Units
<1> HIDE DEF k
<1>5. IsFiniteSet(1 .. k) /\ Cardinality(1 .. k) = k
  <2>1. 1 \in Int /\ k \in Int
    BY <1>1
  <2>2. IsFiniteSet(1 .. k) /\ Cardinality(1 .. k) = IF 1 > k THEN 0 ELSE k - 1 + 1
    BY <2>1, FS_Interval
  <2> QED BY <1>1, <2>2
<1>6. IsFiniteSet({n + 1}) /\ Cardinality({n + 1}) = 1
  BY FS_Singleton
<1>7. IsFiniteSet(new) /\ Cardinality(new) = k
  <2>1. IsFiniteSet(new) /\ Cardinality(new) = Cardinality({n + 1}) * Cardinality(1 .. k)
    BY <1>5, <1>6, FS_Product
  <2> HIDE DEF new
  <2>2. 1 * k = k
    BY <1>1
  <2> QED BY <1>5, <1>6, <2>1, <2>2
<1>8. IsFiniteSet({}) /\ Cardinality({}) = 0
  BY FS_EmptySet
<1> HIDE DEF new, old
<1>9. IsFiniteSet(old \cup new)
      /\ Cardinality(old \cup new) = Cardinality(old) + Cardinality(new) - Cardinality(old \cap new)
  BY <1>0, <1>7, FS_Union
<1>10. Cardinality(old) \in Nat
  BY <1>0, FS_CardinalityType
<1>11. Cardinality(old \cap new) = 0
  BY <1>4, <1>8
<1>12. Cardinality(old \cup new) = Cardinality(old) + k
  BY <1>1, <1>7, <1>9, <1>10, <1>11
<1> QED BY <1>3, <1>9, <1>12 DEF Weigh, k, old

(* So the sums are naturals that begin at 0 and rise by the weights.       *)
LEMMA WeighSteps ==
  ASSUME NEW S, NEW w \in [S -> Nat], NEW seq \in Seq(S)
  PROVE  /\ Weigh(w, seq, 0) = 0
         /\ \A n \in 0 .. Len(seq) : IsFiniteSet(Units(w, seq, n)) /\ Weigh(w, seq, n) \in Nat
         /\ \A n \in 0 .. Len(seq) : n + 1 \in 1 .. Len(seq) =>
              Weigh(w, seq, n + 1) = Weigh(w, seq, n) + w[seq[n + 1]]
<1> DEFINE T == {n \in Nat : n \in 0 .. Len(seq) => IsFiniteSet(Units(w, seq, n))}
<1>1. Len(seq) \in Nat
  OBVIOUS
<1>2. Units(w, seq, 0) = {}
  BY DEF Units
<1>3. 0 \in T
  BY <1>2, FS_EmptySet
<1>4. \A n \in Nat : n \in T => n + 1 \in T
  <2> SUFFICES ASSUME NEW n \in Nat, n \in T, n + 1 \in 0 .. Len(seq) PROVE IsFiniteSet(Units(w, seq, n + 1))
    OBVIOUS
  <2>1. n \in 0 .. Len(seq) /\ n + 1 \in 1 .. Len(seq)
    BY <1>1
  <2> QED BY <2>1, UnitsStep
<1> HIDE DEF T
<1>5. Nat \subseteq T
  BY <1>3, <1>4, InductionOnNat
<1>6. \A n \in 0 .. Len(seq) : IsFiniteSet(Units(w, seq, n))
  BY <1>1, <1>5 DEF T
<1>7. \A n \in 0 .. Len(seq) : Weigh(w, seq, n) \in Nat
  BY <1>6, FS_CardinalityType DEF Weigh
<1>8. Weigh(w, seq, 0) = 0
  BY <1>2, FS_EmptySet DEF Weigh
<1>9. ASSUME NEW n \in 0 .. Len(seq), n + 1 \in 1 .. Len(seq)
      PROVE  Weigh(w, seq, n + 1) = Weigh(w, seq, n) + w[seq[n + 1]]
  BY <1>6, <1>9, UnitsStep
<1> QED BY <1>6, <1>7, <1>8, <1>9

(* Only the beginning counts.                                              *)
LEMMA WeighPrefix ==
  ASSUME NEW w, NEW a, NEW b, NEW n, \A i \in 1 .. n : a[i] = b[i]
  PROVE  Weigh(w, a, n) = Weigh(w, b, n)
<1>1. Units(w, a, n) = Units(w, b, n)
  BY DEF Units
<1> QED BY <1>1 DEF Weigh

(* A longer beginning weighs no less.                                      *)
LEMMA WeighRises ==
  ASSUME NEW S, NEW w \in [S -> Nat], NEW seq \in Seq(S), NEW n \in 0 .. Len(seq), NEW m \in 0 .. n
  PROVE  Weigh(w, seq, m) <= Weigh(w, seq, n)
<1>1. Units(w, seq, m) \subseteq Units(w, seq, n)
  BY DEF Units
<1>2. IsFiniteSet(Units(w, seq, n))
  BY WeighSteps
<1> QED BY <1>1, <1>2, FS_Subset DEF Weigh

(* Concatenation adds.                                                     *)
LEMMA WeighConcat ==
  ASSUME NEW S, NEW w \in [S -> Nat], NEW a \in Seq(S), NEW b \in Seq(S)
  PROVE  /\ \A n \in 0 .. Len(a) : Weigh(w, a \o b, n) = Weigh(w, a, n)
         /\ \A m \in Len(a) .. Len(a \o b) : Weigh(w, a \o b, m) = Total(w, a) + Weigh(w, b, m - Len(a))
         /\ Total(w, a \o b) = Total(w, a) + Total(w, b)
<1> DEFINE c == a \o b
           T == {n \in Nat : n \in 0 .. Len(b) => Weigh(w, c, Len(a) + n) = Total(w, a) + Weigh(w, b, n)}
<1>1. /\ c \in Seq(S) /\ Len(c) = Len(a) + Len(b) /\ Len(a) \in Nat /\ Len(b) \in Nat
      /\ \A i \in 1 .. Len(a) : c[i] = a[i]
      /\ \A i \in 1 .. Len(b) : c[Len(a) + i] = b[i]
  OBVIOUS
<1> HIDE DEF c
<1>2. ASSUME NEW n \in 0 .. Len(a) PROVE Weigh(w, c, n) = Weigh(w, a, n)
  <2>1. \A i \in 1 .. n : c[i] = a[i]
    BY <1>1
  <2> QED BY <2>1, WeighPrefix
<1>a. /\ \A n \in 0 .. Len(a) : Weigh(w, a, n) \in Nat
      /\ Weigh(w, b, 0) = 0 /\ \A n \in 0 .. Len(b) : Weigh(w, b, n) \in Nat
  BY WeighSteps
<1>b. \A n \in 0 .. Len(b) : n + 1 \in 1 .. Len(b) => Weigh(w, b, n + 1) = Weigh(w, b, n) + w[b[n + 1]]
  BY WeighSteps
<1>c. \A n \in 0 .. Len(c) : n + 1 \in 1 .. Len(c) => Weigh(w, c, n + 1) = Weigh(w, c, n) + w[c[n + 1]]
  <2>1. c \in Seq(S)
    BY <1>1
  <2> QED BY <2>1, WeighSteps
<1>3. Weigh(w, c, Len(a)) = Total(w, a) /\ Total(w, a) \in Nat
  <2>1. Len(a) \in 0 .. Len(a)
    BY <1>1
  <2> QED BY <2>1, <1>2, <1>a DEF Total
<1>4. 0 \in T
  BY <1>1, <1>3, <1>a
<1>5. \A n \in Nat : n \in T => n + 1 \in T
  <2> SUFFICES ASSUME NEW n \in Nat, n \in T, n + 1 \in 0 .. Len(b)
               PROVE  Weigh(w, c, Len(a) + (n + 1)) = Total(w, a) + Weigh(w, b, n + 1)
    OBVIOUS
  <2>1. n \in 0 .. Len(b) /\ n + 1 \in 1 .. Len(b)
    BY <1>1
  <2>2. Weigh(w, b, n + 1) = Weigh(w, b, n) + w[b[n + 1]] /\ Weigh(w, b, n) \in Nat /\ w[b[n + 1]] \in Nat
    <3>1. b[n + 1] \in S
      BY <2>1
    <3> HIDE DEF T
    <3> QED BY <1>a, <1>b, <2>1, <3>1
  <2>3. Len(a) + n \in 0 .. Len(c) /\ (Len(a) + n) + 1 \in 1 .. Len(c) /\ (Len(a) + n) + 1 = Len(a) + (n + 1)
    BY <1>1, <2>1, SMTT(30)
  <2>4. Weigh(w, c, Len(a) + (n + 1)) = Weigh(w, c, Len(a) + n) + w[c[Len(a) + (n + 1)]]
    BY <1>c, <2>3
  <2>5. c[Len(a) + (n + 1)] = b[n + 1]
    BY <1>1, <2>1
  <2>6. Weigh(w, c, Len(a) + n) = Total(w, a) + Weigh(w, b, n)
    BY <2>1
  <2> HIDE DEF T
  <2> QED BY <1>3, <2>2, <2>4, <2>5, <2>6
<1> HIDE DEF T
<1>6. Nat \subseteq T
  BY <1>4, <1>5, InductionOnNat
<1>7. \A n \in 0 .. Len(b) : Weigh(w, c, Len(a) + n) = Total(w, a) + Weigh(w, b, n)
  BY <1>1, <1>6 DEF T
<1>8. Total(w, c) = Total(w, a) + Total(w, b)
  BY <1>1, <1>7 DEF Total
<1>9. ASSUME NEW m \in Len(a) .. Len(c)
      PROVE  Weigh(w, c, m) = Total(w, a) + Weigh(w, b, m - Len(a))
  <2>1. m - Len(a) \in 0 .. Len(b) /\ Len(a) + (m - Len(a)) = m
    BY <1>1
  <2> QED BY <1>7, <2>1
<1> QED BY <1>2, <1>8, <1>9 DEF c

(* What one element, and none, weigh.                                      *)
LEMMA WeighOne ==
  ASSUME NEW S, NEW w \in [S -> Nat], NEW e \in S
  PROVE  Total(w, <<>>) = 0 /\ Total(w, <<e>>) = w[e]
<1>1. <<>> \in Seq(S) /\ Len(<<>>) = 0 /\ <<e>> \in Seq(S) /\ Len(<<e>>) = 1 /\ <<e>>[1] = e
  OBVIOUS
<1> DEFINE one == <<e>>
<1> HIDE DEF one
<1>2. one \in Seq(S) /\ Len(one) = 1 /\ one[1] = e
  BY <1>1 DEF one
<1>3. Weigh(w, <<>>, 0) = 0 /\ Weigh(w, one, 0) = 0
  BY <1>1, <1>2, WeighSteps
<1>4. \A n \in 0 .. Len(one) : n + 1 \in 1 .. Len(one) => Weigh(w, one, n + 1) = Weigh(w, one, n) + w[one[n + 1]]
  BY <1>2, WeighSteps
<1>5. w[e] \in Nat
  OBVIOUS
<1>6. Weigh(w, one, 0 + 1) = Weigh(w, one, 0) + w[one[0 + 1]]
  BY <1>2, <1>4
<1>7. Total(w, one) = w[e]
  BY <1>2, <1>3, <1>5, <1>6 DEF Total
<1> QED BY <1>1, <1>3, <1>7 DEF Total, one

(* Two elements that weigh something weigh two together.                   *)
LEMMA TwoWeighTwo ==
  ASSUME NEW S, NEW w \in [S -> Nat], NEW seq \in Seq(S), Total(w, seq) <= 1,
         NEW i \in 1 .. Len(seq), NEW j \in 1 .. Len(seq), w[seq[i]] = 1, w[seq[j]] = 1
  PROVE  i = j
<1> SUFFICES ASSUME i # j PROVE FALSE
  OBVIOUS
<1> DEFINE two == {<<i, 1>>, <<j, 1>>}
<1>1. two \subseteq Units(w, seq, Len(seq))
  BY DEF Units
<1>2. Len(seq) \in 0 .. Len(seq)
  OBVIOUS
<1>3. IsFiniteSet(Units(w, seq, Len(seq))) /\ Total(w, seq) \in Nat
  BY <1>2, WeighSteps DEF Total
<1>4. IsFiniteSet({<<i, 1>>}) /\ Cardinality({<<i, 1>>}) = 1
  BY FS_Singleton
<1>5. <<j, 1>> \notin {<<i, 1>>}
  OBVIOUS
<1>6. two = {<<i, 1>>} \cup {<<j, 1>>}
  OBVIOUS
<1>7. Cardinality(two) = 2
  <2>1. Cardinality({<<i, 1>>} \cup {<<j, 1>>}) = Cardinality({<<i, 1>>}) + 1
    BY <1>4, <1>5, FS_AddElement
  <2> QED BY <1>4, <1>6, <2>1
<1> HIDE DEF two
<1>8. Cardinality(two) <= Cardinality(Units(w, seq, Len(seq)))
  BY <1>1, <1>3, FS_Subset
<1> QED BY <1>3, <1>7, <1>8 DEF Total, Weigh

(* A recursion up to a bound defines a function: the step is one as well.  *)
Recursion(g, N, V, first, step) ==
  g \in [0 .. N -> V] /\ g[0] = first /\ \A n \in 1 .. N : g[n] = step[n][g[n - 1]]

LEMMA RecursionUpTo ==
  ASSUME NEW N \in Nat, NEW V, NEW first \in V, NEW step \in [1 .. N -> [V -> V]]
  PROVE  \E g : Recursion(g, N, V, first, step)
<1> DEFINE Good(n, g) == g[0] = first /\ \A i \in 1 .. n : g[i] = step[i][g[i - 1]]
           S == {n \in Nat : n <= N => \E g \in [0 .. n -> V] : Good(n, g)}
<1>1. 0 \in S
  <2>1. [i \in 0 .. 0 |-> first] \in [0 .. 0 -> V] /\ Good(0, [i \in 0 .. 0 |-> first])
    OBVIOUS
  <2> QED BY <2>1
<1>2. ASSUME NEW n \in Nat, n \in S PROVE n + 1 \in S
  <2> SUFFICES ASSUME n + 1 <= N PROVE \E g \in [0 .. n + 1 -> V] : Good(n + 1, g)
    OBVIOUS
  <2>1. PICK g \in [0 .. n -> V] : Good(n, g)
    BY <1>2
  <2> DEFINE h == [i \in 0 .. n + 1 |-> IF i <= n THEN g[i] ELSE step[n + 1][g[n]]]
  <2>2. step[n + 1][g[n]] \in V
    BY <2>1
  <2>3. h \in [0 .. n + 1 -> V]
    BY <2>1, <2>2
  <2>4. h[0] = first
    BY <2>1
  <2>5. ASSUME NEW i \in 1 .. n + 1 PROVE h[i] = step[i][h[i - 1]]
    <3>1. CASE i <= n
      BY <2>1, <3>1
    <3>2. CASE i = n + 1
      BY <3>2
    <3> QED BY <3>1, <3>2
  <2> QED BY <2>3, <2>4, <2>5
<1> HIDE DEF S
<1>3. N \in S
  BY <1>1, <1>2, InductionOnNat
<1>4. PICK g \in [0 .. N -> V] : Good(N, g)
  BY <1>3 DEF S
<1> QED BY <1>4 DEF Recursion

(* A function on 1 .. n is a sequence of n.                                *)
LEMMA FunctionIsSequence ==
  ASSUME NEW n \in Nat, NEW T, NEW f \in [1 .. n -> T]
  PROVE  f \in Seq(T) /\ Len(f) = n
OBVIOUS

(* Places by rank: with R a strict order of all of a finite set, the       *)
(* member that n - 1 others precede is at place n.                         *)
Rank(R, S, i) == Cardinality({j \in S : <<j, i>> \in R})
Ranked(R, S) == [n \in 1 .. Cardinality(S) |-> CHOOSE i \in S : Rank(R, S, i) = n - 1]

LEMMA RankedIsSorted ==
  ASSUME NEW S, IsFiniteSet(S), NEW R,
         \A i \in S : <<i, i>> \notin R,
         \A i, j \in S : i # j => <<i, j>> \in R \/ <<j, i>> \in R,
         \A i, j, k \in S : <<i, j>> \in R /\ <<j, k>> \in R => <<i, k>> \in R
  PROVE  /\ Ranked(R, S) \in Seq(S) /\ DOMAIN Ranked(R, S) = 1 .. Cardinality(S)
         /\ ToSet(Ranked(R, S)) = S
         /\ \A m, n \in DOMAIN Ranked(R, S) : m < n => <<Ranked(R, S)[m], Ranked(R, S)[n]>> \in R
<1> DEFINE N == Cardinality(S)
           before(i) == {j \in S : <<j, i>> \in R}
           s == Ranked(R, S)
<1>1. \A i \in S : IsFiniteSet(before(i)) /\ before(i) \subseteq S /\ i \notin before(i)
  BY FS_Subset
<1>2. \A i \in S : Rank(R, S, i) = Cardinality(before(i)) /\ Rank(R, S, i) \in 0 .. N - 1 /\ N \in Nat
  <2> TAKE i \in S
  <2>1. before(i) \subseteq S \ {i} /\ IsFiniteSet(S \ {i})
    BY <1>1, FS_Subset
  <2>2. Cardinality(S \ {i}) = N - 1
    BY FS_RemoveElement
  <2>3. Cardinality(before(i)) <= N - 1 /\ Cardinality(before(i)) \in Nat
    <3> HIDE DEF before
    <3> QED BY <1>1, <2>1, <2>2, FS_Subset, FS_CardinalityType
  <2>4. N \in Nat
    BY FS_CardinalityType
  <2> QED BY <2>3, <2>4 DEF Rank
<1>3. ASSUME NEW i \in S, NEW j \in S, <<i, j>> \in R
      PROVE  Rank(R, S, i) < Rank(R, S, j)
  <2>1. before(i) \cup {i} \subseteq before(j)
    BY <1>3
  <2>2. Cardinality(before(i) \cup {i}) = Cardinality(before(i)) + 1
    <3> HIDE DEF before
    <3> QED BY <1>1, FS_AddElement
  <2>3. Cardinality(before(i) \cup {i}) <= Cardinality(before(j))
    <3> HIDE DEF before
    <3> QED BY <1>1, <2>1, FS_Subset
  <2> HIDE DEF before
  <2> QED BY <1>2, <2>2, <2>3
<1>4. \A i, j \in S : Rank(R, S, i) = Rank(R, S, j) => i = j
  <2> SUFFICES ASSUME NEW i \in S, NEW j \in S, Rank(R, S, i) = Rank(R, S, j), i # j PROVE FALSE
    OBVIOUS
  <2>1. Rank(R, S, i) < Rank(R, S, j) \/ Rank(R, S, j) < Rank(R, S, i)
    BY <1>3
  <2>2. Rank(R, S, i) \in Int /\ Rank(R, S, j) \in Int
    <3> HIDE DEF before, N
    <3>1. \A k \in S : Rank(R, S, k) \in 0 .. N - 1
      BY <1>2
    <3> QED BY <3>1
  <2> HIDE DEF before
  <2> QED BY <2>1, <2>2
<1>5. \A n \in 1 .. N : \E i \in S : Rank(R, S, i) = n - 1
  <2> HIDE DEF before
  <2>0. \A i \in S : Rank(R, S, i) \in 0 .. N - 1
    BY <1>2
  <2> DEFINE place == [i \in S |-> Rank(R, S, i) + 1]
  <2>1. N \in Nat /\ IsFiniteSet(1 .. N) /\ Cardinality(1 .. N) = N
    <3>1. N \in Nat
      BY FS_CardinalityType
    <3> QED BY <3>1, FS_Interval
  <2>2. place \in [S -> 1 .. N]
    <3>1. \A i \in S : Rank(R, S, i) + 1 \in 1 .. N
      BY <2>0, <2>1
    <3> QED BY <3>1
  <2>3. \A i, j \in S : place[i] = place[j] => i = j
    <3> SUFFICES ASSUME NEW i \in S, NEW j \in S, place[i] = place[j] PROVE i = j
      OBVIOUS
    <3>1. Rank(R, S, i) \in Int /\ Rank(R, S, j) \in Int
      BY <2>0, <2>1
    <3>2. Rank(R, S, i) + 1 = Rank(R, S, j) + 1
      OBVIOUS
    <3> QED BY <1>4, <3>1, <3>2
  <2>4. place \in Injection(S, 1 .. N)
    BY <2>2, <2>3 DEF Injection, IsInjective
  <2> HIDE DEF place
  <2>5. place \in Surjection(S, 1 .. N)
    BY <2>1, <2>4, FS_Surjection, FS_Injection
  <2>6. \A n \in 1 .. N : \E i \in S : place[i] = n
    BY <2>5 DEF Surjection
  <2> SUFFICES ASSUME NEW n \in 1 .. N PROVE \E i \in S : Rank(R, S, i) = n - 1
    OBVIOUS
  <2>7. PICK i \in S : place[i] = n
    BY <2>6
  <2>8. Rank(R, S, i) + 1 = n /\ Rank(R, S, i) \in Int
    BY <2>0, <2>1, <2>7 DEF place
  <2> QED BY <2>1, <2>8
<1>6. s = [n \in 1 .. N |-> CHOOSE i \in S : Rank(R, S, i) = n - 1]
  BY DEF Ranked
<1> HIDE DEF s, before
<1>7. \A n \in 1 .. N : s[n] \in S /\ Rank(R, S, s[n]) = n - 1
  BY <1>5, <1>6
<1>8. N \in Nat /\ DOMAIN s = 1 .. N /\ s \in Seq(S)
  <2>1. N \in Nat
    BY FS_CardinalityType
  <2>2. s \in [1 .. N -> S]
    BY <1>6, <1>7
  <2> HIDE DEF N
  <2> QED BY <2>1, <2>2
<1>9. \A i \in S : \E n \in 1 .. N : s[n] = i
  <2> TAKE i \in S
  <2>1. Rank(R, S, i) + 1 \in 1 .. N
    BY <1>2
  <2>2. Rank(R, S, s[Rank(R, S, i) + 1]) = Rank(R, S, i) /\ s[Rank(R, S, i) + 1] \in S
    BY <1>2, <1>7, <2>1
  <2> QED BY <1>4, <2>1, <2>2
<1>10. \A m, n \in 1 .. N : m < n => <<s[m], s[n]>> \in R
  <2> SUFFICES ASSUME NEW m \in 1 .. N, NEW n \in 1 .. N, m < n PROVE <<s[m], s[n]>> \in R
    OBVIOUS
  <2>1. s[m] # s[n]
    BY <1>7, <1>8
  <2>2. ~(Rank(R, S, s[n]) < Rank(R, S, s[m]))
    BY <1>7, <1>8
  <2> QED BY <1>3, <1>7, <2>1, <2>2
<1>11. ToSet(s) = S
  <2>1. ToSet(s) = {s[n] : n \in 1 .. N}
    BY <1>8 DEF ToSet
  <2> HIDE DEF N
  <2> QED BY <1>7, <1>9, <2>1
<1> QED BY <1>8, <1>10, <1>11 DEF s

(* Flattening concatenates one by one.                                     *)
LEMMA FlattenSteps ==
  ASSUME NEW S, NEW seqs \in Seq(Seq(S)), Len(seqs) # 0
  PROVE  \E flat : /\ flat[0] = <<>>
                   /\ \A i \in 1 .. Len(seqs) : flat[i] = flat[i - 1] \o seqs[i]
                   /\ FlattenSeq(seqs) = flat[Len(seqs)]
<1> DEFINE N == Len(seqs)
           step == [n \in 1 .. N |-> [c \in Seq(S) |-> c \o seqs[n]]]
           IsFlat(f) == f = [i \in 1 .. N |-> IF i = 1 THEN seqs[i] ELSE f[i - 1] \o seqs[i]]
           flatten == CHOOSE f : IsFlat(f)
<1>1. N \in Nat \ {0} /\ \A n \in 1 .. N : seqs[n] \in Seq(S)
  OBVIOUS
<1>2. <<>> \in Seq(S) /\ \A n \in 1 .. N, c \in Seq(S) : c \o seqs[n] \in Seq(S)
  BY <1>1
<1>3. step \in [1 .. N -> [Seq(S) -> Seq(S)]] /\ \A n \in 1 .. N, c \in Seq(S) : step[n][c] = c \o seqs[n]
  <2> HIDE DEF N
  <2> QED BY <1>2
<1> HIDE DEF step, N
<1>4. PICK g : Recursion(g, N, Seq(S), <<>>, step)
  BY <1>1, <1>2, <1>3, RecursionUpTo
<1>5. g[0] = <<>> /\ \A n \in 1 .. N : g[n] = g[n - 1] \o seqs[n]
  <2>1. g \in [0 .. N -> Seq(S)] /\ g[0] = <<>> /\ \A n \in 1 .. N : g[n] = step[n][g[n - 1]]
    BY <1>4 DEF Recursion
  <2>2. ASSUME NEW n \in 1 .. N PROVE g[n] = g[n - 1] \o seqs[n]
    <3>1. n - 1 \in 0 .. N
      BY <1>1
    <3>2. g[n - 1] \in Seq(S)
      BY <2>1, <3>1
    <3> QED BY <1>3, <2>1, <3>2
  <2> QED BY <2>1, <2>2
<1>6. g[1] = seqs[1]
  <2>0. 1 \in 1 .. N /\ 1 - 1 = 0
    BY <1>1
  <2>1. g[1] = <<>> \o seqs[1] /\ seqs[1] \in Seq(S)
    BY <1>1, <1>5, <2>0
  <2> QED BY <2>1
<1>7. FlattenSeq(seqs) = flatten[N]
  BY DEF FlattenSeq, N
<1> HIDE DEF flatten
<1>8. IsFlat(flatten)
  <2> DEFINE h == [n \in 1 .. N |-> g[n]]
  <2>1. ASSUME NEW n \in 1 .. N PROVE h[n] = IF n = 1 THEN seqs[n] ELSE h[n - 1] \o seqs[n]
    <3>1. CASE n = 1
      BY <1>6, <3>1
    <3>2. CASE n # 1
      <4>1. n - 1 \in 1 .. N
        BY <1>1, <3>2
      <4>2. h[n - 1] = g[n - 1] /\ h[n] = g[n - 1] \o seqs[n]
        BY <1>5, <4>1
      <4> QED BY <3>2, <4>2
    <3> QED BY <3>1, <3>2
  <2>2. IsFlat(h)
    BY <2>1
  <2> HIDE DEF h, IsFlat
  <2> QED BY <2>2 DEF flatten
<1>9. \A n \in 1 .. N : flatten[n] = IF n = 1 THEN seqs[n] ELSE flatten[n - 1] \o seqs[n]
  BY <1>8
<1> DEFINE flat == [n \in 0 .. N |-> IF n = 0 THEN <<>> ELSE flatten[n]]
<1>10. flat[0] = <<>> /\ flat[N] = flatten[N]
  BY <1>1
<1>11. ASSUME NEW i \in 1 .. N PROVE flat[i] = flat[i - 1] \o seqs[i]
  <2>1. CASE i = 1
    <3>1. flat[i - 1] = <<>> /\ flat[i] = flatten[i] /\ seqs[i] \in Seq(S)
      BY <1>1, <2>1
    <3>2. flatten[i] = seqs[i]
      BY <1>9, <2>1
    <3> HIDE DEF flat
    <3> QED BY <3>1, <3>2
  <2>2. CASE i # 1
    <3>1. i - 1 \in 1 .. N /\ i - 1 # 0 /\ i # 0 /\ i \in 0 .. N /\ i - 1 \in 0 .. N
      BY <1>1, <2>2
    <3>2. flat[i - 1] = flatten[i - 1] /\ flat[i] = flatten[i]
      BY <3>1
    <3>3. flatten[i] = flatten[i - 1] \o seqs[i]
      BY <1>9, <2>2
    <3> QED BY <3>2, <3>3
  <2> QED BY <2>1, <2>2
<1> HIDE DEF flat
<1> QED BY <1>7, <1>10, <1>11 DEF N

(* Two neighbouring pieces put together are one.                           *)
LEMMA PiecesJoin ==
  ASSUME NEW S, NEW all \in Seq(S), NEW a \in Nat, NEW b \in Nat, a <= b, b <= Len(all)
  PROVE  SubSeq(all, 1, a) \o SubSeq(all, a + 1, b) = SubSeq(all, 1, b)
<1> DEFINE left == SubSeq(all, 1, a)
           right == SubSeq(all, a + 1, b)
           both == SubSeq(all, 1, b)
           joined == left \o right
<1>0. Len(all) \in Nat /\ \A i \in 1 .. Len(all) : all[i] \in S
  OBVIOUS
<1>1. left \in Seq(S) /\ Len(left) = a /\ \A i \in 1 .. a : left[i] = all[i]
  BY <1>0, SubSeqProperties
<1>2. right \in Seq(S) /\ Len(right) = b - a /\ \A i \in 1 .. b - a : right[i] = all[a + i]
  BY <1>0, SubSeqProperties
<1>3. both \in Seq(S) /\ Len(both) = b /\ \A i \in 1 .. b : both[i] = all[i]
  BY <1>0, SubSeqProperties
<1> HIDE DEF left, right, both
<1>4. /\ joined \in Seq(S) /\ Len(joined) = a + (b - a)
      /\ \A i \in 1 .. a + (b - a) : joined[i] = IF i <= a THEN left[i] ELSE right[i - a]
  BY <1>1, <1>2, ConcatProperties
<1> HIDE DEF joined
<1>5. a + (b - a) = b
  OBVIOUS
<1>6. ASSUME NEW i \in 1 .. b PROVE joined[i] = both[i]
  <2>1. CASE i <= a
    <3>1. i \in 1 .. a
      BY <2>1
    <3> QED BY <1>1, <1>3, <1>4, <1>5, <2>1, <3>1
  <2>2. CASE ~(i <= a)
    <3>1. i - a \in 1 .. b - a /\ a + (i - a) = i
      BY <2>2
    <3>2. right[i - a] = all[i]
      BY <1>2, <3>1
    <3> QED BY <1>3, <1>4, <1>5, <2>2, <3>2
  <2> QED BY <2>1, <2>2
<1>7. joined = both
  BY <1>3, <1>4, <1>5, <1>6
<1> QED BY <1>7 DEF joined, left, right, both

(* A sequence cut in pieces is the pieces put together.                    *)
LEMMA CutsFlatten ==
  ASSUME NEW S, NEW all \in Seq(S), NEW ends, ends[0] = 0,
         NEW pieces \in Seq(Seq(S)), Len(pieces) # 0, ends[Len(pieces)] = Len(all),
         \A p \in 0 .. Len(pieces) : ends[p] \in 0 .. Len(all),
         \A p \in 1 .. Len(pieces) : /\ ends[p - 1] <= ends[p]
                                     /\ pieces[p] = SubSeq(all, ends[p - 1] + 1, ends[p])
  PROVE  FlattenSeq(pieces) = all
<1> DEFINE last == Len(pieces)
           Until(p) == SubSeq(all, 1, ends[p])
           T(flat) == {p \in Nat : p <= last => flat[p] = Until(p)}
<1>1. last \in Nat \ {0} /\ Len(all) \in Nat
  OBVIOUS
<1>2. PICK flat : /\ flat[0] = <<>>
                  /\ \A i \in 1 .. last : flat[i] = flat[i - 1] \o pieces[i]
                  /\ FlattenSeq(pieces) = flat[last]
  BY FlattenSteps
<1>3. Until(0) = <<>>
  BY SubSeqEmpty
<1>4. Until(last) = all
  OBVIOUS
<1>5. ASSUME NEW p \in Nat, p + 1 <= last, flat[p] = Until(p)
      PROVE  flat[p + 1] = Until(p + 1)
  <2>1. p + 1 \in 1 .. last /\ (p + 1) - 1 = p /\ p \in 0 .. last /\ p + 1 \in 0 .. last
    BY <1>1, <1>5
  <2>2. ends[p] \in Nat /\ ends[p + 1] \in Nat /\ ends[p] <= ends[p + 1] /\ ends[p + 1] <= Len(all)
    <3>1. ends[p] \in 0 .. Len(all) /\ ends[p + 1] \in 0 .. Len(all) /\ ends[p] <= ends[p + 1]
      BY <2>1
    <3> QED BY <1>1, <3>1
  <2>3. pieces[p + 1] = SubSeq(all, ends[p] + 1, ends[p + 1])
    BY <2>1
  <2>4. flat[p + 1] = flat[p] \o pieces[p + 1]
    BY <1>2, <2>1
  <2>5. Until(p) \o SubSeq(all, ends[p] + 1, ends[p + 1]) = Until(p + 1)
    BY <2>2, PiecesJoin
  <2> HIDE DEF Until
  <2> QED BY <1>5, <2>3, <2>4, <2>5
<1> HIDE DEF Until, last
<1>6. 0 \in T(flat) /\ \A p \in Nat : p \in T(flat) => p + 1 \in T(flat)
  <2>1. ASSUME NEW p \in Nat, p \in T(flat) PROVE p + 1 \in T(flat)
    <3>1. p + 1 <= last => p <= last
      BY <1>1
    <3> QED BY <1>5, <2>1, <3>1
  <2> QED BY <1>2, <1>3, <2>1
<1>7. last \in T(flat)
  <2> HIDE DEF T
  <2>1. Nat \subseteq T(flat)
    BY <1>6, InductionOnNat
  <2> QED BY <1>1, <2>1
<1>8. flat[last] = Until(last)
  BY <1>1, <1>7
<1> QED BY <1>2, <1>4, <1>8

(* What is flattened first stays first.                                    *)
Flattens(flat, seqs) == flat[0] = <<>> /\ \A i \in 1 .. Len(seqs) : flat[i] = flat[i - 1] \o seqs[i]

Grown(S, flat, k, i) ==
  /\ flat[k] \in Seq(S) /\ flat[i] \in Seq(S) /\ Len(flat[i]) <= Len(flat[k])
  /\ \A p \in 1 .. Len(flat[i]) : flat[k][p] = flat[i][p]

LEMMA FlatGrows ==
  ASSUME NEW S, NEW seqs \in Seq(Seq(S)), NEW flat, Flattens(flat, seqs),
         NEW k \in 0 .. Len(seqs), NEW i \in 0 .. k
  PROVE  Grown(S, flat, k, i)
<1> DEFINE N == Len(seqs)
           Longer(n, m) == Len(flat[m]) <= Len(flat[n]) /\ \A p \in 1 .. Len(flat[m]) : flat[n][p] = flat[m][p]
           T == {n \in Nat : n <= N => \A m \in 0 .. n : flat[m] \in Seq(S) /\ Longer(n, m)}
<1>1. N \in Nat /\ \A n \in 1 .. N : seqs[n] \in Seq(S)
  OBVIOUS
<1>2. flat[0] = <<>> /\ \A n \in 1 .. N : flat[n] = flat[n - 1] \o seqs[n]
  BY DEF Flattens
<1> HIDE DEF N, Longer
<1>3. 0 \in T
  <2>1. flat[0] \in Seq(S) /\ \A m \in 0 .. 0 : m = 0
    BY <1>2
  <2>2. Longer(0, 0)
    BY <1>2 DEF Longer
  <2> QED BY <2>1, <2>2
<1>4. ASSUME NEW n \in Nat, n \in T PROVE n + 1 \in T
  <2> SUFFICES ASSUME n + 1 <= N PROVE \A m \in 0 .. n + 1 : flat[m] \in Seq(S) /\ Longer(n + 1, m)
    OBVIOUS
  <2>1. /\ flat[n] \in Seq(S) /\ \A m \in 0 .. n : flat[m] \in Seq(S) /\ Longer(n, m)
        /\ flat[n + 1] = flat[n] \o seqs[n + 1] /\ seqs[n + 1] \in Seq(S)
    <3>1. n + 1 \in 1 .. N /\ (n + 1) - 1 = n /\ n \in 0 .. n /\ n <= N
      BY <1>1
    <3>2. \A m \in 0 .. n : flat[m] \in Seq(S) /\ Longer(n, m)
      BY <1>4, <3>1
    <3> QED BY <1>1, <1>2, <3>1, <3>2
  <2>2. /\ flat[n + 1] \in Seq(S) /\ Len(flat[n]) <= Len(flat[n + 1])
        /\ \A p \in 1 .. Len(flat[n]) : flat[n + 1][p] = flat[n][p]
    <3> DEFINE a == flat[n]
               b == seqs[n + 1]
    <3>1. a \in Seq(S) /\ b \in Seq(S) /\ flat[n + 1] = a \o b
      BY <2>1
    <3> HIDE DEF a, b
    <3>2. /\ a \o b \in Seq(S) /\ Len(a \o b) = Len(a) + Len(b) /\ Len(a) \in Nat /\ Len(b) \in Nat
          /\ \A p \in 1 .. Len(a) + Len(b) : (a \o b)[p] = IF p <= Len(a) THEN a[p] ELSE b[p - Len(a)]
      BY <3>1, ConcatProperties
    <3>3. \A p \in 1 .. Len(a) : (a \o b)[p] = a[p]
      BY <3>2
    <3> QED BY <3>1, <3>2, <3>3 DEF a
  <2>3. ASSUME NEW m \in 0 .. n + 1 PROVE Longer(n + 1, m)
    <3>1. CASE m = n + 1
      <4>1. flat[m] = flat[n + 1] /\ Len(flat[n + 1]) \in Nat
        BY <2>2, <3>1
      <4> QED BY <4>1 DEF Longer
    <3>2. CASE m # n + 1
      <4>1. m \in 0 .. n
        BY <3>2
      <4>2. Longer(n, m)
        BY <2>1, <4>1
      <4>3. Len(flat[m]) \in Nat /\ Len(flat[n]) \in Nat /\ Len(flat[n + 1]) \in Nat
        <5>1. flat[m] \in Seq(S)
          BY <2>1, <4>1
        <5>2. flat[n] \in Seq(S) /\ flat[n + 1] \in Seq(S)
          BY <2>1, <2>2
        <5>3. \A seq \in Seq(S) : Len(seq) \in Nat
          OBVIOUS
        <5> QED BY <5>1, <5>2, <5>3
      <4>4. Len(flat[m]) <= Len(flat[n]) /\ \A p \in 1 .. Len(flat[m]) : flat[n][p] = flat[m][p]
        BY <4>2 DEF Longer
      <4>5. \A p \in 1 .. Len(flat[m]) : p \in 1 .. Len(flat[n])
        BY <4>3, <4>4
      <4>6. \A p \in 1 .. Len(flat[m]) : flat[n + 1][p] = flat[m][p]
        BY <2>2, <4>4, <4>5
      <4>7. Len(flat[m]) <= Len(flat[n + 1])
        BY <2>2, <4>3, <4>4
      <4> QED BY <4>6, <4>7 DEF Longer
    <3> QED BY <3>1, <3>2
  <2>4. ASSUME NEW m \in 0 .. n + 1 PROVE flat[m] \in Seq(S)
    <3>1. m = n + 1 \/ m \in 0 .. n
      OBVIOUS
    <3> QED BY <2>1, <2>2, <3>1
  <2> QED BY <2>3, <2>4
<1> HIDE DEF T
<1>5. Nat \subseteq T
  BY <1>3, <1>4, InductionOnNat
<1>6. k \in Nat /\ k <= N /\ k \in 0 .. k /\ i \in 0 .. k
  BY <1>1 DEF N
<1>7. flat[k] \in Seq(S) /\ flat[i] \in Seq(S) /\ Longer(k, i)
  BY <1>5, <1>6 DEF T
<1> QED BY <1>7 DEF Longer, Grown

(* Two lists that differ at their heads only go on in the same way.        *)
SameTail(S, f, g, n, k) == \E rest \in Seq(S) : f[n] = f[k] \o rest /\ g[n] = g[k] \o rest

LEMMA FlatTail ==
  ASSUME NEW S, NEW seqs \in Seq(Seq(S)), NEW others \in Seq(Seq(S)), Len(seqs) = Len(others),
         NEW k \in 0 .. Len(seqs), \A i \in k + 1 .. Len(seqs) : seqs[i] = others[i],
         NEW f, Flattens(f, seqs), NEW g, Flattens(g, others)
  PROVE  SameTail(S, f, g, Len(seqs), k)
<1> DEFINE N == Len(seqs)
           Good(n) == \E rest \in Seq(S) : f[n] = f[k] \o rest /\ g[n] = g[k] \o rest
           T == {n \in Nat : n <= N - k => Good(k + n)}
<1>1. N \in Nat /\ k \in Nat /\ k <= N /\ \A n \in 1 .. N : seqs[n] \in Seq(S)
  OBVIOUS
<1>2. /\ \A n \in 1 .. N : f[n] = f[n - 1] \o seqs[n]
      /\ \A n \in 1 .. N : g[n] = g[n - 1] \o others[n]
  BY DEF Flattens
<1>3. f[k] \in Seq(S) /\ g[k] \in Seq(S)
  <2>1. k \in 0 .. k /\ k \in 0 .. Len(others)
    BY <1>1
  <2>2. Grown(S, f, k, k) /\ Grown(S, g, k, k)
    BY <2>1, FlatGrows
  <2> QED BY <2>2 DEF Grown
<1> HIDE DEF N
<1>4. 0 \in T
  <2>1. f[k] = f[k] \o <<>> /\ g[k] = g[k] \o <<>> /\ <<>> \in Seq(S)
    BY <1>3
  <2>2. k + 0 = k
    BY <1>1
  <2> QED BY <2>1, <2>2
<1>5. ASSUME NEW n \in Nat, n \in T PROVE n + 1 \in T
  <2> HIDE DEF Good
  <2> SUFFICES ASSUME n + 1 <= N - k PROVE Good(k + (n + 1))
    OBVIOUS
  <2> DEFINE m == k + n + 1
  <2>1. m \in 1 .. N /\ m \in k + 1 .. N /\ m - 1 = k + n /\ n <= N - k /\ k + (n + 1) = m
    BY <1>1
  <2>2. PICK rest \in Seq(S) : f[k + n] = f[k] \o rest /\ g[k + n] = g[k] \o rest
    BY <1>5, <2>1 DEF Good
  <2> HIDE DEF m
  <2>3. /\ f[m] = (f[k] \o rest) \o seqs[m] /\ g[m] = (g[k] \o rest) \o seqs[m]
        /\ seqs[m] \in Seq(S)
    BY <1>1, <1>2, <2>1, <2>2 DEF N
  <2>4. /\ (f[k] \o rest) \o seqs[m] = f[k] \o (rest \o seqs[m])
        /\ (g[k] \o rest) \o seqs[m] = g[k] \o (rest \o seqs[m])
    <3> DEFINE a == f[k]
               b == g[k]
               c == seqs[m]
    <3>1. a \in Seq(S) /\ b \in Seq(S) /\ c \in Seq(S) /\ rest \in Seq(S)
      BY <1>3, <2>3
    <3> HIDE DEF a, b, c
    <3>2. \A x, y, z \in Seq(S) : (x \o y) \o z = x \o (y \o z)
      <4> TAKE x, y, z \in Seq(S)
      <4> QED BY ConcatAssociative, SMTT(60)
    <3>3. (a \o rest) \o c = a \o (rest \o c) /\ (b \o rest) \o c = b \o (rest \o c)
      BY <3>1, <3>2, ZenonT(40)
    <3> QED BY <3>3 DEF a, b, c
  <2>5. rest \o seqs[m] \in Seq(S)
    BY <2>3
  <2>6. Good(m)
    BY <2>3, <2>4, <2>5 DEF Good
  <2> QED BY <2>1, <2>6
<1> HIDE DEF T, Good
<1>6. N - k \in T
  <2>1. N - k \in Nat
    BY <1>1
  <2> QED BY <1>4, <1>5, <2>1, InductionOnNat
<1>7. Good(N)
  <2>1. N - k <= N - k /\ k + (N - k) = N
    BY <1>1
  <2> QED BY <1>6, <2>1 DEF T
<1> QED BY <1>7 DEF Good, N, SameTail
=============================================================================
