---------------------------- MODULE FiniteFacts ----------------------------
(***************************************************************************)
(* Facts about finite sets and numbers that the proofs of several          *)
(* components need: a least and a greatest element, and what a list of a   *)
(* set holds.  The former come from the well-foundedness of the order on   *)
(* the natural numbers, stated for sets instead of predicates so that it   *)
(* can be cited where a proof goes by induction.                           *)
(***************************************************************************)
EXTENDS Integers, SequencesExt, FiniteSetsExt, Functions, TLAPS,
        WellFoundedInduction, FiniteSetTheorems, FunctionTheorems, SequenceTheorems

\* A set of natural numbers that is not empty has a least element.
LEMMA Least ==
  ASSUME NEW T, T \subseteq Nat, T # {}
  PROVE  \E x \in T : \A y \in T : x <= y
<1>1. PICK x \in T : \A y \in T : ~(<<y, x>> \in OpToRel(<, Nat))
  BY WFMin, NatLessThanWellFounded
<1>2. \A y \in T : ~(y < x)
  BY <1>1 DEF OpToRel
<1>3. \A y \in T : x <= y
  <2> HIDE <1>1
  <2> QED
    BY <1>2
<1> QED
  BY <1>3

\* A set of natural numbers that is bounded and not empty has a greatest element.
LEMMA Greatest ==
  ASSUME NEW T, T \subseteq Nat, T # {}, NEW b \in Nat, \A x \in T : x <= b
  PROVE  \E x \in T : \A y \in T : y <= x
<1> DEFINE U == {n \in Nat : b - n \in T}
<1>1. PICK t \in T : TRUE
  OBVIOUS
<1>2. b - t \in U
  <2>1. t \in Nat /\ t <= b
    BY <1>1
  <2>2. b - t \in Nat /\ b - (b - t) = t
    BY <2>1
  <2> QED
    BY <2>2
<1>3. PICK n \in U : \A m \in U : n <= m
  BY <1>2, Least
<1>4. ASSUME NEW y \in T
      PROVE  y <= b - n
  <2>1. y \in Nat /\ y <= b
    OBVIOUS
  <2>2. b - y \in Nat /\ b - (b - y) = y
    BY <2>1
  <2>3. n <= b - y
    BY <1>3, <2>2
  <2> QED
    BY <2>1, <2>3
<1> QED
  BY <1>3, <1>4

\* A sequence of natural numbers is bounded, by induction on its length.
LEMMA SeqIsBounded ==
  ASSUME NEW n \in Nat, NEW f \in [1..n -> Nat]
  PROVE  \E b \in Nat : \A i \in 1..n : f[i] <= b
<1> DEFINE Bound(k, b) == \A i \in 1..k : f[i] <= b
           Unbounded == {k \in 0..n : ~\E b \in Nat : Bound(k, b)}
<1>1. Bound(0, 0)
  OBVIOUS
<1>2. ASSUME NEW k \in 1..n, NEW b \in Nat, Bound(k - 1, b)
      PROVE  \E c \in Nat : Bound(k, c)
  <2>1. f[k] \in Nat
    OBVIOUS
  <2>2. PICK c \in Nat : b <= c /\ f[k] <= c
    <3>1. CASE f[k] <= b
      BY <3>1
    <3>2. CASE b <= f[k]
      BY <2>1, <3>2
    <3> QED
      BY <2>1, <3>1, <3>2
  <2>3. ASSUME NEW i \in 1..k
        PROVE  f[i] <= c
    <3>1. CASE i = k
      BY <2>2, <3>1
    <3>2. CASE i # k
      <4>1. i \in 1..(k - 1) /\ f[i] \in Nat
        BY <3>2
      <4> QED
        BY <1>2, <2>2, <4>1
    <3> QED
      BY <3>1, <3>2
  <2> QED
    BY <2>3
<1>3. Unbounded \subseteq Nat /\ \A k \in 0..n : k \notin Unbounded => \E b \in Nat : Bound(k, b)
  OBVIOUS
<1>4. \A k \in Unbounded : k \in 0..n /\ ~\E b \in Nat : Bound(k, b)
  OBVIOUS
<1> HIDE DEF Bound, Unbounded
<1>5. Unbounded = {}
  <2>1. SUFFICES ASSUME Unbounded # {} PROVE FALSE
    OBVIOUS
  <2>2. PICK k \in Unbounded : \A m \in Unbounded : k <= m
    BY <1>3, <2>1, Least
  <2>3. k \in 1..n
    BY <1>1, <1>4, <2>2
  <2>4. k - 1 \in 0..n /\ k - 1 \notin Unbounded
    BY <2>2, <2>3
  <2>5. PICK b \in Nat : Bound(k - 1, b)
    BY <1>3, <2>4
  <2>6. \E c \in Nat : Bound(k, c)
    BY <1>2, <2>3, <2>5
  <2> QED
    BY <1>4, <2>2, <2>6
<1>6. n \in 0..n
  OBVIOUS
<1> QED
  BY <1>3, <1>5, <1>6 DEF Bound

\* A finite set of natural numbers is bounded.
LEMMA FiniteIsBounded ==
  ASSUME NEW S, S \subseteq Nat, IsFiniteSet(S)
  PROVE  \E b \in Nat : \A x \in S : x <= b
<1> DEFINE n == Cardinality(S)
<1>1. n \in Nat /\ ExistsBijection(1..n, S)
  BY FS_CardinalityType
<1> HIDE DEF n
<1>2. PICK f \in [1..n -> S] : \A x \in S : \E i \in 1..n : f[i] = x
  BY <1>1 DEF ExistsBijection, Bijection, Surjection
<1>3. f \in [1..n -> Nat]
  BY <1>2
<1> QED
  BY <1>1, <1>2, <1>3, SeqIsBounded

\* A finite set of natural numbers has a greatest one, and Max is it.
LEMMA MaxIsGreatest ==
  ASSUME NEW S, S \subseteq Nat, S # {}, IsFiniteSet(S)
  PROVE  Max(S) \in S /\ \A y \in S : y <= Max(S)
<1>1. PICK b \in Nat : \A x \in S : x <= b
  BY FiniteIsBounded
<1>2. PICK x \in S : \A y \in S : y <= x
  BY <1>1, Greatest
<1>3. \A y \in S : x >= y
  BY <1>2
<1> QED
  BY <1>3 DEF Max

\* A set of natural numbers has a least one, and Min is it.
LEMMA MinIsLeast ==
  ASSUME NEW S, S \subseteq Nat, S # {}
  PROVE  Min(S) \in S /\ \A y \in S : Min(S) <= y
<1>1. PICK x \in S : \A y \in S : x <= y
  BY Least
<1> QED
  BY <1>1 DEF Min

\* The larger of two numbers.
LEMMA MaxOfTwo ==
  ASSUME NEW a \in Int, NEW b \in Int
  PROVE  Max({a, b}) = IF a >= b THEN a ELSE b
  BY DEF Max

\* The smaller of two numbers.
LEMMA MinOfTwo ==
  ASSUME NEW a \in Int, NEW b \in Int
  PROVE  Min({a, b}) = IF a <= b THEN a ELSE b
  BY DEF Min

-----------------------------------------------------------------------------
\* A sequence of the elements of a finite set, each once, has all of them.
LEMMA ListOfAll ==
  ASSUME NEW S, IsFiniteSet(S), NEW s \in SetToSeqs(S)
  PROVE  s \in Seq(S) /\ Len(s) = Cardinality(S) /\ ToSet(s) = S
<1> DEFINE n == Cardinality(S)
<1>1. n \in Nat
  BY FS_CardinalityType
<1>2. s \in [1..n -> S] /\ \A i, j \in 1..n : i # j => s[i] # s[j]
  BY DEF SetToSeqs
<1> HIDE DEF n
<1>3. s \in Injection(1..n, S)
  BY <1>2, Fun_IsInj
<1>4. IsFiniteSet(1..n) /\ Cardinality(1..n) = n
  BY <1>1, FS_Interval
<1>5. s \in Surjection(1..n, S)
  BY <1>3, <1>4, FS_Injection DEF n
<1>6. \A x \in S : \E i \in 1..n : s[i] = x
  BY <1>5 DEF Surjection
<1>7. ToSet(s) = S
  <2>1. DOMAIN s = 1..n /\ \A i \in 1..n : s[i] \in S
    BY <1>2
  <2>2. \A x \in ToSet(s) : x \in S
    BY <2>1 DEF ToSet
  <2>3. \A x \in S : x \in ToSet(s)
    BY <1>6, <2>1 DEF ToSet
  <2> QED
    BY <2>2, <2>3
<1>8. s \in Seq(S) /\ Len(s) = n
  <2>1. s \in Seq(S)
    BY <1>1, <1>2, SeqDef
  <2> QED
    BY <1>1, <1>2, <2>1, LenProperties
<1> QED
  BY <1>7, <1>8 DEF n

\* The elements of a sequence are its head and those of its tail.
LEMMA HeadAndTail ==
  ASSUME NEW S, NEW s \in Seq(S), s # <<>>
  PROVE  /\ Head(s) \in S /\ Tail(s) \in Seq(S)
         /\ ToSet(s) = ToSet(Tail(s)) \cup {Head(s)}
         /\ Len(s) \in Nat \ {0} /\ Len(Tail(s)) = Len(s) - 1
         /\ Head(s) = s[1] /\ \A i \in 1..(Len(s) - 1) : Tail(s)[i] = s[i + 1]
<1> DEFINE n == Len(s)
<1>1. n \in Nat \ {0} /\ DOMAIN s = 1..n /\ \A i \in 1..n : s[i] \in S
  BY EmptySeq, LenProperties, ElementOfSeq
<1>2. /\ Head(s) = s[1] /\ Head(s) \in S /\ Tail(s) \in Seq(S)
      /\ Len(Tail(s)) = n - 1 /\ DOMAIN Tail(s) = 1..(n - 1)
      /\ \A i \in 1..(n - 1) : Tail(s)[i] = s[i + 1]
  BY HeadTailProperties, LenProperties
<1> HIDE DEF n
<1>3. \A x \in ToSet(s) : x \in ToSet(Tail(s)) \cup {s[1]}
  <2> SUFFICES ASSUME NEW i \in 1..n, i # 1 PROVE s[i] \in ToSet(Tail(s))
    BY <1>1 DEF ToSet
  <2>1. i - 1 \in 1..(n - 1) /\ s[i] = Tail(s)[i - 1]
    BY <1>1, <1>2
  <2> QED
    BY <1>2, <2>1 DEF ToSet
<1>4. \A x \in ToSet(Tail(s)) \cup {s[1]} : x \in ToSet(s)
  <2>1. s[1] \in ToSet(s)
    BY <1>1 DEF ToSet
  <2>2. \A i \in 1..(n - 1) : i + 1 \in 1..n
    BY <1>1
  <2>3. \A x \in ToSet(Tail(s)) : x \in ToSet(s)
    BY <1>1, <1>2, <2>2 DEF ToSet
  <2> QED
    BY <2>1, <2>3
<1>5. ToSet(s) = ToSet(Tail(s)) \cup {s[1]}
  BY <1>3, <1>4
<1> QED
  BY <1>1, <1>2, <1>5 DEF n

\* One sequence after another, entry by entry.
LEMMA ConcatEntries ==
  ASSUME NEW S, NEW s \in Seq(S), NEW t \in Seq(S)
  PROVE  /\ s \o t \in Seq(S)
         /\ Len(s) \in Nat /\ Len(t) \in Nat /\ Len(s \o t) = Len(s) + Len(t)
         /\ \A i \in 1..Len(s) : (s \o t)[i] = s[i]
         /\ \A i \in 1..Len(t) : (s \o t)[Len(s) + i] = t[i]
<1> DEFINE n == Len(s)
           m == Len(t)
           r == s \o t
<1>1. n \in Nat /\ m \in Nat
  BY LenProperties
<1>2. /\ r \in Seq(S) /\ Len(r) = n + m
      /\ \A i \in 1..(n + m) : r[i] = IF i <= n THEN s[i] ELSE t[i - n]
  BY ConcatProperties
<1> HIDE DEF n, m, r
<1>3. \A i \in 1..n : r[i] = s[i]
  BY <1>1, <1>2
<1>4. \A i \in 1..m : r[n + i] = t[i]
  <2> SUFFICES ASSUME NEW i \in 1..m PROVE r[n + i] = t[i]
    OBVIOUS
  <2>1. n + i \in 1..(n + m) /\ ~(n + i <= n) /\ (n + i) - n = i
    BY <1>1
  <2> QED
    BY <1>2, <2>1
<1> QED
  BY <1>1, <1>2, <1>3, <1>4 DEF n, m, r
=============================================================================
