-------------------------- MODULE DeployPlanProofs ---------------------------
(* Theorems about what a draft is turned into: for names of any length and  *)
(* any number of hosts and mounts, the patterns of the environment name     *)
(* exactly the drives of the draft.  What a recursive definition computes   *)
(* is followed by induction over sets of numbers.                           *)
EXTENDS DeployPlan, Integers, TLAPS, NaturalsInduction, WellFoundedInduction, SequenceTheorems,
        FiniteSetTheorems

-----------------------------------------------------------------------------
(* Induction.                                                               *)

LEMMA Least ==
  ASSUME NEW I, I \subseteq Nat, I # {}
  PROVE  \E x \in I : \A y \in I : x <= y
<1>1. PICK x \in I : \A y \in I : ~(<<y, x>> \in OpToRel(<, Nat))
  BY NatLessThanWellFounded, WFMin
<1>2. ASSUME NEW y \in I
      PROVE  x <= y
  <2>1. ~(y < x)
    BY <1>1 DEF OpToRel
  <2> QED
    BY <2>1
<1> QED
  BY <1>2

LEMMA StrongInduction ==
  ASSUME NEW I, \A n \in Nat : (\A m \in Nat : m < n => m \in I) => n \in I
  PROVE  \A n \in Nat : n \in I
<1> DEFINE Bad == Nat \ I
<1> SUFFICES ASSUME Bad # {}
             PROVE  FALSE
  OBVIOUS
<1>1. PICK n \in Bad : \A m \in Bad : n <= m
  <2>1. Bad \subseteq Nat
    OBVIOUS
  <2> HIDE DEF Bad
  <2> QED
    BY <2>1, Least
<1>2. \A m \in Nat : m < n => m \in I
  BY <1>1
<1> QED
  BY <1>2

LEMMA Induction ==
  ASSUME NEW I, 0 \in I, \A n \in Nat : n \in I => n + 1 \in I
  PROVE  \A n \in Nat : n \in I
<1>1. ASSUME NEW n \in Nat, \A m \in Nat : m < n => m \in I
      PROVE  n \in I
  <2>1. CASE n = 0
    BY <2>1
  <2>2. CASE n # 0
    <3>1. n - 1 \in Nat /\ n - 1 < n /\ n = (n - 1) + 1
      BY <2>2
    <3>2. n - 1 \in I
      BY <1>1, <3>1
    <3> QED
      BY <3>1, <3>2
  <2> QED
    BY <2>1, <2>2
<1> QED
  BY <1>1, StrongInduction

-----------------------------------------------------------------------------
(* Joining sequences gives a sequence of the same things.                   *)

LEMMA FlattenIsSeq ==
  ASSUME NEW S, NEW ss \in Seq(Seq(S))
  PROVE  FlattenSeq(ss) \in Seq(S)
<1> DEFINE n == Len(ss)
           Joins(f, m) == \A i \in 1..m : f[i] = IF i = 1 THEN ss[i] ELSE f[i - 1] \o ss[i]
<1>1. CASE n = 0
  <2>1. ss = <<>> /\ FlattenSeq(ss) = ss
    BY <1>1 DEF FlattenSeq
  <2>2. <<>> \in Seq(S)
    OBVIOUS
  <2> QED
    BY <2>1, <2>2
<1>2. CASE n # 0
  <2>0. n \in Nat /\ n \in 1..n /\ \A i \in 1..n : ss[i] \in Seq(S)
    BY <1>2
  <2>1. \A m \in Nat : m \in 1..n => \E f \in [1..m -> Seq(S)] : Joins(f, m)
    <3> DEFINE Goal(m) == m \in 1..n => \E f \in [1..m -> Seq(S)] : Joins(f, m)
               I == {m \in Nat : Goal(m)}
    <3>1. Goal(0)
      OBVIOUS
    <3>2. ASSUME NEW k \in Nat, Goal(k)
          PROVE  Goal(k + 1)
      <4> DEFINE m == k + 1
      <4> SUFFICES ASSUME m \in 1..n
                   PROVE  \E f \in [1..m -> Seq(S)] : Joins(f, m)
        OBVIOUS
      <4>1. ss[m] \in Seq(S)
        BY <2>0
      <4>2. CASE k = 0
        <5>1. [i \in 1..m |-> ss[1]] \in [1..m -> Seq(S)] /\ Joins([i \in 1..m |-> ss[1]], m)
          BY <4>1, <4>2
        <5> QED
          BY <5>1
      <4>3. CASE k # 0
        <5>0. k \in 1..n
          BY <4>3
        <5>1. PICK f \in [1..k -> Seq(S)] : Joins(f, k)
          <6> HIDE DEF Joins
          <6> QED
            BY <3>2, <5>0
        <5> DEFINE g == [i \in 1..m |-> IF i = m THEN f[k] \o ss[m] ELSE f[i]]
        <5>2. g \in [1..m -> Seq(S)]
          <6>1. f[k] \o ss[m] \in Seq(S)
            BY <4>1, <4>3
          <6> QED
            BY <6>1
        <5>3. ASSUME NEW i \in 1..m
              PROVE  g[i] = IF i = 1 THEN ss[i] ELSE g[i - 1] \o ss[i]
          <6>1. CASE i = m
            <7>1. k \in 1..m /\ m \in 1..m /\ k # m /\ m # 1 /\ m - 1 = k
              BY <4>3
            <7>2. g[m] = f[k] \o ss[m] /\ g[k] = f[k]
              BY <7>1
            <7> QED
              BY <6>1, <7>1, <7>2
          <6>2. CASE i # m
            <7>1. i \in 1..k /\ g[i] = f[i] /\ (i # 1 => g[i - 1] = f[i - 1])
              BY <6>2
            <7> QED
              BY <5>1, <7>1
          <6> QED
            BY <6>1, <6>2
        <5> QED
          BY <5>2, <5>3
      <4> QED
        BY <4>2, <4>3
    <3>3. \A m \in Nat : Goal(m)
      <4> HIDE DEF Goal
      <4>1. 0 \in I /\ \A k \in Nat : k \in I => k + 1 \in I
        BY <3>1, <3>2
      <4> HIDE DEF I
      <4>2. \A m \in Nat : m \in I
        BY <4>1, Induction
      <4> QED
        BY <4>2 DEF I
    <3> QED
      BY <3>3
  <2> DEFINE Defined(h) == h = [i \in 1..n |-> IF i = 1 THEN ss[i] ELSE h[i - 1] \o ss[i]]
             flat == CHOOSE h : Defined(h)
  <2>2. \E h : Defined(h)
    <3>1. PICK f \in [1..n -> Seq(S)] : Joins(f, n)
      BY <2>0, <2>1
    <3>2. f = [i \in 1..n |-> f[i]]
      OBVIOUS
    <3>3. Defined(f)
      BY <3>1, <3>2
    <3> QED
      BY <3>3
  <2>3. Defined(flat)
    BY <2>2
  <2>4. FlattenSeq(ss) = flat[n]
    BY <1>2 DEF FlattenSeq
  <2> HIDE DEF flat
  <2>5. \A i \in 1..n : flat[i] = IF i = 1 THEN ss[i] ELSE flat[i - 1] \o ss[i]
    <3>1. \A i \in 1..n : [k \in 1..n |-> IF k = 1 THEN ss[k] ELSE flat[k - 1] \o ss[k]][i]
                            = IF i = 1 THEN ss[i] ELSE flat[i - 1] \o ss[i]
      OBVIOUS
    <3> QED
      BY <2>3, <3>1
  <2>6. \A m \in Nat : m \in 1..n => flat[m] \in Seq(S)
    <3> DEFINE Goal(m) == m \in 1..n => flat[m] \in Seq(S)
               I == {m \in Nat : Goal(m)}
    <3>1. Goal(0)
      OBVIOUS
    <3>2. ASSUME NEW k \in Nat, Goal(k)
          PROVE  Goal(k + 1)
      <4> SUFFICES ASSUME k + 1 \in 1..n
                   PROVE  flat[k + 1] \in Seq(S)
        OBVIOUS
      <4>1. ss[k + 1] \in Seq(S)
        BY <2>0
      <4>2. flat[k + 1] = IF k + 1 = 1 THEN ss[k + 1] ELSE flat[k + 1 - 1] \o ss[k + 1]
        BY <2>5
      <4>3. CASE k = 0
        BY <4>1, <4>2, <4>3
      <4>4. CASE k # 0
        <5>1. flat[k] \in Seq(S) /\ k + 1 - 1 = k /\ k + 1 # 1
          BY <3>2, <4>4
        <5>2. flat[k] \o ss[k + 1] \in Seq(S)
          BY <4>1, <5>1
        <5> QED
          BY <4>2, <5>1, <5>2
      <4> QED
        BY <4>3, <4>4
    <3>3. \A m \in Nat : Goal(m)
      <4> HIDE DEF Goal
      <4>1. 0 \in I /\ \A k \in Nat : k \in I => k + 1 \in I
        BY <3>1, <3>2
      <4> HIDE DEF I
      <4>2. \A m \in Nat : m \in I
        BY <4>1, Induction
      <4> QED
        BY <4>2 DEF I
    <3> QED
      BY <3>3
  <2> QED
    BY <2>0, <2>4, <2>6
<1> QED
  BY <1>1, <1>2

-----------------------------------------------------------------------------
(* Numbers and their writing.                                               *)

Digits == 0..9

LEMMA Tens ==
  ASSUME NEW n \in Nat
  PROVE  /\ n \div 10 \in Nat /\ n % 10 \in Digits /\ n = 10 * (n \div 10) + (n % 10)
         /\ n >= 10 => n \div 10 < n /\ n \div 10 >= 1
BY DEF Digits

LEMMA OneDigitMore ==
  ASSUME NEW n \in Nat, NEW d \in Digits
  PROVE  /\ 10 * n + d \in Nat /\ (10 * n + d) \div 10 = n /\ (10 * n + d) % 10 = d
         /\ 10 * n + d < 10 <=> n = 0
BY DEF Digits

LEMMA DecimalExists ==
  \E f : f = [n \in Nat |-> IF n < 10 THEN <<n>> ELSE f[n \div 10] \o <<n % 10>>]
<1> DEFINE Next(g, n) == IF n < 10 THEN <<n>> ELSE g[n \div 10] \o <<n % 10>>
           Writes(g, m) == \A i \in 0..m : g[i] = Next(g, i)
<1>1. \A m \in Nat : \E g : Writes(g, m)
  <2> DEFINE Goal(m) == \E g : Writes(g, m)
             I == {m \in Nat : Goal(m)}
  <2>1. Goal(0)
    <3>1. Writes([i \in {0} |-> <<0>>], 0)
      OBVIOUS
    <3> QED
      BY <3>1
  <2>2. ASSUME NEW m \in Nat, Goal(m)
        PROVE  Goal(m + 1)
    <3>1. PICK g : Writes(g, m)
      BY <2>2
    <3> DEFINE more == [i \in 0..(m + 1) |-> IF i = m + 1 THEN Next(g, m + 1) ELSE g[i]]
    <3>2. ASSUME NEW i \in 0..(m + 1)
          PROVE  more[i] = Next(more, i)
      <4>1. i >= 10 => i \div 10 \in 0..m
        BY Tens
      <4>2. i >= 10 => more[i \div 10] = g[i \div 10]
        BY <4>1
      <4>3. Next(more, i) = Next(g, i)
        BY <4>2
      <4>4. CASE i = m + 1
        BY <4>3, <4>4
      <4>5. CASE i # m + 1
        <5>1. i \in 0..m
          BY <4>5
        <5>2. g[i] = Next(g, i)
          BY <3>1, <5>1
        <5> QED
          BY <4>3, <4>5, <5>2
      <4> QED
        BY <4>4, <4>5
    <3>3. Writes(more, m + 1)
      BY <3>2
    <3> HIDE DEF more, Writes
    <3> QED
      BY <3>3
  <2> HIDE DEF Goal
  <2>3. 0 \in I /\ \A m \in Nat : m \in I => m + 1 \in I
    BY <2>1, <2>2
  <2> HIDE DEF I
  <2>4. \A m \in Nat : m \in I
    BY <2>3, Induction
  <2>5. \A m \in Nat : Goal(m)
    BY <2>4 DEF I
  <2> QED
    BY <2>5 DEF Goal
<1>2. \A i \in Nat : \A m, k \in Nat : \A g, h :
         Writes(g, m) /\ Writes(h, k) /\ i <= m /\ i <= k => g[i] = h[i]
  <2> DEFINE Goal(i) == \A m, k \in Nat : \A g, h :
               Writes(g, m) /\ Writes(h, k) /\ i <= m /\ i <= k => g[i] = h[i]
             I == {i \in Nat : Goal(i)}
  <2>1. ASSUME NEW i \in Nat, \A j \in Nat : j < i => Goal(j)
        PROVE  Goal(i)
    <3> SUFFICES ASSUME NEW m \in Nat, NEW k \in Nat, NEW g, NEW h,
                        Writes(g, m), Writes(h, k), i <= m, i <= k
                 PROVE  g[i] = h[i]
      <4> HIDE DEF Writes
      <4> QED
        OBVIOUS
    <3>1. g[i] = Next(g, i) /\ h[i] = Next(h, i)
      <4>1. i \in 0..m /\ i \in 0..k
        OBVIOUS
      <4> HIDE DEF Next
      <4> QED
        BY <4>1
    <3>2. CASE i < 10
      BY <3>1, <3>2
    <3>3. CASE ~(i < 10)
      <4>1. i \div 10 \in Nat /\ i \div 10 < i
        BY <3>3, Tens
      <4>2. Goal(i \div 10)
        <5> HIDE DEF Goal
        <5> QED
          BY <2>1, <4>1
      <4>3. i \div 10 <= m /\ i \div 10 <= k
        BY <4>1
      <4>4. g[i \div 10] = h[i \div 10]
        <5> HIDE DEF Writes
        <5> QED
          BY <4>2, <4>3
      <4> QED
        BY <3>1, <3>3, <4>4
    <3> QED
      BY <3>2, <3>3
  <2> HIDE DEF Goal
  <2>2. \A i \in Nat : (\A j \in Nat : j < i => j \in I) => i \in I
    BY <2>1
  <2> HIDE DEF I
  <2>3. \A i \in Nat : i \in I
    BY <2>2, StrongInduction
  <2>4. \A i \in Nat : Goal(i)
    BY <2>3 DEF I
  <2> QED
    BY <2>4 DEF Goal
<1> DEFINE upTo == [m \in Nat |-> CHOOSE g : Writes(g, m)]
           f == [n \in Nat |-> upTo[n][n]]
<1>3. \A m \in Nat : Writes(upTo[m], m)
  <2> HIDE DEF Writes
  <2> QED
    BY <1>1
<1> HIDE DEF upTo
<1>4. ASSUME NEW n \in Nat
      PROVE  f[n] = Next(f, n)
  <2>1. f[n] = upTo[n][n] /\ upTo[n][n] = Next(upTo[n], n)
    BY <1>3
  <2>2. CASE n < 10
    BY <2>1, <2>2
  <2>3. CASE ~(n < 10)
    <3>1. n \div 10 \in Nat /\ n \div 10 < n
      BY <2>3, Tens
    <3>2. upTo[n][n \div 10] = upTo[n \div 10][n \div 10]
      <4>1. n \div 10 <= n /\ n \div 10 <= n \div 10
        BY <3>1
      <4>2. Writes(upTo[n], n) /\ Writes(upTo[n \div 10], n \div 10)
        <5> HIDE DEF Writes
        <5> QED
          BY <1>3, <3>1
      <4> HIDE DEF Writes
      <4> QED
        BY <1>2, <3>1, <4>1, <4>2
    <3>3. f[n \div 10] = upTo[n \div 10][n \div 10]
      BY <3>1
    <3> QED
      BY <2>1, <2>3, <3>2, <3>3
  <2> QED
    BY <2>2, <2>3
<1>5. f = [n \in Nat |-> Next(f, n)]
  <2>1. f = [n \in Nat |-> f[n]]
    OBVIOUS
  <2> HIDE DEF f, Next
  <2> QED
    BY <1>4, <2>1
<1> HIDE DEF f
<1> QED
  BY <1>5

LEMMA DecimalOf ==
  ASSUME NEW n \in Nat
  PROVE  Decimal[n] = IF n < 10 THEN <<n>> ELSE Decimal[n \div 10] \o <<n % 10>>
<1> DEFINE Next(g, k) == IF k < 10 THEN <<k>> ELSE g[k \div 10] \o <<k % 10>>
           Defined(g) == g = [k \in Nat |-> Next(g, k)]
<1>1. \E g : Defined(g)
  BY DecimalExists
<1>2. Decimal = CHOOSE g : Defined(g)
  BY DEF Decimal
<1>3. Defined(Decimal)
  <2> HIDE DEF Defined
  <2> QED
    BY <1>1, <1>2
<1>4. [k \in Nat |-> Next(Decimal, k)][n] = Next(Decimal, n)
  OBVIOUS
<1> QED
  BY <1>3, <1>4

LEMMA DecimalIsDigits == \A n \in Nat : Decimal[n] \in Seq(Digits) /\ Len(Decimal[n]) >= 1
<1> DEFINE Goal(n) == Decimal[n] \in Seq(Digits) /\ Len(Decimal[n]) >= 1
           I == {n \in Nat : Goal(n)}
<1>1. ASSUME NEW n \in Nat, \A m \in Nat : m < n => Goal(m)
      PROVE  Goal(n)
  <2>1. CASE n < 10
    <3>1. Decimal[n] = <<n>>
      BY <2>1, DecimalOf
    <3>2. n \in Digits
      BY <2>1 DEF Digits
    <3> QED
      BY <3>1, <3>2
  <2>2. CASE ~(n < 10)
    <3>1. n \div 10 \in Nat /\ n \div 10 < n /\ n % 10 \in Digits
      BY <2>2, Tens
    <3>2. Goal(n \div 10)
      <4> HIDE DEF Goal
      <4> QED
        BY <1>1, <3>1
    <3>3. Decimal[n] = Decimal[n \div 10] \o <<n % 10>>
      BY <2>2, DecimalOf
    <3> QED
      BY <3>1, <3>2, <3>3
  <2> QED
    BY <2>1, <2>2
<1> HIDE DEF Goal
<1>2. \A n \in Nat : (\A m \in Nat : m < n => m \in I) => n \in I
  BY <1>1
<1> HIDE DEF I
<1>3. \A n \in Nat : n \in I
  BY <1>2, StrongInduction
<1>4. \A n \in Nat : Goal(n)
  BY <1>3 DEF I
<1> QED
  BY <1>4 DEF Goal

LEMMA NumberOf ==
  ASSUME NEW m \in Seq(Digits)
  PROVE  \E value : /\ \A i \in 0..Len(m) :
                         /\ value[i] \in Nat
                         /\ value[i] = IF i = 0 THEN 0 ELSE 10 * value[i - 1] + m[i]
                    /\ Number(m) = value[Len(m)]
<1> DEFINE Next(g, i) == IF i = 0 THEN 0 ELSE 10 * g[i - 1] + m[i]
           Counts(g, k) == \A i \in 0..k : g[i] \in Nat /\ g[i] = Next(g, i)
           Defined(g) == g = [i \in 0..Len(m) |-> Next(g, i)]
<1>0. Len(m) \in Nat /\ \A i \in 1..Len(m) : m[i] \in Nat
  BY DEF Digits
<1>1. \A k \in Nat : k <= Len(m) => \E g : Counts(g, k)
  <2> DEFINE Goal(k) == k <= Len(m) => \E g : Counts(g, k)
             I == {k \in Nat : Goal(k)}
  <2>1. Goal(0)
    <3>1. Counts([i \in {0} |-> 0], 0)
      OBVIOUS
    <3> QED
      BY <3>1
  <2>2. ASSUME NEW k \in Nat, Goal(k)
        PROVE  Goal(k + 1)
    <3> SUFFICES ASSUME k + 1 <= Len(m)
                 PROVE  \E g : Counts(g, k + 1)
      OBVIOUS
    <3>1. k <= Len(m) /\ m[k + 1] \in Nat
      BY <1>0
    <3>2. PICK g : Counts(g, k)
      BY <2>2, <3>1
    <3> DEFINE more == [i \in 0..(k + 1) |-> IF i = k + 1 THEN 10 * g[k] + m[k + 1] ELSE g[i]]
    <3>3. ASSUME NEW i \in 0..(k + 1)
          PROVE  more[i] \in Nat /\ more[i] = Next(more, i)
      <4>1. CASE i = k + 1
        <5>1. k \in 0..k /\ k \in 0..(k + 1) /\ k # k + 1 /\ k + 1 # 0
          OBVIOUS
        <5>2. g[k] \in Nat
          <6> HIDE DEF Next
          <6> QED
            BY <3>2, <5>1
        <5>3. more[k] = g[k] /\ more[i] = 10 * g[k] + m[k + 1]
          BY <4>1, <5>1
        <5> QED
          BY <3>1, <4>1, <5>1, <5>2, <5>3
      <4>2. CASE i # k + 1
        <5>1. i \in 0..k
          BY <4>2
        <5>2. g[i] \in Nat /\ g[i] = Next(g, i)
          <6> HIDE DEF Next
          <6> QED
            BY <3>2, <5>1
        <5>3. more[i] = g[i] /\ (i # 0 => more[i - 1] = g[i - 1])
          BY <4>2, <5>1
        <5> QED
          BY <5>2, <5>3
      <4> QED
        BY <4>1, <4>2
    <3>4. Counts(more, k + 1)
      <4> HIDE DEF more, Next
      <4> QED
        BY <3>3
    <3> HIDE DEF more, Counts
    <3> QED
      BY <3>4
  <2> HIDE DEF Goal
  <2>3. 0 \in I /\ \A k \in Nat : k \in I => k + 1 \in I
    BY <2>1, <2>2
  <2> HIDE DEF I
  <2>4. \A k \in Nat : k \in I
    BY <2>3, Induction
  <2>5. \A k \in Nat : Goal(k)
    BY <2>4 DEF I
  <2> QED
    BY <2>5 DEF Goal
<1>2. PICK g : Counts(g, Len(m))
  <2> HIDE DEF Counts
  <2> QED
    BY <1>0, <1>1
<1>3. \E h : Defined(h)
  <2> DEFINE h == [i \in 0..Len(m) |-> g[i]]
  <2>1. ASSUME NEW i \in 0..Len(m)
        PROVE  h[i] = Next(h, i)
    <3>1. g[i] = Next(g, i)
      <4> HIDE DEF Next
      <4> QED
        BY <1>2
    <3>2. h[i] = g[i] /\ (i # 0 => h[i - 1] = g[i - 1])
      BY <1>0
    <3> QED
      BY <3>1, <3>2
  <2>2. h = [i \in 0..Len(m) |-> h[i]]
    OBVIOUS
  <2>3. Defined(h)
    <3> HIDE DEF h, Next
    <3> QED
      BY <2>1, <2>2
  <2> HIDE DEF h, Defined
  <2> QED
    BY <2>3
<1> DEFINE value == CHOOSE h : Defined(h)
<1>4. Defined(value)
  <2> HIDE DEF Defined
  <2> QED
    BY <1>3
<1>5. Number(m) = value[Len(m)]
  BY DEF Number
<1> HIDE DEF value
<1>6. \A i \in 0..Len(m) : value[i] = Next(value, i)
  <2>1. \A i \in 0..Len(m) : [k \in 0..Len(m) |-> Next(value, k)][i] = Next(value, i)
    <3> HIDE DEF Next
    <3> QED
      OBVIOUS
  <2> HIDE DEF Next
  <2> QED
    BY <1>4, <2>1
<1>7. \A k \in Nat : k <= Len(m) => value[k] \in Nat
  <2> DEFINE Goal(k) == k <= Len(m) => value[k] \in Nat
             I == {k \in Nat : Goal(k)}
  <2>1. Goal(0)
    BY <1>0, <1>6
  <2>2. ASSUME NEW k \in Nat, Goal(k)
        PROVE  Goal(k + 1)
    <3> SUFFICES ASSUME k + 1 <= Len(m)
                 PROVE  value[k + 1] \in Nat
      OBVIOUS
    <3>1. value[k] \in Nat /\ m[k + 1] \in Nat
      BY <1>0, <2>2
    <3>2. value[k + 1] = 10 * value[k] + m[k + 1]
      BY <1>0, <1>6
    <3> QED
      BY <3>1, <3>2
  <2> HIDE DEF Goal
  <2>3. 0 \in I /\ \A k \in Nat : k \in I => k + 1 \in I
    BY <2>1, <2>2
  <2> HIDE DEF I
  <2>4. \A k \in Nat : k \in I
    BY <2>3, Induction
  <2>5. \A k \in Nat : Goal(k)
    BY <2>4 DEF I
  <2> QED
    BY <2>5 DEF Goal
<1> QED
  BY <1>0, <1>5, <1>6, <1>7

LEMMA FrontIsDigits ==
  ASSUME NEW m \in Seq(Digits), m # <<>>
  PROVE  /\ Front(m) \in Seq(Digits) /\ Len(Front(m)) = Len(m) - 1
         /\ \A i \in 1..(Len(m) - 1) : Front(m)[i] = m[i]
         /\ m[Len(m)] \in Digits /\ m = Front(m) \o <<m[Len(m)]>>
BY DEF Front

LEMMA NumberOfFront ==
  ASSUME NEW m \in Seq(Digits), m # <<>>
  PROVE  Number(Front(m)) \in Nat /\ Number(m) = 10 * Number(Front(m)) + m[Len(m)]
<1> DEFINE front == Front(m)
<1>a. Len(m) \in Nat /\ Len(m) - 1 \in Nat
  OBVIOUS
<1>0. /\ front \in Seq(Digits) /\ Len(front) = Len(m) - 1 /\ Len(m) - 1 \in Nat /\ Len(m) \in Nat
      /\ \A i \in 1..(Len(m) - 1) : front[i] = m[i]
  BY <1>a, FrontIsDigits
<1> HIDE DEF front
<1>1. PICK v : /\ \A i \in 0..Len(m) : v[i] \in Nat /\ v[i] = IF i = 0 THEN 0 ELSE 10 * v[i - 1] + m[i]
               /\ Number(m) = v[Len(m)]
  BY NumberOf
<1>2. PICK u : /\ \A i \in 0..Len(front) : /\ u[i] \in Nat
                                           /\ u[i] = IF i = 0 THEN 0 ELSE 10 * u[i - 1] + front[i]
               /\ Number(front) = u[Len(front)]
  BY <1>0, NumberOf
<1>3. \A k \in Nat : k <= Len(front) => u[k] = v[k]
  <2> DEFINE Goal(k) == k <= Len(front) => u[k] = v[k]
             I == {k \in Nat : Goal(k)}
  <2>1. Goal(0)
    BY <1>0, <1>1, <1>2
  <2>2. ASSUME NEW k \in Nat, Goal(k)
        PROVE  Goal(k + 1)
    <3> SUFFICES ASSUME k + 1 <= Len(front)
                 PROVE  u[k + 1] = v[k + 1]
      OBVIOUS
    <3>1. u[k] = v[k] /\ front[k + 1] = m[k + 1]
      BY <1>0, <2>2
    <3>2. u[k + 1] = 10 * u[k] + front[k + 1]
      BY <1>0, <1>2
    <3>3. v[k + 1] = 10 * v[k] + m[k + 1]
      BY <1>0, <1>1, SMTT(30)
    <3> QED
      BY <3>1, <3>2, <3>3
  <2> HIDE DEF Goal
  <2>3. 0 \in I /\ \A k \in Nat : k \in I => k + 1 \in I
    BY <2>1, <2>2
  <2> HIDE DEF I
  <2>4. \A k \in Nat : k \in I
    BY <2>3, Induction
  <2>5. \A k \in Nat : Goal(k)
    BY <2>4 DEF I
  <2> QED
    BY <2>5 DEF Goal
<1>4. u[Len(front)] = v[Len(m) - 1] /\ u[Len(front)] \in Nat
  BY <1>0, <1>2, <1>3
<1>5. v[Len(m)] = 10 * v[Len(m) - 1] + m[Len(m)]
  BY <1>0, <1>1
<1>6. Number(front) \in Nat /\ Number(m) = 10 * Number(front) + m[Len(m)]
  BY <1>1, <1>2, <1>4, <1>5
<1> QED
  BY <1>6 DEF front

(* A number written with as many digits as it was read from is as it was    *)
(* read; and if it had no leading zero, no width need be given.             *)
Zeros(k) == [i \in 1..k |-> 0]

LEMMA PaddedIs ==
  ASSUME NEW n \in Nat, NEW width \in Nat
  PROVE  /\ width >= Len(Decimal[n]) =>
                 Padded(n, width) = Zeros(width - Len(Decimal[n])) \o Decimal[n]
         /\ width <= Len(Decimal[n]) => Padded(n, width) = Zeros(0) \o Decimal[n]
<1>1. PICK w \in Seq(Digits) : w = Decimal[n] /\ Len(w) \in Nat
  BY DecimalIsDigits
<1>2. PICK k : k = IF width > Len(w) THEN width - Len(w) ELSE 0
  OBVIOUS
<1>3. Padded(n, width) = Zeros(k) \o w
  BY <1>1, <1>2 DEF Padded, Zeros
<1>4. CASE width > Len(w)
  <2>1. k = width - Len(w)
    BY <1>2, <1>4
  <2>2. Padded(n, width) = Zeros(width - Len(Decimal[n])) \o Decimal[n]
    BY <1>1, <1>3, <2>1
  <2>3. ~(width <= Len(Decimal[n]))
    BY <1>1, <1>4
  <2> QED
    BY <2>2, <2>3
<1>6. width > Len(w) \/ width <= Len(w)
  BY <1>1
<1>5. CASE width <= Len(w)
  <2>1. ~(width > Len(w)) /\ (width >= Len(w) => width - Len(w) = 0)
    BY <1>1, <1>5
  <2>2. k = 0
    BY <1>2, <2>1
  <2> QED
    BY <1>1, <1>3, <2>1, <2>2
<1> QED
  BY <1>4, <1>5, <1>6

LEMMA NotEmpty ==
  ASSUME NEW S, NEW s \in Seq(S), Len(s) # 0
  PROVE  s # <<>>
OBVIOUS

LEMMA OneIsSeq ==
  ASSUME NEW S, NEW c \in S
  PROVE  <<c>> \in Seq(S) /\ Len(<<c>>) = 1 /\ <<c>>[1] = c
OBVIOUS

LEMMA OneMore ==
  ASSUME NEW S, NEW s \in Seq(S), NEW c \in S
  PROVE  s \o <<c>> \in Seq(S) /\ Len(s \o <<c>>) = Len(s) + 1
OBVIOUS

LEMMA ZerosAre ==
  ASSUME NEW k \in Nat
  PROVE  /\ Zeros(k) \in Seq(Digits) /\ Len(Zeros(k)) = k /\ \A i \in 1..k : Zeros(k)[i] = 0
         /\ Zeros(0) = <<>>
BY DEF Zeros, Digits

(* The writing of a number to a width is zeros before its decimal writing.  *)
LEMMA PaddedShape ==
  ASSUME NEW n \in Nat, NEW width \in Nat
  PROVE  \E z \in Nat : /\ Padded(n, width) = Zeros(z) \o Decimal[n]
                        /\ Len(Padded(n, width)) = z + Len(Decimal[n])
                        /\ z = 0 \/ z + Len(Decimal[n]) = width
<1>1. PICK w \in Seq(Digits) : w = Decimal[n] /\ Len(w) \in Nat
  BY DecimalIsDigits
<1>2. PICK z \in Nat : Padded(n, width) = Zeros(z) \o w /\ (z = 0 \/ z + Len(w) = width)
  <2>1. CASE width > Len(w)
    <3>1. width - Len(w) \in Nat /\ (width - Len(w)) + Len(w) = width /\ width >= Len(w)
      BY <1>1, <2>1
    <3>2. Padded(n, width) = Zeros(width - Len(w)) \o w
      BY <1>1, <3>1, PaddedIs
    <3> QED
      BY <3>1, <3>2
  <2>2. CASE ~(width > Len(w))
    <3>1. 0 \in Nat /\ width <= Len(w)
      BY <1>1, <2>2
    <3>2. Padded(n, width) = Zeros(0) \o w
      BY <1>1, <3>1, PaddedIs
    <3> QED
      BY <3>1, <3>2
  <2> QED
    BY <2>1, <2>2
<1>3. Zeros(z) \in Seq(Digits) /\ Len(Zeros(z)) = z
  BY ZerosAre
<1>4. Len(Zeros(z) \o w) = z + Len(w)
  <2> HIDE DEF Digits
  <2> QED
    BY <1>3
<1> QED
  BY <1>1, <1>2, <1>4

LEMMA PaddedNumber ==
  ASSUME NEW m \in Seq(Digits), m # <<>>
  PROVE  Number(m) \in Nat /\ Padded(Number(m), Len(m)) = m
<1> DEFINE Goal(k) == \A s \in Seq(Digits) : Len(s) = k + 1 =>
                        Number(s) \in Nat /\ Padded(Number(s), k + 1) = s
           I == {k \in Nat : Goal(k)}
<1>1. Goal(0)
  <2> SUFFICES ASSUME NEW s \in Seq(Digits), Len(s) = 1
               PROVE  Number(s) \in Nat /\ Padded(Number(s), 1) = s
    OBVIOUS
  <2>1. Number(s) = s[1] /\ s[1] \in Digits /\ s = <<s[1]>>
    <3>a. s # <<>>
      <4>1. Len(s) # 0
        OBVIOUS
      <4> QED
        BY <4>1, NotEmpty
    <3>b. 1 \in 1..Len(s)
      OBVIOUS
    <3>0. s # <<>> /\ 1 \in 1..Len(s) /\ s[1] \in Digits
      BY <3>a, <3>b
    <3>1. s # <<>> /\ Len(Front(s)) = 0 /\ Front(s) \in Seq(Digits)
      BY <3>0, FrontIsDigits
    <3>2. Front(s) = <<>>
      BY <3>1
    <3>3. Number(<<>>) = 0
      <4>1. <<>> \in Seq(Digits) /\ Len(<<>>) = 0
        OBVIOUS
      <4>2. PICK value : /\ \A i \in 0..Len(<<>>) :
                              /\ value[i] \in Nat
                              /\ value[i] = IF i = 0 THEN 0 ELSE 10 * value[i - 1] + <<>>[i]
                         /\ Number(<<>>) = value[Len(<<>>)]
        BY <4>1, NumberOf
      <4>3. 0 \in 0..Len(<<>>)
        BY <4>1
      <4>4. value[0] = 0
        BY <4>2, <4>3
      <4> QED
        BY <4>1, <4>2, <4>4
    <3>4. Number(s) = 10 * Number(Front(s)) + s[Len(s)]
      BY <3>1, NumberOfFront
    <3>5. s[1] \in Digits /\ s = <<s[1]>>
      BY <3>0
    <3> QED
      BY <3>2, <3>3, <3>4, <3>5 DEF Digits
  <2>2. s[1] \in Nat /\ s[1] < 10
    BY <2>1 DEF Digits
  <2>3. Decimal[s[1]] = <<s[1]>>
    BY <2>2, DecimalOf
  <2>4. Padded(s[1], 1) = Zeros(0) \o <<s[1]>>
    <3>1. PICK w \in Seq(Digits) : w = <<s[1]>> /\ Len(w) = 1
      BY <2>1
    <3>2. 1 \in Nat /\ 1 <= Len(w)
      BY <3>1
    <3>3. w = Decimal[s[1]]
      BY <2>3, <3>1
    <3>4. Padded(s[1], 1) = Zeros(0) \o w
      BY <2>2, <3>2, <3>3, PaddedIs
    <3> QED
      BY <3>1, <3>4
  <2> QED
    BY <2>1, <2>2, <2>4, ZerosAre
<1>2. ASSUME NEW k \in Nat, Goal(k)
      PROVE  Goal(k + 1)
  <2> SUFFICES ASSUME NEW s \in Seq(Digits), Len(s) = k + 2
               PROVE  Number(s) \in Nat /\ Padded(Number(s), k + 2) = s
    OBVIOUS
  <2>0. s # <<>>
    OBVIOUS
  <2>1. PICK f \in Seq(Digits), d \in Digits : f = Front(s) /\ d = s[Len(s)]
    BY <2>0, FrontIsDigits
  <2>2. /\ Len(f) = k + 1 /\ s = f \o <<d>>
        /\ Number(f) \in Nat /\ Number(s) = 10 * Number(f) + d
    <3>1. /\ Len(Front(s)) = Len(s) - 1 /\ s = Front(s) \o <<s[Len(s)]>>
      BY <2>0, FrontIsDigits
    <3>3. Len(f) = k + 1 /\ s = f \o <<d>>
      BY <2>1, <3>1
    <3>2. Number(f) \in Nat /\ Number(s) = 10 * Number(f) + d
      BY <2>0, <2>1, NumberOfFront
    <3> QED
      BY <3>2, <3>3
  <2>3. PICK n \in Nat : n = Number(f)
    BY <2>2
  <2>4. Padded(n, k + 1) = f
    <3>1. Goal(k)
      BY <1>2
    <3> QED
      BY <2>2, <2>3, <3>1
  <2>5. PICK w \in Seq(Digits) : w = Decimal[n] /\ Len(w) >= 1 /\ Len(w) \in Nat
    BY DecimalIsDigits
  <2>6. PICK z \in Nat : f = Zeros(z) \o w /\ z + Len(w) = k + 1
    <3>1. k + 1 \in Nat /\ Len(f) = k + 1 /\ Len(w) \in Nat
      BY <2>2, <2>5
    <3>2. PICK z \in Nat : /\ Padded(n, k + 1) = Zeros(z) \o Decimal[n]
                           /\ Len(Padded(n, k + 1)) = z + Len(Decimal[n])
      BY <3>1, PaddedShape
    <3> QED
      BY <2>4, <2>5, <3>1, <3>2
  <2>7. Zeros(z) \in Seq(Digits) /\ Len(Zeros(z)) = z /\ \A i \in 1..z : Zeros(z)[i] = 0
    BY ZerosAre
  <2>8. Number(s) = 10 * n + d /\ Number(s) \in Nat
    BY <2>2, <2>3, OneDigitMore
  <2>9. CASE n = 0
    <3>0. Decimal[0] = <<0>>
      <4>1. 0 \in Nat /\ 0 < 10
        OBVIOUS
      <4> QED
        BY <4>1, DecimalOf
    <3>1. w = <<0>> /\ z = k
      BY <2>5, <2>6, <2>9, <3>0
    <3>2. \A i \in 1..(k + 1) : f[i] = 0
      <4>1. f = Zeros(k) \o <<0>>
        BY <2>6, <3>1
      <4> HIDE DEF Digits
      <4> QED
        BY <2>7, <3>1, <4>1
    <3>3. Number(s) = d /\ d \in Nat /\ d < 10
      BY <2>8, <2>9 DEF Digits
    <3>4. Decimal[d] = <<d>>
      BY <3>3, DecimalOf
    <3>5. Padded(d, k + 2) = Zeros(k + 1) \o <<d>>
      <4>1. PICK v \in Seq(Digits) : v = <<d>> /\ Len(v) = 1
        BY OneIsSeq
      <4>2. v = Decimal[d]
        BY <3>4, <4>1
      <4>3. k + 2 \in Nat /\ k + 1 \in Nat /\ k + 2 >= Len(v) /\ k + 2 - Len(v) = k + 1
        BY <4>1
      <4>4. Padded(d, k + 2) = Zeros(k + 2 - Len(v)) \o v
        <5>0. PICK width \in Nat : width = k + 2 /\ width >= Len(Decimal[d])
          BY <4>2, <4>3
        <5>1. Padded(d, width) = Zeros(width - Len(Decimal[d])) \o Decimal[d]
          BY <3>3, <5>0, PaddedIs
        <5>2. width - Len(Decimal[d]) = k + 2 - Len(v)
          BY <4>2, <5>0
        <5>3. Zeros(width - Len(Decimal[d])) = Zeros(k + 2 - Len(v))
          BY <5>2
        <5> QED
          BY <4>2, <5>0, <5>1, <5>3
      <4> QED
        BY <4>1, <4>3, <4>4
    <3>6. Zeros(k + 1) = f
      <4>0. k + 1 \in Nat
        OBVIOUS
      <4>1. Zeros(k + 1) \in Seq(Digits) /\ Len(Zeros(k + 1)) = k + 1 /\ \A i \in 1..(k + 1) : Zeros(k + 1)[i] = 0
        BY <4>0, ZerosAre
      <4> HIDE DEF Digits
      <4> QED
        BY <2>2, <3>2, <4>1
    <3> QED
      BY <2>2, <3>3, <3>5, <3>6
  <2>10. CASE n # 0
    <3>1. Decimal[10 * n + d] = w \o <<d>>
      BY <2>5, <2>10, DecimalOf, OneDigitMore
    <3>2. Len(w \o <<d>>) = Len(w) + 1
      OBVIOUS
    <3>3. Padded(10 * n + d, k + 2) = Zeros(z) \o (w \o <<d>>)
      <4>1. PICK v \in Seq(Digits) : v = w \o <<d>> /\ Len(v) = Len(w) + 1
        BY OneIsSeq, OneMore
      <4>2. k + 2 \in Nat /\ k + 2 >= Len(v) /\ k + 2 - Len(v) = z
        <5>1. PICK a \in Nat : a = Len(w) /\ z + a = k + 1 /\ Len(v) = a + 1
          BY <2>5, <2>6, <4>1
        <5> QED
          BY <5>1
      <4>3. v = Decimal[10 * n + d] /\ 10 * n + d \in Nat
        BY <2>8, <3>1, <4>1
      <4>4. Padded(10 * n + d, k + 2) = Zeros(k + 2 - Len(v)) \o v
        <5>1. PICK q \in Nat : q = 10 * n + d
          BY <4>3
        <5>0. PICK width \in Nat : width = k + 2 /\ width >= Len(Decimal[q])
          BY <4>2, <4>3, <5>1
        <5>2. Padded(q, width) = Zeros(width - Len(Decimal[q])) \o Decimal[q]
          BY <5>0, <5>1, PaddedIs
        <5>3. width - Len(Decimal[q]) = k + 2 - Len(v)
          BY <4>3, <5>0, <5>1
        <5>4. Zeros(width - Len(Decimal[q])) = Zeros(k + 2 - Len(v))
          BY <5>3
        <5> QED
          BY <4>3, <5>0, <5>1, <5>2, <5>4
      <4> QED
        BY <4>1, <4>2, <4>4
    <3>4. Zeros(z) \o (w \o <<d>>) = (Zeros(z) \o w) \o <<d>>
      <4>1. Zeros(z) \in Seq(Digits) /\ <<d>> \in Seq(Digits)
        BY ZerosAre
      <4> HIDE DEF Digits
      <4> QED
        BY <4>1, ConcatAssociative
    <3> QED
      BY <2>2, <2>6, <2>8, <3>3, <3>4
  <2> QED
    BY <2>9, <2>10
<1> HIDE DEF Goal
<1>3. 0 \in I /\ \A k \in Nat : k \in I => k + 1 \in I
  BY <1>1, <1>2
<1> HIDE DEF I
<1>4. \A k \in Nat : k \in I
  BY <1>3, Induction
<1>5. \A k \in Nat : Goal(k)
  BY <1>4 DEF I
<1>6. Len(m) \in Nat /\ Len(m) - 1 \in Nat /\ Len(m) = (Len(m) - 1) + 1
  OBVIOUS
<1> QED
  BY <1>5, <1>6 DEF Goal

LEMMA PlainNumber ==
  ASSUME NEW m \in Seq(Digits), m # <<>>, ~StartsWithZero(m)
  PROVE  Padded(Number(m), 0) = m
<1>1. PICK n \in Nat : n = Number(m) /\ Padded(n, Len(m)) = m
  BY PaddedNumber
<1>2. PICK w \in Seq(Digits) : w = Decimal[n] /\ Len(w) >= 1
  BY DecimalIsDigits
<1>3. PICK z \in Nat : m = Zeros(z) \o w /\ Len(m) = z + Len(w)
  <2>1. Len(m) \in Nat
    OBVIOUS
  <2>2. PICK z \in Nat : /\ Padded(n, Len(m)) = Zeros(z) \o Decimal[n]
                         /\ Len(Padded(n, Len(m))) = z + Len(Decimal[n])
    BY <2>1, PaddedShape
  <2> QED
    BY <1>1, <1>2, <2>2
<1>4. z = 0
  <2>1. ASSUME z # 0
        PROVE  FALSE
    <3>1. Zeros(z) \in Seq(Digits) /\ Len(Zeros(z)) = z /\ Zeros(z)[1] = 0
      BY <2>1, ZerosAre, SMTT(30)
    <3>2. Len(m) > 1
      BY <1>2, <1>3, <2>1
    <3>3. m[1] = 0
      BY <1>2, <1>3, <2>1, <3>1
    <3> QED
      BY <3>2, <3>3 DEF StartsWithZero
  <2> QED
    BY <2>1
<1>5. Padded(n, 0) = Zeros(0) \o w
  <2>1. 0 \in Nat /\ 0 <= Len(w)
    BY <1>2
  <2> QED
    BY <1>2, <2>1, PaddedIs
<1> QED
  BY <1>1, <1>3, <1>4, <1>5

-----------------------------------------------------------------------------
(* What names have in common.                                               *)

LEMMA PrefixIs ==
  ASSUME NEW s \in Names, NEW t \in Names, IsPrefix(s, t)
  PROVE  Len(s) <= Len(t) /\ \A i \in 1..Len(s) : s[i] = t[i]
<1>1. /\ Len(s) \in Nat /\ Len(t) \in Nat /\ Len(s) <= Len(t)
      /\ SubSeq(s, 1, Len(s)) = SubSeq(t, 1, Len(s))
  BY DEF IsPrefix, Names
<1>2. ASSUME NEW i \in 1..Len(s)
      PROVE  s[i] = t[i]
  <2>1. SubSeq(s, 1, Len(s))[i] = s[i] /\ SubSeq(t, 1, Len(s))[i] = t[i]
    BY <1>1 DEF Names
  <2> QED
    BY <1>1, <2>1
<1> QED
  BY <1>1, <1>2

LEMMA PrefixesAre ==
  ASSUME NEW t \in Names
  PROVE  /\ <<>> \in Prefixes(t)
         /\ \A s \in Prefixes(t) : s \in Names /\ Len(s) \in Nat /\ Len(s) <= Len(t)
<1>1. <<>> \in Prefixes(t)
  BY DEF Prefixes
<1>2. ASSUME NEW l \in 0..Len(t)
      PROVE  /\ SubSeq(t, 1, l) \in Names /\ Len(SubSeq(t, 1, l)) \in Nat
             /\ Len(SubSeq(t, 1, l)) <= Len(t)
  BY DEF Names
<1>3. <<>> \in Names /\ Len(<<>>) \in Nat /\ Len(<<>>) <= Len(t)
  BY DEF Names
<1> QED
  BY <1>1, <1>2, <1>3 DEF Prefixes

LEMMA EmptyIsPrefix ==
  ASSUME NEW t \in Names
  PROVE  IsPrefix(<<>>, t)
BY DEF IsPrefix, Names

(* The longest common prefix is there, and is a prefix of all.              *)
LEMMA CommonPrefix ==
  ASSUME NEW S, S \subseteq Names, S # {}
  PROVE  /\ LongestCommonPrefix(S) \in Names
         /\ \A t \in S : IsPrefix(LongestCommonPrefix(S), t)
<1>1. PICK s \in S : TRUE
  OBVIOUS
<1>2. \A c \in CommonPrefixes(S) : c \in Names /\ Len(c) \in Nat /\ IsPrefix(c, s)
  BY PrefixesAre DEF CommonPrefixes
<1>3. <<>> \in CommonPrefixes(S)
  BY <1>1, PrefixesAre, EmptyIsPrefix DEF CommonPrefixes
<1>4. \A c \in CommonPrefixes(S) : Len(s) - Len(c) \in Nat
  <2>1. Len(s) \in Nat
    BY DEF Names
  <2> QED
    BY <1>2, <2>1 DEF IsPrefix
<1> DEFINE Rest == {Len(s) - Len(c) : c \in CommonPrefixes(S)}
<1>5. PICK r \in Rest : \A q \in Rest : r <= q
  <2>1. Rest \subseteq Nat /\ Rest # {}
    BY <1>3, <1>4
  <2> HIDE DEF Rest
  <2> QED
    BY <2>1, Least
<1>6. PICK longest \in CommonPrefixes(S) : r = Len(s) - Len(longest)
  OBVIOUS
<1>7. \A other \in CommonPrefixes(S) : Len(other) <= Len(longest)
  <2> TAKE other \in CommonPrefixes(S)
  <2>1. Len(s) - Len(longest) <= Len(s) - Len(other)
    BY <1>5, <1>6
  <2>2. Len(s) \in Nat /\ Len(longest) \in Nat /\ Len(other) \in Nat
    BY <1>2 DEF Names
  <2> QED
    BY <2>1, <2>2
<1>8. LongestCommonPrefix(S) \in CommonPrefixes(S)
  BY <1>7 DEF LongestCommonPrefix
<1>9. \A t \in S : IsPrefix(LongestCommonPrefix(S), t)
  BY <1>8 DEF CommonPrefixes
<1> QED
  BY <1>2, <1>8, <1>9

LEMMA ReverseIs ==
  ASSUME NEW s \in Names
  PROVE  /\ Reverse(s) \in Names /\ Len(Reverse(s)) = Len(s)
         /\ \A i \in 1..Len(s) : Reverse(s)[i] = s[Len(s) - i + 1]
<1>1. Len(s) \in Nat /\ \A i \in 1..Len(s) : s[i] \in Nat
  BY DEF Names
<1>2. \A i \in 1..Len(s) : Len(s) - i + 1 \in 1..Len(s)
  BY <1>1
<1> QED
  BY <1>1, <1>2 DEF Reverse, Names

LEMMA MiddleIs ==
  ASSUME NEW a \in Names, NEW p \in Nat, NEW q \in Nat, p + 1 <= q, q <= Len(a)
  PROVE  /\ SubSeq(a, p + 1, q) \in Names /\ Len(SubSeq(a, p + 1, q)) = q - p
         /\ \A i \in 1..(q - p) : SubSeq(a, p + 1, q)[i] = a[p + i]
<1>1. PICK m \in Nat : m = p + 1 /\ m <= q /\ q - m + 1 = q - p
  OBVIOUS
<1>2. /\ SubSeq(a, m, q) \in Names /\ Len(SubSeq(a, m, q)) = q - m + 1
      /\ \A i \in 1..(q - m + 1) : SubSeq(a, m, q)[i] = a[m + i - 1]
  BY <1>1 DEF Names
<1>3. \A i \in 1..(q - p) : m + i - 1 = p + i
  BY <1>1
<1> QED
  BY <1>1, <1>2, <1>3

LEMMA JoinIs ==
  ASSUME NEW s \in Names, NEW t \in Names
  PROVE  \E u \in Names : /\ u = s \o t /\ Len(u) = Len(s) + Len(t)
                          /\ \A i \in 1..Len(s) : u[i] = s[i]
                          /\ \A i \in (Len(s) + 1)..Len(u) : u[i] = t[i - Len(s)]
<1>0. s \o t \in Names /\ Len(s \o t) = Len(s) + Len(t)
  BY DEF Names
<1>1. PICK u \in Names : u = s \o t /\ Len(u) = Len(s) + Len(t)
  BY <1>0
<1>2. \A i \in 1..Len(s) : u[i] = s[i]
  BY <1>1 DEF Names
<1>3. \A i \in (Len(s) + 1)..Len(u) : u[i] = t[i - Len(s)]
  BY <1>1 DEF Names
<1> QED
  BY <1>1, <1>2, <1>3

(* A name is its prefix, the part between, and its suffix.                  *)
Middle(a, pre, rev) == SubSeq(a, Len(pre) + 1, Len(a) - Len(rev))

LEMMA NameIsParts ==
  ASSUME NEW a \in Names, NEW pre \in Names, NEW rev \in Names,
         IsPrefix(pre, a), IsPrefix(rev, Reverse(a)),
         Middle(a, pre, rev) # <<>>
  PROVE  Middle(a, pre, rev) \in Names /\ a = pre \o Middle(a, pre, rev) \o Reverse(rev)
<1>0. PICK mid : /\ mid = Middle(a, pre, rev) /\ mid # <<>>
                 /\ mid = SubSeq(a, Len(pre) + 1, Len(a) - Len(rev))
  BY DEF Middle
<1>1. PICK n \in Nat, p \in Nat, r \in Nat : n = Len(a) /\ p = Len(pre) /\ r = Len(rev)
  BY DEF Names
<1>2. p + 1 <= n - r
  BY <1>0, <1>1 DEF Names
<1>3. /\ mid \in Names /\ Len(mid) = n - r - p
      /\ \A i \in 1..(n - r - p) : mid[i] = a[p + i]
  <2>1. PICK q \in Nat : q = n - r /\ p + 1 <= q /\ q <= Len(a)
    <3>1. n - r \in Nat /\ p + 1 <= n - r /\ n - r <= n
      BY <1>2
    <3> QED
      BY <1>1, <3>1
  <2>2. mid = SubSeq(a, p + 1, q)
    BY <1>0, <1>1, <2>1
  <2>3. /\ mid \in Names /\ Len(mid) = q - p
        /\ \A i \in 1..(q - p) : mid[i] = a[p + i]
    <3>1. /\ SubSeq(a, p + 1, q) \in Names /\ Len(SubSeq(a, p + 1, q)) = q - p
          /\ \A i \in 1..(q - p) : SubSeq(a, p + 1, q)[i] = a[p + i]
      BY <2>1, MiddleIs
    <3> QED
      BY <2>2, <3>1
  <2>4. q - p = n - r - p
    BY <2>1
  <2> QED
    BY <2>3, <2>4
<1>4. \A i \in 1..p : pre[i] = a[i]
  BY <1>1, PrefixIs
<1>5. Reverse(a) \in Names /\ Len(Reverse(a)) = n /\ \A i \in 1..n : Reverse(a)[i] = a[n - i + 1]
  BY <1>1, ReverseIs
<1>6. r <= n /\ \A i \in 1..r : rev[i] = a[n - i + 1]
  <2>1. \A i \in 1..r : rev[i] = Reverse(a)[i]
    BY <1>1, <1>5, PrefixIs
  <2> QED
    BY <1>1, <1>2, <1>5, <2>1
<1>7. PICK suf \in Names : /\ suf = Reverse(rev) /\ Len(suf) = r
                           /\ \A i \in 1..r : suf[i] = rev[r - i + 1]
  BY <1>1, ReverseIs
<1>8. \A i \in 1..r : suf[i] = a[n - r + i]
  <2> TAKE i \in 1..r
  <2>1. r - i + 1 \in 1..r /\ n - (r - i + 1) + 1 = n - r + i
    BY <1>6
  <2> QED
    BY <1>6, <1>7, <2>1
<1>9. PICK t \in Names : t = pre \o mid /\ Len(t) = n - r
                          /\ (\A i \in 1..p : t[i] = pre[i])
                          /\ \A i \in (p + 1)..(n - r) : t[i] = mid[i - p]
  <2>0. n - r - p \in Nat /\ p + (n - r - p) = n - r
    BY <1>2
  <2>1. PICK q \in Nat : q = Len(mid) /\ p + q = n - r
    BY <1>3, <2>0
  <2>2. PICK u \in Names : /\ u = pre \o mid /\ Len(u) = Len(pre) + Len(mid)
                           /\ \A i \in 1..Len(pre) : u[i] = pre[i]
                           /\ \A i \in (Len(pre) + 1)..Len(u) : u[i] = mid[i - Len(pre)]
    BY <1>3, JoinIs
  <2>3. Len(u) = n - r /\ Len(pre) = p
    BY <1>1, <2>1, <2>2
  <2> QED
    BY <2>2, <2>3
<1>10. \A i \in 1..(n - r) : t[i] = a[i]
  <2> TAKE i \in 1..(n - r)
  <2>1. CASE i <= p
    BY <1>4, <1>9, <2>1
  <2>2. CASE ~(i <= p)
    <3>1. i - p \in 1..(n - r - p) /\ p + (i - p) = i /\ i \in (p + 1)..(n - r)
      BY <1>2, <2>2
    <3> QED
      BY <1>3, <1>9, <3>1
  <2> QED
    BY <2>1, <2>2
<1>12. PICK b \in Names : b = t \o suf /\ Len(b) = n /\ (\A i \in 1..(n - r) : b[i] = t[i])
                           /\ \A i \in (n - r + 1)..n : b[i] = suf[i - (n - r)]
  <2>0. n - r \in Nat /\ (n - r) + r = n
    BY <1>2
  <2>1. PICK q \in Nat : q = Len(t) /\ q = n - r /\ q + r = n
    BY <1>9, <2>0
  <2>2. PICK u \in Names : /\ u = t \o suf /\ Len(u) = Len(t) + Len(suf)
                           /\ \A i \in 1..Len(t) : u[i] = t[i]
                           /\ \A i \in (Len(t) + 1)..Len(u) : u[i] = suf[i - Len(t)]
    BY JoinIs
  <2>3. Len(u) = n /\ Len(t) = n - r
    BY <1>7, <2>1, <2>2
  <2>4. \A i \in (n - r + 1)..n : u[i] = suf[i - (n - r)]
    BY <2>2, <2>3
  <2>5. \A i \in 1..(n - r) : u[i] = t[i]
    BY <2>2, <2>3
  <2> QED
    BY <2>2, <2>3, <2>4, <2>5
<1>13. \A i \in 1..n : b[i] = a[i]
  <2> TAKE i \in 1..n
  <2>1. CASE i <= n - r
    BY <1>10, <1>12, <2>1
  <2>2. CASE ~(i <= n - r)
    <3>1. i - (n - r) \in 1..r /\ n - r + (i - (n - r)) = i /\ i \in (n - r + 1)..n
      BY <1>2, <2>2
    <3>2. suf[i - (n - r)] = a[n - r + (i - (n - r))]
      BY <1>8, <3>1
    <3> QED
      BY <1>12, <3>1, <3>2
  <2> QED
    BY <2>1, <2>2
<1>11. a = b
  BY <1>1, <1>12, <1>13, SeqEqual DEF Names
<1> QED
  BY <1>0, <1>3, <1>7, <1>9, <1>11, <1>12

-----------------------------------------------------------------------------
(* The numbers of a list of names.                                          *)

LEMMA LargestOf ==
  ASSUME NEW n \in Nat \ {0}, NEW f \in [1..n -> Nat]
  PROVE  \E x \in 1..n : \A y \in 1..n : f[y] <= f[x]
<1> DEFINE Goal(k) == k + 1 <= n => \E x \in 1..(k + 1) : \A y \in 1..(k + 1) : f[y] <= f[x]
           I == {k \in Nat : Goal(k)}
<1>1. Goal(0)
  OBVIOUS
<1>2. ASSUME NEW k \in Nat, Goal(k)
      PROVE  Goal(k + 1)
  <2> SUFFICES ASSUME k + 2 <= n
               PROVE  \E x \in 1..(k + 2) : \A y \in 1..(k + 2) : f[y] <= f[x]
    OBVIOUS
  <2>1. PICK x \in 1..(k + 1) : \A y \in 1..(k + 1) : f[y] <= f[x]
    BY <1>2
  <2>2. x \in 1..(k + 2) /\ k + 2 \in 1..(k + 2) /\ f[x] \in Nat /\ f[k + 2] \in Nat
    OBVIOUS
  <2>3. \A y \in 1..(k + 2) : y = k + 2 \/ y \in 1..(k + 1)
    OBVIOUS
  <2>4. CASE f[x] <= f[k + 2]
    <3>1. \A y \in 1..(k + 2) : f[y] <= f[k + 2]
      <4> TAKE y \in 1..(k + 2)
      <4>1. f[y] \in Nat
        OBVIOUS
      <4> QED
        BY <2>1, <2>2, <2>3, <2>4, <4>1
    <3> QED
      BY <2>2, <3>1
  <2>5. CASE ~(f[x] <= f[k + 2])
    <3>1. \A y \in 1..(k + 2) : f[y] <= f[x]
      <4> TAKE y \in 1..(k + 2)
      <4>1. f[y] \in Nat
        OBVIOUS
      <4> QED
        BY <2>1, <2>2, <2>3, <2>5, <4>1
    <3> QED
      BY <2>2, <3>1
  <2> QED
    BY <2>4, <2>5
<1> HIDE DEF Goal
<1>3. 0 \in I /\ \A k \in Nat : k \in I => k + 1 \in I
  BY <1>1, <1>2
<1> HIDE DEF I
<1>4. \A k \in Nat : k \in I
  BY <1>3, Induction
<1>5. \A k \in Nat : Goal(k)
  BY <1>4 DEF I
<1>6. n - 1 \in Nat /\ (n - 1) + 1 = n
  OBVIOUS
<1>7. Goal(n - 1)
  BY <1>5, <1>6
<1> QED
  BY <1>6, <1>7 DEF Goal

(* As many different numbers as names, with no wider spread than that, are  *)
(* all the numbers from the least to the greatest.                          *)
LEMMA NumbersAreRange ==
  ASSUME NEW n \in Nat \ {0}, NEW f \in [1..n -> Nat], NEW N, N = {f[i] : i \in 1..n},
         Cardinality(N) = n, Max(N) - Min(N) = n - 1
  PROVE  Min(N) \in Nat /\ Max(N) \in Nat /\ N = Min(N)..Max(N)
<1>1. N \subseteq Nat /\ N # {}
  OBVIOUS
<1>2. PICK lo \in N : \A y \in N : lo <= y
  BY <1>1, Least
<1>3. Min(N) \in N /\ \A y \in N : Min(N) <= y
  BY <1>2 DEF Min
<1>4. PICK hi \in N : \A y \in N : y <= hi
  <2>1. PICK x \in 1..n : \A y \in 1..n : f[y] <= f[x]
    BY LargestOf
  <2> QED
    BY <2>1
<1>5. Max(N) \in N /\ \A y \in N : y <= Max(N)
  <2>1. \A y \in N : hi >= y
    BY <1>1, <1>4
  <2>2. Max(N) \in N /\ \A y \in N : Max(N) >= y
    BY <2>1 DEF Max
  <2> QED
    BY <1>1, <2>2
<1>6. PICK a \in Nat, b \in Nat : a = Min(N) /\ b = Max(N) /\ a <= b /\ b - a = n - 1
  BY <1>1, <1>3, <1>5
<1>7. N \in SUBSET (a..b)
  <2>1. ASSUME NEW y \in N
        PROVE  y \in a..b
    <3>1. y \in Nat /\ a <= y /\ y <= b
      BY <1>1, <1>3, <1>5, <1>6
    <3> QED
      BY <3>1
  <2> QED
    BY <2>1
<1>8. IsFiniteSet(a..b) /\ Cardinality(a..b) = n
  <2>1. IsFiniteSet(a..b) /\ Cardinality(a..b) = IF a > b THEN 0 ELSE b - a + 1
    <3>1. a \in Int /\ b \in Int
      OBVIOUS
    <3> QED
      BY <3>1, FS_Interval
  <2> QED
    BY <1>6, <2>1
<1>9. a..b = N
  BY <1>7, <1>8, FS_Subset
<1> QED
  BY <1>6, <1>9

LEMMA LiteralIs ==
  ASSUME NEW name
  PROVE  NamesOf(Literal(name)) = {name}
BY DEF NamesOf, Literal

LEMMA MembersAre ==
  ASSUME NEW list \in Seq(Names), list # <<>>
  PROVE  /\ Len(list) \in Nat \ {0} /\ DOMAIN list = 1..Len(list)
         /\ ToSet(list) = {list[i] : i \in 1..Len(list)} /\ ToSet(list) \subseteq Names
         /\ \A i \in 1..Len(list) : list[i] \in Names
BY DEF ToSet

(* The parts of every name of the list.                                     *)
LEMMA MiddlesAre ==
  ASSUME NEW list \in Seq(Names), list # <<>>,
         NEW pre, pre = LongestCommonPrefix(ToSet(list)),
         NEW rev, rev = LongestCommonPrefix({Reverse(s) : s \in ToSet(list)}),
         NEW i \in 1..Len(list), Middles(list)[i] # <<>>
  PROVE  Middles(list)[i] \in Names /\ list[i] = pre \o Middles(list)[i] \o Reverse(rev)
<1>1. ToSet(list) # {} /\ list[i] \in ToSet(list) /\ ToSet(list) \subseteq Names /\ list[i] \in Names
  <2>1. 1 \in 1..Len(list)
    BY MembersAre
  <2>2. list[1] \in ToSet(list) /\ list[i] \in ToSet(list)
    BY <2>1 DEF ToSet
  <2>3. ToSet(list) \subseteq Names
    BY MembersAre
  <2> QED
    BY <2>2, <2>3
<1>2. pre \in Names /\ IsPrefix(pre, list[i])
  BY <1>1, CommonPrefix
<1>3. rev \in Names /\ IsPrefix(rev, Reverse(list[i]))
  <2> DEFINE R == {Reverse(s) : s \in ToSet(list)}
  <2>1. R \subseteq Names /\ R # {} /\ Reverse(list[i]) \in R
    BY <1>1, ReverseIs
  <2> HIDE DEF R
  <2>2. rev = LongestCommonPrefix(R)
    BY DEF R
  <2> QED
    BY <2>1, <2>2, CommonPrefix
<1>4. PICK mid : mid = Middles(list)[i] /\ mid # <<>>
                 /\ mid = SubSeq(list[i], Len(pre) + 1, Len(list[i]) - Len(rev))
  BY MembersAre DEF Middles
<1>5. mid \in Names /\ list[i] = pre \o mid \o Reverse(rev)
  <2>1. PICK a \in Names : a = list[i]
    BY <1>1
  <2>2. /\ a \in Names /\ pre \in Names /\ rev \in Names /\ IsPrefix(pre, a) /\ IsPrefix(rev, Reverse(a))
        /\ Middle(a, pre, rev) # <<>> /\ Middle(a, pre, rev) = mid
    BY <1>2, <1>3, <1>4, <2>1 DEF Middle
  <2>3. Middle(a, pre, rev) \in Names /\ a = pre \o Middle(a, pre, rev) \o Reverse(rev)
    BY <2>2, NameIsParts, ZenonT(30)
  <2> QED
    BY <2>1, <2>2, <2>3
<1> QED
  BY <1>4, <1>5

(* A pattern found for a list stands for the names of the list.             *)
LEMMA FitNames ==
  ASSUME NEW list \in Seq(Names), list # <<>>, Len(list) # 1,
         \A i \in DOMAIN list : StartsWithZero(Middles(list)[i]) => StartsWithZero(Middles(list)[1]),
         DetectNumericPattern(list) # None
  PROVE  NamesOf(DetectNumericPattern(list)) = ToSet(list)
<1>0. PICK n \in Nat \ {0} : n = Len(list) /\ DOMAIN list = 1..n
  BY MembersAre
<1>1. PICK pre, rev, mids :
        /\ pre = LongestCommonPrefix(ToSet(list))
        /\ rev = LongestCommonPrefix({Reverse(s) : s \in ToSet(list)})
        /\ mids = Middles(list)
  OBVIOUS
<1>2. DOMAIN mids = 1..n
  BY <1>0, <1>1 DEF Middles
<1> DEFINE numbers == {Number(mids[i]) : i \in 1..n}
           padded == StartsWithZero(mids[1])
           width == IF padded THEN Len(mids[1]) ELSE 0
           lo == Min(numbers)
           hi == Max(numbers)
           fit == [pre |-> pre, range |-> <<lo, hi>>, width |-> width, suf |-> Reverse(rev)]
<1>3. /\ \A i \in 1..n : mids[i] # <<>> /\ \A j \in DOMAIN mids[i] : IsDigit(mids[i][j])
      /\ padded => \A i \in 1..n : Len(mids[i]) = width
      /\ Cardinality(numbers) = n
      /\ hi - lo = n - 1
      /\ DetectNumericPattern(list) = fit
  BY <1>0, <1>1, <1>2 DEF DetectNumericPattern
<1>4. \A i \in 1..n : mids[i] \in Names /\ list[i] = pre \o mids[i] \o Reverse(rev)
  BY <1>0, <1>1, <1>3, MiddlesAre
<1>5. ASSUME NEW i \in 1..n
      PROVE  mids[i] \in Seq(Digits) /\ mids[i] # <<>>
  <2>1. PICK m \in Names : m = mids[i] /\ \A j \in DOMAIN m : m[j] \in Digits
    BY <1>3, <1>4 DEF IsDigit, Digits
  <2>2. m \in Seq(Digits)
    <3>1. Len(m) \in Nat /\ DOMAIN m = 1..Len(m) /\ m \in [1..Len(m) -> Nat]
      BY DEF Names
    <3>2. m \in [1..Len(m) -> Digits]
      BY <2>1, <3>1
    <3> QED
      BY <3>1, <3>2
  <2> QED
    BY <1>3, <2>1, <2>2
<1>6. PICK w \in Nat : w = width
  <2>1. Len(mids[1]) \in Nat
    BY <1>0, <1>4 DEF Names
  <2> QED
    BY <2>1
<1>7. ASSUME NEW i \in 1..n
      PROVE  Number(mids[i]) \in Nat /\ Padded(Number(mids[i]), w) = mids[i]
  <2>1. PICK m \in Seq(Digits) : m = mids[i] /\ m # <<>>
    BY <1>5
  <2>2. Number(m) \in Nat /\ Padded(Number(m), Len(m)) = m
    BY <2>1, PaddedNumber
  <2>3. CASE padded
    <3>1. Len(m) = w
      BY <1>3, <1>6, <2>1, <2>3
    <3> QED
      BY <2>1, <2>2, <3>1
  <2>4. CASE ~padded
    <3>1. ~StartsWithZero(m) /\ w = 0
      BY <1>0, <1>1, <1>6, <2>1, <2>4
    <3>2. Padded(Number(m), 0) = m
      BY <2>1, <3>1, PlainNumber
    <3> QED
      BY <2>1, <2>2, <3>1, <3>2
  <2> QED
    BY <2>3, <2>4
<1>8. lo \in Nat /\ hi \in Nat /\ numbers = lo..hi
  <2> DEFINE f == [i \in 1..n |-> Number(mids[i])]
  <2>1. f \in [1..n -> Nat] /\ numbers = {f[i] : i \in 1..n}
    BY <1>7
  <2>2. Cardinality(numbers) = n /\ Max(numbers) - Min(numbers) = n - 1
    BY ONLY <1>3
  <2> HIDE DEF numbers, f, padded, width, fit, lo, hi
  <2>3. Min(numbers) \in Nat /\ Max(numbers) \in Nat /\ numbers = Min(numbers)..Max(numbers)
    BY ONLY <2>1, <2>2, n \in Nat \ {0}, NumbersAreRange, ZenonT(30)
  <2> QED
    BY ONLY <2>3 DEF lo, hi
<1>9. NamesOf(fit) = {pre \o Padded(k, w) \o Reverse(rev) : k \in numbers}
  <2>1. <<lo, hi>> # None /\ fit.range = <<lo, hi>>
    <3> HIDE DEF lo, hi
    <3>1. <<lo, hi>> \in Nat \X Nat
      BY <1>8
    <3> QED
      BY <3>1, DeployPlanAssumption
  <2>2. NamesOf(fit) = {pre \o Padded(k, w) \o Reverse(rev) : k \in lo..hi}
    <3> HIDE DEF lo, hi, width
    <3> QED
      BY <1>6, <2>1 DEF NamesOf
  <2> QED
    BY <1>8, <2>2
<1>10. \A i \in 1..n : pre \o Padded(Number(mids[i]), w) \o Reverse(rev) = list[i]
  BY <1>4, <1>7
<1>11. {pre \o Padded(k, w) \o Reverse(rev) : k \in numbers} = {list[i] : i \in 1..n}
  BY <1>10
<1> QED
  BY <1>0, <1>3, <1>9, <1>11, MembersAre

(* The patterns a list of names or drives collapses into stand for exactly  *)
(* that list: no name is lost, none is added, whatever its digits and gaps, *)
(* unless a padded name follows a first one that is not (volumes.go; the    *)
(* first name decides the padding, see PlanIsFaithful).                     *)
THEOREM PatternsName ==
  ASSUME NEW list \in Seq(Names), list # <<>>,
         \A i \in DOMAIN list : StartsWithZero(Middles(list)[i]) => StartsWithZero(Middles(list)[1])
  PROVE  UNION {NamesOf(pattern) : pattern \in Patterns(list)} = ToSet(list)
<1> DEFINE fit == DetectNumericPattern(list)
<1>1. CASE fit = None
  <2>1. Patterns(list) = {Literal(name) : name \in ToSet(list)}
    BY <1>1 DEF Patterns
  <2>2. \A name \in ToSet(list) : NamesOf(Literal(name)) = {name}
    BY LiteralIs
  <2>3. UNION {NamesOf(pattern) : pattern \in Patterns(list)}
          = UNION {NamesOf(Literal(name)) : name \in ToSet(list)}
    BY <2>1
  <2>4. ASSUME NEW x \in ToSet(list)
        PROVE  x \in UNION {NamesOf(Literal(name)) : name \in ToSet(list)}
    BY <2>2
  <2>5. ASSUME NEW x \in UNION {NamesOf(Literal(name)) : name \in ToSet(list)}
        PROVE  x \in ToSet(list)
    <3>1. PICK name \in ToSet(list) : x \in NamesOf(Literal(name))
      OBVIOUS
    <3> QED
      BY <2>2, <3>1
  <2> QED
    BY <2>3, <2>4, <2>5
<1>2. CASE fit # None
  <2>1. Patterns(list) = {fit}
    BY <1>2 DEF Patterns
  <2>2. NamesOf(fit) = ToSet(list)
    <3>1. CASE Len(list) = 1
      <4>1. fit = Literal(list[1])
        BY <3>1 DEF DetectNumericPattern
      <4>2. ToSet(list) = {list[1]}
        <5>1. 1..Len(list) = {1}
          BY <3>1
        <5>2. ToSet(list) = {list[i] : i \in 1..Len(list)}
          BY MembersAre
        <5> QED
          BY <5>1, <5>2
      <4> QED
        BY <4>1, <4>2, LiteralIs
    <3>2. CASE Len(list) # 1
      BY <1>2, <3>2, FitNames
    <3> QED
      BY <3>1, <3>2
  <2> QED
    BY <2>1, <2>2
<1> QED
  BY <1>1, <1>2

(* The arguments of the server name every mount of every host, and no other. *)
LEMMA VolumesName ==
  ASSUME NEW p, p.hosts \in Seq(Names), p.mounts \in Seq(Names), p.hosts # <<>>, p.mounts # <<>>,
         \A i \in DOMAIN p.hosts :
           StartsWithZero(Middles(p.hosts)[i]) => StartsWithZero(Middles(p.hosts)[1]),
         \A i \in DOMAIN p.mounts :
           StartsWithZero(Middles(p.mounts)[i]) => StartsWithZero(Middles(p.mounts)[1])
  PROVE  Endpoints(p, RenderVolumes(p)) = ToSet(p.hosts) \X ToSet(p.mounts)
<1> DEFINE HostPatterns == IF Len(p.hosts) = 1 THEN {None} ELSE Patterns(p.hosts)
           Hosts(h) == IF h = None THEN ToSet(p.hosts) ELSE NamesOf(h)
           All == {Hosts(h) : h \in HostPatterns}
           Paths == {NamesOf(q) : q \in Patterns(p.mounts)}
<1>1. UNION Paths = ToSet(p.mounts)
  BY PatternsName
<1>2. UNION All = ToSet(p.hosts)
  <2>1. CASE Len(p.hosts) = 1
    BY <2>1
  <2>2. CASE Len(p.hosts) # 1
    <3>0. UNION {NamesOf(h) : h \in Patterns(p.hosts)} = ToSet(p.hosts)
      BY PatternsName
    <3>1. HostPatterns = Patterns(p.hosts)
      BY <2>2
    <3>2. \A h \in HostPatterns : Hosts(h) \subseteq ToSet(p.hosts)
      BY <3>0, <3>1
    <3>3. CASE None \in HostPatterns
      <4>1. Hosts(None) = ToSet(p.hosts) /\ Hosts(None) \in All
        BY <3>3
      <4> HIDE DEF HostPatterns, Hosts
      <4> QED
        BY <3>2, <4>1
    <3>4. CASE None \notin HostPatterns
      <4>1. \A h \in HostPatterns : Hosts(h) = NamesOf(h)
        BY <3>4
      <4> HIDE DEF HostPatterns, Hosts
      <4>2. All = {NamesOf(h) : h \in Patterns(p.hosts)}
        BY <3>1, <4>1
      <4> QED
        BY <3>0, <4>2
    <3> QED
      BY <3>3, <3>4
  <2> QED
    BY <2>1, <2>2
<1>3. RenderVolumes(p) = [host : HostPatterns, path : Patterns(p.mounts)]
  BY DEF RenderVolumes
<1>4. Endpoints(p, RenderVolumes(p)) = UNION {Hosts(v.host) \X NamesOf(v.path) : v \in RenderVolumes(p)}
  BY DEF Endpoints
<1>5. ASSUME NEW e \in ToSet(p.hosts) \X ToSet(p.mounts)
      PROVE  e \in Endpoints(p, RenderVolumes(p))
  <2>1. PICK x \in ToSet(p.hosts), y \in ToSet(p.mounts) : e = <<x, y>>
    OBVIOUS
  <2>2. PICK h \in HostPatterns : x \in Hosts(h)
    <3> HIDE DEF HostPatterns, Hosts
    <3> QED
      BY <1>2
  <2>3. PICK q \in Patterns(p.mounts) : y \in NamesOf(q)
    BY <1>1
  <2>4. PICK v \in RenderVolumes(p) : v.host = h /\ v.path = q
    <3>1. [host |-> h, path |-> q] \in RenderVolumes(p)
      BY <1>3
    <3> QED
      BY <3>1
  <2>5. e \in Hosts(v.host) \X NamesOf(v.path)
    <3> HIDE DEF Hosts
    <3> QED
      BY <2>1, <2>2, <2>3, <2>4
  <2> QED
    <3> HIDE DEF Hosts
    <3> QED
      BY <1>4, <2>5
<1>6. ASSUME NEW e \in Endpoints(p, RenderVolumes(p))
      PROVE  e \in ToSet(p.hosts) \X ToSet(p.mounts)
  <2>1. PICK v \in RenderVolumes(p) : e \in Hosts(v.host) \X NamesOf(v.path)
    <3> HIDE DEF Hosts
    <3> QED
      BY <1>4
  <2>2. v.host \in HostPatterns /\ v.path \in Patterns(p.mounts)
    <3> HIDE DEF HostPatterns
    <3> QED
      BY <1>3
  <2>3. PICK x \in Hosts(v.host), y \in NamesOf(v.path) : e = <<x, y>>
    <3> HIDE DEF Hosts
    <3> QED
      BY <2>1
  <2>4. x \in ToSet(p.hosts)
    <3> HIDE DEF HostPatterns, Hosts
    <3> QED
      BY <1>2, <2>2, <2>3
  <2>5. y \in ToSet(p.mounts)
    BY <1>1, <2>2, <2>3
  <2> QED
    BY <2>3, <2>4, <2>5
<1> QED
  BY <1>5, <1>6

-----------------------------------------------------------------------------
(* A draft whose sizes were accepted is told to the server as it was drawn. *)
(* This is so for every draft, of any number of hosts and drives (params.go, *)
(* volumes.go, and the environment file of install.go).                     *)
THEOREM PlanFaithful ==
  ASSUME NEW p, p.hosts \in Seq(Names), p.mounts \in Seq(Names), p.hosts # <<>>, p.mounts # <<>>,
         ValidateTopology(p)
  PROVE  PlanIsFaithful(p)
<1> DEFINE total == TotalDriveCount(p)
           size == ResolvedSetSize(p)
           many == total > 1
           askedSize == IF many /\ size # DefaultSetSize(total) THEN size ELSE None
           askedParity == IF many /\ EffectiveParity(p) # DefaultParityBlocks(size)
                          THEN EffectiveParity(p) ELSE None
           toldSize == IF askedSize = None THEN DefaultSetSize(total) ELSE askedSize
           toldParity == IF askedParity = None THEN DefaultParityBlocks(toldSize) ELSE askedParity
           plain(list) == \A i \in DOMAIN list :
                            StartsWithZero(Middles(list)[i]) => StartsWithZero(Middles(list)[1])
<1>1. plain(p.hosts) /\ plain(p.mounts) =>
        Endpoints(p, RenderVolumes(p)) = ToSet(p.hosts) \X ToSet(p.mounts)
  BY VolumesName
<1>2. total > 1 => /\ toldParity = EffectiveParity(p) /\ 2 * toldParity <= toldSize
                   /\ total % toldSize = 0
  <2> SUFFICES ASSUME total > 1
               PROVE  /\ toldParity = EffectiveParity(p) /\ 2 * toldParity <= toldSize
                      /\ total % toldSize = 0
    OBVIOUS
  <2>0. Len(p.hosts) \in Nat /\ Len(p.mounts) \in Nat /\ total \in Nat
    <3>1. PICK a \in Nat, b \in Nat : a = Len(p.hosts) /\ b = Len(p.mounts)
      OBVIOUS
    <3>2. a * b \in Nat
      OBVIOUS
    <3> QED
      BY <3>1, <3>2 DEF TotalDriveCount
  <2>1. size \in 2..16 /\ total % size = 0 /\ EffectiveParity(p) \in 1..(size \div 2)
    BY <2>0 DEF ValidateTopology, SetSizes
  <2>2. PICK s \in Nat, k \in Nat : s = size /\ k = EffectiveParity(p) /\ 2 * k <= s
    <3>1. size \in Nat /\ size \div 2 \in Nat /\ 2 * (size \div 2) <= size
      <4> HIDE DEF size
      <4> QED
        BY <2>1
    <3>2. EffectiveParity(p) \in Nat /\ 2 * EffectiveParity(p) <= size
      <4> HIDE DEF size
      <4> QED
        BY <2>1, <3>1
    <3> QED
      BY <3>1, <3>2
  <2>3. size # None /\ EffectiveParity(p) # None
    BY <2>2, DeployPlanAssumption
  <2>4. toldSize = size
    <3> HIDE DEF size, total
    <3> QED
      BY <2>3
  <2>5. toldParity = EffectiveParity(p)
    <3> HIDE DEF size, total, toldSize
    <3> QED
      BY <2>3, <2>4
  <2> QED
    <3> HIDE DEF size, total, toldSize, toldParity
    <3> QED
      BY <2>1, <2>2, <2>4, <2>5
<1>3. /\ RenderConfigEnv(p).volumes = RenderVolumes(p)
      /\ RenderConfigEnv(p).setSize = askedSize /\ RenderConfigEnv(p).parity = askedParity
  BY DEF RenderConfigEnv
<1>4. PICK env : env = RenderConfigEnv(p)
  OBVIOUS
<1>5. /\ env.volumes = RenderVolumes(p) /\ env.setSize = askedSize /\ env.parity = askedParity
  BY <1>3, <1>4
<1> HIDE DEF askedSize, askedParity
<1> QED
  BY <1>1, <1>2, <1>4, <1>5 DEF PlanIsFaithful

-----------------------------------------------------------------------------
(* The local preparation takes the set with the fewest sets, the server the *)
(* largest size: for any number of drives they are the same.                *)
LEMMA SmallerSizeMoreSets ==
  ASSUME NEW s \in Nat, NEW m \in Nat, NEW a \in Nat, NEW b \in Nat, s * a = m * b, a <= b, b > 0
  PROVE  m <= s
<1>1. ASSUME s < m
      PROVE  FALSE
  <2>1. s * a <= s * b
    OBVIOUS
  <2>2. s * b < m * b
    BY <1>1
  <2>3. s * a \in Nat /\ s * b \in Nat /\ m * b \in Nat
    OBVIOUS
  <2> QED
    BY <2>1, <2>2, <2>3
<1> QED
  BY <1>1

LEMMA Divided ==
  ASSUME NEW n \in Nat, NEW s \in 2..16, n % s = 0
  PROVE  n \div s \in Nat /\ n = s * (n \div s)
OBVIOUS

LEMMA FewestSets ==
  ASSUME NEW count \in Nat, count > 1, ComputeSetSize(count) # None
  PROVE  /\ ComputeSetSize(count) \in {s \in SetSizes : count % s = 0}
         /\ \A s \in SetSizes : count % s = 0 => count \div ComputeSetSize(count) <= count \div s
<1> DEFINE sizes == {s \in SetSizes : count % s = 0}
           Fewest(s) == \A other \in sizes : count \div s <= count \div other
<1>1. sizes # {} /\ ComputeSetSize(count) = CHOOSE s \in sizes : Fewest(s)
  BY DEF ComputeSetSize
<1>2. \E s \in sizes : Fewest(s)
  <2> DEFINE sets == {count \div s : s \in sizes}
  <2>1. \A s \in sizes : count \div s \in Nat
    BY DEF SetSizes
  <2>2. sets \subseteq Nat /\ sets # {}
    <3> HIDE DEF sizes
    <3> QED
      BY <1>1, <2>1
  <2>3. PICK least \in sets : \A n \in sets : least <= n
    <3> HIDE DEF sets
    <3> QED
      BY <2>2, Least
  <2> HIDE DEF sizes
  <2> QED
    BY <2>3
<1>3. ComputeSetSize(count) \in sizes /\ Fewest(ComputeSetSize(count))
  <2> HIDE DEF sizes, Fewest
  <2> QED
    BY <1>1, <1>2
<1> QED
  BY <1>3

(* The size that the local preparation shows (localdeploy.go,               *)
(* computeSetSize) is the size the server chooses by itself.                *)
THEOREM LocalSizeAgrees ==
  ASSUME NEW count \in Nat, count > 1, ComputeSetSize(count) # None
  PROVE  ComputeSetSize(count) = DefaultSetSize(count)
<1> DEFINE sizes == {s \in SetSizes : count % s = 0}
<1>0. \A s \in sizes : s \in Nat /\ count \div s \in Nat /\ count = s * (count \div s)
  BY Divided DEF SetSizes
<1>1. PICK c \in sizes : c = ComputeSetSize(count) /\ \A s \in sizes : count \div c <= count \div s
  BY FewestSets
<1> HIDE DEF sizes
<1>2. ASSUME NEW s \in sizes
      PROVE  s <= c
  <2>1. PICK a \in Nat, b \in Nat :
          a = count \div c /\ b = count \div s /\ c * a = s * b /\ a <= b /\ c * a = count
    BY <1>0, <1>1
  <2>2. b > 0
    <3>1. CASE b = 0
      <4>1. s * b = 0
        BY <1>0, <3>1
      <4> QED
        BY <2>1, <4>1
    <3> QED
      BY <3>1
  <2>3. c \in Nat /\ s \in Nat
    BY <1>0
  <2> QED
    BY <2>1, <2>2, <2>3, SmallerSizeMoreSets
<1>3. Max(sizes) = c
  <2>1. \A s \in sizes : c >= s
    BY <1>0, <1>2
  <2>2. \A x \in sizes : (\A s \in sizes : x >= s) => x = c
    <3> TAKE x \in sizes
    <3>1. x \in Nat /\ c \in Nat /\ x <= c
      BY <1>0, <1>2
    <3> QED
      BY <3>1
  <2> QED
    BY <2>1, <2>2 DEF Max
<1>4. DefaultSetSize(count) = Max(sizes)
  BY <1>1 DEF DefaultSetSize, sizes
<1> QED
  BY <1>1, <1>3, <1>4

=============================================================================
