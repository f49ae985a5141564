------------------------- MODULE TextFramingProofs -------------------------
(***************************************************************************)
(* Safety of TextFraming for any prefixes and field counts, any fields and *)
(* noise, any frame limit and however TCP cuts a stream of any length: the *)
(* receiver cuts the frames that the stream as a whole has.                *)
(***************************************************************************)
EXTENDS TextFraming, FiniteSetTheorems, SequenceTheorems, TLAPS

(* The provers do not know of a literal that it is a string.               *)
Symbols == STRING \cup {Comma, "e", "n", "d"}
Text == Seq(Symbols)

-----------------------------------------------------------------------------
(* Numbers                                                                 *)

(* Among some natural numbers there is a least one.                        *)
LEMMA LeastNumber ==
    ASSUME NEW T \in SUBSET Nat, T # {}
    PROVE  Min(T) \in T /\ \A n \in T : Min(T) <= n
<1>1. PICK x \in T : \A y \in T : ~(<<y, x>> \in OpToRel(<, Nat))
  BY NatLessThanWellFounded, WFMin
<1>2. \A y \in T : x <= y
  <2>1. ASSUME NEW y \in T, y < x PROVE FALSE
    BY <1>1, <2>1 DEF OpToRel
  <2> QED BY <2>1
<1> QED BY <1>2 DEF Min

(* Among some numbers up to n there is a greatest one.                     *)
LEMMA GreatestNumber ==
    ASSUME NEW n \in Nat, NEW T \in SUBSET (1 .. n), T # {}
    PROVE  Max(T) \in T /\ \A k \in T : k <= Max(T)
<1>1. PICK D : D = {d \in 0 .. n : n - d \in T}
  OBVIOUS
<1>2. D \in SUBSET Nat /\ D # {}
  <2>1. PICK k \in T : TRUE
    OBVIOUS
  <2>2. n - k \in 0 .. n /\ n - (n - k) = k
    OBVIOUS
  <2>3. n - k \in D
    BY <1>1, <2>2
  <2>4. \A d \in D : d \in Nat
    BY <1>1
  <2> QED BY <2>3, <2>4
<1>3. PICK d \in D : \A e \in D : d <= e
  BY <1>2, LeastNumber
<1>4. n - d \in T /\ \A k \in T : k <= n - d
  <2>1. d \in 0 .. n /\ n - d \in T
    BY <1>1, <1>3
  <2>2. ASSUME NEW k \in T PROVE k <= n - d
    <3>1. n - k \in 0 .. n /\ n - (n - k) = k
      OBVIOUS
    <3>2. d <= n - k
      BY <1>1, <1>3, <3>1
    <3> QED BY <2>1, <3>2
  <2> QED BY <2>1, <2>2
<1> QED BY <1>4 DEF Max

(* What is before a number of a finite set, counted                        *)
LEMMA Counted ==
    ASSUME NEW n \in Nat, NEW C \in SUBSET (1 .. n)
    PROVE  /\ IsFiniteSet(C) /\ Cardinality(C) \in Nat
           /\ \A i : Before(i, C) \in Nat
           /\ \A i, j \in C : i < j => Before(i, C) < Before(j, C)
           /\ \A i, j \in C : Before(i, C) = Before(j, C) => i = j
           /\ \A i \in C : Cardinality({j \in C : j <= i}) = Before(i, C) + 1
<1>1. IsFiniteSet(C) /\ Cardinality(C) \in Nat
  <2>1. IsFiniteSet(1 .. n)
    BY FS_Interval
  <2> QED BY <2>1, FS_Subset, FS_CardinalityType
<1>2. \A D \in SUBSET C : IsFiniteSet(D) /\ Cardinality(D) \in Nat
  BY <1>1, FS_Subset, FS_CardinalityType
<1>3. \A i : Before(i, C) \in Nat
  BY <1>2 DEF Before
<1>4. ASSUME NEW i \in C PROVE Cardinality({j \in C : j <= i}) = Before(i, C) + 1
  <2>1. PICK D : D = {j \in C : j < i}
    OBVIOUS
  <2>2. {j \in C : j <= i} = D \cup {i}
    <3>1. \A j \in C : j <= i <=> j < i \/ j = i
      OBVIOUS
    <3>2. \A j \in C : j <= i <=> j \in D \cup {i}
      BY <2>1, <3>1
    <3>3. D \cup {i} \subseteq C
      BY <2>1
    <3> QED BY <3>2, <3>3
  <2>4. i \notin D /\ D \in SUBSET C
    BY <2>1
  <2>3. Cardinality(D \cup {i}) = Cardinality(D) + 1
    BY <1>2, <2>4, FS_AddElement
  <2> QED BY <2>1, <2>2, <2>3 DEF Before
<1>5. ASSUME NEW i \in C, NEW j \in C, i < j PROVE Before(i, C) < Before(j, C)
  <2>1. PICK D, E : D = {k \in C : k <= i} /\ E = {k \in C : k < j}
    OBVIOUS
  <2>2. D \in SUBSET E /\ E \in SUBSET C
    <3>1. \A k \in C : k <= i => k < j
      BY <1>5
    <3> QED BY <2>1, <3>1
  <2>3. Cardinality(D) <= Cardinality(E)
    BY <1>2, <2>2, FS_Subset
  <2>4. Cardinality(D) = Before(i, C) + 1 /\ Cardinality(E) = Before(j, C)
    BY <1>4, <2>1 DEF Before
  <2> QED BY <1>3, <2>3, <2>4
<1>6. ASSUME NEW i \in C, NEW j \in C, Before(i, C) = Before(j, C) PROVE i = j
  <2>1. ~(i < j) /\ ~(j < i)
    BY <1>3, <1>5, <1>6
  <2>2. i \in Nat /\ j \in Nat
    OBVIOUS
  <2> QED BY <2>1, <2>2
<1> QED BY <1>1, <1>3, <1>4, <1>5, <1>6

(* There is a k-th number of k or more.                                    *)
LEMMA Kth ==
    ASSUME NEW n \in Nat, NEW C \in SUBSET (1 .. n), NEW k \in Nat, k < Cardinality(C)
    PROVE  \E i \in C : Before(i, C) = k
<1>1. PICK c : c = Cardinality(C)
  OBVIOUS
<1>2. c \in Nat /\ IsFiniteSet(C) /\ k < c
  BY <1>1, Counted
<1>3. PICK f : f = [i \in C |-> Before(i, C)]
  OBVIOUS
<1>4. f \in Injection(C, 0 .. c - 1)
  <2>1. ASSUME NEW i \in C PROVE f[i] \in 0 .. c - 1
    <3>1. Cardinality({j \in C : j <= i}) <= c
      BY <1>1, <1>2, FS_Subset
    <3>2. Before(i, C) \in Nat /\ Before(i, C) + 1 <= c
      BY <3>1, Counted
    <3> QED BY <1>2, <1>3, <3>2
  <2>2. ASSUME NEW i \in C, NEW j \in C, f[i] = f[j] PROVE i = j
    BY <1>3, <2>2, Counted
  <2> QED BY <1>3, <2>1, <2>2 DEF Injection, IsInjective
<1>5. IsFiniteSet(0 .. c - 1) /\ Cardinality(0 .. c - 1) = c
  <2>1. 0 \in Int /\ c - 1 \in Int /\ ~(0 > c - 1) /\ c - 1 - 0 + 1 = c
    BY <1>2
  <2> QED BY <2>1, FS_Interval
<1>6. f \in Surjection(C, 0 .. c - 1)
  BY <1>1, <1>4, <1>5, FS_Injection
<1>7. k \in 0 .. c - 1
  BY <1>2
<1>8. \E i \in C : f[i] = k
  BY <1>6, <1>7 DEF Surjection
<1> QED BY <1>3, <1>8

-----------------------------------------------------------------------------
(* Parts of a text                                                         *)

LEMMA Part ==
    ASSUME NEW S, NEW s \in Seq(S), NEW a \in Nat, NEW b \in Nat, 1 <= a, a <= b + 1, b <= Len(s)
    PROVE  /\ SubSeq(s, a, b) \in Seq(S) /\ Len(SubSeq(s, a, b)) = b - a + 1
           /\ \A i \in 1 .. b - a + 1 : SubSeq(s, a, b)[i] = s[a + i - 1]
<1>1. \A i \in a .. b : s[i] \in S
  OBVIOUS
<1>2. /\ SubSeq(s, a, b) \in Seq(S)
      /\ Len(SubSeq(s, a, b)) = IF a <= b THEN b - a + 1 ELSE 0
      /\ \A i \in 1 .. b - a + 1 : SubSeq(s, a, b)[i] = s[a + i - 1]
  BY <1>1, SubSeqProperties
<1> QED BY <1>2

LEMMA PartOfPart ==
    ASSUME NEW S, NEW s \in Seq(S), NEW a \in Nat, NEW b \in Nat, 1 <= a, a <= b + 1, b <= Len(s),
           NEW m \in Nat, NEW n \in Nat, 1 <= m, m <= n + 1, n <= b - a + 1
    PROVE  SubSeq(SubSeq(s, a, b), m, n) = SubSeq(s, a + m - 1, a + n - 1)
<1>1. PICK t : t = SubSeq(s, a, b)
  OBVIOUS
<1>2. t \in Seq(S) /\ Len(t) = b - a + 1 /\ \A i \in 1 .. b - a + 1 : t[i] = s[a + i - 1]
  BY <1>1, Part
<1>3. PICK u, v : u = SubSeq(t, m, n) /\ v = SubSeq(s, a + m - 1, a + n - 1)
  OBVIOUS
<1>4. u \in Seq(S) /\ Len(u) = n - m + 1 /\ \A i \in 1 .. n - m + 1 : u[i] = t[m + i - 1]
  BY <1>2, <1>3, Part
<1>5. /\ v \in Seq(S) /\ Len(v) = n - m + 1
      /\ \A i \in 1 .. n - m + 1 : v[i] = s[a + m - 1 + i - 1]
  <2>1. /\ a + m - 1 \in Nat /\ a + n - 1 \in Nat /\ 1 <= a + m - 1 /\ a + m - 1 <= a + n - 1 + 1
        /\ a + n - 1 <= Len(s) /\ a + n - 1 - (a + m - 1) + 1 = n - m + 1
    BY <1>2
  <2> QED BY <1>3, <2>1, Part
<1>6. \A i \in 1 .. n - m + 1 : u[i] = v[i]
  <2>1. ASSUME NEW i \in 1 .. n - m + 1 PROVE u[i] = v[i]
    <3>1. m + i - 1 \in 1 .. b - a + 1 /\ a + (m + i - 1) - 1 = a + m - 1 + i - 1
      OBVIOUS
    <3> QED BY <1>2, <1>4, <1>5, <3>1
  <2> QED BY <2>1
<1>7. u = v
  BY <1>4, <1>5, <1>6, SeqEqual
<1> QED BY <1>1, <1>3, <1>7

LEMMA CommasBound ==
    ASSUME NEW x \in Text
    PROVE  /\ Len(x) \in Nat /\ CommasOf(x) \in SUBSET (1 .. Len(x))
           /\ \A i : i \in CommasOf(x) <=> i \in 1 .. Len(x) /\ x[i] = Comma
BY DEF CommasOf, Text

(* The commas of a first part of a text are the first of its commas.       *)
LEMMA CommasOfPart ==
    ASSUME NEW x \in Text, NEW n \in 0 .. Len(x)
    PROVE  /\ SubSeq(x, 1, n) \in Text /\ Len(SubSeq(x, 1, n)) = n
           /\ \A i \in 1 .. n : SubSeq(x, 1, n)[i] = x[i]
           /\ CommasOf(SubSeq(x, 1, n)) = {i \in CommasOf(x) : i <= n}
<1>1. PICK y : y = SubSeq(x, 1, n)
  OBVIOUS
<1>2. y \in Text /\ Len(y) = n /\ \A i \in 1 .. n : y[i] = x[i]
  <2>1. /\ SubSeq(x, 1, n) \in Seq(Symbols) /\ Len(SubSeq(x, 1, n)) = n - 1 + 1
        /\ \A i \in 1 .. n - 1 + 1 : SubSeq(x, 1, n)[i] = x[1 + i - 1]
    BY Part DEF Text
  <2>2. n - 1 + 1 = n /\ \A i \in 1 .. n : 1 + i - 1 = i
    OBVIOUS
  <2> QED BY <1>1, <2>1, <2>2 DEF Text
<1>3. CommasOf(y) = {i \in CommasOf(x) : i <= n}
  <2>1. \A i : i \in CommasOf(y) <=> i \in 1 .. n /\ y[i] = Comma
    BY <1>2, CommasBound
  <2>2. \A i : i \in CommasOf(x) /\ i <= n <=> i \in 1 .. n /\ x[i] = Comma
    BY CommasBound
  <2> QED BY <1>2, <2>1, <2>2
<1> QED BY <1>1, <1>2, <1>3

(* The first and the last field of a text                                  *)
LEMMA OuterFields ==
    ASSUME NEW x \in Text
    PROVE  /\ Len(Split(x)) = Cardinality(CommasOf(x)) + 1
           /\ CommasOf(x) # {} =>
                 /\ Split(x)[1] = SubSeq(x, 1, Min(CommasOf(x)) - 1)
                 /\ Last(Split(x)) = SubSeq(x, Max(CommasOf(x)) + 1, Len(x))
<1>1. PICK C : C = CommasOf(x)
  OBVIOUS
<1>2. C \in SUBSET (1 .. Len(x)) /\ Len(x) \in Nat /\ C \in SUBSET Nat
  <2>1. C \in SUBSET (1 .. Len(x)) /\ Len(x) \in Nat
    BY <1>1, CommasBound
  <2> QED BY <2>1
<1>3. PICK c : c = Cardinality(C)
  OBVIOUS
<1>4. c \in Nat /\ IsFiniteSet(C)
  BY <1>2, <1>3, Counted
<1> DEFINE from(n) == IF n = 0 THEN 1 ELSE 1 + CHOOSE i \in C : Before(i, C) = n - 1
           to(n) == IF n = c THEN Len(x) ELSE (CHOOSE i \in C : Before(i, C) = n) - 1
<1>5. Split(x) = [n \in 1 .. c + 1 |-> SubSeq(x, from(n - 1), to(n - 1))]
  BY <1>1, <1>3 DEF Split
<1> HIDE DEF from, to
<1>6. Len(Split(x)) = c + 1
  BY <1>4, <1>5
<1>7. ASSUME C # {}
      PROVE  /\ Split(x)[1] = SubSeq(x, 1, Min(C) - 1)
             /\ Last(Split(x)) = SubSeq(x, Max(C) + 1, Len(x))
  <2>1. c > 0
    BY <1>3, <1>4, <1>7, FS_EmptySet
  <2>2. PICK i \in C : Before(i, C) = 0
    BY <1>2, <1>3, <1>4, <2>1, Kth
  <2>3. PICK k \in C : Before(k, C) = c - 1
    <3>1. c - 1 \in Nat /\ c - 1 < c
      BY <1>4, <2>1
    <3> QED BY <1>2, <1>3, <3>1, Kth
  <2>4. \A j, l \in C : Before(j, C) = Before(l, C) => j = l
    BY <1>2, Counted
  <2>5. i = Min(C)
    <3>1. Min(C) \in C /\ Min(C) <= i
      BY <1>2, <1>7, LeastNumber
    <3>2. ~(Min(C) < i)
      <4>1. Min(C) < i => Before(Min(C), C) < Before(i, C)
        BY <1>2, <3>1, Counted
      <4>2. Before(Min(C), C) \in Nat
        BY <1>2, Counted
      <4> QED BY <2>2, <4>1, <4>2
    <3>3. Min(C) \in Nat /\ i \in Nat
      BY <1>2, <3>1
    <3> QED BY <3>1, <3>2, <3>3
  <2>6. k = Max(C)
    <3>1. Max(C) \in C /\ k <= Max(C)
      BY <1>2, <1>7, GreatestNumber
    <3>2. Before(Max(C), C) + 1 <= c
      <4>1. Cardinality({j \in C : j <= Max(C)}) = Before(Max(C), C) + 1
        BY <1>2, <3>1, Counted
      <4>2. Cardinality({j \in C : j <= Max(C)}) <= c
        BY <1>3, <1>4, FS_Subset
      <4> QED BY <4>1, <4>2
    <3>3. ~(k < Max(C))
      <4>1. k < Max(C) => Before(k, C) < Before(Max(C), C)
        BY <1>2, <3>1, Counted
      <4>2. Before(Max(C), C) \in Nat
        BY <1>2, Counted
      <4> QED BY <1>4, <2>3, <3>2, <4>1, <4>2
    <3>4. Max(C) \in Nat /\ k \in Nat
      BY <1>2, <3>1
    <3> QED BY <3>1, <3>3, <3>4
  <2>7. from(0) = 1 /\ to(0) = Min(C) - 1
    <3>1. (CHOOSE j \in C : Before(j, C) = 0) = i
      BY <2>2, <2>4
    <3>2. from(0) = 1
      BY DEF from
    <3>3. 0 # c
      BY <1>4, <2>1
    <3>4. to(0) = (CHOOSE j \in C : Before(j, C) = 0) - 1
      BY <3>3 DEF to
    <3> QED BY <2>5, <3>1, <3>2, <3>4
  <2>8. from(c) = Max(C) + 1 /\ to(c) = Len(x)
    <3>1. (CHOOSE j \in C : Before(j, C) = c - 1) = k
      BY <2>3, <2>4
    <3>2. c # 0 /\ 1 + k = k + 1
      BY <1>2, <1>4, <2>1
    <3> QED BY <2>6, <3>1, <3>2 DEF from, to
  <2>9. Split(x)[1] = SubSeq(x, from(0), to(0))
    <3>1. 1 \in 1 .. c + 1 /\ 1 - 1 = 0
      BY <1>4
    <3> QED BY <1>5, <3>1
  <2>10. Split(x)[c + 1] = SubSeq(x, from(c), to(c))
    <3>1. PICK n : n = c + 1
      OBVIOUS
    <3>2. n \in 1 .. c + 1 /\ n - 1 = c
      BY <1>4, <3>1
    <3>3. Split(x)[n] = SubSeq(x, from(n - 1), to(n - 1))
      BY <1>5, <3>2
    <3> QED BY <3>1, <3>2, <3>3
  <2> QED BY <1>6, <2>7, <2>8, <2>9, <2>10 DEF Last
<1> QED BY <1>1, <1>3, <1>6, <1>7

(* Numbers in order, counted: before the k-th there are k - 1.             *)
LEMMA Enumerated ==
    ASSUME NEW c \in Nat, NEW cm \in [1 .. c -> Nat], \A i, j \in 1 .. c : i < j => cm[i] < cm[j],
           NEW C, C = {cm[i] : i \in 1 .. c}
    PROVE  /\ Cardinality(C) = c
           /\ \A k \in 1 .. c : Before(cm[k], C) = k - 1
<1>1. \A i, j \in 1 .. c : cm[i] = cm[j] => i = j
  <2>1. ASSUME NEW i \in 1 .. c, NEW j \in 1 .. c, cm[i] = cm[j] PROVE i = j
    <3>1. ~(i < j) /\ ~(j < i)
      BY <2>1
    <3> QED BY <3>1
  <2> QED BY <2>1
<1>2. ASSUME NEW k \in 0 .. c PROVE Cardinality({cm[i] : i \in 1 .. k}) = k
  <2>1. PICK f : f = [i \in 1 .. k |-> cm[i]]
    OBVIOUS
  <2>2. \A i \in 1 .. k : i \in 1 .. c
    OBVIOUS
  <2>3. PICK D : D = {cm[i] : i \in 1 .. k}
    OBVIOUS
  <2>4. f \in Bijection(1 .. k, D)
    <3>1. f \in [1 .. k -> D]
      BY <2>1, <2>3
    <3>2. \A i, j \in 1 .. k : f[i] = f[j] => i = j
      BY <1>1, <2>1, <2>2
    <3>3. \A d \in D : \E i \in 1 .. k : f[i] = d
      BY <2>1, <2>3
    <3> QED BY <3>1, <3>2, <3>3 DEF Bijection, Injection, IsInjective, Surjection
  <2>5. IsFiniteSet(1 .. k) /\ Cardinality(1 .. k) = k
    <3>1. 1 \in Int /\ k \in Int /\ (1 > k => k = 0) /\ k - 1 + 1 = k
      OBVIOUS
    <3> QED BY <3>1, FS_Interval
  <2>6. Cardinality(D) = Cardinality(1 .. k)
    BY <2>4, <2>5, FS_Bijection DEF ExistsBijection
  <2> QED BY <2>3, <2>5, <2>6
<1>3. ASSUME NEW k \in 1 .. c PROVE Before(cm[k], C) = k - 1
  <2>1. PICK h : h = k - 1
    OBVIOUS
  <2>2. h \in 0 .. c
    BY <2>1
  <2>3. \A i \in 1 .. c : cm[i] < cm[k] <=> i \in 1 .. h
    <3>1. ASSUME NEW i \in 1 .. c PROVE cm[i] < cm[k] <=> i < k
      <4>1. cm[i] \in Nat /\ cm[k] \in Nat
        OBVIOUS
      <4>2. i < k \/ i = k \/ k < i
        OBVIOUS
      <4> QED BY <4>1, <4>2
    <3> QED BY <2>1, <3>1
  <2>4. \A i \in 1 .. h : i \in 1 .. c
    BY <2>1
  <2>5. {j \in C : j < cm[k]} = {cm[i] : i \in 1 .. h}
    BY <2>3, <2>4
  <2> QED BY <1>2, <2>1, <2>2, <2>5 DEF Before
<1>4. c \in 0 .. c
  OBVIOUS
<1> QED BY <1>2, <1>3, <1>4

SplitFrom(n, C) == IF n = 0 THEN 1 ELSE 1 + CHOOSE i \in C : Before(i, C) = n - 1
SplitTo(x, n, C, c) == IF n = c THEN Len(x) ELSE (CHOOSE i \in C : Before(i, C) = n) - 1

SplitAt(x, C, c) == [n \in 1 .. c + 1 |-> SubSeq(x, SplitFrom(n - 1, C), SplitTo(x, n - 1, C, c))]

LEMMA SplitBy == \A x : Split(x) = SplitAt(x, CommasOf(x), Cardinality(CommasOf(x)))
BY DEF Split, SplitAt, SplitFrom, SplitTo

CommasAt(x, c, cm) ==
    /\ c \in Nat /\ cm \in [1 .. c -> Nat] /\ \A i, j \in 1 .. c : i < j => cm[i] < cm[j]
    /\ CommasOf(x) = {cm[i] : i \in 1 .. c}

(* The fields of a text whose commas are known                             *)
LEMMA SplitInto ==
    ASSUME NEW x, NEW c, NEW cm, CommasAt(x, c, cm)
    PROVE  Split(x) = [n \in 1 .. c + 1 |->
                         SubSeq(x, IF n = 1 THEN 1 ELSE 1 + cm[n - 1], IF n = c + 1 THEN Len(x) ELSE cm[n] - 1)]
<1>0. /\ c \in Nat /\ cm \in [1 .. c -> Nat] /\ \A i, j \in 1 .. c : i < j => cm[i] < cm[j]
      /\ CommasOf(x) = {cm[i] : i \in 1 .. c}
  BY DEF CommasAt
<1>1. PICK C : C = CommasOf(x)
  OBVIOUS
<1>2. Cardinality(C) = c /\ \A k \in 1 .. c : cm[k] \in C /\ Before(cm[k], C) = k - 1
  <2>1. C = {cm[i] : i \in 1 .. c}
    BY <1>0, <1>1
  <2>2. \A k \in 1 .. c : cm[k] \in C
    BY <2>1
  <2> QED BY <1>0, <2>1, <2>2, Enumerated
<1>3. ASSUME NEW k \in 1 .. c PROVE (CHOOSE i \in C : Before(i, C) = k - 1) = cm[k]
  <2>1. ASSUME NEW i \in C, Before(i, C) = k - 1 PROVE i = cm[k]
    <3>1. PICK j \in 1 .. c : i = cm[j]
      BY <1>0, <1>1
    <3>2. j - 1 = k - 1
      BY <1>2, <2>1, <3>1
    <3>3. j = k
      BY <1>0, <3>2
    <3> QED BY <3>1, <3>3
  <2> QED BY <1>2, <2>1
<1>4. Split(x) = SplitAt(x, C, c)
  BY <1>1, <1>2, SplitBy
<1>5. SplitFrom(0, C) = 1 /\ SplitTo(x, c, C, c) = Len(x)
  BY DEF SplitFrom, SplitTo
<1>6. ASSUME NEW k \in 1 .. c PROVE SplitFrom(k, C) = 1 + cm[k]
  <2>1. k # 0
    BY <1>0
  <2>2. SplitFrom(k, C) = 1 + CHOOSE i \in C : Before(i, C) = k - 1
    BY <2>1 DEF SplitFrom
  <2> QED BY <1>3, <2>2
<1>7. ASSUME NEW k \in 1 .. c PROVE SplitTo(x, k - 1, C, c) = cm[k] - 1
  <2>1. k - 1 # c
    BY <1>0
  <2>2. SplitTo(x, k - 1, C, c) = (CHOOSE i \in C : Before(i, C) = k - 1) - 1
    BY <2>1 DEF SplitTo
  <2> QED BY <1>3, <2>2
<1>8. ASSUME NEW n \in 1 .. c + 1
      PROVE  /\ SplitFrom(n - 1, C) = IF n = 1 THEN 1 ELSE 1 + cm[n - 1]
             /\ SplitTo(x, n - 1, C, c) = IF n = c + 1 THEN Len(x) ELSE cm[n] - 1
  <2>1. (n = 1 => n - 1 = 0) /\ (n # 1 => n - 1 \in 1 .. c) /\ (n = c + 1 => n - 1 = c) /\ (n # c + 1 => n \in 1 .. c)
    BY <1>0
  <2> QED BY <1>5, <1>6, <1>7, <2>1
<1> QED BY <1>4, <1>8 DEF SplitAt

-----------------------------------------------------------------------------
(* Text frames. What stands before the first comma of a text               *)

Prefix(x) == SubSeq(x, 1, Min(CommasOf(x)) - 1)

(* A text frame by its commas                                              *)
LEMMA TextShape ==
    ASSUME NEW x \in Text
    PROVE  IsText(x) <=>
              /\ CommasOf(x) # {} /\ Prefix(x) \in DOMAIN COMMAS
              /\ Cardinality(CommasOf(x)) = COMMAS[Prefix(x)]
              /\ SubSeq(x, Max(CommasOf(x)) + 1, Len(x)) = End
              /\ Len(x) <= MAX_FRAME
<1>1. Len(Split(x)) = Cardinality(CommasOf(x)) + 1 /\ Cardinality(CommasOf(x)) \in Nat
  BY CommasBound, Counted, OuterFields
<1>2. CASE CommasOf(x) = {}
  <2>1. Len(Split(x)) = 1
    BY <1>1, <1>2, FS_EmptySet
  <2>2. \A y \in DOMAIN COMMAS : COMMAS[y] \in Nat /\ COMMAS[y] # 0
    BY FramingConstants
  <2>3. \A n \in Nat : 1 = n + 1 => n = 0
    OBVIOUS
  <2> QED BY <1>2, <2>1, <2>2, <2>3 DEF IsText
<1>3. CASE CommasOf(x) # {}
  <2>1. Split(x)[1] = Prefix(x) /\ Last(Split(x)) = SubSeq(x, Max(CommasOf(x)) + 1, Len(x))
    BY <1>3, OuterFields DEF Prefix
  <2>2. \A y \in DOMAIN COMMAS : COMMAS[y] \in Nat
    BY FramingConstants
  <2>3. \A n, m \in Nat : n + 1 = m + 1 <=> n = m
    OBVIOUS
  <2> QED BY <1>1, <1>3, <2>1, <2>2, <2>3 DEF IsText
<1> QED BY <1>2, <1>3

(* What TextStep says, case by case; c is the comma before the last field. *)
LEMMA TextSteps ==
    ASSUME NEW x \in Text
    PROVE  /\ CommasOf(x) = {} => TextStep(x) = Wait
           /\ CommasOf(x) # {} /\ Prefix(x) \notin DOMAIN COMMAS => TextStep(x) = Fails("FORMAT")
           /\ CommasOf(x) # {} /\ Prefix(x) \in DOMAIN COMMAS =>
                 /\ Cardinality(CommasOf(x)) < COMMAS[Prefix(x)] => TextStep(x) = Wait
                 /\ ~(Cardinality(CommasOf(x)) < COMMAS[Prefix(x)]) =>
                       \E c \in CommasOf(x) :
                          /\ Before(c, CommasOf(x)) = COMMAS[Prefix(x)] - 1
                          /\ TextStep(x) = IF Len(x) < c + 3 THEN Wait
                                           ELSE IF SubSeq(x, c + 1, c + 3) # End THEN Fails("FORMAT")
                                           ELSE IF c + 3 > MAX_FRAME THEN Fails("LIMIT")
                                           ELSE Frame(c + 3)
<1>1. CommasOf(x) = {} => TextStep(x) = Wait
  BY DEF TextStep
<1>2. CommasOf(x) # {} /\ Prefix(x) \notin DOMAIN COMMAS => TextStep(x) = Fails("FORMAT")
  BY DEF TextStep, Prefix
<1>3. ASSUME CommasOf(x) # {}, Prefix(x) \in DOMAIN COMMAS
      PROVE  TextStep(x) =
               IF Cardinality(CommasOf(x)) < COMMAS[Prefix(x)] THEN Wait
               ELSE CASE ~Enough(x, TerminatorAt(x, Prefix(x))) -> Wait
                      [] Enough(x, TerminatorAt(x, Prefix(x))) /\ ~Terminated(x, TerminatorAt(x, Prefix(x))) ->
                            Fails("FORMAT")
                      [] Enough(x, TerminatorAt(x, Prefix(x))) /\ Terminated(x, TerminatorAt(x, Prefix(x))) ->
                            IF TerminatorAt(x, Prefix(x)) + 2 > MAX_FRAME THEN Fails("LIMIT")
                            ELSE Frame(TerminatorAt(x, Prefix(x)) + 2)
  BY <1>3 DEF TextStep, Prefix
<1>4. ASSUME CommasOf(x) # {}, Prefix(x) \in DOMAIN COMMAS, ~(Cardinality(CommasOf(x)) < COMMAS[Prefix(x)])
      PROVE  \E c \in CommasOf(x) :
                /\ Before(c, CommasOf(x)) = COMMAS[Prefix(x)] - 1
                /\ TextStep(x) = IF Len(x) < c + 3 THEN Wait
                                 ELSE IF SubSeq(x, c + 1, c + 3) # End THEN Fails("FORMAT")
                                 ELSE IF c + 3 > MAX_FRAME THEN Fails("LIMIT")
                                 ELSE Frame(c + 3)
  <2>1. PICK k : k = COMMAS[Prefix(x)] - 1
    OBVIOUS
  <2>2. /\ COMMAS[Prefix(x)] \in Nat \ {0} /\ CommasOf(x) \in SUBSET (1 .. Len(x)) /\ Len(x) \in Nat
        /\ Cardinality(CommasOf(x)) \in Nat
    BY <1>4, FramingConstants, CommasBound, Counted
  <2>3. k \in Nat /\ k < Cardinality(CommasOf(x))
    BY <1>4, <2>1, <2>2
  <2>4. PICK c \in CommasOf(x) : Before(c, CommasOf(x)) = k
    BY <2>2, <2>3, Kth
  <2>5. \A i \in CommasOf(x) : Before(i, CommasOf(x)) = k => i = c
    BY <2>2, <2>4, Counted
  <2>6. TerminatorAt(x, Prefix(x)) = 1 + CHOOSE i \in CommasOf(x) : Before(i, CommasOf(x)) = k
    BY <2>1 DEF TerminatorAt
  <2>7. TerminatorAt(x, Prefix(x)) = 1 + c
    <3>1. (CHOOSE i \in CommasOf(x) : Before(i, CommasOf(x)) = k) = c
      BY <2>4, <2>5
    <3> QED BY <2>6, <3>1
  <2>8. c \in Nat /\ 1 + c + 2 = c + 3 /\ 1 + c = c + 1
    BY <2>2
  <2>9. Enough(x, c + 1) <=> ~(Len(x) < c + 3)
    BY <2>2, <2>8 DEF Enough
  <2>10. ~(Len(x) < c + 3) => (Terminated(x, c + 1) <=> SubSeq(x, c + 1, c + 3) = End)
    <3>1. ASSUME ~(Len(x) < c + 3) PROVE Min({c + 1 + 2, Len(x)}) = c + 3
      <4>1. {c + 1 + 2, Len(x)} \in SUBSET Nat /\ {c + 1 + 2, Len(x)} # {}
        BY <2>2, <2>8
      <4>2. PICK m : m = Min({c + 1 + 2, Len(x)})
        OBVIOUS
      <4>3. m \in {c + 1 + 2, Len(x)} /\ m <= c + 1 + 2
        BY <4>1, <4>2, LeastNumber
      <4>4. m = c + 3
        BY <2>2, <2>8, <3>1, <4>3
      <4> QED BY <4>2, <4>4
    <3> QED BY <3>1 DEF Terminated
  <2>11. c + 1 + 2 = c + 3
    BY <2>8
  <2>12. TextStep(x) = IF Len(x) < c + 3 THEN Wait
                       ELSE IF SubSeq(x, c + 1, c + 3) # End THEN Fails("FORMAT")
                       ELSE IF c + 3 > MAX_FRAME THEN Fails("LIMIT")
                       ELSE Frame(c + 3)
    BY <1>3, <1>4, <2>7, <2>8, <2>9, <2>10, <2>11
  <2> QED BY <2>1, <2>4, <2>12
<1>5. ASSUME CommasOf(x) # {}, Prefix(x) \in DOMAIN COMMAS, Cardinality(CommasOf(x)) < COMMAS[Prefix(x)]
      PROVE  TextStep(x) = Wait
  BY <1>3, <1>5
<1> QED BY <1>1, <1>2, <1>4, <1>5

(* A first part that has a comma has the same prefix.                      *)
LEMMA SamePrefix ==
    ASSUME NEW x \in Text, NEW n \in 0 .. Len(x), CommasOf(SubSeq(x, 1, n)) # {}
    PROVE  CommasOf(x) # {} /\ Prefix(SubSeq(x, 1, n)) = Prefix(x)
<1>1. PICK C, D : C = CommasOf(x) /\ D = CommasOf(SubSeq(x, 1, n))
  OBVIOUS
<1>2. D = {i \in C : i <= n} /\ D # {} /\ C \in SUBSET (1 .. Len(x)) /\ C # {} /\ Len(x) \in Nat
  BY <1>1, CommasBound, CommasOfPart
<1>3. C \in SUBSET Nat /\ D \in SUBSET Nat
  <2>1. \A i \in C : i \in Nat
    BY <1>2
  <2> QED BY <1>2, <2>1
<1>4. PICK a, b : a = Min(C) /\ b = Min(D)
  OBVIOUS
<1>5. a \in C /\ b \in D /\ (\A i \in C : a <= i) /\ (\A i \in D : b <= i)
  BY <1>2, <1>3, <1>4, LeastNumber
<1>6. a = b /\ a \in 1 .. n
  <2>1. a \in Nat /\ b \in Nat /\ a <= b /\ b <= n /\ 1 <= a
    BY <1>2, <1>3, <1>5
  <2>2. a \in D
    BY <1>2, <1>5, <2>1
  <2>3. b <= a
    BY <1>5, <2>2
  <2> QED BY <2>1, <2>3
<1>7. SubSeq(SubSeq(x, 1, n), 1, a - 1) = SubSeq(x, 1, a - 1)
  <2>1. /\ 1 <= n + 1 /\ n <= Len(x) /\ a - 1 \in Nat /\ 1 <= a - 1 + 1 /\ a - 1 <= n - 1 + 1 /\ n \in Nat
        /\ 1 + 1 - 1 = 1 /\ 1 + (a - 1) - 1 = a - 1
    BY <1>6
  <2>2. SubSeq(SubSeq(x, 1, n), 1, a - 1) = SubSeq(x, 1 + 1 - 1, 1 + (a - 1) - 1)
    BY <2>1, PartOfPart DEF Text
  <2> QED BY <2>1, <2>2
<1> QED BY <1>1, <1>2, <1>4, <1>6, <1>7 DEF Prefix

LEMMA EndOfThree ==
    ASSUME NEW x \in Text, NEW a \in Nat, NEW b \in Nat, 1 <= a, a <= b + 1, b <= Len(x), SubSeq(x, a, b) = End
    PROVE  b = a + 2 /\ x[a] # Comma /\ x[a + 1] # Comma /\ x[a + 2] # Comma
<1>1. PICK y : y = SubSeq(x, a, b)
  OBVIOUS
<1>2. Len(y) = b - a + 1 /\ \A i \in 1 .. b - a + 1 : y[i] = x[a + i - 1]
  BY <1>1, Part DEF Text
<1>3. Len(y) = 3 /\ y[1] # Comma /\ y[2] # Comma /\ y[3] # Comma
  BY <1>1 DEF End, Comma
<1>4. b - a + 1 = 3
  BY <1>2, <1>3
<1>5. /\ 1 \in 1 .. b - a + 1 /\ 2 \in 1 .. b - a + 1 /\ 3 \in 1 .. b - a + 1
      /\ a + 1 - 1 = a /\ a + 2 - 1 = a + 1 /\ a + 3 - 1 = a + 2
  BY <1>4
<1>6. y[1] = x[a + 1 - 1] /\ y[2] = x[a + 2 - 1] /\ y[3] = x[a + 3 - 1]
  BY <1>2, <1>5
<1> QED BY <1>3, <1>4, <1>5, <1>6

(* TextStep finds the first part of a text that is a text frame, if any.   *)
LEMMA TextFrames ==
    ASSUME NEW x \in Text, NEW j \in 1 .. Len(x)
    PROVE  IsText(SubSeq(x, 1, j)) <=> TextStep(x) = Frame(j)
<1>1. PICK C, y, D : C = CommasOf(x) /\ y = SubSeq(x, 1, j) /\ D = CommasOf(y)
  OBVIOUS
<1>2. /\ Len(x) \in Nat /\ C \in SUBSET (1 .. Len(x)) /\ \A i : i \in C <=> i \in 1 .. Len(x) /\ x[i] = Comma
      /\ IsFiniteSet(C) /\ Cardinality(C) \in Nat
  BY <1>1, CommasBound, Counted
<1>3. /\ y \in Text /\ Len(y) = j /\ D = {i \in C : i <= j} /\ D \in SUBSET (1 .. j) /\ j \in Nat
      /\ IsFiniteSet(D) /\ Cardinality(D) \in Nat
  <2>1. j \in 0 .. Len(x) /\ j \in Nat
    OBVIOUS
  <2>2. y \in Text /\ Len(y) = j /\ D = {i \in C : i <= j}
    BY <1>1, <2>1, CommasOfPart
  <2>3. D \in SUBSET (1 .. j)
    BY <1>2, <2>2
  <2> QED BY <2>1, <2>2, <2>3, Counted
<1>4. \A c \in 1 .. j : SubSeq(y, c + 1, j) = SubSeq(x, c + 1, j)
  <2>1. ASSUME NEW c \in 1 .. j PROVE SubSeq(y, c + 1, j) = SubSeq(x, c + 1, j)
    <3>1. /\ c + 1 \in Nat /\ j \in Nat /\ 1 <= c + 1 /\ c + 1 <= j + 1 /\ j <= j - 1 + 1
          /\ 1 + (c + 1) - 1 = c + 1 /\ 1 + j - 1 = j /\ j <= Len(x) /\ 1 <= j + 1
      OBVIOUS
    <3>2. SubSeq(SubSeq(x, 1, j), c + 1, j) = SubSeq(x, 1 + (c + 1) - 1, 1 + j - 1)
      BY <3>1, PartOfPart DEF Text
    <3> QED BY <1>1, <3>1, <3>2
  <2> QED BY <2>1
<1>5. ASSUME IsText(y) PROVE TextStep(x) = Frame(j)
  <2>1. /\ D # {} /\ Prefix(y) \in DOMAIN COMMAS /\ Cardinality(D) = COMMAS[Prefix(y)]
        /\ SubSeq(y, Max(D) + 1, j) = End /\ j <= MAX_FRAME
    BY <1>1, <1>3, <1>5, TextShape
  <2>2. C # {} /\ Prefix(y) = Prefix(x)
    <3>1. j \in 0 .. Len(x)
      OBVIOUS
    <3> QED BY <1>1, <2>1, <3>1, SamePrefix
  <2>3. Cardinality(D) <= Cardinality(C)
    BY <1>2, <1>3, FS_Subset
  <2>4. ~(Cardinality(C) < COMMAS[Prefix(x)])
    BY <1>2, <1>3, <2>1, <2>2, <2>3
  <2>5. PICK c \in C :
           /\ Before(c, C) = COMMAS[Prefix(x)] - 1
           /\ TextStep(x) = IF Len(x) < c + 3 THEN Wait
                            ELSE IF SubSeq(x, c + 1, c + 3) # End THEN Fails("FORMAT")
                            ELSE IF c + 3 > MAX_FRAME THEN Fails("LIMIT")
                            ELSE Frame(c + 3)
    BY <1>1, <2>1, <2>2, <2>4, TextSteps
  <2>6. PICK d : d = Max(D)
    OBVIOUS
  <2>7. d \in D /\ \A i \in D : i <= d
    BY <1>3, <2>1, <2>6, GreatestNumber
  <2>8. {i \in C : i <= d} = D
    BY <1>2, <1>3, <2>7
  <2>9. Before(d, C) + 1 = Cardinality(D)
    BY <1>2, <1>3, <2>7, <2>8, Counted
  <2>10. Before(d, C) = Before(c, C)
    <3>1. Before(d, C) \in Nat
      BY <1>2, Counted
    <3> QED BY <1>3, <2>1, <2>2, <2>5, <2>9, <3>1
  <2>11. d = c
    BY <1>2, <1>3, <2>7, <2>10, Counted
  <2>12. c \in 1 .. j /\ SubSeq(x, c + 1, j) = End
    BY <1>3, <1>4, <2>1, <2>6, <2>7, <2>11
  <2>13. j = c + 3
    <3>1. c + 1 \in Nat /\ 1 <= c + 1 /\ c + 1 <= j + 1 /\ j <= Len(x) /\ j \in Nat /\ c + 1 + 2 = c + 3
      BY <2>12
    <3>2. j = c + 1 + 2
      BY <2>12, <3>1, EndOfThree
    <3> QED BY <3>1, <3>2
  <2>14. ~(Len(x) < c + 3) /\ ~(c + 3 > MAX_FRAME)
    BY <1>2, <2>1, <2>13, FramingConstants
  <2> QED BY <2>5, <2>12, <2>13, <2>14
<1>6. ASSUME TextStep(x) = Frame(j) PROVE IsText(y)
  <2>1. Wait # Frame(j) /\ Fails("FORMAT") # Frame(j) /\ Fails("LIMIT") # Frame(j)
    BY DEF Wait, Fails, Frame
  <2>2. /\ C # {} /\ Prefix(x) \in DOMAIN COMMAS /\ ~(Cardinality(C) < COMMAS[Prefix(x)])
    BY <1>1, <1>6, <2>1, TextSteps
  <2>3. PICK c \in C :
           /\ Before(c, C) = COMMAS[Prefix(x)] - 1
           /\ TextStep(x) = IF Len(x) < c + 3 THEN Wait
                            ELSE IF SubSeq(x, c + 1, c + 3) # End THEN Fails("FORMAT")
                            ELSE IF c + 3 > MAX_FRAME THEN Fails("LIMIT")
                            ELSE Frame(c + 3)
    BY <1>1, <2>2, TextSteps
  <2>4. /\ ~(Len(x) < c + 3) /\ SubSeq(x, c + 1, c + 3) = End /\ ~(c + 3 > MAX_FRAME)
        /\ Frame(c + 3) = Frame(j)
    BY <1>6, <2>1, <2>3
  <2>5. j = c + 3 /\ c \in 1 .. j /\ c \in Nat /\ j <= MAX_FRAME
    <3>1. j = c + 3
      BY <2>4 DEF Frame
    <3> QED BY <1>2, <2>4, <3>1, FramingConstants
  <2>6. x[c + 1] # Comma /\ x[c + 1 + 1] # Comma /\ x[c + 1 + 2] # Comma
    <3>1. c + 1 \in Nat /\ c + 3 \in Nat /\ 1 <= c + 1 /\ c + 1 <= c + 3 + 1 /\ c + 3 <= Len(x)
      BY <1>2, <2>4, <2>5
    <3> QED BY <2>4, <3>1, EndOfThree
  <2>7. \A i \in C : i <= j <=> i <= c
    <3>1. ASSUME NEW i \in C, i <= j, ~(i <= c) PROVE FALSE
      <4>1. i = c + 1 \/ i = c + 1 + 1 \/ i = c + 1 + 2
        BY <1>2, <2>5, <3>1
      <4> QED BY <1>2, <2>6, <4>1
    <3>2. ASSUME NEW i \in C, i <= c PROVE i <= j
      BY <1>2, <2>5, <3>2
    <3> QED BY <3>1, <3>2
  <2>8. D = {i \in C : i <= c} /\ c \in D
    <3>1. \A i \in C : i <= j <=> i <= c
      BY <2>7
    <3>2. c <= j
      BY <2>5
    <3> QED BY <1>3, <3>1, <3>2
  <2>9. Cardinality(D) = COMMAS[Prefix(x)]
    <3>1. Cardinality(D) = Before(c, C) + 1
      BY <1>2, <2>8, Counted
    <3>2. COMMAS[Prefix(x)] \in Nat
      BY <2>2, FramingConstants
    <3> QED BY <2>3, <3>1, <3>2
  <2>10. Max(D) = c
    <3>1. PICK d : d = Max(D)
      OBVIOUS
    <3>2. d \in D /\ c <= d
      BY <1>3, <2>8, <3>1, GreatestNumber
    <3>3. d <= c /\ d \in Nat
      BY <1>3, <2>8, <3>2
    <3> QED BY <2>5, <3>1, <3>2, <3>3
  <2>11. SubSeq(y, Max(D) + 1, j) = End
    BY <1>4, <2>4, <2>5, <2>10
  <2>12. Prefix(y) = Prefix(x)
    <3>1. j \in 0 .. Len(x)
      OBVIOUS
    <3> QED BY <1>1, <2>8, <3>1, SamePrefix
  <2>13. /\ D # {} /\ Prefix(y) \in DOMAIN COMMAS /\ Cardinality(D) = COMMAS[Prefix(y)]
         /\ SubSeq(y, Max(D) + 1, Len(y)) = End /\ Len(y) <= MAX_FRAME
    BY <1>3, <2>2, <2>5, <2>8, <2>9, <2>11, <2>12
  <2> QED BY <1>1, <1>3, <2>13, TextShape
<1> QED BY <1>1, <1>5, <1>6

(* What fails at the beginning of a text fails in the text.                *)
LEMMA TextFails ==
    ASSUME NEW x \in Text, NEW n \in 0 .. Len(x),
           TextStep(SubSeq(x, 1, n)).kind \in {"FORMAT", "LIMIT"}
    PROVE  TextStep(x) = TextStep(SubSeq(x, 1, n))
<1>1. PICK C, y, D : C = CommasOf(x) /\ y = SubSeq(x, 1, n) /\ D = CommasOf(y)
  OBVIOUS
<1>2. /\ Len(x) \in Nat /\ C \in SUBSET (1 .. Len(x)) /\ IsFiniteSet(C) /\ Cardinality(C) \in Nat /\ n \in Nat
  <2>1. Len(x) \in Nat /\ C \in SUBSET (1 .. Len(x))
    BY <1>1, CommasBound
  <2>2. IsFiniteSet(C) /\ Cardinality(C) \in Nat
    BY <2>1, Counted
  <2> QED BY <2>1, <2>2
<1>3. y \in Text /\ Len(y) = n /\ D = {i \in C : i <= n} /\ D \in SUBSET (1 .. n) /\ D \in SUBSET C
  <2>1. y \in Text /\ Len(y) = n /\ D = {i \in C : i <= n}
    BY <1>1, CommasOfPart
  <2>2. \A i \in D : i \in C /\ i \in 1 .. n
    BY <1>2, <2>1
  <2> QED BY <2>1, <2>2
<1>4. D # {} /\ TextStep(y) # Wait
  <2>1. Wait.kind # "FORMAT" /\ Wait.kind # "LIMIT"
    BY DEF Wait
  <2> QED BY <1>1, <1>3, <2>1, TextSteps
<1>5. C # {} /\ Prefix(y) = Prefix(x)
  BY <1>1, <1>4, SamePrefix
<1>6. CASE Prefix(x) \notin DOMAIN COMMAS
  BY <1>1, <1>3, <1>4, <1>5, <1>6, TextSteps
<1>7. CASE Prefix(x) \in DOMAIN COMMAS
  <2>1. ~(Cardinality(D) < COMMAS[Prefix(x)])
    BY <1>1, <1>3, <1>4, <1>5, <1>7, TextSteps
  <2>2. PICK d \in D :
           /\ Before(d, D) = COMMAS[Prefix(x)] - 1
           /\ TextStep(y) = IF Len(y) < d + 3 THEN Wait
                            ELSE IF SubSeq(y, d + 1, d + 3) # End THEN Fails("FORMAT")
                            ELSE IF d + 3 > MAX_FRAME THEN Fails("LIMIT")
                            ELSE Frame(d + 3)
    BY <1>1, <1>3, <1>4, <1>5, <1>7, <2>1, TextSteps
  <2>3. Cardinality(D) <= Cardinality(C) /\ Cardinality(D) \in Nat
    BY <1>2, <1>3, FS_Subset, FS_CardinalityType
  <2>4. ~(Cardinality(C) < COMMAS[Prefix(x)])
    BY <1>2, <1>7, <2>1, <2>3, FramingConstants
  <2>5. PICK c \in C :
           /\ Before(c, C) = COMMAS[Prefix(x)] - 1
           /\ TextStep(x) = IF Len(x) < c + 3 THEN Wait
                            ELSE IF SubSeq(x, c + 1, c + 3) # End THEN Fails("FORMAT")
                            ELSE IF c + 3 > MAX_FRAME THEN Fails("LIMIT")
                            ELSE Frame(c + 3)
    BY <1>1, <1>5, <1>7, <2>4, TextSteps
  <2>6. Before(d, C) = Before(d, D)
    <3>1. \A i \in C : i < d <=> i \in D /\ i < d
      <4>1. d <= n /\ d \in Nat
        BY <1>3
      <4>2. \A i \in C : i < d => i <= n
        BY <1>2, <4>1
      <4> QED BY <1>3, <4>2
    <3>2. {i \in C : i < d} = {i \in D : i < d}
      BY <1>3, <3>1
    <3> QED BY <3>2 DEF Before
  <2>7. d = c
    BY <1>2, <1>3, <2>2, <2>5, <2>6, Counted
  <2>8. ~(Len(y) < d + 3)
    BY <1>4, <2>2
  <2>9. d \in Nat /\ 1 <= d /\ d + 3 <= n /\ ~(Len(x) < d + 3)
    BY <1>2, <1>3, <2>8
  <2>10. SubSeq(y, d + 1, d + 3) = SubSeq(x, d + 1, d + 3)
    <3>1. /\ d + 1 \in Nat /\ d + 3 \in Nat /\ 1 <= d + 1 /\ d + 1 <= d + 3 + 1 /\ d + 3 <= n - 1 + 1
          /\ 1 + (d + 1) - 1 = d + 1 /\ 1 + (d + 3) - 1 = d + 3 /\ n <= Len(x) /\ 1 <= n + 1 /\ n \in Nat
      BY <1>2, <2>9
    <3>2. SubSeq(SubSeq(x, 1, n), d + 1, d + 3) = SubSeq(x, 1 + (d + 1) - 1, 1 + (d + 3) - 1)
      BY <3>1, PartOfPart DEF Text
    <3> QED BY <1>1, <3>1, <3>2
  <2>11. TextStep(y) = TextStep(x)
    BY <2>2, <2>5, <2>7, <2>8, <2>9, <2>10
  <2> QED BY <1>1, <2>11
<1> QED BY <1>6, <1>7

-----------------------------------------------------------------------------
(* JSON lines                                                              *)

LEMMA JsonSteps ==
    ASSUME NEW x \in Text
    PROVE  \/ (\A i \in 1 .. Len(x) : x[i] # "\n") /\ JsonStep(x) = Wait
           \/ \E n \in 1 .. Len(x) :
                 /\ x[n] = "\n" /\ \A i \in 1 .. n - 1 : x[i] # "\n"
                 /\ JsonStep(x) = IF n - 1 > MAX_FRAME THEN Fails("LIMIT") ELSE Frame(n)
<1>1. PICK ends : ends = {i \in DOMAIN x : x[i] = "\n"}
  OBVIOUS
<1>2. DOMAIN x = 1 .. Len(x) /\ Len(x) \in Nat
  BY DEF Text
<1>3. CASE ends = {}
  <2>1. JsonStep(x) = Wait
    BY <1>1, <1>3 DEF JsonStep
  <2> QED BY <1>1, <1>2, <1>3, <2>1
<1>4. CASE ends # {}
  <2>1. PICK n : n = Min(ends)
    OBVIOUS
  <2>2. ends \in SUBSET Nat
    <3>1. \A i \in ends : i \in Nat
      BY <1>1, <1>2
    <3> QED BY <3>1
  <2>3. n \in ends /\ \A i \in ends : n <= i
    BY <1>4, <2>1, <2>2, LeastNumber
  <2>4. n \in 1 .. Len(x) /\ x[n] = "\n"
    BY <1>1, <1>2, <2>3
  <2>5. \A i \in 1 .. n - 1 : x[i] # "\n"
    <3>1. ASSUME NEW i \in 1 .. n - 1, x[i] = "\n" PROVE FALSE
      <4>1. i \in ends
        BY <1>1, <1>2, <2>4, <3>1
      <4> QED BY <2>3, <2>4, <4>1
    <3> QED BY <3>1
  <2>6. JsonStep(x) = IF n - 1 > MAX_FRAME THEN Fails("LIMIT") ELSE Frame(n)
    <3>1. ~(n - 1 > MAX_FRAME) <=> n - 1 <= MAX_FRAME
      BY <2>4, FramingConstants
    <3>2. JsonStep(x) = CASE ends = {} -> Wait
                          [] ends # {} /\ n - 1 > MAX_FRAME -> Fails("LIMIT")
                          [] ends # {} /\ n - 1 <= MAX_FRAME -> Frame(n)
      BY <1>1, <2>1 DEF JsonStep
    <3> QED BY <1>4, <3>1, <3>2
  <2> QED BY <2>4, <2>5, <2>6
<1> QED BY <1>3, <1>4

(* JsonStep finds the first part of a text that is a line, if any.         *)
LEMMA JsonFrames ==
    ASSUME NEW x \in Text, NEW j \in 1 .. Len(x)
    PROVE  IsLine(SubSeq(x, 1, j)) <=> JsonStep(x) = Frame(j)
<1>1. PICK y : y = SubSeq(x, 1, j)
  OBVIOUS
<1>2. y \in Text /\ Len(y) = j /\ \A i \in 1 .. j : y[i] = x[i]
  <2>1. j \in 0 .. Len(x)
    OBVIOUS
  <2> QED BY <1>1, <2>1, CommasOfPart
<1>3. IsLine(y) <=> x[j] = "\n" /\ j - 1 <= MAX_FRAME /\ \A i \in 1 .. j - 1 : x[i] # "\n"
  <2>1. y # <<>>
    BY <1>2
  <2>2. \A i \in 1 .. j - 1 : i \in 1 .. j
    OBVIOUS
  <2> QED BY <1>2, <2>1, <2>2 DEF IsLine, Last
<1>4. Wait # Frame(j) /\ Fails("LIMIT") # Frame(j)
  BY DEF Wait, Fails, Frame
<1>5. CASE (\A i \in 1 .. Len(x) : x[i] # "\n") /\ JsonStep(x) = Wait
  BY <1>1, <1>3, <1>4, <1>5
<1>6. CASE \E n \in 1 .. Len(x) :
              /\ x[n] = "\n" /\ \A i \in 1 .. n - 1 : x[i] # "\n"
              /\ JsonStep(x) = IF n - 1 > MAX_FRAME THEN Fails("LIMIT") ELSE Frame(n)
  <2>1. PICK n \in 1 .. Len(x) :
              /\ x[n] = "\n" /\ \A i \in 1 .. n - 1 : x[i] # "\n"
              /\ JsonStep(x) = IF n - 1 > MAX_FRAME THEN Fails("LIMIT") ELSE Frame(n)
    BY <1>6
  <2>2. ASSUME IsLine(y) PROVE JsonStep(x) = Frame(j)
    <3>1. ~(j < n) /\ ~(n < j)
      BY <1>3, <2>1, <2>2
    <3>2. n = j
      BY <3>1
    <3> QED BY <1>3, <2>1, <2>2, <3>2, FramingConstants
  <2>3. ASSUME JsonStep(x) = Frame(j) PROVE IsLine(y)
    <3>1. ~(n - 1 > MAX_FRAME) /\ Frame(n) = Frame(j)
      BY <1>4, <2>1, <2>3
    <3>2. n = j
      BY <3>1 DEF Frame
    <3> QED BY <1>3, <2>1, <3>1, <3>2, FramingConstants
  <2> QED BY <1>1, <2>2, <2>3
<1> QED BY <1>5, <1>6, JsonSteps

(* What fails at the beginning of a text fails in the text.                *)
LEMMA JsonFails ==
    ASSUME NEW x \in Text, NEW m \in 0 .. Len(x),
           JsonStep(SubSeq(x, 1, m)).kind \in {"FORMAT", "LIMIT"}
    PROVE  JsonStep(x) = JsonStep(SubSeq(x, 1, m))
<1>1. PICK y : y = SubSeq(x, 1, m)
  OBVIOUS
<1>2. y \in Text /\ Len(y) = m /\ \A i \in 1 .. m : y[i] = x[i]
  BY <1>1, CommasOfPart
<1>3. JsonStep(y).kind \in {"FORMAT", "LIMIT"} /\ JsonStep(y) # Wait
  BY <1>1 DEF Wait
<1>4. PICK n \in 1 .. m :
        /\ y[n] = "\n" /\ \A i \in 1 .. n - 1 : y[i] # "\n"
        /\ JsonStep(y) = IF n - 1 > MAX_FRAME THEN Fails("LIMIT") ELSE Frame(n)
  BY <1>2, <1>3, JsonSteps
<1>5. n \in 1 .. Len(x) /\ x[n] = "\n" /\ \A i \in 1 .. n - 1 : x[i] # "\n"
  <2>1. \A i \in 1 .. n - 1 : i \in 1 .. m
    OBVIOUS
  <2> QED BY <1>2, <1>4, <2>1
<1>6. PICK k \in 1 .. Len(x) :
        /\ x[k] = "\n" /\ \A i \in 1 .. k - 1 : x[i] # "\n"
        /\ JsonStep(x) = IF k - 1 > MAX_FRAME THEN Fails("LIMIT") ELSE Frame(k)
  BY <1>5, JsonSteps
<1>7. k = n
  <2>1. ~(k < n) /\ ~(n < k)
    BY <1>5, <1>6
  <2> QED BY <2>1
<1> QED BY <1>1, <1>4, <1>6, <1>7

-----------------------------------------------------------------------------
(* Decisions about a part of the stream                                    *)

Decides(json, x) == IF json THEN JsonStep(x) ELSE TextStep(x)
Whole(json, t) == IF json THEN IsLine(t) ELSE IsText(t)

Decisions(x) ==
    {Wait, Fails("FORMAT"), Fails("LIMIT")} \cup {Frame(j) : j \in 1 .. Len(x)}

LEMMA Decided ==
    ASSUME NEW x \in Text, NEW json \in BOOLEAN
    PROVE  /\ Decides(json, x) \in Decisions(x)
           /\ \A j \in 1 .. Len(x) : Whole(json, SubSeq(x, 1, j)) <=> Decides(json, x) = Frame(j)
           /\ \A j \in 1 .. Len(x) : Whole(json, SubSeq(x, 1, j)) => j <= MAX_FRAME + 1
           /\ \A n \in 0 .. Len(x) :
                 Decides(json, SubSeq(x, 1, n)).kind \in {"FORMAT", "LIMIT"} =>
                    Decides(json, x) = Decides(json, SubSeq(x, 1, n))
<1>1. \A j \in 1 .. Len(x) : Whole(json, SubSeq(x, 1, j)) <=> Decides(json, x) = Frame(j)
  BY TextFrames, JsonFrames DEF Whole, Decides
<1>2. ASSUME NEW n \in 0 .. Len(x), Decides(json, SubSeq(x, 1, n)).kind \in {"FORMAT", "LIMIT"}
      PROVE  Decides(json, x) = Decides(json, SubSeq(x, 1, n))
  BY <1>2, TextFails, JsonFails DEF Decides
<1>3. ASSUME NEW j \in 1 .. Len(x), Whole(json, SubSeq(x, 1, j)) PROVE j <= MAX_FRAME + 1
  <2>1. SubSeq(x, 1, j) \in Text /\ Len(SubSeq(x, 1, j)) = j
    <3>1. j \in 0 .. Len(x)
      OBVIOUS
    <3> QED BY <3>1, CommasOfPart
  <2>2. MAX_FRAME \in Nat
    BY FramingConstants
  <2>3. j <= MAX_FRAME \/ j - 1 <= MAX_FRAME
    BY <1>3, <2>1 DEF Whole, IsLine, IsText
  <2> QED BY <2>2, <2>3
<1>4. JsonStep(x) \in Decisions(x)
  <2>1. CASE JsonStep(x) = Wait
    BY <2>1 DEF Decisions
  <2>2. CASE \E n \in 1 .. Len(x) : JsonStep(x) = IF n - 1 > MAX_FRAME THEN Fails("LIMIT") ELSE Frame(n)
    BY <2>2 DEF Decisions
  <2> QED BY <2>1, <2>2, JsonSteps
<1>5. TextStep(x) \in Decisions(x)
  <2>1. CASE TextStep(x) = Wait \/ TextStep(x) = Fails("FORMAT") \/ TextStep(x) = Fails("LIMIT")
    BY <2>1 DEF Decisions
  <2>2. CASE \E c \in CommasOf(x) : ~(Len(x) < c + 3) /\ TextStep(x) = Frame(c + 3)
    <3>1. PICK c \in CommasOf(x) : ~(Len(x) < c + 3) /\ TextStep(x) = Frame(c + 3)
      BY <2>2
    <3>2. c + 3 \in 1 .. Len(x)
      BY <3>1, CommasBound
    <3> QED BY <3>1, <3>2 DEF Decisions
  <2> QED BY <2>1, <2>2, TextSteps
<1>6. Decides(json, x) \in Decisions(x)
  BY <1>4, <1>5 DEF Decides
<1> QED BY <1>1, <1>2, <1>3, <1>6

(* What a decision about the n bytes w from b on says of the whole stream  *)
SaysWhere(s, json, b, n, w) ==
    /\ w \in Text /\ Len(w) = n
    /\ \A j \in 1 .. n : Decides(json, w) = Frame(j) =>
          /\ Stops(s, json, b) # {} /\ Min(Stops(s, json, b)) = b + j - 1
          /\ SubSeq(w, 1, j) = SubSeq(s, b, b + j - 1)
    /\ Decides(json, w).kind \in {"FORMAT", "LIMIT"} => Stops(s, json, b) = {}
    /\ Decides(json, w) = Wait /\ (n = Len(s) - b + 1 \/ n > MAX_FRAME) => Stops(s, json, b) = {}

(* The bytes of the stream from b on of which n have come decide as the    *)
(* whole stream does, and are waited for only when they are needed.        *)
LEMMA Stopping ==
    ASSUME NEW s \in Text, NEW json \in BOOLEAN, NEW b \in 1 .. Len(s) + 1, NEW n \in 0 .. Len(s) - b + 1
    PROVE  SaysWhere(s, json, b, n, SubSeq(s, b, b + n - 1))
<1>0. PICK w : w = SubSeq(s, b, b + n - 1)
  OBVIOUS
<1>1. Len(s) \in Nat /\ b \in Nat /\ n \in Nat /\ b + n - 1 \in Nat /\ b + n - 1 <= Len(s)
  BY DEF Text
<1>2. w \in Text /\ Len(w) = n
  <2>1. 1 <= b /\ b <= b + n - 1 + 1 /\ b + n - 1 - b + 1 = n
    BY <1>1
  <2> QED BY <1>0, <1>1, <2>1, Part DEF Text
<1>3. PICK x : x = SubSeq(s, b, Len(s))
  OBVIOUS
<1>4. x \in Text /\ Len(x) = Len(s) - b + 1
  BY <1>1, <1>3, Part DEF Text
<1>5. ASSUME NEW j \in 0 .. Len(s) - b + 1 PROVE SubSeq(x, 1, j) = SubSeq(s, b, b + j - 1)
  <2>1. j \in Nat /\ 1 <= j + 1 /\ j <= Len(s) - b + 1 /\ b + 1 - 1 = b /\ b <= Len(s) + 1 /\ 1 <= b
    BY <1>1
  <2>2. SubSeq(SubSeq(s, b, Len(s)), 1, j) = SubSeq(s, b + 1 - 1, b + j - 1)
    BY <1>1, <2>1, PartOfPart DEF Text
  <2> QED BY <1>3, <2>1, <2>2
<1>6. w = SubSeq(x, 1, n)
  BY <1>0, <1>5
<1>7. \A j \in 1 .. n : SubSeq(w, 1, j) = SubSeq(s, b, b + j - 1)
  <2>1. ASSUME NEW j \in 1 .. n PROVE SubSeq(w, 1, j) = SubSeq(s, b, b + j - 1)
    <3>1. /\ j \in Nat /\ 1 <= j + 1 /\ j <= b + n - 1 - b + 1 /\ b + 1 - 1 = b /\ b <= b + n - 1 + 1 /\ 1 <= b
      BY <1>1
    <3>2. SubSeq(SubSeq(s, b, b + n - 1), 1, j) = SubSeq(s, b + 1 - 1, b + j - 1)
      BY <1>1, <3>1, PartOfPart DEF Text
    <3> QED BY <1>0, <3>1, <3>2
  <2> QED BY <2>1
<1>8. \A k : k \in Stops(s, json, b) <=> k \in b .. Len(s) /\ Whole(json, SubSeq(s, b, k))
  BY DEF Stops, Whole
<1>9. \A k \in Stops(s, json, b) : k - b + 1 \in 1 .. Len(x) /\ Decides(json, x) = Frame(k - b + 1)
  <2>1. ASSUME NEW k \in Stops(s, json, b)
        PROVE  k - b + 1 \in 1 .. Len(x) /\ Decides(json, x) = Frame(k - b + 1)
    <3>1. k \in b .. Len(s) /\ Whole(json, SubSeq(s, b, k))
      BY <1>8
    <3>2. PICK j : j = k - b + 1
      OBVIOUS
    <3>3. j \in 1 .. Len(x) /\ j \in 0 .. Len(s) - b + 1 /\ b + j - 1 = k
      BY <1>1, <1>4, <3>1, <3>2
    <3>4. Whole(json, SubSeq(x, 1, j))
      BY <1>5, <3>1, <3>3
    <3> QED BY <1>4, <3>2, <3>3, <3>4, Decided
  <2> QED BY <2>1
<1>10. ASSUME NEW j \in 1 .. n, Decides(json, w) = Frame(j)
       PROVE  Stops(s, json, b) # {} /\ Min(Stops(s, json, b)) = b + j - 1
  <2>1. Whole(json, SubSeq(s, b, b + j - 1))
    BY <1>2, <1>7, <1>10, Decided
  <2>2. b + j - 1 \in b .. Len(s)
    BY <1>1
  <2>3. b + j - 1 \in Stops(s, json, b)
    BY <1>8, <2>1, <2>2
  <2>4. \A k \in Stops(s, json, b) : k = b + j - 1
    <3>1. ASSUME NEW k \in Stops(s, json, b) PROVE k = b + j - 1
      <4>1. Frame(k - b + 1) = Frame(b + j - 1 - b + 1)
        BY <1>9, <2>3
      <4>2. k - b + 1 = b + j - 1 - b + 1
        BY <4>1 DEF Frame
      <4>3. k \in Int
        BY <1>1, <1>8
      <4> QED BY <1>1, <4>2, <4>3
    <3> QED BY <3>1
  <2>5. PICK m : m = Min(Stops(s, json, b))
    OBVIOUS
  <2>6. Stops(s, json, b) \in SUBSET Nat
    <3>1. \A k \in Stops(s, json, b) : k \in Nat
      BY <1>1, <1>8
    <3> QED BY <3>1
  <2>7. m \in Stops(s, json, b)
    BY <2>3, <2>5, <2>6, LeastNumber
  <2> QED BY <2>3, <2>4, <2>5, <2>7
<1>11. ASSUME Decides(json, w).kind \in {"FORMAT", "LIMIT"} PROVE Stops(s, json, b) = {}
  <2>1. Decides(json, x) = Decides(json, w)
    <3>1. n \in 0 .. Len(x) /\ Decides(json, SubSeq(x, 1, n)).kind \in {"FORMAT", "LIMIT"}
      BY <1>4, <1>6, <1>11
    <3>2. Decides(json, x) = Decides(json, SubSeq(x, 1, n))
      BY <1>4, <3>1, Decided
    <3> QED BY <1>6, <3>2
  <2>2. \A k : Frame(k).kind \notin {"FORMAT", "LIMIT"}
    BY DEF Frame
  <2> QED BY <1>9, <1>11, <2>1, <2>2
<1>12. ASSUME Decides(json, w) = Wait, n = Len(s) - b + 1 \/ n > MAX_FRAME PROVE Stops(s, json, b) = {}
  <2>1. ASSUME NEW k \in Stops(s, json, b) PROVE FALSE
    <3>1. k \in b .. Len(s) /\ Whole(json, SubSeq(s, b, k))
      BY <1>8
    <3>2. PICK j : j = k - b + 1
      OBVIOUS
    <3>3. j \in 1 .. Len(x) /\ j \in 0 .. Len(s) - b + 1 /\ b + j - 1 = k
      BY <1>1, <1>4, <3>1, <3>2
    <3>4. Whole(json, SubSeq(x, 1, j))
      BY <1>5, <3>1, <3>3
    <3>5. j <= MAX_FRAME + 1
      BY <1>4, <3>3, <3>4, Decided
    <3>6. j \in 1 .. n
      BY <1>1, <1>12, <3>3, <3>5, FramingConstants
    <3>7. Whole(json, SubSeq(w, 1, j))
      BY <1>7, <3>1, <3>3, <3>6
    <3>8. Decides(json, w) = Frame(j)
      BY <1>2, <3>6, <3>7, Decided
    <3> QED BY <1>12, <3>8 DEF Frame, Wait
  <2> QED BY <2>1
<1> QED BY <1>0, <1>2, <1>7, <1>10, <1>11, <1>12 DEF SaysWhere

-----------------------------------------------------------------------------
(* The cut of the whole stream                                             *)

(* What the cut from i on is, given the cuts from later places on          *)
CutStep(s, json, i, later) ==
    LET begins == Begins(s, json, i)
        stops == Stops(s, json, Min(begins))
    IN  IF begins = {} \/ stops = {} THEN <<>>
        ELSE <<SubSeq(s, Min(begins), Min(stops))>> \o later[Min(stops) + 1]

(* Where a frame stands that is looked for from i on                       *)
LEMMA BeginsAndStops ==
    ASSUME NEW s \in Text, NEW json, NEW i \in 1 .. Len(s) + 1, Begins(s, json, i) # {}
    PROVE  /\ Min(Begins(s, json, i)) \in i .. Len(s)
           /\ Min(Begins(s, json, i)) \in Begins(s, json, i)
           /\ \A j \in Begins(s, json, i) : Min(Begins(s, json, i)) <= j
           /\ Stops(s, json, Min(Begins(s, json, i))) # {} =>
                 Min(Stops(s, json, Min(Begins(s, json, i)))) \in Min(Begins(s, json, i)) .. Len(s)
<1>1. Len(s) \in Nat
  BY DEF Text
<1>2. PICK b : b = Min(Begins(s, json, i))
  OBVIOUS
<1>3. \A j \in Begins(s, json, i) : j \in i .. Len(s) /\ j \in Nat
  BY <1>1 DEF Begins
<1>4. b \in Begins(s, json, i) /\ \A j \in Begins(s, json, i) : b <= j
  BY <1>2, <1>3, LeastNumber
<1>5. ASSUME Stops(s, json, b) # {} PROVE Min(Stops(s, json, b)) \in b .. Len(s)
  <2>1. \A j \in Stops(s, json, b) : j \in b .. Len(s)
    BY DEF Stops
  <2>2. \A j \in Stops(s, json, b) : j \in Nat
    BY <1>1, <1>3, <1>4, <2>1
  <2> QED BY <1>5, <2>1, <2>2, LeastNumber
<1> QED BY <1>2, <1>3, <1>4, <1>5

(* A cut from i on only looks at cuts from later places on.                *)
LEMMA CutLooksBehind ==
    ASSUME NEW s \in Text, NEW json, NEW i \in 1 .. Len(s) + 1, NEW f, NEW g,
           \A j \in i + 1 .. Len(s) + 1 : f[j] = g[j]
    PROVE  CutStep(s, json, i, f) = CutStep(s, json, i, g)
<1>1. CASE Begins(s, json, i) = {} \/ Stops(s, json, Min(Begins(s, json, i))) = {}
  BY <1>1 DEF CutStep
<1>2. CASE Begins(s, json, i) # {} /\ Stops(s, json, Min(Begins(s, json, i))) # {}
  <2>1. PICK m : m = Min(Stops(s, json, Min(Begins(s, json, i))))
    OBVIOUS
  <2>2. Min(Begins(s, json, i)) \in i .. Len(s) /\ m \in Min(Begins(s, json, i)) .. Len(s) /\ Len(s) \in Nat
    BY <1>2, <2>1, BeginsAndStops DEF Text
  <2>3. m + 1 \in i + 1 .. Len(s) + 1
    BY <2>2
  <2> QED BY <2>1, <2>3 DEF CutStep
<1> QED BY <1>1, <1>2

(* The cuts are well defined,                                              *)
LEMMA CutExists ==
    ASSUME NEW s \in Text, NEW json
    PROVE  \E f : f = [i \in 1 .. Len(s) + 1 |-> CutStep(s, json, i, f)]
<1> DEFINE n == Len(s) + 1
           Solved(k) == \E f : f = [i \in k .. n |-> CutStep(s, json, i, f)]
<1>1. n \in Nat /\ n >= 1 /\ Len(s) \in Nat /\ n - 1 = Len(s)
  BY DEF Text
<1>2. ASSUME NEW k \in 1 .. n, k < n => Solved(k + 1) PROVE Solved(k)
  <2>1. PICK f : f = [i \in k + 1 .. n |-> CutStep(s, json, i, f)]
    <3>1. CASE k < n
      BY <1>2, <3>1
    <3>2. CASE k = n
      <4>1. PICK f : f = [i \in k + 1 .. n |-> <<>>]
        OBVIOUS
      <4>2. k + 1 .. n = {}
        BY <1>1, <3>2
      <4>3. f = [i \in k + 1 .. n |-> CutStep(s, json, i, f)]
        BY <4>1, <4>2
      <4> QED BY <4>3
    <3> QED BY <1>1, <3>1, <3>2
  <2>2. PICK g : g = [i \in k .. n |-> CutStep(s, json, i, f)]
    OBVIOUS
  <2>3. \A i \in k + 1 .. n : g[i] = f[i]
    <3>1. \A i \in k + 1 .. n : i \in k .. n
      BY <1>1
    <3> QED BY <2>1, <2>2, <3>1
  <2>4. ASSUME NEW i \in k .. n PROVE CutStep(s, json, i, g) = CutStep(s, json, i, f)
    <3>1. i \in 1 .. Len(s) + 1 /\ \A j \in i + 1 .. Len(s) + 1 : j \in k + 1 .. n
      BY <1>1
    <3> QED BY <2>3, <3>1, CutLooksBehind
  <2>5. g = [i \in k .. n |-> CutStep(s, json, i, g)]
    BY <2>2, <2>4
  <2> QED BY <2>5
<1>3. \A d \in Nat : d <= n - 1 => Solved(n - d)
  <2>1. PICK bad : bad = {d \in Nat : d <= n - 1 /\ ~Solved(n - d)}
    OBVIOUS
  <2>2. ASSUME bad # {} PROVE FALSE
    <3>1. PICK d \in bad : \A e \in bad : d <= e
      <4>1. bad \in SUBSET Nat
        BY <2>1
      <4> QED BY <2>2, <4>1, LeastNumber
    <3>2. d \in Nat /\ d <= n - 1 /\ ~Solved(n - d)
      BY <2>1, <3>1
    <3>3. n - d \in 1 .. n
      BY <1>1, <3>2
    <3>4. ASSUME n - d < n PROVE Solved(n - d + 1)
      <4>1. d - 1 \in Nat /\ d - 1 <= n - 1 /\ n - (d - 1) = n - d + 1 /\ ~(d <= d - 1)
        BY <1>1, <3>2, <3>4
      <4>2. d - 1 \notin bad
        BY <3>1, <4>1
      <4>3. Solved(n - (d - 1))
        BY <2>1, <4>1, <4>2
      <4> QED BY <4>1, <4>3
    <3> QED BY <1>2, <3>2, <3>3, <3>4
  <2> HIDE DEF Solved
  <2> QED BY <2>1, <2>2
<1>4. Solved(1)
  <2>1. n - 1 \in Nat /\ n - 1 <= n - 1 /\ n - (n - 1) = 1
    BY <1>1
  <2>2. Solved(n - (n - 1))
    BY <1>3, <2>1
  <2> QED BY <2>1, <2>2
<1> QED BY <1>4

(* and are step by step what CutFrom says: lists of texts.                 *)
LEMMA CutUnfolds ==
    ASSUME NEW s \in Text, NEW json
    PROVE  \A i \in 1 .. Len(s) + 1 :
              /\ CutFrom(s, json)[i] = CutStep(s, json, i, CutFrom(s, json))
              /\ CutFrom(s, json)[i] \in Seq(Text)
<1>1. CutFrom(s, json) = CHOOSE g : g = [i \in 1 .. Len(s) + 1 |-> CutStep(s, json, i, g)]
  BY DEF CutFrom, CutStep
<1>2. PICK f : f = CutFrom(s, json)
  OBVIOUS
<1>3. f = [i \in 1 .. Len(s) + 1 |-> CutStep(s, json, i, f)]
  BY <1>1, <1>2, CutExists
<1>4. \A i \in 1 .. Len(s) + 1 : f[i] = CutStep(s, json, i, f)
  BY <1>3
<1>5. PICK bad : bad = {i \in 1 .. Len(s) + 1 : f[i] \notin Seq(Text)}
  OBVIOUS
<1>6. ASSUME bad # {} PROVE FALSE
  <2>1. Len(s) + 1 \in Nat /\ Len(s) \in Nat
    BY DEF Text
  <2>2. PICK i \in bad : \A j \in bad : j <= i
    <3>1. bad \in SUBSET (1 .. Len(s) + 1)
      BY <1>5
    <3> QED BY <1>6, <2>1, <3>1, GreatestNumber
  <2>3. i \in 1 .. Len(s) + 1 /\ CutStep(s, json, i, f) \notin Seq(Text)
    BY <1>4, <1>5, <2>2
  <2>4. Begins(s, json, i) # {} /\ Stops(s, json, Min(Begins(s, json, i))) # {}
    BY <2>3 DEF CutStep
  <2>5. PICK b, m : b = Min(Begins(s, json, i)) /\ m = Min(Stops(s, json, b))
    OBVIOUS
  <2>6. b \in i .. Len(s) /\ m \in b .. Len(s)
    BY <2>3, <2>4, <2>5, BeginsAndStops
  <2>7. SubSeq(s, b, m) \in Text
    <3>1. b \in Nat /\ m \in Nat /\ 1 <= b /\ b <= m + 1 /\ m <= Len(s)
      BY <2>1, <2>3, <2>6
    <3> QED BY <3>1, Part DEF Text
  <2>8. f[m + 1] \in Seq(Text)
    <3>1. m + 1 \in 1 .. Len(s) + 1 /\ ~(m + 1 <= i)
      BY <2>1, <2>3, <2>6
    <3> QED BY <1>5, <2>2, <3>1
  <2>9. <<SubSeq(s, b, m)>> \o f[m + 1] \in Seq(Text)
    BY <2>7, <2>8
  <2> QED BY <2>3, <2>4, <2>5, <2>9 DEF CutStep
<1> QED BY <1>2, <1>4, <1>5, <1>6

-----------------------------------------------------------------------------
(* The stream                                                              *)

(* A list of lists, joined: step by step the lists joined so far           *)
Joining(q, f) ==
    f = [i \in 1 .. Len(q) |-> IF i = 1 THEN q[i] ELSE f[i - 1] \o q[i]]

LEMMA Joined ==
    ASSUME NEW S, NEW q \in Seq(Seq(S))
    PROVE  \E f \in [1 .. Len(q) -> Seq(S)] :
              /\ Joining(q, f)
              /\ Len(q) > 0 => FlattenSeq(q) = f[Len(q)]
              /\ Len(q) = 0 => FlattenSeq(q) = <<>>
<1> DEFINE Solved(k) == \E f : f = [i \in 1 .. k |-> IF i = 1 THEN q[i] ELSE f[i - 1] \o q[i]]
<1>1. Len(q) \in Nat
  OBVIOUS
<1>2. Solved(0)
  <2>1. PICK f : f = [i \in 1 .. 0 |-> <<>>]
    OBVIOUS
  <2>2. f = [i \in 1 .. 0 |-> IF i = 1 THEN q[i] ELSE f[i - 1] \o q[i]]
    BY <2>1
  <2> QED BY <2>2
<1>3. ASSUME NEW k \in Nat, Solved(k) PROVE Solved(k + 1)
  <2>1. PICK f : f = [i \in 1 .. k |-> IF i = 1 THEN q[i] ELSE f[i - 1] \o q[i]]
    BY <1>3
  <2>2. PICK g : g = [i \in 1 .. k + 1 |-> IF i = 1 THEN q[i] ELSE f[i - 1] \o q[i]]
    OBVIOUS
  <2>3. \A i \in 1 .. k : g[i] = f[i]
    <3>1. \A i \in 1 .. k : i \in 1 .. k + 1
      OBVIOUS
    <3>2. \A i \in 1 .. k : f[i] = IF i = 1 THEN q[i] ELSE f[i - 1] \o q[i]
      BY <2>1
    <3>3. \A i \in 1 .. k + 1 : g[i] = IF i = 1 THEN q[i] ELSE f[i - 1] \o q[i]
      BY <2>2
    <3> QED BY <3>1, <3>2, <3>3
  <2>4. ASSUME NEW i \in 1 .. k + 1, i # 1 PROVE g[i - 1] = f[i - 1]
    <3>1. i - 1 \in 1 .. k
      BY <2>4
    <3> QED BY <2>3, <3>1
  <2>5. g = [i \in 1 .. k + 1 |-> IF i = 1 THEN q[i] ELSE g[i - 1] \o q[i]]
    BY <2>2, <2>4
  <2> QED BY <2>5
<1> HIDE DEF Solved
<1>4. \A k \in Nat : Solved(k)
  <2>1. PICK bad : bad = {k \in Nat : ~Solved(k)}
    OBVIOUS
  <2>2. ASSUME bad # {} PROVE FALSE
    <3>1. PICK k \in bad : \A j \in bad : k <= j
      <4>1. bad \in SUBSET Nat
        BY <2>1
      <4> QED BY <2>2, <4>1, LeastNumber
    <3>2. k \in Nat /\ ~Solved(k) /\ k # 0
      BY <1>2, <2>1, <3>1
    <3>3. k - 1 \in Nat /\ ~(k <= k - 1) /\ k - 1 + 1 = k
      BY <3>2
    <3>4. Solved(k - 1)
      BY <2>1, <3>1, <3>3
    <3> QED BY <1>3, <3>2, <3>3, <3>4
  <2> QED BY <2>1, <2>2
<1>5. PICK f : f = [i \in 1 .. Len(q) |-> IF i = 1 THEN q[i] ELSE f[i - 1] \o q[i]]
  BY <1>1, <1>4 DEF Solved
<1>6. PICK g : g = CHOOSE h : h = [i \in 1 .. Len(q) |-> IF i = 1 THEN q[i] ELSE h[i - 1] \o q[i]]
  OBVIOUS
<1>7. g = [i \in 1 .. Len(q) |-> IF i = 1 THEN q[i] ELSE g[i - 1] \o q[i]]
  BY <1>5, <1>6
<1>8. g \in [1 .. Len(q) -> Seq(S)]
  <2>1. PICK bad : bad = {i \in 1 .. Len(q) : g[i] \notin Seq(S)}
    OBVIOUS
  <2>2. ASSUME bad # {} PROVE FALSE
    <3>1. PICK k \in bad : \A j \in bad : k <= j
      <4>1. bad \in SUBSET Nat
        BY <2>1
      <4> QED BY <2>2, <4>1, LeastNumber
    <3>2. k \in 1 .. Len(q) /\ g[k] \notin Seq(S) /\ q[k] \in Seq(S)
      BY <2>1, <3>1
    <3>3. k # 1 /\ g[k] = g[k - 1] \o q[k]
      BY <1>7, <3>2
    <3>4. k - 1 \in 1 .. Len(q) /\ ~(k <= k - 1)
      BY <3>2, <3>3
    <3>5. g[k - 1] \in Seq(S)
      BY <2>1, <3>1, <3>4
    <3> QED BY <3>2, <3>3, <3>5
  <2>3. g = [i \in 1 .. Len(q) |-> g[i]]
    BY <1>7
  <2> QED BY <2>1, <2>2, <2>3
<1>9. Len(q) > 0 => FlattenSeq(q) = g[Len(q)]
  BY <1>1, <1>6 DEF FlattenSeq
<1>10. Len(q) = 0 => FlattenSeq(q) = <<>>
  BY DEF FlattenSeq
<1> QED BY <1>7, <1>8, <1>9, <1>10 DEF Joining

(* The first k lists of a list, joined                                     *)
JoinedTo(q, k) == FlattenSeq(SubSeq(q, 1, k))

LEMMA FirstLists ==
    ASSUME NEW S, NEW q \in Seq(Seq(S)), NEW k \in 0 .. Len(q)
    PROVE  /\ SubSeq(q, 1, k) \in Seq(Seq(S)) /\ Len(SubSeq(q, 1, k)) = k
           /\ \A i \in 1 .. k : SubSeq(q, 1, k)[i] = q[i]
<1>1. Len(q) \in Nat /\ k \in Nat /\ k <= Len(q) /\ 1 \in Nat /\ 1 <= 1 /\ 1 <= k + 1 /\ k - 1 + 1 = k
  OBVIOUS
<1>2. /\ SubSeq(q, 1, k) \in Seq(Seq(S)) /\ Len(SubSeq(q, 1, k)) = k - 1 + 1
      /\ \A i \in 1 .. k - 1 + 1 : SubSeq(q, 1, k)[i] = q[1 + i - 1]
  BY <1>1, Part
<1>3. \A i \in 1 .. k : 1 + i - 1 = i
  BY <1>1
<1> QED BY <1>1, <1>2, <1>3

LEMMA JoinedStep ==
    ASSUME NEW S, NEW q \in Seq(Seq(S))
    PROVE  /\ JoinedTo(q, 0) = <<>> /\ JoinedTo(q, Len(q)) = FlattenSeq(q)
           /\ \A k \in 0 .. Len(q) : JoinedTo(q, k) \in Seq(S)
           /\ \A k \in 1 .. Len(q) : JoinedTo(q, k) = JoinedTo(q, k - 1) \o q[k]
<1>1. Len(q) \in Nat /\ 0 \in 0 .. Len(q)
  OBVIOUS
<1>2. JoinedTo(q, 0) = <<>>
  BY <1>1, FirstLists, Joined DEF JoinedTo
<1>3. JoinedTo(q, Len(q)) = FlattenSeq(q)
  BY SubSeqFull DEF JoinedTo
<1>4. ASSUME NEW k \in 1 .. Len(q)
      PROVE  \E f \in [1 .. k -> Seq(S)] : Joining(SubSeq(q, 1, k), f) /\ JoinedTo(q, k) = f[k]
  <2>1. PICK a : a = SubSeq(q, 1, k)
    OBVIOUS
  <2>2. a \in Seq(Seq(S)) /\ Len(a) = k /\ k > 0
    BY <1>1, <2>1, FirstLists
  <2> QED BY <2>1, <2>2, Joined DEF JoinedTo
<1>5. ASSUME NEW k \in 1 .. Len(q) PROVE JoinedTo(q, k) \in Seq(S)
  <2>1. k \in 1 .. k
    OBVIOUS
  <2> QED BY <1>4, <2>1
<1>6. ASSUME NEW k \in 1 .. Len(q) PROVE JoinedTo(q, k) = JoinedTo(q, k - 1) \o q[k]
  <2>1. PICK f \in [1 .. k -> Seq(S)] : Joining(SubSeq(q, 1, k), f) /\ JoinedTo(q, k) = f[k]
    BY <1>4
  <2>2. \A i \in 1 .. k : f[i] = IF i = 1 THEN q[i] ELSE f[i - 1] \o q[i]
    <3>1. PICK a : a = SubSeq(q, 1, k)
      OBVIOUS
    <3>2. Len(a) = k /\ \A i \in 1 .. k : a[i] = q[i]
      BY <1>1, <3>1, FirstLists
    <3>3. \A i \in 1 .. k : f[i] = IF i = 1 THEN a[i] ELSE f[i - 1] \o a[i]
      BY <2>1, <3>1, <3>2 DEF Joining
    <3> QED BY <3>2, <3>3
  <2>3. q[k] \in Seq(S) /\ k \in 1 .. k
    OBVIOUS
  <2>4. CASE k = 1
    <3>1. JoinedTo(q, k - 1) = <<>>
      BY <1>2, <2>4
    <3>2. f[k] = q[k]
      BY <2>2, <2>3, <2>4
    <3> QED BY <2>1, <2>3, <3>1, <3>2, ConcatEmptySeq
  <2>5. CASE k # 1
    <3>1. PICK j : j = k - 1
      OBVIOUS
    <3>2. j \in 1 .. Len(q) /\ j \in 1 .. j /\ j + 1 = k
      BY <1>1, <2>5, <3>1
    <3>3. PICK g \in [1 .. j -> Seq(S)] : Joining(SubSeq(q, 1, j), g) /\ JoinedTo(q, j) = g[j]
      BY <1>4, <3>2
    <3>4. \A i \in 1 .. j : g[i] = IF i = 1 THEN q[i] ELSE g[i - 1] \o q[i]
      <4>1. PICK a : a = SubSeq(q, 1, j)
        OBVIOUS
      <4>2. Len(a) = j /\ \A i \in 1 .. j : a[i] = q[i]
        BY <1>1, <3>2, <4>1, FirstLists
      <4>3. \A i \in 1 .. j : g[i] = IF i = 1 THEN a[i] ELSE g[i - 1] \o a[i]
        BY <3>3, <4>1, <4>2 DEF Joining
      <4> QED BY <4>2, <4>3
    <3>5. \A i \in 1 .. j : f[i] = g[i]
      <4>1. PICK bad : bad = {i \in 1 .. j : f[i] # g[i]}
        OBVIOUS
      <4>2. ASSUME bad # {} PROVE FALSE
        <5>1. PICK i \in bad : \A h \in bad : i <= h
          <6>1. bad \in SUBSET Nat
            BY <4>1
          <6> QED BY <4>2, <6>1, LeastNumber
        <5>2. i \in 1 .. j /\ i \in 1 .. k /\ f[i] # g[i]
          BY <3>2, <4>1, <5>1
        <5>3. i # 1
          BY <2>2, <3>4, <5>2
        <5>4. i - 1 \in 1 .. j /\ ~(i <= i - 1)
          BY <1>1, <3>2, <5>2, <5>3
        <5>5. f[i - 1] = g[i - 1]
          BY <4>1, <5>1, <5>4
        <5> QED BY <2>2, <3>4, <5>2, <5>3, <5>5
      <4> QED BY <4>1, <4>2
    <3>6. f[k] = f[j] \o q[k]
      BY <2>2, <2>3, <2>5, <3>1
    <3> QED BY <2>1, <3>1, <3>2, <3>3, <3>5, <3>6
  <2> QED BY <2>4, <2>5
<1>7. ASSUME NEW k \in 0 .. Len(q) PROVE JoinedTo(q, k) \in Seq(S)
  <2>1. k = 0 \/ k \in 1 .. Len(q)
    OBVIOUS
  <2>2. <<>> \in Seq(S)
    OBVIOUS
  <2>3. CASE k = 0
    BY <1>2, <2>2, <2>3
  <2>4. CASE k \in 1 .. Len(q)
    BY <1>5, <2>4
  <2> QED BY <2>1, <2>3, <2>4
<1> QED BY <1>2, <1>3, <1>6, <1>7

(* Where in the whole the first k lists end                                *)
Offsets(q) == [k \in 0 .. Len(q) |-> Len(JoinedTo(q, k))]

Places(q, o) ==
    /\ o[0] = 0 /\ o[Len(q)] = Len(FlattenSeq(q))
    /\ \A k \in 0 .. Len(q) : o[k] \in Nat
    /\ \A k \in 1 .. Len(q) : o[k] = o[k - 1] + Len(q[k])
    /\ \A k \in 0 .. Len(q) : \A i \in 0 .. k :
          o[i] <= o[k] /\ \A j \in 1 .. o[i] : JoinedTo(q, k)[j] = JoinedTo(q, i)[j]
    /\ \A k \in 1 .. Len(q) : \A d \in 1 .. Len(q[k]) : FlattenSeq(q)[o[k - 1] + d] = q[k][d]
    /\ \A j \in 1 .. Len(FlattenSeq(q)) : \E k \in 1 .. Len(q) : o[k - 1] < j /\ j <= o[k]

(* Lists joined keep what was joined before, and every place of the whole  *)
(* is one of some list.                                                    *)
LEMMA JoinedPlaces ==
    ASSUME NEW S, NEW q \in Seq(Seq(S))
    PROVE  Places(q, Offsets(q))
<1>0. PICK o : o = Offsets(q)
  OBVIOUS
<1>1. Len(q) \in Nat /\ 0 \in 0 .. Len(q) /\ Len(q) \in 0 .. Len(q)
  OBVIOUS
<1>2. \A k \in 0 .. Len(q) : o[k] = Len(JoinedTo(q, k)) /\ o[k] \in Nat /\ JoinedTo(q, k) \in Seq(S)
  BY <1>0, JoinedStep DEF Offsets
<1>3. o[0] = 0 /\ o[Len(q)] = Len(FlattenSeq(q)) /\ JoinedTo(q, Len(q)) = FlattenSeq(q)
  <2>1. JoinedTo(q, 0) = <<>> /\ JoinedTo(q, Len(q)) = FlattenSeq(q)
    BY JoinedStep
  <2> QED BY <1>1, <1>2, <2>1
<1>4. ASSUME NEW k \in 1 .. Len(q)
      PROVE  /\ k - 1 \in 0 .. Len(q) /\ k \in 0 .. Len(q) /\ q[k] \in Seq(S)
             /\ o[k] = o[k - 1] + Len(q[k])
             /\ \A j \in 1 .. o[k - 1] : JoinedTo(q, k)[j] = JoinedTo(q, k - 1)[j]
             /\ \A d \in 1 .. Len(q[k]) : JoinedTo(q, k)[o[k - 1] + d] = q[k][d]
  <2>1. k - 1 \in 0 .. Len(q) /\ k \in 0 .. Len(q) /\ q[k] \in Seq(S)
    OBVIOUS
  <2>2. PICK a, b, c : a = JoinedTo(q, k - 1) /\ b = q[k] /\ c = JoinedTo(q, k)
    OBVIOUS
  <2>3. c = a \o b /\ a \in Seq(S) /\ b \in Seq(S) /\ Len(a) = o[k - 1] /\ Len(c) = o[k]
    BY <1>2, <2>1, <2>2, JoinedStep
  <2>4. /\ Len(c) = Len(a) + Len(b)
        /\ \A i \in 1 .. Len(a) + Len(b) : c[i] = IF i <= Len(a) THEN a[i] ELSE b[i - Len(a)]
    BY <2>3, ConcatProperties
  <2>5. Len(a) \in Nat /\ Len(b) \in Nat
    BY <2>3
  <2>6. \A j \in 1 .. Len(a) : c[j] = a[j]
    <3>1. \A j \in 1 .. Len(a) : j \in 1 .. Len(a) + Len(b) /\ j <= Len(a)
      BY <2>5
    <3> QED BY <2>4, <3>1
  <2>7. \A d \in 1 .. Len(b) : c[Len(a) + d] = b[d]
    <3>1. \A d \in 1 .. Len(b) : Len(a) + d \in 1 .. Len(a) + Len(b) /\ ~(Len(a) + d <= Len(a)) /\ Len(a) + d - Len(a) = d
      BY <2>5
    <3> QED BY <2>4, <3>1
  <2> QED BY <2>1, <2>2, <2>3, <2>4, <2>6, <2>7
<1>5. ASSUME NEW i \in 0 .. Len(q)
      PROVE  \A k \in i .. Len(q) : o[i] <= o[k] /\ \A j \in 1 .. o[i] : JoinedTo(q, k)[j] = JoinedTo(q, i)[j]
  <2>1. PICK bad : bad = {k \in i .. Len(q) :
                            ~(o[i] <= o[k] /\ \A j \in 1 .. o[i] : JoinedTo(q, k)[j] = JoinedTo(q, i)[j])}
    OBVIOUS
  <2>2. ASSUME bad # {} PROVE FALSE
    <3>1. PICK k \in bad : \A h \in bad : k <= h
      <4>1. \A h \in bad : h \in Nat
        BY <2>1
      <4> QED BY <2>2, <4>1, LeastNumber
    <3>2. k \in i .. Len(q) /\ ~(o[i] <= o[k] /\ \A j \in 1 .. o[i] : JoinedTo(q, k)[j] = JoinedTo(q, i)[j])
      BY <2>1, <3>1
    <3>3. k # i
      <4>1. o[i] <= o[i]
        BY <1>2
      <4> QED BY <3>2, <4>1
    <3>4. PICK h : h = k - 1
      OBVIOUS
    <3>5. h \in i .. Len(q) /\ ~(k <= h) /\ k \in 1 .. Len(q) /\ h \in 0 .. Len(q) /\ k \in 0 .. Len(q)
      BY <3>2, <3>3, <3>4
    <3>6. o[i] <= o[h] /\ \A j \in 1 .. o[i] : JoinedTo(q, h)[j] = JoinedTo(q, i)[j]
      BY <2>1, <3>1, <3>5
    <3>7. o[k] = o[h] + Len(q[k]) /\ q[k] \in Seq(S) /\ \A j \in 1 .. o[h] : JoinedTo(q, k)[j] = JoinedTo(q, h)[j]
      BY <1>4, <3>4, <3>5
    <3>8. o[i] \in Nat /\ o[h] \in Nat /\ o[k] \in Nat /\ Len(q[k]) \in Nat
      BY <1>2, <3>5, <3>7
    <3>9. o[i] <= o[k]
      BY <3>6, <3>7, <3>8
    <3>10. \A j \in 1 .. o[i] : j \in 1 .. o[h]
      BY <3>6, <3>8
    <3> QED BY <3>2, <3>6, <3>7, <3>9, <3>10
  <2> QED BY <2>1, <2>2
<1>6. ASSUME NEW k \in 1 .. Len(q), NEW d \in 1 .. Len(q[k]) PROVE FlattenSeq(q)[o[k - 1] + d] = q[k][d]
  <2>1. k \in 0 .. Len(q) /\ k - 1 \in 0 .. Len(q) /\ q[k] \in Seq(S) /\ Len(q) \in k .. Len(q)
    OBVIOUS
  <2>2. o[k] = o[k - 1] + Len(q[k]) /\ JoinedTo(q, k)[o[k - 1] + d] = q[k][d]
    BY <1>4
  <2>3. o[k - 1] + d \in 1 .. o[k]
    <3>1. o[k - 1] \in Nat /\ Len(q[k]) \in Nat
      BY <1>2, <2>1
    <3> QED BY <2>2, <3>1
  <2>4. JoinedTo(q, Len(q))[o[k - 1] + d] = JoinedTo(q, k)[o[k - 1] + d]
    BY <1>5, <2>1, <2>3
  <2> QED BY <1>3, <2>2, <2>4
<1>7. ASSUME NEW j \in 1 .. Len(FlattenSeq(q)) PROVE \E k \in 1 .. Len(q) : o[k - 1] < j /\ j <= o[k]
  <2>1. PICK far : far = {k \in 0 .. Len(q) : j <= o[k]}
    OBVIOUS
  <2>2. Len(q) \in far /\ j \in Nat
    <3>1. o[Len(q)] = Len(FlattenSeq(q)) /\ o[Len(q)] \in Nat
      BY <1>1, <1>2, <1>3
    <3> QED BY <1>1, <2>1, <3>1
  <2>3. PICK k \in far : \A h \in far : k <= h
    <3>1. \A h \in far : h \in Nat
      BY <2>1
    <3>2. far \in SUBSET Nat /\ far # {}
      BY <2>2, <3>1
    <3> QED BY <3>2, LeastNumber
  <2>4. k \in 0 .. Len(q) /\ j <= o[k]
    BY <2>1, <2>3
  <2>5. k # 0
    BY <1>3, <2>4
  <2>6. k \in 1 .. Len(q) /\ k - 1 \in 0 .. Len(q) /\ ~(k <= k - 1)
    BY <2>4, <2>5
  <2>7. ~(j <= o[k - 1])
    BY <2>1, <2>3, <2>6
  <2>8. o[k - 1] < j
    BY <1>2, <2>2, <2>6, <2>7
  <2> QED BY <2>4, <2>6, <2>8
<1>8. \A k \in 0 .. Len(q) : \A i \in 0 .. k : i \in 0 .. Len(q) /\ k \in i .. Len(q)
  OBVIOUS
<1> QED BY <1>0, <1>2, <1>3, <1>4, <1>5, <1>6, <1>7, <1>8 DEF Places

LEMMA StringsAreText == Seq(STRING) \subseteq Text
<1>1. ASSUME NEW x \in Seq(STRING) PROVE x \in Seq(Symbols)
  <2>1. Len(x) \in Nat /\ x \in [1 .. Len(x) -> STRING]
    OBVIOUS
  <2>2. x \in [1 .. Len(x) -> Symbols]
    BY <2>1 DEF Symbols
  <2> QED BY <2>1, <2>2
<1> QED BY <1>1 DEF Text

LEMMA JoinedText == \A q \in Seq(Text) : FlattenSeq(q) \in Text
<1> SUFFICES ASSUME NEW q \in Seq(Text) PROVE FlattenSeq(q) \in Text
  OBVIOUS
<1>1. \E f \in [1 .. Len(q) -> Seq(Symbols)] :
         /\ Joining(q, f)
         /\ Len(q) > 0 => FlattenSeq(q) = f[Len(q)]
         /\ Len(q) = 0 => FlattenSeq(q) = <<>>
  <2>1. q \in Seq(Seq(Symbols))
    BY DEF Text
  <2> QED BY <2>1, Joined
<1>2. PICK f \in [1 .. Len(q) -> Text] :
         /\ Joining(q, f)
         /\ Len(q) > 0 => FlattenSeq(q) = f[Len(q)]
         /\ Len(q) = 0 => FlattenSeq(q) = <<>>
  BY <1>1 DEF Text
<1>3. Len(q) \in Nat /\ <<>> \in Text
  BY DEF Text
<1>4. CASE Len(q) = 0
  BY <1>2, <1>3, <1>4
<1>5. CASE Len(q) > 0
  <2>1. Len(q) \in 1 .. Len(q)
    BY <1>3, <1>5
  <2>2. f[Len(q)] \in Text
    BY <2>1
  <2> QED BY <1>2, <1>5, <2>2
<1> QED BY <1>3, <1>4, <1>5

LEMMA EncodeIsText == \A m \in Sendable : Encode(m) \in Text
<1> SUFFICES ASSUME NEW m \in Sendable PROVE Encode(m) \in Text
  OBVIOUS
<1>0. PICK x \in DOMAIN COMMAS :
         \E fs \in [1 .. COMMAS[x] - 1 -> {f \in Fields : Plain(f)}] : m = [prefix |-> x, fields |-> fs]
  BY DEF Sendable
<1>1. PICK fs \in [1 .. COMMAS[x] - 1 -> {f \in Fields : Plain(f)}] : m = [prefix |-> x, fields |-> fs]
  BY <1>0
<1>2. PICK c : c = COMMAS[x]
  OBVIOUS
<1>3. c \in Nat \ {0} /\ x \in Text /\ \A f \in Fields : f \in Text
  BY <1>2, StringsAreText, FramingConstants
<1>4. PICK q : q = [i \in 1 .. c |-> <<Comma>> \o IF i < c THEN fs[i] ELSE End]
  OBVIOUS
<1>5. \A i \in 1 .. c : q[i] \in Text
  <2>1. ASSUME NEW i \in 1 .. c PROVE q[i] \in Text
    <3>1. End \in Text /\ <<Comma>> \in Text
      <4>1. "e" \in Symbols /\ "n" \in Symbols /\ "d" \in Symbols /\ Comma \in Symbols
        BY DEF Symbols
      <4>2. <<"e", "n", "d">> \in Seq(Symbols) /\ <<Comma>> \in Seq(Symbols)
        BY <4>1
      <4> QED BY <4>2 DEF End, Text
    <3>2. i < c => fs[i] \in Text
      <4>1. i < c => i \in 1 .. c - 1
        BY <1>3
      <4> QED BY <1>2, <1>3, <4>1
    <3>3. PICK f : f = IF i < c THEN fs[i] ELSE End
      OBVIOUS
    <3>4. f \in Text
      BY <3>1, <3>2, <3>3
    <3>5. <<Comma>> \o f \in Text
      BY <3>1, <3>4 DEF Text
    <3> QED BY <1>4, <3>3, <3>5
  <2> QED BY <2>1
<1>6. q \in Seq(Text) /\ Len(q) = c
  BY <1>3, <1>4, <1>5
<1>7. FlattenSeq(q) \in Text
  BY <1>6, JoinedText
<1>8. Encode(m) = x \o FlattenSeq(q)
  BY <1>1, <1>2, <1>4 DEF Encode
<1> QED BY <1>3, <1>7, <1>8 DEF Text

(* What follows a text without commas in which fields stand behind commas  *)
(* is split into that text and the fields.                                 *)
Separated(x, c, g) == x \o FlattenSeq([i \in 1 .. c |-> <<Comma>> \o g[i]])

IsSplitInto(w, x, c, g) ==
    /\ w \in Text /\ Len(x) <= Len(w) /\ \A j \in 1 .. Len(x) : w[j] = x[j]
    /\ Split(w) = [n \in 1 .. c + 1 |-> IF n = 1 THEN x ELSE g[n - 1]]

PlainFields(c, g) == g \in [1 .. c -> Text] /\ \A i \in 1 .. c : Plain(g[i])

LEMMA CommaSeparated ==
    ASSUME NEW x \in Text, Plain(x), NEW c \in Nat \ {0}, NEW g, PlainFields(c, g)
    PROVE  IsSplitInto(Separated(x, c, g), x, c, g)
<1>1. PICK w : w = Separated(x, c, g)
  OBVIOUS
<1>3. c \in Nat \ {0} /\ x \in Text
  OBVIOUS
<1>5. \A i \in 1 .. c : g[i] \in Text /\ Plain(g[i])
  BY DEF PlainFields
<1>6. PICK q : q = [i \in 1 .. c |-> <<Comma>> \o g[i]]
  OBVIOUS
<1>7. ASSUME NEW i \in 1 .. c
      PROVE  /\ q[i] \in Text /\ Len(q[i]) = 1 + Len(g[i]) /\ q[i][1] = Comma /\ Len(g[i]) \in Nat
             /\ \A d \in 1 .. Len(g[i]) : q[i][1 + d] = g[i][d]
  <2>1. Comma \in Symbols
    BY DEF Symbols
  <2>2. PICK a, b : a = <<Comma>> /\ b = g[i]
    OBVIOUS
  <2>3. a \in Seq(Symbols) /\ b \in Seq(Symbols) /\ Len(a) = 1 /\ a[1] = Comma /\ Len(b) \in Nat
    BY <1>5, <2>1, <2>2 DEF Text
  <2>4. /\ a \o b \in Seq(Symbols) /\ Len(a \o b) = Len(a) + Len(b)
        /\ \A j \in 1 .. Len(a) + Len(b) : (a \o b)[j] = IF j <= Len(a) THEN a[j] ELSE b[j - Len(a)]
    BY <2>3, ConcatProperties
  <2>5. (a \o b)[1] = Comma
    BY <2>3, <2>4
  <2>6. \A d \in 1 .. Len(b) : (a \o b)[1 + d] = b[d]
    <3>1. \A d \in 1 .. Len(b) : 1 + d \in 1 .. 1 + Len(b) /\ ~(1 + d <= 1) /\ 1 + d - 1 = d
      BY <2>3
    <3> QED BY <2>3, <2>4, <3>1
  <2>7. q[i] = a \o b
    BY <1>6, <2>2
  <2> QED BY <2>2, <2>3, <2>4, <2>5, <2>6, <2>7 DEF Text
<1>8. q \in Seq(Seq(Symbols)) /\ Len(q) = c
  <2>1. \A i \in 1 .. c : q[i] \in Seq(Symbols)
    BY <1>7 DEF Text
  <2> QED BY <1>3, <1>6, <2>1
<1>9. PICK y : y = FlattenSeq(q)
  OBVIOUS
<1>10. w = x \o y
  BY <1>1, <1>6, <1>9 DEF Separated
<1>11. y \in Seq(Symbols)
  <2>1. q \in Seq(Text)
    BY <1>8 DEF Text
  <2> QED BY <1>9, <2>1, JoinedText DEF Text
<1>12. PICK o : o = Offsets(q)
  OBVIOUS
<1>13. /\ o[0] = 0 /\ o[c] = Len(y)
       /\ \A k \in 0 .. c : o[k] \in Nat
       /\ \A k \in 1 .. c : o[k] = o[k - 1] + 1 + Len(g[k])
       /\ \A k \in 0 .. c : \A i \in 0 .. k : o[i] <= o[k]
       /\ \A k \in 1 .. c : \A d \in 1 .. Len(q[k]) : y[o[k - 1] + d] = q[k][d]
       /\ \A j \in 1 .. Len(y) : \E k \in 1 .. c : o[k - 1] < j /\ j <= o[k]
  <2>1. /\ o[0] = 0 /\ o[Len(q)] = Len(FlattenSeq(q))
        /\ \A k \in 0 .. Len(q) : o[k] \in Nat
        /\ \A k \in 1 .. Len(q) : o[k] = o[k - 1] + Len(q[k])
        /\ \A k \in 0 .. Len(q) : \A i \in 0 .. k : o[i] <= o[k]
        /\ \A k \in 1 .. Len(q) : \A d \in 1 .. Len(q[k]) : FlattenSeq(q)[o[k - 1] + d] = q[k][d]
        /\ \A j \in 1 .. Len(FlattenSeq(q)) : \E k \in 1 .. Len(q) : o[k - 1] < j /\ j <= o[k]
    <3>1. Places(q, o)
      BY <1>8, <1>12, JoinedPlaces
    <3> QED BY <3>1 DEF Places
  <2>2. ASSUME NEW k \in 1 .. c PROVE o[k] = o[k - 1] + 1 + Len(g[k])
    <3>1. o[k] = o[k - 1] + Len(q[k]) /\ o[k - 1] \in Nat
      <4>1. k - 1 \in 0 .. c
        BY <1>3
      <4> QED BY <1>8, <2>1, <4>1
    <3>2. Len(q[k]) = 1 + Len(g[k]) /\ Len(g[k]) \in Nat
      BY <1>7
    <3> QED BY <3>1, <3>2
  <2> QED BY <1>8, <1>9, <2>1, <2>2
<1>14a. PICK l : l = Len(x)
  OBVIOUS
<1>14b. l \in Nat /\ x \in Seq(Symbols) /\ o[c] \in Nat /\ Len(y) = o[c]
  <2>1. c \in 0 .. c
    BY <1>3
  <2> QED BY <1>3, <1>13, <1>14a, <2>1 DEF Text
<1>14. /\ w \in Seq(Symbols) /\ Len(w) = l + o[c]
       /\ \A j \in 1 .. l : w[j] = x[j]
       /\ \A j \in 1 .. Len(y) : w[l + j] = y[j]
  <2>2. /\ x \o y \in Seq(Symbols) /\ Len(x \o y) = Len(x) + Len(y)
        /\ \A j \in 1 .. Len(x) + Len(y) : (x \o y)[j] = IF j <= Len(x) THEN x[j] ELSE y[j - Len(x)]
    BY <1>11, <1>14b, ConcatProperties
  <2>3. \A j \in 1 .. l : j \in 1 .. l + Len(y) /\ j <= l
    BY <1>14b
  <2>4. \A j \in 1 .. Len(y) : l + j \in 1 .. l + Len(y) /\ ~(l + j <= l) /\ l + j - l = j
    BY <1>14b
  <2>5. w \in Seq(Symbols) /\ Len(w) = l + o[c]
    BY <1>10, <1>14a, <1>14b, <2>2
  <2>6. \A j \in 1 .. l : w[j] = x[j]
    BY <1>10, <1>14a, <2>2, <2>3
  <2>7. \A j \in 1 .. Len(y) : w[l + j] = y[j]
    BY <1>10, <1>14a, <2>2, <2>4
  <2> QED BY <2>5, <2>6, <2>7
<1>15. PICK cm : cm = [i \in 1 .. c |-> l + o[i - 1] + 1]
  OBVIOUS
<1>16. ASSUME NEW i \in 1 .. c
       PROVE  /\ cm[i] = l + o[i - 1] + 1 /\ cm[i] \in Nat /\ o[i - 1] \in Nat /\ o[i] \in Nat
              /\ 1 <= cm[i] /\ cm[i] + Len(g[i]) = l + o[i] /\ l + o[i] <= Len(w)
              /\ w[cm[i]] = Comma
              /\ \A d \in 1 .. Len(g[i]) : w[cm[i] + d] = g[i][d]
  <2>1. i - 1 \in 0 .. c /\ i \in 0 .. c /\ c \in 0 .. c
    BY <1>3
  <2>2. PICK a, b, n, u, h, z : a = o[i - 1] /\ b = o[i] /\ n = Len(g[i]) /\ u = cm[i] /\ h = o[c] /\ z = q[i]
    OBVIOUS
  <2>3. a \in Nat /\ b \in Nat /\ b <= h /\ h \in Nat /\ b = a + 1 + n
    BY <1>13, <2>1, <2>2
  <2>4. n \in Nat /\ Len(z) = 1 + n /\ z[1] = Comma /\ \A d \in 1 .. n : z[1 + d] = g[i][d]
    BY <1>7, <2>2
  <2>5. u = l + a + 1
    BY <1>15, <2>2
  <2>6. Len(w) = l + h /\ Len(y) = h /\ l \in Nat /\ \A j \in 1 .. h : w[l + j] = y[j]
    BY <1>14, <1>14b, <2>2
  <2>7. \A d \in 1 .. 1 + n : y[a + d] = z[d]
    BY <1>13, <2>2, <2>4
  <2>7a. n \in Nat /\ l \in Nat
    BY <2>4, <2>6
  <2>11. u \in Nat /\ 1 <= u /\ u + n = l + b /\ l + b <= l + h
    BY <2>3, <2>5, <2>7a
  <2>8. ASSUME NEW d \in 0 .. n PROVE w[u + d] = z[1 + d]
    <3>1. a + (1 + d) \in 1 .. h /\ 1 + d \in 1 .. 1 + n /\ l + (a + (1 + d)) = u + d
      BY <2>3, <2>5, <2>7a
    <3>2. w[l + (a + (1 + d))] = y[a + (1 + d)]
      BY <2>6, <3>1
    <3>3. y[a + (1 + d)] = z[1 + d]
      BY <2>7, <3>1
    <3> QED BY <3>1, <3>2, <3>3
  <2>9. w[u] = Comma
    <3>1. u \in Nat /\ n \in Nat
      BY <2>11, <2>4
    <3>a. 0 \in 0 .. n /\ u + 0 = u /\ 1 + 0 = 1
      BY <3>1
    <3>2. w[u + 0] = z[1 + 0]
      BY <2>8, <3>a
    <3> QED BY <2>4, <3>a, <3>2
  <2>10. \A d \in 1 .. n : w[u + d] = g[i][d]
    <3>1. \A d \in 1 .. n : d \in 0 .. n
      BY <2>4
    <3> QED BY <2>4, <2>8, <3>1
  <2> QED BY <2>2, <2>3, <2>5, <2>6, <2>9, <2>10, <2>11
<1>17. cm \in [1 .. c -> Nat] /\ \A i, j \in 1 .. c : i < j => cm[i] < cm[j]
  <2>1. \A i \in 1 .. c : cm[i] \in Nat
    BY <1>16
  <2>2. cm \in [1 .. c -> Nat]
    BY <1>15, <2>1
  <2>3. ASSUME NEW i \in 1 .. c, NEW j \in 1 .. c, i < j PROVE cm[i] < cm[j]
    <3>1. j - 1 \in 0 .. c /\ i \in 0 .. j - 1
      BY <1>3, <2>3
    <3>2. PICK a, b, d, u, v, n : a = o[i - 1] /\ b = o[i] /\ d = o[j - 1] /\ u = cm[i] /\ v = cm[j] /\ n = Len(g[i])
      OBVIOUS
    <3>3. b <= d
      BY <1>13, <3>1, <3>2
    <3>4. u = l + a + 1 /\ a \in Nat /\ b \in Nat /\ u \in Nat /\ u + n = l + b
      BY <1>16, <3>2
    <3>5. v = l + d + 1 /\ d \in Nat
      BY <1>16, <3>2
    <3>6. n \in Nat
      BY <1>7, <3>2
    <3>7. u < v
      BY <1>14b, <3>3, <3>4, <3>5, <3>6
    <3> QED BY <3>2, <3>7
  <2> QED BY <2>2, <2>3
<1>18. CommasOf(w) = {cm[i] : i \in 1 .. c}
  <2>1. Len(w) \in Nat /\ DOMAIN w = 1 .. Len(w)
    BY <1>14
  <2>2. ASSUME NEW i \in 1 .. c PROVE cm[i] \in CommasOf(w)
    <3>1. cm[i] \in Nat /\ 1 <= cm[i] /\ cm[i] + Len(g[i]) <= Len(w) /\ w[cm[i]] = Comma /\ Len(g[i]) \in Nat
      BY <1>7, <1>16
    <3>2. cm[i] \in 1 .. Len(w)
      BY <2>1, <3>1
    <3> QED BY <2>1, <3>1, <3>2 DEF CommasOf
  <2>3. ASSUME NEW k \in CommasOf(w) PROVE \E i \in 1 .. c : k = cm[i]
    <3>1. k \in 1 .. Len(w) /\ w[k] = Comma
      BY <2>1 DEF CommasOf
    <3>2. ~(k <= l)
      <4>1. ASSUME k <= l PROVE FALSE
        <5>1. k \in 1 .. l /\ DOMAIN x = 1 .. l
          BY <1>14a, <1>14b, <3>1, <4>1
        <5>2. x[k] = Comma
          BY <1>14, <3>1, <5>1
        <5> QED BY <5>1, <5>2, PrefixesAreWords DEF Plain
      <4> QED BY <4>1
    <3>3. PICK j : j = k - l
      OBVIOUS
    <3>4. Len(y) \in Nat /\ Len(y) = o[c]
      BY <1>11, <1>13
    <3>5. j \in 1 .. Len(y) /\ l + j = k
      <4>1. Len(w) = l + o[c]
        BY <1>14
      <4> QED BY <1>14b, <3>1, <3>2, <3>3, <3>4, <4>1
    <3>6. PICK i \in 1 .. c : o[i - 1] < j /\ j <= o[i]
      BY <1>13, <3>5
    <3>7. PICK a, b, u, n : a = o[i - 1] /\ b = o[i] /\ u = cm[i] /\ n = Len(g[i])
      OBVIOUS
    <3>8. /\ u = l + a + 1 /\ a \in Nat /\ b \in Nat /\ u + n = l + b /\ n \in Nat
          /\ \A d \in 1 .. n : w[u + d] = g[i][d]
      BY <1>7, <1>16, <3>7
    <3>9. ASSUME k # u PROVE FALSE
      <4>1. PICK d : d = k - u
        OBVIOUS
      <4>2. d \in 1 .. n /\ u + d = k
        <5>1. a < j /\ j <= b /\ j \in Nat /\ k = l + j
          BY <3>5, <3>6, <3>7
        <5> QED BY <1>14b, <3>8, <3>9, <4>1, <5>1
      <4>3. g[i][d] = Comma
        BY <3>1, <3>8, <4>2
      <4>4. DOMAIN g[i] = 1 .. n
        BY <1>5, <3>7 DEF Text
      <4> QED BY <1>5, <4>2, <4>3, <4>4 DEF Plain
    <3> QED BY <3>7, <3>9
  <2> QED BY <2>2, <2>3
<1>19. Split(w) = [n \in 1 .. c + 1 |->
                     SubSeq(w, IF n = 1 THEN 1 ELSE 1 + cm[n - 1], IF n = c + 1 THEN Len(w) ELSE cm[n] - 1)]
  <2>1. c \in Nat
    BY <1>3
  <2>2. CommasAt(w, c, cm)
    BY <1>17, <1>18, <2>1 DEF CommasAt
  <2> QED BY <2>2, SplitInto
<1>20. Split(w) = [n \in 1 .. c + 1 |-> IF n = 1 THEN x ELSE g[n - 1]]
  <2>1. SubSeq(w, 1, cm[1] - 1) = x
    <3>1. 1 \in 1 .. c /\ 1 - 1 = 0
      BY <1>3
    <3>2. cm[1] - 1 = l
      <4>1. cm[1] = l + o[1 - 1] + 1
        BY <1>16, <3>1
      <4>2. o[1 - 1] = 0
        BY <1>13, <3>1
      <4> QED BY <1>14b, <4>1, <4>2
    <3>3. PICK z : z = SubSeq(w, 1, l)
      OBVIOUS
    <3>4. l \in Nat /\ l <= Len(w) /\ l - 1 + 1 = l /\ 1 <= l + 1
      <4>1. Len(w) = l + o[c]
        BY <1>14
      <4> QED BY <1>14b, <4>1
    <3>5. z \in Seq(Symbols) /\ Len(z) = l - 1 + 1 /\ \A i \in 1 .. l - 1 + 1 : z[i] = w[1 + i - 1]
      <4>1. w \in Seq(Symbols)
        BY <1>14
      <4> QED BY <3>3, <3>4, <4>1, Part
    <3>6. \A i \in 1 .. l : 1 + i - 1 = i
      BY <3>4
    <3>7. \A i \in 1 .. l : z[i] = x[i]
      BY <1>14, <3>3, <3>4, <3>5, <3>6
    <3>8. x \in Seq(Symbols) /\ Len(z) = l /\ Len(x) = l
      BY <1>14a, <1>14b, <3>4, <3>5
    <3>9. z = x
      BY <3>5, <3>7, <3>8, SeqEqual
    <3> QED BY <3>2, <3>3, <3>9
  <2>2. ASSUME NEW i \in 1 .. c PROVE SubSeq(w, 1 + cm[i], cm[i] + Len(g[i])) = g[i]
    <3>1. PICK a, b, z, u, n, f : /\ u = cm[i] /\ n = Len(g[i]) /\ f = g[i]
                                  /\ a = 1 + u /\ b = u + n /\ z = SubSeq(w, a, b)
      OBVIOUS
    <3>2. u \in Nat /\ u + n <= Len(w) /\ \A d \in 1 .. n : w[u + d] = f[d]
      BY <1>16, <3>1
    <3>3. n \in Nat /\ f \in Seq(Symbols) /\ Len(f) = n
      BY <1>5, <1>7, <3>1 DEF Text
    <3>4. a \in Nat /\ b \in Nat /\ 1 <= a /\ a <= b + 1 /\ b <= Len(w) /\ b - a + 1 = n
      <4>1. a = 1 + u /\ b = u + n
        BY <3>1
      <4>2. u \in Nat /\ n \in Nat /\ u + n <= Len(w)
        BY <3>2, <3>3
      <4> QED BY <4>1, <4>2
    <3>5. w \in Seq(Symbols)
      BY <1>14
    <3>6. z \in Seq(Symbols) /\ Len(z) = b - a + 1 /\ \A d \in 1 .. b - a + 1 : z[d] = w[a + d - 1]
      BY <3>1, <3>4, <3>5, Part
    <3>7. \A d \in 1 .. n : a + d - 1 = u + d
      BY <3>1, <3>2
    <3>8. \A d \in 1 .. n : z[d] = f[d]
      BY <3>2, <3>4, <3>6, <3>7
    <3>9. z = f
      BY <3>3, <3>4, <3>6, <3>8, SeqEqual
    <3> QED BY <3>1, <3>9
  <2>3. ASSUME NEW n \in 1 .. c + 1
        PROVE  SubSeq(w, IF n = 1 THEN 1 ELSE 1 + cm[n - 1], IF n = c + 1 THEN Len(w) ELSE cm[n] - 1)
                 = IF n = 1 THEN x ELSE g[n - 1]
    <3>1. CASE n = 1
      <4>1. n # c + 1
        BY <1>3, <3>1
      <4> QED BY <2>1, <3>1, <4>1
    <3>2. CASE n # 1
      <4>1. PICK i : i = n - 1
        OBVIOUS
      <4>2. i \in 1 .. c /\ i + 1 = n
        BY <1>3, <3>2, <4>1
      <4>3. cm[i] + Len(g[i]) = l + o[i]
        BY <1>16, <4>2
      <4>4. CASE n = c + 1
        <5>1. i = c
          BY <1>3, <4>2, <4>4
        <5>2. Len(w) = cm[i] + Len(g[i])
          BY <1>14, <4>3, <5>1
        <5> QED BY <2>2, <3>2, <4>1, <4>2, <4>4, <5>2
      <4>5. CASE n # c + 1
        <5>1. n \in 1 .. c
          BY <1>3, <4>5
        <5>2. cm[n] = l + o[n - 1] + 1 /\ o[n - 1] \in Nat
          BY <1>16, <5>1
        <5>3. cm[n] - 1 = cm[i] + Len(g[i])
          BY <1>14b, <4>1, <4>3, <5>2
        <5> QED BY <2>2, <3>2, <4>1, <4>2, <4>5, <5>3
      <4> QED BY <4>4, <4>5
    <3> QED BY <3>1, <3>2
  <2> QED BY <1>19, <2>3
<1>21. w \in Text /\ Len(x) <= Len(w) /\ \A j \in 1 .. Len(x) : w[j] = x[j]
  <2>1. Len(w) = l + o[c] /\ l <= l + o[c]
    BY <1>14, <1>14b
  <2> QED BY <1>14, <1>14a, <2>1 DEF Text
<1> QED BY <1>1, <1>20, <1>21 DEF IsSplitInto

LEMMA HeadIsFirst ==
    ASSUME NEW x \in Text, x # <<>>
    PROVE  Len(x) >= 1 /\ Head(x) = x[1] /\ 1 \in 1 .. Len(x) /\ DOMAIN x = 1 .. Len(x)
BY DEF Text

(* What encode_result made of a message is a frame, and decode_text makes  *)
(* the message of it.                                                      *)
LEMMA Encoded ==
    ASSUME NEW m \in Sendable
    PROVE  /\ Decode(Encode(m)) = m
           /\ Len(Encode(m)) <= MAX_FRAME => IsText(Encode(m))
           /\ Len(Encode(m)) >= 1
           /\ Encode(m)[1] \notin LineBytes /\ Encode(m)[1] \notin Blanks /\ Encode(m)[1] # "{"
<1>0. PICK x \in DOMAIN COMMAS :
         \E fs \in [1 .. COMMAS[x] - 1 -> {f \in Fields : Plain(f)}] : m = [prefix |-> x, fields |-> fs]
  BY DEF Sendable
<1>1. PICK fs \in [1 .. COMMAS[x] - 1 -> {f \in Fields : Plain(f)}] : m = [prefix |-> x, fields |-> fs]
  BY <1>0
<1>2. PICK c : c = COMMAS[x]
  OBVIOUS
<1>3. c \in Nat \ {0} /\ x \in Text /\ \A f \in Fields : f \in Text
  BY <1>2, StringsAreText, FramingConstants
<1>4. PICK g : g = [i \in 1 .. c |-> IF i < c THEN fs[i] ELSE End]
  OBVIOUS
<1>5. \A i \in 1 .. c : g[i] \in Text /\ Plain(g[i])
  <2>1. ASSUME NEW i \in 1 .. c PROVE g[i] \in Text /\ Plain(g[i])
    <3>1. CASE i < c
      <4>1. i \in 1 .. c - 1
        BY <1>3, <3>1
      <4>2. fs[i] \in Text /\ Plain(fs[i])
        BY <1>2, <1>3, <4>1
      <4> QED BY <1>4, <3>1, <4>2
    <3>2. CASE ~(i < c)
      <4>1. "e" \in Symbols /\ "n" \in Symbols /\ "d" \in Symbols
        BY DEF Symbols
      <4>2. End \in Text
        BY <4>1 DEF End, Text
      <4>3. Plain(End)
        <5>1. DOMAIN End = 1 .. 3 /\ End[1] = "e" /\ End[2] = "n" /\ End[3] = "d"
          BY DEF End
        <5>2. \A k \in 1 .. 3 : k = 1 \/ k = 2 \/ k = 3
          OBVIOUS
        <5>3. "e" \notin LineBytes \cup {Comma} /\ "n" \notin LineBytes \cup {Comma} /\ "d" \notin LineBytes \cup {Comma}
          BY DEF LineBytes, Comma
        <5> QED BY <5>1, <5>2, <5>3 DEF Plain
      <4> QED BY <1>4, <3>2, <4>2, <4>3
    <3> QED BY <3>1, <3>2
  <2> QED BY <2>1
<1>6. PICK w : w = Encode(m)
  OBVIOUS
<1>7. /\ w \in Text /\ Len(x) <= Len(w) /\ \A j \in 1 .. Len(x) : w[j] = x[j]
      /\ Split(w) = [n \in 1 .. c + 1 |-> IF n = 1 THEN x ELSE g[n - 1]]
  <2>1. [i \in 1 .. c |-> <<Comma>> \o g[i]] = [i \in 1 .. c |-> <<Comma>> \o IF i < c THEN fs[i] ELSE End]
    BY <1>4
  <2>2. w = Separated(x, c, g)
    BY <1>1, <1>2, <1>6, <2>1 DEF Encode, Separated
  <2>3. PlainFields(c, g) /\ Plain(x)
    BY <1>4, <1>5, PrefixesAreWords DEF PlainFields
  <2>4. IsSplitInto(w, x, c, g)
    BY <1>3, <2>2, <2>3, CommaSeparated
  <2> QED BY <2>4 DEF IsSplitInto
<1>21. PICK sp : sp = Split(w)
  OBVIOUS
<1>22. /\ sp \in Seq(Text) /\ Len(sp) = c + 1 /\ DOMAIN sp = 1 .. c + 1 /\ sp[1] = x
       /\ \A i \in 1 .. c : sp[i + 1] = g[i]
       /\ \A n \in 1 .. c + 1 : Plain(sp[n])
  <2>1. sp = [n \in 1 .. c + 1 |-> IF n = 1 THEN x ELSE g[n - 1]]
    BY <1>7, <1>21
  <2>2. ASSUME NEW n \in 1 .. c + 1 PROVE sp[n] \in Text /\ Plain(sp[n])
    <3>1. CASE n = 1
      BY <1>3, <2>1, <3>1, PrefixesAreWords
    <3>2. CASE n # 1
      <4>1. n - 1 \in 1 .. c
        BY <1>3, <3>2
      <4> QED BY <1>5, <2>1, <3>2, <4>1
    <3> QED BY <3>1, <3>2
  <2>3. c + 1 \in Nat /\ 1 \in 1 .. c + 1 /\ \A i \in 1 .. c : i + 1 \in 1 .. c + 1 /\ i + 1 # 1 /\ i + 1 - 1 = i
    BY <1>3
  <2>4. sp \in Seq(Text) /\ Len(sp) = c + 1
    BY <2>1, <2>2, <2>3
  <2> QED BY <2>1, <2>2, <2>3, <2>4
<1>23. Last(sp) = End
  <2>1. c \in 1 .. c /\ ~(c < c)
    BY <1>3
  <2>2. sp[c + 1] = End
    BY <1>4, <1>22, <2>1
  <2> QED BY <1>22, <2>2 DEF Last
<1>24. SubSeq(sp, 2, Len(sp) - 1) = fs
  <2>1. PICK b, z : b = Len(sp) - 1 /\ z = SubSeq(sp, 2, b)
    OBVIOUS
  <2>2. b = c /\ b \in Nat /\ 2 \in Nat /\ 1 <= 2 /\ 2 <= b + 1 /\ b <= Len(sp) /\ b - 2 + 1 = c - 1 /\ c - 1 \in Nat
    BY <1>3, <1>22, <2>1
  <2>3. z \in Seq(Text) /\ Len(z) = b - 2 + 1 /\ \A i \in 1 .. b - 2 + 1 : z[i] = sp[2 + i - 1]
    BY <1>22, <2>1, <2>2, Part
  <2>4. ASSUME NEW i \in 1 .. c - 1 PROVE z[i] = fs[i]
    <3>1. i \in 1 .. c /\ i < c /\ 2 + i - 1 = i + 1
      BY <1>3
    <3> QED BY <1>4, <1>22, <2>2, <2>3, <3>1
  <2>5. fs \in Seq(Fields) /\ Len(fs) = c - 1
    BY <1>2, <2>2
  <2>6. \A f \in Seq(Text), h \in Seq(Fields) : Len(f) = Len(h) /\ (\A i \in 1 .. Len(f) : f[i] = h[i]) => f = h
    OBVIOUS
  <2>7. z = fs
    BY <2>2, <2>3, <2>4, <2>5, <2>6
  <2> QED BY <2>1, <2>7
<1>25. Decode(w) = m
  BY <1>1, <1>2, <1>21, <1>22, <1>23, <1>24 DEF Decode
<1>26. Len(w) <= MAX_FRAME => IsText(w)
  BY <1>2, <1>21, <1>22, <1>23 DEF IsText
<1>27. Len(w) >= 1 /\ w[1] \notin LineBytes /\ w[1] \notin Blanks /\ w[1] # "{"
  <2>1. x # <<>> /\ Plain(x) /\ Head(x) \notin Blanks \cup {"{"}
    BY PrefixesAreWords
  <2>2. Len(x) >= 1 /\ Head(x) = x[1] /\ 1 \in 1 .. Len(x) /\ DOMAIN x = 1 .. Len(x)
    BY <1>3, <2>1, HeadIsFirst
  <2>3. w[1] = x[1] /\ x[1] \notin LineBytes
    BY <1>7, <2>1, <2>2 DEF Plain
  <2>4. Len(w) \in Nat /\ Len(x) \in Nat
    BY <1>3, <1>7 DEF Text
  <2>5. Len(x) <= Len(w)
    BY <1>7
  <2>6. Len(w) >= 1
    BY <2>2, <2>4, <2>5
  <2>7. w[1] \notin Blanks /\ w[1] # "{"
    BY <2>1, <2>2, <2>3
  <2> QED BY <2>3, <2>6, <2>7
<1> QED BY <1>6, <1>25, <1>26, <1>27

LEMMA SentIsText ==
    ASSUME NEW ps \in Streams
    PROVE  ps \in Seq(Pieces) /\ (\A piece \in Pieces : Bytes(piece) \in Text) /\ Sent(ps) \in Text
<1>1. ps \in Seq(Pieces)
  BY FramingConstants DEF Streams
<1>2. ASSUME NEW piece \in Pieces PROVE Bytes(piece) \in Text
  <2>1. CASE piece \in Sendable
    <3>1. piece.prefix \in DOMAIN COMMAS
      BY <2>1 DEF Sendable
    <3>2. IsReport(piece)
      BY <3>1, PrefixesAreWords DEF IsReport
    <3> QED BY <2>1, <3>2, EncodeIsText DEF Bytes
  <2>2. CASE \E bytes \in Noise : piece = [prefix |-> <<>>, fields |-> <<bytes>>]
    BY <2>2, StringsAreText, FramingConstants DEF Bytes, IsReport
  <2> QED BY <1>2, <2>1, <2>2 DEF Pieces
<1>3. PICK q : q = [i \in DOMAIN ps |-> Bytes(ps[i])]
  OBVIOUS
<1>4. q \in Seq(Text)
  BY <1>1, <1>2, <1>3
<1> QED BY <1>1, <1>2, <1>3, <1>4, JoinedText DEF Sent

-----------------------------------------------------------------------------
(* What stands before the first byte that is kept                          *)

LEMMA FirstKept ==
    ASSUME NEW s \in Text, NEW set, NEW k \in 1 .. Len(s), s[k] \notin set, \A i \in 1 .. k - 1 : s[i] \in set
    PROVE  /\ WithoutLeading(s, set) = SubSeq(s, k, Len(s))
           /\ WithoutLeading(s, set) # <<>>
           /\ Head(WithoutLeading(s, set)) = s[k]
<1>1. PICK kept : kept = {i \in DOMAIN s : s[i] \notin set}
  OBVIOUS
<1>2. Len(s) \in Nat /\ DOMAIN s = 1 .. Len(s) /\ k \in Nat
  BY DEF Text
<1>3. k \in kept /\ \A i \in kept : i \in Nat /\ k <= i
  <2>1. ASSUME NEW i \in kept PROVE i \in Nat /\ k <= i
    <3>1. i \in Nat /\ i >= 1 /\ s[i] \notin set
      BY <1>1, <1>2
    <3> QED BY <1>2, <3>1
  <2> QED BY <1>1, <1>2, <2>1
<1>4. Min(kept) = k
  <2>1. Min(kept) \in kept /\ \A i \in kept : Min(kept) <= i
    <3>1. kept \in SUBSET Nat /\ kept # {}
      BY <1>3
    <3> QED BY <3>1, LeastNumber
  <2>2. PICK m : m = Min(kept)
    OBVIOUS
  <2>3. m <= k /\ k <= m /\ m \in Nat
    BY <1>3, <2>1, <2>2
  <2> QED BY <1>2, <2>2, <2>3
<1>5. WithoutLeading(s, set) = SubSeq(s, k, Len(s))
  BY <1>1, <1>3, <1>4 DEF WithoutLeading
<1>6. PICK t : t = SubSeq(s, k, Len(s))
  OBVIOUS
<1>7. Len(t) = Len(s) - k + 1 /\ t[1] = s[k]
  BY <1>2, <1>6, Part DEF Text
<1>8. t # <<>> /\ Head(t) = s[k]
  BY <1>2, <1>7
<1> QED BY <1>5, <1>6, <1>8

LEMMA Leading ==
    ASSUME NEW s \in Text, NEW set
    PROVE  \/ (\A i \in 1 .. Len(s) : s[i] \in set) /\ WithoutLeading(s, set) = <<>>
           \/ \E k \in 1 .. Len(s) : s[k] \notin set /\ \A i \in 1 .. k - 1 : s[i] \in set
<1>1. PICK kept : kept = {i \in DOMAIN s : s[i] \notin set}
  OBVIOUS
<1>2. Len(s) \in Nat /\ DOMAIN s = 1 .. Len(s)
  BY DEF Text
<1>3. CASE kept = {}
  BY <1>1, <1>2, <1>3 DEF WithoutLeading
<1>4. CASE kept # {}
  <2>1. \A i \in kept : i \in 1 .. Len(s) /\ i \in Nat
    BY <1>1, <1>2
  <2>2. PICK k \in kept : \A i \in kept : k <= i
    <3>1. kept \in SUBSET Nat
      BY <2>1
    <3> QED BY <1>4, <3>1, LeastNumber
  <2>3. ASSUME NEW i \in 1 .. k - 1 PROVE s[i] \in set
    <3>1. ~(k <= i) /\ i \in DOMAIN s
      BY <1>2, <2>1
    <3> QED BY <1>1, <2>2, <3>1
  <2> QED BY <1>1, <2>1, <2>3
<1> QED BY <1>3, <1>4

(* A part of the stream with some leading bytes gone is a later part.      *)
LEMMA PartTrimmed ==
    ASSUME NEW s \in Text, NEW set, NEW p \in 0 .. Len(s), NEW e \in p .. Len(s)
    PROVE  \E q \in p .. e :
              /\ WithoutLeading(SubSeq(s, p + 1, e), set) = SubSeq(s, q + 1, e)
              /\ \A i \in p + 1 .. q : s[i] \in set
              /\ q < e => s[q + 1] \notin set
<1>1. Len(s) \in Nat /\ p \in Nat /\ e \in Nat /\ p <= e /\ e <= Len(s)
  BY DEF Text
<1>2. PICK t : t = SubSeq(s, p + 1, e)
  OBVIOUS
<1>3. t \in Text /\ Len(t) = e - p /\ \A i \in 1 .. e - p : t[i] = s[p + i]
  <2>1. p + 1 \in Nat /\ 1 <= p + 1 /\ p + 1 <= e + 1 /\ e - (p + 1) + 1 = e - p
    BY <1>1
  <2>2. t \in Seq(Symbols) /\ Len(t) = e - p /\ \A i \in 1 .. e - p : t[i] = s[p + 1 + i - 1]
    BY <1>1, <1>2, <2>1, Part DEF Text
  <2>3. \A i \in 1 .. e - p : p + 1 + i - 1 = p + i
    BY <1>1
  <2> QED BY <2>2, <2>3 DEF Text
<1>4. CASE (\A i \in 1 .. Len(t) : t[i] \in set) /\ WithoutLeading(t, set) = <<>>
  <2>1. \A i \in p + 1 .. e : s[i] \in set
    <3>1. ASSUME NEW i \in p + 1 .. e PROVE s[i] \in set
      <4>1. i - p \in 1 .. e - p /\ p + (i - p) = i
        BY <1>1
      <4> QED BY <1>3, <1>4, <4>1
    <3> QED BY <3>1
  <2>2. SubSeq(s, e + 1, e) = <<>>
    BY <1>1
  <2>3. e \in p .. e /\ ~(e < e)
    BY <1>1
  <2> QED BY <1>2, <1>4, <2>1, <2>2, <2>3
<1>5. CASE \E k \in 1 .. Len(t) : t[k] \notin set /\ \A i \in 1 .. k - 1 : t[i] \in set
  <2>1. PICK k \in 1 .. Len(t) : t[k] \notin set /\ \A i \in 1 .. k - 1 : t[i] \in set
    BY <1>5
  <2>2. PICK q : q = p + k - 1
    OBVIOUS
  <2>3. q \in p .. e /\ q + 1 = p + k /\ q < e /\ k \in Nat /\ 1 <= k /\ k <= e - p
    BY <1>1, <1>3, <2>2
  <2>4. WithoutLeading(t, set) = SubSeq(t, k, e - p)
    BY <1>3, <2>1, FirstKept
  <2>5. SubSeq(t, k, e - p) = SubSeq(s, q + 1, e)
    <3>1. /\ p + 1 \in Nat /\ 1 <= p + 1 /\ p + 1 <= e + 1 /\ e - p \in Nat /\ k <= e - p + 1
          /\ e - p <= e - (p + 1) + 1 /\ p + 1 + k - 1 = q + 1 /\ p + 1 + (e - p) - 1 = e
      BY <1>1, <2>3
    <3>2. SubSeq(SubSeq(s, p + 1, e), k, e - p) = SubSeq(s, p + 1 + k - 1, p + 1 + (e - p) - 1)
      BY <1>1, <2>3, <3>1, PartOfPart DEF Text
    <3> QED BY <1>2, <3>1, <3>2
  <2>6. ASSUME NEW i \in p + 1 .. q PROVE s[i] \in set
    <3>1. i - p \in 1 .. k - 1 /\ i - p \in 1 .. e - p /\ p + (i - p) = i
      BY <1>1, <2>3
    <3> QED BY <1>3, <2>1, <3>1
  <2>7. s[q + 1] \notin set
    BY <1>3, <2>1, <2>3
  <2> QED BY <1>2, <2>3, <2>4, <2>5, <2>6, <2>7
<1> QED BY <1>3, <1>4, <1>5, Leading

(* Whether a connection speaks JSON shows in any part of its stream in     *)
(* which something is left after the leading blanks.                       *)
LEMMA JsonOf ==
    ASSUME NEW s \in Text, NEW q \in 0 .. Len(s), NEW e \in q + 1 .. Len(s),
           \A i \in 1 .. q : s[i] \in LineBytes, s[q + 1] \notin LineBytes,
           WithoutLeading(SubSeq(s, q + 1, e), Blanks) # <<>>
    PROVE  (Head(WithoutLeading(SubSeq(s, q + 1, e), Blanks)) = "{") = Json(s)
<1>1. Len(s) \in Nat /\ q \in Nat /\ e \in Nat /\ q + 1 <= e /\ e <= Len(s)
  BY DEF Text
<1>2. PICK t, u : t = SubSeq(s, q + 1, e) /\ u = SubSeq(s, q + 1, Len(s))
  OBVIOUS
<1>3. /\ t \in Text /\ Len(t) = e - q /\ \A i \in 1 .. e - q : t[i] = s[q + 1 + i - 1]
      /\ u \in Text /\ Len(u) = Len(s) - q /\ \A i \in 1 .. Len(s) - q : u[i] = s[q + 1 + i - 1]
  <2>1. /\ q + 1 \in Nat /\ 1 <= q + 1 /\ q + 1 <= e + 1 /\ e - (q + 1) + 1 = e - q
        /\ q + 1 <= Len(s) + 1 /\ Len(s) <= Len(s) /\ Len(s) - (q + 1) + 1 = Len(s) - q
    BY <1>1
  <2>2. /\ SubSeq(s, q + 1, e) \in Seq(Symbols) /\ Len(SubSeq(s, q + 1, e)) = e - (q + 1) + 1
        /\ \A i \in 1 .. e - (q + 1) + 1 : SubSeq(s, q + 1, e)[i] = s[q + 1 + i - 1]
    BY <1>1, <2>1, Part DEF Text
  <2>3. /\ SubSeq(s, q + 1, Len(s)) \in Seq(Symbols) /\ Len(SubSeq(s, q + 1, Len(s))) = Len(s) - (q + 1) + 1
        /\ \A i \in 1 .. Len(s) - (q + 1) + 1 : SubSeq(s, q + 1, Len(s))[i] = s[q + 1 + i - 1]
    <3>1. PICK l : l = Len(s)
      OBVIOUS
    <3>2. l \in Nat /\ q + 1 <= l + 1 /\ l <= Len(s)
      BY <1>1, <2>1, <3>1
    <3>3. /\ SubSeq(s, q + 1, l) \in Seq(Symbols) /\ Len(SubSeq(s, q + 1, l)) = l - (q + 1) + 1
          /\ \A i \in 1 .. l - (q + 1) + 1 : SubSeq(s, q + 1, l)[i] = s[q + 1 + i - 1]
      BY <2>1, <3>2, Part DEF Text
    <3> QED BY <3>1, <3>3
  <2> QED BY <1>2, <2>1, <2>2, <2>3 DEF Text
<1>4. WithoutLeading(s, LineBytes) = u
  <2>1. q + 1 \in 1 .. Len(s) /\ q + 1 - 1 = q
    BY <1>1
  <2> QED BY <1>2, <2>1, FirstKept
<1>5. PICK k \in 1 .. Len(t) : t[k] \notin Blanks /\ \A i \in 1 .. k - 1 : t[i] \in Blanks
  BY <1>2, <1>3, Leading
<1>6. k \in 1 .. Len(u) /\ u[k] = t[k] /\ \A i \in 1 .. k - 1 : u[i] = t[i]
  <2>1. \A i \in 1 .. k : i \in 1 .. e - q /\ i \in 1 .. Len(s) - q
    BY <1>1, <1>3
  <2>2. \A i \in 1 .. k : u[i] = t[i]
    BY <1>3, <2>1
  <2>3. k \in 1 .. k /\ \A i \in 1 .. k - 1 : i \in 1 .. k
    BY <1>1, <1>3
  <2> QED BY <1>3, <2>1, <2>2, <2>3
<1>7. Head(WithoutLeading(t, Blanks)) = t[k]
  BY <1>3, <1>5, FirstKept
<1>8. WithoutLeading(u, Blanks) # <<>> /\ Head(WithoutLeading(u, Blanks)) = t[k]
  BY <1>3, <1>5, <1>6, FirstKept
<1>9. Json(s) = (t[k] = "{")
  BY <1>4, <1>8 DEF Json
<1> QED BY <1>2, <1>7, <1>9

(* Line bytes in front do not change what a text stream is cut into, and   *)
(* at the beginning not what a JSON stream is cut into.                    *)
LEMMA LinesSkipped ==
    ASSUME NEW s \in Text, NEW json \in BOOLEAN, NEW p \in 0 .. Len(s), NEW q \in p .. Len(s),
           \A i \in p + 1 .. q : s[i] \in LineBytes,
           json => p = 0 /\ q < Len(s) /\ s[q + 1] \notin LineBytes
    PROVE  CutFrom(s, json)[p + 1] = CutFrom(s, json)[q + 1]
<1>1. Len(s) \in Nat /\ p \in Nat /\ q \in Nat /\ p <= q /\ q <= Len(s)
  BY DEF Text
<1>2. p + 1 \in 1 .. Len(s) + 1 /\ q + 1 \in 1 .. Len(s) + 1
  BY <1>1
<1>3. CASE ~json
  <2>1. \A j : j \in p + 1 .. Len(s) /\ s[j] \notin LineBytes <=> j \in q + 1 .. Len(s) /\ s[j] \notin LineBytes
    <3>1. ASSUME NEW j \in p + 1 .. Len(s), s[j] \notin LineBytes PROVE j \in q + 1 .. Len(s)
      <4>1. j \notin p + 1 .. q
        BY <3>1
      <4> QED BY <1>1, <4>1
    <3>2. \A j \in q + 1 .. Len(s) : j \in p + 1 .. Len(s)
      BY <1>1
    <3> QED BY <3>1, <3>2
  <2>2. Begins(s, json, p + 1) = Begins(s, json, q + 1)
    BY <1>3, <2>1 DEF Begins
  <2>3. CutStep(s, json, p + 1, CutFrom(s, json)) = CutStep(s, json, q + 1, CutFrom(s, json))
    BY <2>2 DEF CutStep
  <2> QED BY <1>2, <2>3, CutUnfolds
<1>4. CASE json
  <2>1. q + 1 \in 1 .. Len(s) /\ q + 1 \in q + 1 .. Len(s) /\ p = 0
    BY <1>1, <1>4
  <2>2. q + 1 \in Begins(s, json, 1) /\ \A j \in Begins(s, json, 1) : j \in Nat /\ q + 1 <= j
    <3>1. ASSUME NEW j \in Begins(s, json, 1) PROVE j \in Nat /\ q + 1 <= j
      <4>1. j \in 1 .. Len(s) /\ s[j] \notin LineBytes
        BY DEF Begins
      <4>2. j \notin p + 1 .. q
        BY <4>1
      <4> QED BY <1>1, <2>1, <4>1, <4>2
    <3>2. q + 1 \in Begins(s, json, 1)
      BY <1>4, <2>1 DEF Begins
    <3> QED BY <3>1, <3>2
  <2>3. q + 1 \in Begins(s, json, q + 1) /\ \A j \in Begins(s, json, q + 1) : j \in Nat /\ q + 1 <= j
    <3>1. ASSUME NEW j \in Begins(s, json, q + 1) PROVE j \in Nat /\ q + 1 <= j
      <4>1. j \in q + 1 .. Len(s)
        BY DEF Begins
      <4> QED BY <1>1, <4>1
    <3>2. q + 1 \in Begins(s, json, q + 1)
      BY <1>4, <2>1 DEF Begins
    <3> QED BY <3>1, <3>2
  <2>4. \A T : q + 1 \in T /\ (\A j \in T : j \in Nat /\ q + 1 <= j) => T # {} /\ Min(T) = q + 1
    <3>1. ASSUME NEW T, q + 1 \in T, \A j \in T : j \in Nat /\ q + 1 <= j PROVE T # {} /\ Min(T) = q + 1
      <4>1. T \in SUBSET Nat /\ T # {}
        BY <3>1
      <4>2. Min(T) \in T /\ Min(T) <= q + 1
        BY <3>1, <4>1, LeastNumber
      <4>3. Min(T) \in Nat /\ q + 1 <= Min(T)
        BY <3>1, <4>2
      <4>4. Min(T) = q + 1
        BY <1>1, <4>2, <4>3
      <4> QED BY <4>1, <4>4
    <3> QED BY <3>1
  <2>5. /\ Begins(s, json, 1) # {} /\ Min(Begins(s, json, 1)) = q + 1
        /\ Begins(s, json, q + 1) # {} /\ Min(Begins(s, json, q + 1)) = q + 1
    BY <2>2, <2>3, <2>4
  <2>6. CutStep(s, json, 1, CutFrom(s, json)) = CutStep(s, json, q + 1, CutFrom(s, json))
    BY <2>5 DEF CutStep
  <2>7. p + 1 = 1
    BY <2>1
  <2> QED BY <1>2, <2>6, <2>7, CutUnfolds
<1> QED BY <1>3, <1>4

(* What a decision about the bytes t from q + 1 to e says of the cut       *)
SaysHow(s, json, q, e, t) ==
    /\ t \in Text /\ Len(t) = e - q
    /\ \A n \in 1 .. Len(t) : Decides(json, t) = Frame(n) =>
          /\ CutFrom(s, json)[q + 1] = <<SubSeq(t, 1, n)>> \o CutFrom(s, json)[q + n + 1]
          /\ SubSeq(t, 1, n) \in Text
          /\ SubSeq(t, n + 1, Len(t)) = SubSeq(s, q + n + 1, e)
    /\ Decides(json, t).kind \in {"FORMAT", "LIMIT"} => CutFrom(s, json)[q + 1] = <<>>
    /\ Decides(json, t) = Wait /\ (e = Len(s) \/ e - q > MAX_FRAME) => CutFrom(s, json)[q + 1] = <<>>

(* How the cut goes on where a frame begins of which some bytes have come  *)
LEMMA CutGoesOn ==
    ASSUME NEW s \in Text, NEW json \in BOOLEAN, NEW q \in 0 .. Len(s), NEW e \in q .. Len(s),
           q < e => q + 1 \in Begins(s, json, q + 1)
    PROVE  SaysHow(s, json, q, e, SubSeq(s, q + 1, e))
<1>0. PICK t : t = SubSeq(s, q + 1, e)
  OBVIOUS
<1>1. Len(s) \in Nat /\ q \in Nat /\ e \in Nat /\ q <= e /\ e <= Len(s)
  BY DEF Text
<1>2. q + 1 \in 1 .. Len(s) + 1 /\ e - q \in 0 .. Len(s) - (q + 1) + 1 /\ q + 1 + (e - q) - 1 = e
  BY <1>1
<1>3. /\ t \in Text /\ Len(t) = e - q
      /\ \A j \in 1 .. e - q : Decides(json, t) = Frame(j) =>
            /\ Stops(s, json, q + 1) # {} /\ Min(Stops(s, json, q + 1)) = q + 1 + j - 1
            /\ SubSeq(t, 1, j) = SubSeq(s, q + 1, q + 1 + j - 1)
      /\ Decides(json, t).kind \in {"FORMAT", "LIMIT"} => Stops(s, json, q + 1) = {}
      /\ Decides(json, t) = Wait /\ (e - q = Len(s) - (q + 1) + 1 \/ e - q > MAX_FRAME) => Stops(s, json, q + 1) = {}
  <2>1. t = SubSeq(s, q + 1, q + 1 + (e - q) - 1)
    BY <1>0, <1>2
  <2>2. PICK b, n : b = q + 1 /\ n = e - q
    OBVIOUS
  <2>3. b \in 1 .. Len(s) + 1 /\ n \in 0 .. Len(s) - b + 1 /\ t = SubSeq(s, b, b + n - 1)
    BY <1>2, <2>1, <2>2
  <2>4. SaysWhere(s, json, b, n, t)
    BY <2>3, Stopping
  <2> QED BY <2>2, <2>4 DEF SaysWhere
<1>4. CASE q < e
  <2>1. Begins(s, json, q + 1) # {} /\ Min(Begins(s, json, q + 1)) = q + 1
    <3>1. q + 1 \in Begins(s, json, q + 1)
      BY <1>4
    <3>2. PICK b : b = Min(Begins(s, json, q + 1))
      OBVIOUS
    <3>3. b \in q + 1 .. Len(s) /\ b <= q + 1
      BY <1>2, <3>1, <3>2, BeginsAndStops
    <3>4. b = q + 1
      BY <1>1, <3>3
    <3> QED BY <3>1, <3>2, <3>4
  <2>2. CutFrom(s, json)[q + 1] =
          IF Stops(s, json, q + 1) = {} THEN <<>>
          ELSE <<SubSeq(s, q + 1, Min(Stops(s, json, q + 1)))>> \o CutFrom(s, json)[Min(Stops(s, json, q + 1)) + 1]
    BY <1>2, <2>1, CutUnfolds DEF CutStep
  <2>3. ASSUME NEW n \in 1 .. Len(t), Decides(json, t) = Frame(n)
        PROVE  /\ CutFrom(s, json)[q + 1] = <<SubSeq(t, 1, n)>> \o CutFrom(s, json)[q + n + 1]
               /\ SubSeq(t, 1, n) \in Text
               /\ SubSeq(t, n + 1, Len(t)) = SubSeq(s, q + n + 1, e)
    <3>1. n \in 1 .. e - q /\ n \in 0 .. Len(t) /\ q + 1 + n - 1 = q + n
      BY <1>1, <1>3
    <3>2. Stops(s, json, q + 1) # {} /\ Min(Stops(s, json, q + 1)) = q + n /\ SubSeq(t, 1, n) = SubSeq(s, q + 1, q + n)
      BY <1>3, <2>3, <3>1
    <3>3. CutFrom(s, json)[q + 1] = <<SubSeq(t, 1, n)>> \o CutFrom(s, json)[q + n + 1]
      BY <2>2, <3>2
    <3>4. SubSeq(t, 1, n) \in Text
      BY <1>3, <3>1, CommasOfPart
    <3>5. SubSeq(t, n + 1, Len(t)) = SubSeq(s, q + n + 1, e)
      <4>1. /\ q + 1 \in Nat /\ 1 <= q + 1 /\ q + 1 <= e + 1 /\ n + 1 \in Nat /\ e - q \in Nat /\ 1 <= n + 1
            /\ n + 1 <= e - q + 1 /\ e - q <= e - (q + 1) + 1 /\ q + 1 + (n + 1) - 1 = q + n + 1
            /\ q + 1 + (e - q) - 1 = e
        BY <1>1, <3>1
      <4>2. SubSeq(SubSeq(s, q + 1, e), n + 1, e - q) = SubSeq(s, q + 1 + (n + 1) - 1, q + 1 + (e - q) - 1)
        BY <1>1, <4>1, PartOfPart DEF Text
      <4> QED BY <1>0, <1>3, <4>1, <4>2
    <3> QED BY <3>3, <3>4, <3>5
  <2>4. e = Len(s) => e - q = Len(s) - (q + 1) + 1
    BY <1>1
  <2> QED BY <1>0, <1>3, <2>2, <2>3, <2>4 DEF SaysHow
<1>5. CASE q = e
  <2>1. t = <<>> /\ Len(t) = 0 /\ 1 .. Len(t) = {} /\ 1 .. 0 = {}
    BY <1>1, <1>3, <1>5
  <2>2. Decides(json, t) = Wait
    <3>1. JsonStep(t) = Wait
      BY <1>3, <2>1, JsonSteps
    <3>2. CommasOf(t) = {}
      BY <1>3, <2>1, CommasBound
    <3>3. TextStep(t) = Wait
      BY <3>2 DEF TextStep
    <3> QED BY <3>1, <3>3 DEF Decides
  <2>3. Decides(json, t).kind \notin {"FORMAT", "LIMIT"}
    BY <2>2 DEF Wait
  <2>4. ASSUME e = Len(s) \/ e - q > MAX_FRAME PROVE CutFrom(s, json)[q + 1] = <<>>
    <3>1. q = Len(s)
      BY <1>1, <1>5, <2>4, FramingConstants
    <3>2. Begins(s, json, q + 1) = {}
      BY <1>1, <3>1 DEF Begins
    <3> QED BY <1>2, <3>2, CutUnfolds DEF CutStep
  <2> QED BY <1>0, <1>3, <2>1, <2>3, <2>4 DEF SaysHow
<1> QED BY <1>1, <1>4, <1>5

(* No bytes decide nothing.                                                *)
LEMMA NothingWaits ==
    ASSUME NEW s \in Text, NEW e \in 0 .. Len(s), NEW json \in BOOLEAN
    PROVE  Decides(json, SubSeq(s, e + 1, e)) = Wait
<1>1. SubSeq(s, e + 1, e) = <<>>
  BY DEF Text
<1>2. <<>> \in Text /\ Len(<<>>) = 0 /\ 1 .. 0 = {}
  BY DEF Text
<1>3. JsonStep(<<>>) = Wait
  BY <1>2, JsonSteps
<1>4. CommasOf(<<>>) = {}
  BY <1>2, CommasBound
<1>5. TextStep(<<>>) = Wait
  BY <1>4 DEF TextStep
<1> QED BY <1>1, <1>3, <1>5 DEF Decides

(* Blanks decide nothing.                                                  *)
LEMMA BlanksWait ==
    ASSUME NEW t \in Text, WithoutLeading(t, Blanks) = <<>>, NEW json \in BOOLEAN
    PROVE  Decides(json, t) = Wait
<1>1. \A i \in 1 .. Len(t) : t[i] \in Blanks
  BY Leading, FirstKept
<1>2. "\n" \notin Blanks /\ Comma \notin Blanks
  BY DEF Blanks, Comma
<1>3. JsonStep(t) = Wait
  BY <1>1, <1>2, JsonSteps
<1>4. CommasOf(t) = {}
  BY <1>1, <1>2, CommasBound
<1>5. TextStep(t) = Wait
  BY <1>4 DEF TextStep
<1> QED BY <1>3, <1>5 DEF Decides

-----------------------------------------------------------------------------
(* Streams of reports with line ends between them                          *)

BytesOf(ps) == [i \in DOMAIN ps |-> Bytes(ps[i])]
ListsOf(ps) == [i \in DOMAIN ps |-> IF IsReport(ps[i]) THEN <<ps[i]>> ELSE <<>>]

(* Where in the stream the k-th piece ends, the reports up to there        *)
EndOf(ps, k) == Offsets(BytesOf(ps))[k]
ReportsTo(ps, k) == JoinedTo(ListsOf(ps), k)

Understandable(ps) ==
    \A i \in DOMAIN ps : /\ IsReport(ps[i]) \/ ToSet(Bytes(ps[i])) \subseteq LineBytes
                         /\ Len(Bytes(ps[i])) <= MAX_FRAME

OnlyLines(ps, a, b) == \A j \in a + 1 .. b : Sent(ps)[j] \in LineBytes

(* The places of a stream's pieces and reports                             *)
StreamPlaces(ps) ==
    /\ EndOf(ps, 0) = 0 /\ EndOf(ps, Len(ps)) = Len(Sent(ps))
    /\ \A k \in 0 .. Len(ps) : EndOf(ps, k) \in Nat /\ EndOf(ps, k) <= Len(Sent(ps))
    /\ \A k \in 0 .. Len(ps) : \A i \in 0 .. k : EndOf(ps, i) <= EndOf(ps, k)
    /\ \A i \in 1 .. Len(ps) :
          /\ EndOf(ps, i) = EndOf(ps, i - 1) + Len(Bytes(ps[i]))
          /\ \A d \in 1 .. Len(Bytes(ps[i])) : Sent(ps)[EndOf(ps, i - 1) + d] = Bytes(ps[i])[d]
    /\ \A j \in 1 .. Len(Sent(ps)) : \E i \in 1 .. Len(ps) : EndOf(ps, i - 1) < j /\ j <= EndOf(ps, i)
    /\ ReportsTo(ps, 0) = <<>> /\ ReportsTo(ps, Len(ps)) = ReportsOf(ps)
    /\ \A k \in 0 .. Len(ps) :
          /\ ReportsTo(ps, k) \in Seq(Pieces) /\ Len(ReportsTo(ps, k)) <= Len(ReportsOf(ps))
          /\ \A j \in 1 .. Len(ReportsTo(ps, k)) : ReportsOf(ps)[j] = ReportsTo(ps, k)[j]
    /\ \A i \in 1 .. Len(ps) :
          ReportsTo(ps, i) = ReportsTo(ps, i - 1) \o IF IsReport(ps[i]) THEN <<ps[i]>> ELSE <<>>
    /\ \A i \in 1 .. Len(ps) : ps[i] \in Pieces /\ Bytes(ps[i]) \in Text

LEMMA PlacesOfStream ==
    ASSUME NEW ps \in Streams
    PROVE  StreamPlaces(ps) /\ Len(ps) \in Nat /\ Sent(ps) \in Text
<1>1. ps \in Seq(Pieces) /\ (\A piece \in Pieces : Bytes(piece) \in Text) /\ Sent(ps) \in Text
  BY SentIsText
<1>2. PICK n : n = Len(ps)
  OBVIOUS
<1>3. n \in Nat /\ DOMAIN ps = 1 .. n /\ \A i \in 1 .. n : ps[i] \in Pieces /\ Bytes(ps[i]) \in Text
  BY <1>1, <1>2
<1>4. PICK q : q = BytesOf(ps)
  OBVIOUS
<1>5. q \in Seq(Seq(Symbols)) /\ Len(q) = n /\ FlattenSeq(q) = Sent(ps) /\ \A i \in 1 .. n : q[i] = Bytes(ps[i])
  <2>1. q = [i \in 1 .. n |-> Bytes(ps[i])]
    BY <1>3, <1>4 DEF BytesOf
  <2>2. \A i \in 1 .. n : q[i] \in Seq(Symbols)
    BY <1>3, <2>1 DEF Text
  <2>3. q \in Seq(Seq(Symbols)) /\ Len(q) = n
    BY <1>3, <2>1, <2>2
  <2> QED BY <1>4, <2>1, <2>3 DEF Sent, BytesOf
<1>6. PICK l : l = ListsOf(ps)
  OBVIOUS
<1>7. /\ l \in Seq(Seq(Pieces)) /\ Len(l) = n /\ FlattenSeq(l) = ReportsOf(ps)
      /\ \A i \in 1 .. n : l[i] = IF IsReport(ps[i]) THEN <<ps[i]>> ELSE <<>>
  <2>1. l = [i \in 1 .. n |-> IF IsReport(ps[i]) THEN <<ps[i]>> ELSE <<>>]
    BY <1>3, <1>6 DEF ListsOf
  <2>2. \A i \in 1 .. n : l[i] \in Seq(Pieces)
    BY <1>3, <2>1
  <2>3. l \in Seq(Seq(Pieces)) /\ Len(l) = n
    BY <1>3, <2>1, <2>2
  <2> QED BY <1>6, <2>1, <2>3 DEF ReportsOf, ListsOf
<1>8. PICK o : o = Offsets(q)
  OBVIOUS
<1>9. /\ o[0] = 0 /\ o[n] = Len(Sent(ps))
      /\ \A k \in 0 .. n : o[k] \in Nat
      /\ \A k \in 1 .. n : o[k] = o[k - 1] + Len(q[k])
      /\ \A k \in 0 .. n : \A i \in 0 .. k : o[i] <= o[k]
      /\ \A k \in 1 .. n : \A d \in 1 .. Len(q[k]) : Sent(ps)[o[k - 1] + d] = q[k][d]
      /\ \A j \in 1 .. Len(Sent(ps)) : \E k \in 1 .. n : o[k - 1] < j /\ j <= o[k]
  <2>1. Places(q, o)
    BY <1>5, <1>8, JoinedPlaces
  <2> QED BY <1>5, <2>1 DEF Places
<1>10. \A k : EndOf(ps, k) = o[k]
  BY <1>4, <1>8 DEF EndOf
<1>11. ASSUME NEW k \in 0 .. n
       PROVE  EndOf(ps, k) \in Nat /\ EndOf(ps, k) <= Len(Sent(ps))
  <2>1. n \in 0 .. n
    BY <1>3
  <2> QED BY <1>9, <1>10, <2>1
<1>12. ASSUME NEW i \in 1 .. n
       PROVE  /\ EndOf(ps, i) = EndOf(ps, i - 1) + Len(Bytes(ps[i]))
              /\ \A d \in 1 .. Len(Bytes(ps[i])) : Sent(ps)[EndOf(ps, i - 1) + d] = Bytes(ps[i])[d]
  <2>1. q[i] = Bytes(ps[i])
    BY <1>5
  <2>2. EndOf(ps, i) = o[i] /\ EndOf(ps, i - 1) = o[i - 1]
    BY <1>10
  <2>3. o[i] = o[i - 1] + Len(q[i])
    BY <1>9
  <2>4. \A d \in 1 .. Len(q[i]) : Sent(ps)[o[i - 1] + d] = q[i][d]
    BY <1>9
  <2> QED BY <2>1, <2>2, <2>3, <2>4
<1>13. \A k : ReportsTo(ps, k) = JoinedTo(l, k)
  BY <1>6 DEF ReportsTo
<1>14. /\ JoinedTo(l, 0) = <<>> /\ JoinedTo(l, n) = ReportsOf(ps)
       /\ \A k \in 0 .. n : JoinedTo(l, k) \in Seq(Pieces)
       /\ \A k \in 1 .. n : JoinedTo(l, k) = JoinedTo(l, k - 1) \o l[k]
  BY <1>7, JoinedStep
<1>15. ASSUME NEW k \in 0 .. n
       PROVE  /\ Len(ReportsTo(ps, k)) <= Len(ReportsOf(ps))
              /\ \A j \in 1 .. Len(ReportsTo(ps, k)) : ReportsOf(ps)[j] = ReportsTo(ps, k)[j]
  <2>1. PICK p : p = Offsets(l)
    OBVIOUS
  <2>2. \A m \in 0 .. n : p[m] = Len(JoinedTo(l, m))
    BY <1>7, <2>1 DEF Offsets
  <2>3. n \in 0 .. n /\ k \in 0 .. n
    BY <1>3
  <2>4. p[k] <= p[n] /\ \A j \in 1 .. p[k] : JoinedTo(l, n)[j] = JoinedTo(l, k)[j]
    <3>1. Places(l, p)
      BY <1>7, <2>1, JoinedPlaces
    <3> QED BY <1>7, <2>3, <3>1 DEF Places
  <2>5. p[n] = Len(ReportsOf(ps)) /\ p[k] = Len(ReportsTo(ps, k))
    BY <1>13, <1>14, <2>2, <2>3
  <2> QED BY <1>13, <1>14, <2>4, <2>5
<1>16. StreamPlaces(ps)
  <2>1. /\ EndOf(ps, 0) = 0 /\ EndOf(ps, n) = Len(Sent(ps))
        /\ \A k \in 0 .. n : \A i \in 0 .. k : EndOf(ps, i) <= EndOf(ps, k)
        /\ \A j \in 1 .. Len(Sent(ps)) : \E i \in 1 .. n : EndOf(ps, i - 1) < j /\ j <= EndOf(ps, i)
    BY <1>9, <1>10
  <2>2. /\ ReportsTo(ps, 0) = <<>> /\ ReportsTo(ps, n) = ReportsOf(ps)
        /\ \A k \in 0 .. n : ReportsTo(ps, k) \in Seq(Pieces)
        /\ \A i \in 1 .. n :
              ReportsTo(ps, i) = ReportsTo(ps, i - 1) \o IF IsReport(ps[i]) THEN <<ps[i]>> ELSE <<>>
    BY <1>7, <1>13, <1>14
  <2> QED BY <1>2, <1>3, <1>11, <1>12, <1>15, <2>1, <2>2 DEF StreamPlaces
<1> QED BY <1>1, <1>2, <1>3, <1>16

(* A report begins with a byte that is no line end.                        *)
LEMMA ReportBegins ==
    ASSUME NEW ps \in Streams, NEW i \in 1 .. Len(ps), IsReport(ps[i])
    PROVE  /\ ps[i] \in Sendable /\ Bytes(ps[i]) = Encode(ps[i]) /\ Len(Bytes(ps[i])) >= 1
           /\ EndOf(ps, i - 1) + 1 <= EndOf(ps, i)
           /\ Sent(ps)[EndOf(ps, i - 1) + 1] = Bytes(ps[i])[1]
           /\ Bytes(ps[i])[1] \notin LineBytes /\ Bytes(ps[i])[1] \notin Blanks /\ Bytes(ps[i])[1] # "{"
<1>1. ps[i] \in Sendable
  <2>1. ps[i] \in Pieces
    BY PlacesOfStream DEF StreamPlaces
  <2> QED BY <2>1 DEF Pieces, IsReport
<1>2. Bytes(ps[i]) = Encode(ps[i])
  BY DEF Bytes
<1>3. /\ Len(Bytes(ps[i])) >= 1
      /\ Bytes(ps[i])[1] \notin LineBytes /\ Bytes(ps[i])[1] \notin Blanks /\ Bytes(ps[i])[1] # "{"
  BY <1>1, <1>2, Encoded
<1>4. PICK n, a, b : n = Len(Bytes(ps[i])) /\ a = EndOf(ps, i - 1) /\ b = EndOf(ps, i)
  OBVIOUS
<1>5. n \in Nat /\ a \in Nat /\ b = a + n
  <2>1. i - 1 \in 0 .. Len(ps)
    BY PlacesOfStream
  <2> QED BY <1>4, <2>1, PlacesOfStream DEF StreamPlaces, Text
<1>6. 1 \in 1 .. n /\ a + 1 <= b
  <2>1. n >= 1
    BY <1>3, <1>4
  <2> QED BY <1>5, <2>1
<1>7. Sent(ps)[a + 1] = Bytes(ps[i])[1]
  BY <1>4, <1>6, PlacesOfStream DEF StreamPlaces
<1> QED BY <1>1, <1>2, <1>3, <1>4, <1>6, <1>7

(* Where only line ends are, there are no reports.                         *)
LEMMA NoReports ==
    ASSUME NEW ps \in Streams, NEW k \in 0 .. Len(ps), NEW m \in k .. Len(ps),
           OnlyLines(ps, EndOf(ps, k), EndOf(ps, m))
    PROVE  ReportsTo(ps, m) = ReportsTo(ps, k)
<1>0. PICK n : n = Len(ps)
  OBVIOUS
<1>1. StreamPlaces(ps) /\ n \in Nat
  BY <1>0, PlacesOfStream
<1>2. DEFINE T == {j \in k .. m : ReportsTo(ps, j) # ReportsTo(ps, k)}
<1>3. SUFFICES ASSUME T # {} PROVE FALSE
  <2>1. m \in k .. m
    BY <1>0, <1>1
  <2> QED BY <1>3, <2>1
<1>4. PICK j \in T : \A i \in T : j <= i
  <2>1. T \in SUBSET Nat
    BY <1>0, <1>1
  <2> QED BY <1>3, <2>1, LeastNumber
<1>5. j # k
  BY <1>4
<1>6. j \in 1 .. n /\ j - 1 \in k .. m /\ j - 1 \in 0 .. n /\ k \in 0 .. j - 1 /\ j \in 0 .. m /\ m \in 0 .. n
  BY <1>0, <1>1, <1>4, <1>5
<1>7. j - 1 \notin T
  <2>1. ~(j <= j - 1)
    BY <1>6
  <2> QED BY <1>4, <2>1
<1>8. ReportsTo(ps, j - 1) = ReportsTo(ps, k)
  BY <1>6, <1>7
<1>9. ~IsReport(ps[j])
  <2>1. ASSUME IsReport(ps[j]) PROVE FALSE
    <3>1. PICK a, b, c, d : a = EndOf(ps, k) /\ b = EndOf(ps, j - 1) /\ c = EndOf(ps, j) /\ d = EndOf(ps, m)
      OBVIOUS
    <3>2. a <= b /\ c <= d /\ a \in Nat /\ b \in Nat /\ c \in Nat /\ d \in Nat
      <4>1. /\ \A i \in 0 .. n : EndOf(ps, i) \in Nat
            /\ \A h \in 0 .. n : \A i \in 0 .. h : EndOf(ps, i) <= EndOf(ps, h)
        BY <1>0, <1>1 DEF StreamPlaces
      <4>2. k \in 0 .. n /\ j - 1 \in 0 .. n /\ j \in 0 .. n /\ m \in 0 .. n
        BY <1>0, <1>1, <1>6
      <4>3. a \in Nat /\ b \in Nat /\ c \in Nat /\ d \in Nat
        BY <3>1, <4>1, <4>2
      <4>4. EndOf(ps, k) <= EndOf(ps, j - 1) /\ EndOf(ps, j) <= EndOf(ps, m)
        BY <1>6, <4>1
      <4> QED BY <3>1, <4>3, <4>4
    <3>3. b + 1 <= c /\ Sent(ps)[b + 1] \notin LineBytes
      BY <1>0, <1>6, <2>1, <3>1, ReportBegins
    <3>4. b + 1 \in a + 1 .. d
      BY <3>2, <3>3
    <3> QED BY <3>1, <3>3, <3>4 DEF OnlyLines
  <2> QED BY <2>1
<1>10. ReportsTo(ps, j) = ReportsTo(ps, j - 1) \o <<>>
  BY <1>0, <1>1, <1>6, <1>9 DEF StreamPlaces
<1>11. ReportsTo(ps, j) = ReportsTo(ps, j - 1)
  <2>1. ReportsTo(ps, j - 1) \in Seq(Pieces)
    BY <1>0, <1>1, <1>6 DEF StreamPlaces
  <2> QED BY <1>10, <2>1, ConcatEmptySeq
<1> QED BY <1>4, <1>8, <1>11

(* The first byte behind the k-th piece that is no line end begins a report*)
NextReport(ps, k, q, i) ==
    /\ i \in 1 .. Len(ps) /\ IsReport(ps[i]) /\ q = EndOf(ps, i - 1)
    /\ ReportsTo(ps, i - 1) = ReportsTo(ps, k)

LEMMA ReportNext ==
    ASSUME NEW ps \in Streams, Understandable(ps), NEW k \in 0 .. Len(ps), NEW q \in Nat,
           EndOf(ps, k) <= q, OnlyLines(ps, EndOf(ps, k), q), q < Len(Sent(ps)), Sent(ps)[q + 1] \notin LineBytes
    PROVE  \E i \in 1 .. Len(ps) : NextReport(ps, k, q, i)
<1>0. PICK n, s : n = Len(ps) /\ s = Sent(ps)
  OBVIOUS
<1>1. StreamPlaces(ps) /\ n \in Nat /\ s \in Text /\ Len(s) \in Nat
  BY <1>0, PlacesOfStream DEF Text
<1>2. q + 1 \in 1 .. Len(s)
  BY <1>0, <1>1
<1>3. PICK i \in 1 .. n : EndOf(ps, i - 1) < q + 1 /\ q + 1 <= EndOf(ps, i)
  BY <1>0, <1>1, <1>2 DEF StreamPlaces
<1>4. PICK a, b, c, l : a = EndOf(ps, k) /\ b = EndOf(ps, i - 1) /\ c = EndOf(ps, i) /\ l = Len(Bytes(ps[i]))
  OBVIOUS
<1>5. i - 1 \in 0 .. n /\ i \in 0 .. n /\ i \in Nat
  BY <1>1
<1>6. a \in Nat /\ b \in Nat /\ c \in Nat /\ c = b + l /\ l \in Nat /\ b < q + 1 /\ q + 1 <= c /\ a <= q
  <2>1. Bytes(ps[i]) \in Text
    BY <1>0, <1>1 DEF StreamPlaces
  <2>2. l \in Nat
    BY <1>4, <2>1 DEF Text
  <2> QED BY <1>0, <1>1, <1>3, <1>4, <1>5, <2>2 DEF StreamPlaces
<1>7. IsReport(ps[i])
  <2>1. ASSUME ToSet(Bytes(ps[i])) \subseteq LineBytes PROVE FALSE
    <3>1. PICK d : d = q + 1 - b
      OBVIOUS
    <3>2. d \in 1 .. l /\ b + d = q + 1
      BY <1>6, <3>1
    <3>3. s[q + 1] = Bytes(ps[i])[d]
      BY <1>0, <1>1, <1>4, <3>2 DEF StreamPlaces
    <3>4. DOMAIN Bytes(ps[i]) = 1 .. l
      <4>1. Bytes(ps[i]) \in Text
        BY <1>0, <1>1 DEF StreamPlaces
      <4> QED BY <1>4, <4>1 DEF Text
    <3>5. Bytes(ps[i])[d] \in LineBytes
      BY <2>1, <3>2, <3>4 DEF ToSet
    <3> QED BY <1>0, <3>3, <3>5
  <2>2. i \in DOMAIN ps
    BY <1>0, SentIsText
  <2> QED BY <2>1, <2>2 DEF Understandable
<1>8. s[b + 1] \notin LineBytes
  BY <1>0, <1>4, <1>7, ReportBegins
<1>9. k <= i - 1
  <2>1. ASSUME k > i - 1 PROVE FALSE
    <3>1. i \in 0 .. k
      BY <1>5, <2>1
    <3>2. c <= a
      BY <1>0, <1>1, <1>4, <3>1 DEF StreamPlaces
    <3> QED BY <1>6, <3>2
  <2> QED BY <1>1, <1>5, <2>1
<1>10. a <= b
  <2>1. k \in 0 .. i - 1
    BY <1>5, <1>9
  <2> QED BY <1>0, <1>1, <1>4, <1>5, <2>1 DEF StreamPlaces
<1>11. b = q
  <2>1. ASSUME b < q PROVE FALSE
    <3>1. b + 1 \in a + 1 .. q
      BY <1>6, <1>10, <2>1
    <3> QED BY <1>0, <1>4, <1>8, <3>1 DEF OnlyLines
  <2> QED BY <1>6, <2>1
<1>12. ReportsTo(ps, i - 1) = ReportsTo(ps, k)
  <2>1. i - 1 \in k .. n
    BY <1>5, <1>9
  <2> QED BY <1>0, <1>4, <1>11, <2>1, NoReports
<1> QED BY <1>0, <1>4, <1>7, <1>11, <1>12 DEF NextReport

(* Such a stream is no JSON.                                               *)
LEMMA UnderstandableIsText ==
    ASSUME NEW ps \in Streams, Understandable(ps)
    PROVE  Json(Sent(ps)) = FALSE
<1>1. PICK s : s = Sent(ps)
  OBVIOUS
<1>2. StreamPlaces(ps) /\ s \in Text /\ Len(s) \in Nat /\ Len(ps) \in Nat
  BY <1>1, PlacesOfStream DEF Text
<1>3. CASE WithoutLeading(s, LineBytes) = <<>>
  <2>1. <<>> \in Text /\ Len(<<>>) = 0 /\ 1 .. 0 = {}
    BY DEF Text
  <2>2. WithoutLeading(<<>>, Blanks) = <<>>
    BY <2>1, Leading
  <2> QED BY <1>1, <1>3, <2>2 DEF Json
<1>4. CASE WithoutLeading(s, LineBytes) # <<>>
  <2>1. PICK k \in 1 .. Len(s) : s[k] \notin LineBytes /\ \A i \in 1 .. k - 1 : s[i] \in LineBytes
    BY <1>2, <1>4, Leading
  <2>2. PICK q : q = k - 1
    OBVIOUS
  <2>3. q \in Nat /\ q + 1 = k /\ q < Len(s) /\ q \in 0 .. Len(s) /\ Len(s) \in q + 1 .. Len(s) /\ 0 <= q /\ 0 + 1 = 1
    BY <1>2, <2>2
  <2>4. EndOf(ps, 0) = 0 /\ 0 \in 0 .. Len(ps)
    BY <1>2 DEF StreamPlaces
  <2>5. OnlyLines(ps, 0, q)
    BY <1>1, <2>1, <2>2, <2>3 DEF OnlyLines
  <2>6. PICK i \in 1 .. Len(ps) : NextReport(ps, 0, q, i)
    BY <1>1, <2>1, <2>3, <2>4, <2>5, ReportNext
  <2>7. s[q + 1] \notin Blanks /\ s[q + 1] # "{"
    BY <1>1, <2>6, ReportBegins DEF NextReport
  <2>8. PICK u : u = SubSeq(s, q + 1, Len(s))
    OBVIOUS
  <2>9. u \in Text /\ 1 \in 1 .. Len(u) /\ u[1] = s[q + 1]
    <3>1. PICK a, b : a = q + 1 /\ b = Len(s)
      OBVIOUS
    <3>2. a \in Nat /\ b \in Nat /\ 1 <= a /\ a <= b + 1 /\ b <= Len(s) /\ 1 \in 1 .. b - a + 1 /\ a + 1 - 1 = a
      BY <1>2, <2>3, <3>1
    <3>3. SubSeq(s, a, b) \in Seq(Symbols) /\ Len(SubSeq(s, a, b)) = b - a + 1 /\ \A j \in 1 .. b - a + 1 : SubSeq(s, a, b)[j] = s[a + j - 1]
      BY <1>2, <3>2, Part DEF Text
    <3> QED BY <2>8, <3>1, <3>2, <3>3 DEF Text
  <2>10. WithoutLeading(u, Blanks) # <<>> /\ Head(WithoutLeading(u, Blanks)) = s[q + 1]
    <3>1. 1 .. 1 - 1 = {}
      OBVIOUS
    <3> QED BY <2>7, <2>9, <3>1, FirstKept
  <2>11. WithoutLeading(s, LineBytes) = u
    BY <1>2, <2>1, <2>3, <2>8, FirstKept
  <2> QED BY <1>1, <2>7, <2>10, <2>11 DEF Json
<1> QED BY <1>3, <1>4

(* What pop decides where a report begins of which some bytes have come    *)
ReportDecides(ps, i, q, e, t) ==
    /\ EndOf(ps, i) = q + Len(Bytes(ps[i])) /\ EndOf(ps, i) <= Len(Sent(ps))
    /\ Decides(FALSE, t).kind \notin {"FORMAT", "LIMIT"}
    /\ \A n \in 1 .. Len(t) : Decides(FALSE, t) = Frame(n) =>
          n = Len(Bytes(ps[i])) /\ Decode(SubSeq(t, 1, n)) = ps[i]
    /\ Decides(FALSE, t) = Wait => e < EndOf(ps, i) /\ e - q <= MAX_FRAME

LEMMA FramesDiffer ==
    \A m : /\ Frame(m).kind \notin {"FORMAT", "LIMIT"} /\ Frame(m) # Wait
           /\ \A n : Frame(n) = Frame(m) => n = m
<1> SUFFICES ASSUME NEW m
             PROVE  /\ Frame(m).kind \notin {"FORMAT", "LIMIT"} /\ Frame(m) # Wait
                    /\ \A n : Frame(n) = Frame(m) => n = m
  OBVIOUS
<1>1. Frame(m).kind = "frame" /\ Wait.kind = "wait" /\ \A n : Frame(n).length = n
  BY DEF Frame, Wait
<1> QED BY <1>1

LEMMA ReportDecided ==
    ASSUME NEW ps \in Streams, Understandable(ps), NEW k \in 0 .. Len(ps), NEW q \in 0 .. Len(Sent(ps)),
           NEW i \in 1 .. Len(ps), NextReport(ps, k, q, i), NEW e \in q .. Len(Sent(ps))
    PROVE  ReportDecides(ps, i, q, e, SubSeq(Sent(ps), q + 1, e))
<1>1. PICK s, b, l, m : s = Sent(ps) /\ b = Bytes(ps[i]) /\ l = Len(b) /\ m = Len(s)
  OBVIOUS
<1>2. StreamPlaces(ps) /\ s \in Text /\ m \in Nat /\ Len(ps) \in Nat /\ b \in Text /\ l \in Nat
  <2>1. StreamPlaces(ps) /\ s \in Text /\ Len(ps) \in Nat
    BY <1>1, PlacesOfStream
  <2>2. b \in Text
    BY <1>1, <2>1 DEF StreamPlaces
  <2> QED BY <1>1, <2>1, <2>2 DEF Text
<1>3. IsReport(ps[i]) /\ q = EndOf(ps, i - 1)
  BY DEF NextReport
<1>4. ps[i] \in Sendable /\ b = Encode(ps[i]) /\ l >= 1
  BY <1>1, <1>3, ReportBegins
<1>5. l <= MAX_FRAME
  <2>1. i \in DOMAIN ps
    BY SentIsText
  <2> QED BY <1>1, <2>1 DEF Understandable
<1>6. IsText(b) /\ Decode(b) = ps[i]
  BY <1>1, <1>4, <1>5, Encoded
<1>7. q + l = EndOf(ps, i) /\ q + l <= m /\ \A d \in 1 .. l : s[q + d] = b[d]
  <2>1. i \in 0 .. Len(ps)
    BY <1>2
  <2> QED BY <1>1, <1>2, <1>3, <2>1 DEF StreamPlaces
<1>8. q \in Nat /\ e \in Nat /\ q <= e /\ e <= m
  BY <1>1, <1>2
<1>9. PICK t, u : t = SubSeq(s, q + 1, e) /\ u = SubSeq(s, q + 1, m)
  OBVIOUS
<1>10. u \in Text /\ Len(u) = m - q /\ \A d \in 1 .. m - q : u[d] = s[q + d]
  <2>1. /\ q + 1 \in Nat /\ 1 <= q + 1 /\ q + 1 <= m + 1 /\ m - (q + 1) + 1 = m - q /\ m <= m
        /\ \A d \in 1 .. m - q : q + 1 + d - 1 = q + d
    BY <1>2, <1>8
  <2>2. /\ SubSeq(s, q + 1, m) \in Seq(Symbols) /\ Len(SubSeq(s, q + 1, m)) = m - (q + 1) + 1
        /\ \A d \in 1 .. m - (q + 1) + 1 : SubSeq(s, q + 1, m)[d] = s[q + 1 + d - 1]
    BY <1>1, <1>2, <2>1, Part DEF Text
  <2> QED BY <1>9, <2>1, <2>2 DEF Text
<1>11. ASSUME NEW x \in Nat, x <= m - q, NEW j \in Nat, j <= x PROVE SubSeq(SubSeq(u, 1, x), 1, j) = SubSeq(u, 1, j)
  <2>1. 1 \in Nat /\ 1 <= 1 /\ 1 <= x + 1 /\ x <= Len(u) /\ 1 <= j + 1 /\ j <= x - 1 + 1 /\ 1 + 1 - 1 = 1 /\ 1 + j - 1 = j
    BY <1>10, <1>11
  <2>2. SubSeq(SubSeq(u, 1, x), 1, j) = SubSeq(u, 1 + 1 - 1, 1 + j - 1)
    BY <1>10, <2>1, PartOfPart DEF Text
  <2> QED BY <2>1, <2>2
<1>12. t = SubSeq(u, 1, e - q) /\ e - q \in Nat /\ e - q <= m - q
  <2>1. /\ q + 1 \in Nat /\ 1 <= q + 1 /\ q + 1 <= m + 1 /\ 1 \in Nat /\ 1 <= 1 /\ e - q \in Nat /\ 1 <= e - q + 1
        /\ e - q <= m - (q + 1) + 1 /\ q + 1 + 1 - 1 = q + 1 /\ q + 1 + (e - q) - 1 = e /\ m <= m
        /\ e - q <= m - q
    BY <1>2, <1>8
  <2>2. SubSeq(SubSeq(s, q + 1, m), 1, e - q) = SubSeq(s, q + 1 + 1 - 1, q + 1 + (e - q) - 1)
    BY <1>1, <1>2, <2>1, PartOfPart DEF Text
  <2> QED BY <1>9, <2>1, <2>2
<1>13. t \in Text /\ Len(t) = e - q
  <2>1. e - q \in 0 .. Len(u)
    BY <1>10, <1>12
  <2> QED BY <1>10, <1>12, <2>1, CommasOfPart
<1>14. SubSeq(u, 1, l) = b
  <2>1. 1 \in Nat /\ 1 <= 1 /\ 1 <= l + 1 /\ l <= Len(u) /\ l - 1 + 1 = l /\ \A d \in 1 .. l : 1 + d - 1 = d /\ d \in 1 .. m - q
    BY <1>2, <1>7, <1>8, <1>10
  <2>2. /\ SubSeq(u, 1, l) \in Seq(Symbols) /\ Len(SubSeq(u, 1, l)) = l - 1 + 1
        /\ \A d \in 1 .. l - 1 + 1 : SubSeq(u, 1, l)[d] = u[1 + d - 1]
    BY <1>2, <1>10, <2>1, Part DEF Text
  <2>3. \A d \in 1 .. l : SubSeq(u, 1, l)[d] = b[d]
    BY <1>7, <1>10, <2>1, <2>2
  <2>4. b \in Seq(Symbols) /\ Len(b) = l /\ SubSeq(u, 1, l) \in Seq(Symbols) /\ Len(SubSeq(u, 1, l)) = l
    BY <1>1, <1>2, <2>1, <2>2 DEF Text
  <2> QED BY <2>3, <2>4, SeqEqual
<1>15. Decides(FALSE, u) = Frame(l)
  <2>1. l \in 1 .. Len(u)
    BY <1>2, <1>4, <1>7, <1>8, <1>10
  <2>2. Whole(FALSE, SubSeq(u, 1, l))
    BY <1>6, <1>14 DEF Whole
  <2> QED BY <1>10, <2>1, <2>2, Decided
<1>16. Decides(FALSE, t).kind \notin {"FORMAT", "LIMIT"}
  <2>1. e - q \in 0 .. Len(u)
    BY <1>10, <1>12
  <2>2. Decides(FALSE, SubSeq(u, 1, e - q)).kind \in {"FORMAT", "LIMIT"} => Decides(FALSE, u) = Decides(FALSE, t)
    BY <1>10, <1>12, <2>1, Decided
  <2>3. Frame(l).kind \notin {"FORMAT", "LIMIT"}
    BY FramesDiffer
  <2> QED BY <1>12, <1>15, <2>2, <2>3
<1>17. ASSUME NEW n \in 1 .. Len(t), Decides(FALSE, t) = Frame(n) PROVE n = l /\ Decode(SubSeq(t, 1, n)) = ps[i]
  <2>1. n \in Nat /\ n <= e - q /\ n \in 1 .. Len(u)
    BY <1>10, <1>12, <1>13
  <2>2. SubSeq(t, 1, n) = SubSeq(u, 1, n)
    BY <1>11, <1>12, <2>1
  <2>3. Whole(FALSE, SubSeq(t, 1, n))
    BY <1>13, <1>17, Decided
  <2>4. Decides(FALSE, u) = Frame(n)
    BY <1>10, <2>1, <2>2, <2>3, Decided
  <2>5. n = l
    BY <1>15, <2>4, FramesDiffer
  <2> QED BY <1>6, <1>14, <2>2, <2>5
<1>18. ASSUME Decides(FALSE, t) = Wait PROVE e < q + l /\ e - q <= MAX_FRAME
  <2>1. ASSUME l <= e - q PROVE FALSE
    <3>1. SubSeq(t, 1, l) = b /\ l \in 1 .. Len(t)
      BY <1>2, <1>4, <1>11, <1>12, <1>13, <1>14, <2>1
    <3>2. Decides(FALSE, t) = Frame(l)
      BY <1>6, <1>13, <3>1, Decided DEF Whole
    <3> QED BY <1>18, <3>2, FramesDiffer
  <2> QED BY <1>2, <1>5, <1>8, <1>12, <2>1, FramingConstants
<1> QED BY <1>1, <1>7, <1>9, <1>16, <1>17, <1>18 DEF ReportDecides

(* The reports handed over are those of the pieces before the p-th byte,   *)
(* behind the last of which only line ends stand.                          *)
Understood(ps, fs, p) ==
    \E k \in 0 .. Len(ps) :
        /\ EndOf(ps, k) <= p /\ OnlyLines(ps, EndOf(ps, k), p)
        /\ [i \in DOMAIN fs |-> Decode(fs[i])] = ReportsTo(ps, k)

Sound(ps, fs, p) == Understandable(ps) => Understood(ps, fs, p)

LEMMA SoundAtFirst == \A ps \in Streams : Sound(ps, <<>>, 0)
<1> SUFFICES ASSUME NEW ps \in Streams PROVE Understood(ps, <<>>, 0)
  BY DEF Sound
<1>1. 0 \in 0 .. Len(ps) /\ EndOf(ps, 0) = 0 /\ ReportsTo(ps, 0) = <<>>
  BY PlacesOfStream DEF StreamPlaces
<1>2. OnlyLines(ps, 0, 0)
  BY DEF OnlyLines
<1>3. [i \in DOMAIN <<>> |-> Decode(<<>>[i])] = <<>>
  OBVIOUS
<1> QED BY <1>1, <1>2, <1>3 DEF Understood

LEMMA SoundBehindLines ==
    ASSUME NEW ps \in Streams, NEW fs, NEW p \in Nat, NEW q \in Nat, p <= q, OnlyLines(ps, p, q), Sound(ps, fs, p)
    PROVE  Sound(ps, fs, q)
<1> SUFFICES ASSUME Understandable(ps) PROVE Understood(ps, fs, q)
  BY DEF Sound
<1>1. PICK k \in 0 .. Len(ps) :
        /\ EndOf(ps, k) <= p /\ OnlyLines(ps, EndOf(ps, k), p)
        /\ [i \in DOMAIN fs |-> Decode(fs[i])] = ReportsTo(ps, k)
  BY DEF Sound, Understood
<1>2. PICK a : a = EndOf(ps, k)
  OBVIOUS
<1>3. a \in Nat /\ a <= p
  BY <1>1, <1>2, PlacesOfStream DEF StreamPlaces
<1>4. a <= q /\ \A j \in a + 1 .. q : j \in a + 1 .. p \/ j \in p + 1 .. q
  BY <1>3
<1>5. OnlyLines(ps, a, q)
  BY <1>1, <1>2, <1>4 DEF OnlyLines
<1> QED BY <1>1, <1>2, <1>4, <1>5 DEF Understood

(* There the next report begins, and those before it were handed over.     *)
ReportAt(ps, fs, i, q, e) ==
    /\ ReportDecides(ps, i, q, e, SubSeq(Sent(ps), q + 1, e)) /\ IsReport(ps[i])
    /\ [j \in DOMAIN fs |-> Decode(fs[j])] = ReportsTo(ps, i - 1)

LEMMA Report ==
    ASSUME NEW ps \in Streams, Understandable(ps), NEW q \in 0 .. Len(Sent(ps)), NEW e \in q .. Len(Sent(ps)),
           q < e, Sent(ps)[q + 1] \notin LineBytes, NEW fs, Understood(ps, fs, q)
    PROVE  \E i \in 1 .. Len(ps) : ReportAt(ps, fs, i, q, e)
<1>1. PICK k \in 0 .. Len(ps) :
        /\ EndOf(ps, k) <= q /\ OnlyLines(ps, EndOf(ps, k), q)
        /\ [i \in DOMAIN fs |-> Decode(fs[i])] = ReportsTo(ps, k)
  BY DEF Understood
<1>2. q \in Nat /\ q < Len(Sent(ps))
  BY PlacesOfStream DEF Text
<1>3. PICK i \in 1 .. Len(ps) : NextReport(ps, k, q, i)
  BY <1>1, <1>2, ReportNext
<1>4. ReportDecides(ps, i, q, e, SubSeq(Sent(ps), q + 1, e))
  BY <1>3, ReportDecided
<1>5. ReportAt(ps, fs, i, q, e)
  BY <1>1, <1>3, <1>4 DEF NextReport, ReportAt
<1> QED BY <1>5

LEMMA SoundBehindFrame ==
    ASSUME NEW ps \in Streams, NEW q \in 0 .. Len(Sent(ps)), NEW e \in q .. Len(Sent(ps)), NEW fs \in Seq(Text),
           Sent(ps)[q + 1] \notin LineBytes, Sound(ps, fs, q),
           NEW t \in Text, t = SubSeq(Sent(ps), q + 1, e), Len(t) = e - q,
           NEW n \in 1 .. Len(t), Decides(FALSE, t) = Frame(n), SubSeq(t, 1, n) \in Text
    PROVE  Sound(ps, Append(fs, SubSeq(t, 1, n)), q + n)
<1> SUFFICES ASSUME Understandable(ps) PROVE Understood(ps, Append(fs, SubSeq(t, 1, n)), q + n)
  BY DEF Sound
<1>1. Len(Sent(ps)) \in Nat /\ q \in Nat /\ e \in Nat /\ q < e /\ n \in Nat
  BY PlacesOfStream DEF Text
<1>2. PICK i \in 1 .. Len(ps) :
        /\ ReportDecides(ps, i, q, e, t) /\ IsReport(ps[i])
        /\ [j \in DOMAIN fs |-> Decode(fs[j])] = ReportsTo(ps, i - 1)
  <2>1. Understood(ps, fs, q)
    BY DEF Sound
  <2>2. PICK i \in 1 .. Len(ps) : ReportAt(ps, fs, i, q, e)
    BY <1>1, <2>1, Report
  <2> QED BY <2>2 DEF ReportAt
<1>3. EndOf(ps, i) = q + n /\ Decode(SubSeq(t, 1, n)) = ps[i]
  BY <1>2 DEF ReportDecides
<1>4. PICK g, r, x, z : /\ g = Append(fs, SubSeq(t, 1, n)) /\ r = ReportsTo(ps, i - 1) /\ x = ps[i]
                        /\ z = r \o <<x>>
  OBVIOUS
<1>5. ReportsTo(ps, i) = z /\ r \in Seq(Pieces) /\ x \in Pieces /\ i \in 0 .. Len(ps)
  <2>1. i - 1 \in 0 .. Len(ps) /\ i \in 0 .. Len(ps)
    BY PlacesOfStream
  <2>2. StreamPlaces(ps)
    BY PlacesOfStream
  <2>3. r \in Seq(Pieces) /\ x \in Pieces
    BY <1>4, <2>1, <2>2 DEF StreamPlaces
  <2>4. ReportsTo(ps, i) = ReportsTo(ps, i - 1) \o <<ps[i]>>
    BY <1>2, <2>2 DEF StreamPlaces
  <2> QED BY <1>4, <2>1, <2>3, <2>4
<1>6. [j \in DOMAIN g |-> Decode(g[j])] = z
  <2>1. PICK m : m = Len(fs)
    OBVIOUS
  <2>2. m \in Nat /\ DOMAIN fs = 1 .. m /\ DOMAIN r = 1 .. m
    <3>1. DOMAIN r = DOMAIN fs
      BY <1>2, <1>4
    <3> QED BY <2>1, <3>1
  <2>3. Len(r) = m
    BY <1>5, <2>2
  <2>4. DOMAIN g = 1 .. m + 1 /\ g[m + 1] = SubSeq(t, 1, n) /\ \A j \in 1 .. m : g[j] = fs[j]
    <3>1. PICK y \in Text : y = SubSeq(t, 1, n)
      OBVIOUS
    <3>2. g = Append(fs, y)
      BY <1>4, <3>1
    <3>3. Len(g) = m + 1 /\ g \in Seq(Text) /\ g[m + 1] = y /\ \A j \in 1 .. m : g[j] = fs[j]
      BY <2>1, <3>2, AppendProperties
    <3>4. DOMAIN g = 1 .. m + 1
      BY <3>3
    <3> QED BY <3>1, <3>3, <3>4
  <2>5. z \in Seq(Pieces) /\ Len(z) = m + 1 /\ z[m + 1] = x /\ \A j \in 1 .. m : z[j] = r[j]
    <3>1. z = Append(r, x)
      BY <1>4, <1>5, AppendIsConcat
    <3> QED BY <1>5, <2>3, <3>1
  <2>6. DOMAIN z = 1 .. m + 1 /\ z = [j \in 1 .. m + 1 |-> z[j]]
    BY <2>2, <2>5
  <2>7. ASSUME NEW j \in 1 .. m + 1 PROVE Decode(g[j]) = z[j]
    <3>1. CASE j \in 1 .. m
      <4>1. Decode(fs[j]) = r[j]
        BY <1>2, <1>4, <2>2, <3>1
      <4> QED BY <2>4, <2>5, <3>1, <4>1
    <3>2. CASE j = m + 1
      BY <1>3, <1>4, <2>4, <2>5, <3>2
    <3> QED BY <2>2, <3>1, <3>2
  <2> QED BY <2>4, <2>6, <2>7
<1>7. OnlyLines(ps, EndOf(ps, i), q + n)
  BY <1>1, <1>3 DEF OnlyLines
<1>8. EndOf(ps, i) <= q + n
  BY <1>1, <1>3
<1> QED BY <1>4, <1>5, <1>6, <1>7, <1>8 DEF Understood

LEMMA AllUnderstood ==
    ASSUME NEW ps \in Streams, NEW fs \in Seq(Text), NEW p, Understood(ps, fs, p)
    PROVE  /\ IsPrefix([i \in DOMAIN fs |-> Decode(fs[i])], ReportsOf(ps))
           /\ p = Len(Sent(ps)) => [i \in DOMAIN fs |-> Decode(fs[i])] = ReportsOf(ps)
           /\ Len(fs) <= Len(ReportsOf(ps)) /\ Len(ReportsOf(ps)) \in Nat
<1>1. PICK k \in 0 .. Len(ps) :
        /\ EndOf(ps, k) <= p /\ OnlyLines(ps, EndOf(ps, k), p)
        /\ [i \in DOMAIN fs |-> Decode(fs[i])] = ReportsTo(ps, k)
  BY DEF Understood
<1>2. PICK r, z : r = ReportsTo(ps, k) /\ z = ReportsOf(ps)
  OBVIOUS
<1>3. StreamPlaces(ps) /\ Len(ps) \in Nat
  BY PlacesOfStream
<1>4. Len(ps) \in k .. Len(ps) /\ Len(ps) \in 0 .. Len(ps)
  BY <1>3
<1>5. r \in Seq(Pieces) /\ z \in Seq(Pieces) /\ Len(r) <= Len(z) /\ \A j \in 1 .. Len(r) : z[j] = r[j]
  BY <1>2, <1>3, <1>4 DEF StreamPlaces
<1>6. IsPrefix(r, z)
  <2>1. PICK n : n = Len(r)
    OBVIOUS
  <2>2. n \in Nat /\ n <= Len(z) /\ 1 \in Nat /\ 1 <= 1 /\ 1 <= n + 1 /\ n - 1 + 1 = n /\ \A j \in 1 .. n : 1 + j - 1 = j
    BY <1>5, <2>1
  <2>3. /\ SubSeq(z, 1, n) \in Seq(Pieces) /\ Len(SubSeq(z, 1, n)) = n - 1 + 1
        /\ \A j \in 1 .. n - 1 + 1 : SubSeq(z, 1, n)[j] = z[1 + j - 1]
    BY <1>5, <2>2, Part
  <2>4. \A j \in 1 .. n : SubSeq(z, 1, n)[j] = r[j]
    BY <1>5, <2>1, <2>2, <2>3
  <2>5. SubSeq(z, 1, n) = r
    BY <1>5, <2>1, <2>2, <2>3, <2>4, SeqEqual
  <2>6. SubSeq(r, 1, n) = r
    BY <1>5, <2>1, SubSeqFull
  <2> QED BY <1>5, <2>1, <2>5, <2>6 DEF IsPrefix
<1>7. ASSUME p = Len(Sent(ps)) PROVE r = z
  <2>1. EndOf(ps, Len(ps)) = p /\ ReportsTo(ps, Len(ps)) = z
    BY <1>2, <1>3, <1>7 DEF StreamPlaces
  <2> QED BY <1>1, <1>2, <1>4, <2>1, NoReports
<1>8. Len(fs) <= Len(z) /\ Len(z) \in Nat
  <2>1. r = [i \in 1 .. Len(fs) |-> Decode(fs[i])] /\ Len(fs) \in Nat
    BY <1>1, <1>2
  <2>2. Len(r) = Len(fs)
    BY <2>1
  <2> QED BY <1>5, <2>2
<1> QED BY <1>1, <1>2, <1>6, <1>7, <1>8

-----------------------------------------------------------------------------
(* The invariant                                                           *)

(* The frames handed over are those of the stream up to its p-th byte.     *)
Reached(s, p) == Cut(s) = frames \o CutFrom(s, Json(s))[p + 1]

(* The buffer holds the bytes from p + 1 to e of the stream; while there   *)
(* is no mode these follow line ends only.                                 *)
Placed(s, p, e) ==
    /\ buffer = SubSeq(s, p + 1, e) /\ wire = SubSeq(s, e + 1, Len(s))
    /\ Sound(pieces, frames, p)
    /\ mode = "unknown" => frames = <<>> /\ \A i \in 1 .. p : s[i] \in LineBytes
    /\ mode # "unknown" =>
          /\ (mode = "json") = Json(s) /\ Reached(s, p)
          /\ Json(s) => p > 0 \/ s[1] \notin LineBytes
    /\ loop = "recv" =>
          /\ Decides(Json(s), buffer) = Wait
          /\ p < e => p + 1 \in Begins(s, Json(s), p + 1) /\ Reached(s, p)

FramingInv ==
    /\ pieces \in Streams /\ frames \in Seq(Text) /\ errors \in Nat
    /\ mode \in {"unknown", "json", "text"} /\ loop \in {"recv", "pop"}
    /\ ended \in {"no", "FORMAT", "LIMIT", "RATE", "ERRORS", "PARTIAL", "CLOSED"}
    /\ ended \notin {"FORMAT", "LIMIT"} =>
          \E p \in 0 .. Len(Sent(pieces)) : \E e \in p .. Len(Sent(pieces)) : Placed(Sent(pieces), p, e)
    /\ ended \in {"FORMAT", "LIMIT"} => frames = Cut(Sent(pieces)) /\ ~Understandable(pieces)
    /\ ended = "RATE" => Len(frames) > MAX_RATE
    /\ ended = "PARTIAL" => loop = "recv" /\ buffer # <<>>
    /\ Waiting => Len(buffer) <= MAX_FRAME

(* What pop decides about the bytes from q + 1 to e of the stream          *)
Deciding(s, q, e) ==
    /\ Trimmed = SubSeq(s, q + 1, e) /\ wire = SubSeq(s, e + 1, Len(s))
    /\ Sound(pieces, frames, q)
    /\ Step(Trimmed) = Decides(Json(s), Trimmed)
    /\ ModeOf(Trimmed) \in {"unknown", "json", "text"}
    /\ ModeOf(Trimmed) = "unknown" =>
          Step(Trimmed) = Wait /\ frames = <<>> /\ \A i \in 1 .. q : s[i] \in LineBytes
    /\ ModeOf(Trimmed) # "unknown" =>
          /\ (ModeOf(Trimmed) = "json") = Json(s) /\ Reached(s, q)
          /\ Json(s) => q > 0 \/ s[1] \notin LineBytes
    /\ q < e => q + 1 \in Begins(s, Json(s), q + 1) /\ Reached(s, q)

LEMMA PopDecides ==
    ASSUME NEW s \in Text, NEW p \in 0 .. Len(s), NEW e \in p .. Len(s), Placed(s, p, e),
           pieces \in Streams, s = Sent(pieces), frames \in Seq(Text), mode \in {"unknown", "json", "text"}
    PROVE  \E q \in 0 .. Len(s) : e \in q .. Len(s) /\ Deciding(s, q, e)
<1>1. Len(s) \in Nat /\ p \in Nat /\ e \in Nat /\ p <= e /\ e <= Len(s)
  BY DEF Text
<1>2. Json(s) \in BOOLEAN
  BY DEF Json
<1>2a. \A q \in p .. e : (\A i \in p + 1 .. q : s[i] \in LineBytes) => Sound(pieces, frames, q)
  <2>1. ASSUME NEW q \in p .. e, \A i \in p + 1 .. q : s[i] \in LineBytes PROVE Sound(pieces, frames, q)
    <3>1. OnlyLines(pieces, p, q) /\ q \in Nat /\ p <= q
      BY <1>1, <2>1 DEF OnlyLines
    <3>2. Sound(pieces, frames, p)
      BY DEF Placed
    <3> QED BY <1>1, <3>1, <3>2, SoundBehindLines
  <2> QED BY <2>1
<1>3. CASE mode = "json"
  <2>1. Trimmed = buffer /\ ModeOf(Trimmed) = "json" /\ Step(Trimmed) = JsonStep(Trimmed)
    BY <1>3 DEF Trimmed, ModeOf, Step
  <2>2. Json(s) = TRUE /\ Reached(s, p) /\ (p > 0 \/ s[1] \notin LineBytes) /\ buffer = SubSeq(s, p + 1, e) /\ wire = SubSeq(s, e + 1, Len(s))
    BY <1>2, <1>3 DEF Placed
  <2>3. ASSUME p < e PROVE p + 1 \in Begins(s, Json(s), p + 1)
    <3>1. p + 1 \in p + 1 .. Len(s) /\ (p > 0 => p + 1 > 1)
      BY <1>1, <2>3
    <3>2. p = 0 => s[p + 1] \notin LineBytes
      <4>1. p = 0 => p + 1 = 1
        BY <1>1
      <4>2. p = 0 => ~(p > 0)
        BY <1>1
      <4> QED BY <2>2, <4>1, <4>2
    <3>3. p > 0 \/ p = 0
      BY <1>1
    <3> QED BY <2>2, <3>1, <3>2, <3>3 DEF Begins
  <2>4. Deciding(s, p, e)
    BY <2>1, <2>2, <2>3 DEF Deciding, Decides, Placed
  <2> QED BY <2>4
<1>4. CASE mode = "text"
  <2>1. Trimmed = WithoutLeading(buffer, LineBytes) /\ ModeOf(Trimmed) = "text" /\ Step(Trimmed) = TextStep(Trimmed)
    BY <1>4 DEF Trimmed, ModeOf, Step
  <2>2. Json(s) = FALSE /\ Reached(s, p) /\ buffer = SubSeq(s, p + 1, e) /\ wire = SubSeq(s, e + 1, Len(s))
    BY <1>2, <1>4 DEF Placed
  <2>3. PICK q \in p .. e :
          /\ WithoutLeading(buffer, LineBytes) = SubSeq(s, q + 1, e)
          /\ \A i \in p + 1 .. q : s[i] \in LineBytes
          /\ q < e => s[q + 1] \notin LineBytes
    BY <2>2, PartTrimmed
  <2>4. q \in p .. Len(s) /\ q \in 0 .. Len(s) /\ e \in q .. Len(s)
    BY <1>1
  <2>5. CutFrom(s, FALSE)[p + 1] = CutFrom(s, FALSE)[q + 1]
    BY <2>3, <2>4, LinesSkipped
  <2>6. Reached(s, q)
    BY <2>2, <2>5 DEF Reached
  <2>7. ASSUME q < e PROVE q + 1 \in Begins(s, Json(s), q + 1)
    <3>1. q + 1 \in q + 1 .. Len(s)
      BY <1>1, <2>7
    <3> QED BY <2>3, <2>7, <3>1 DEF Begins
  <2>8. Deciding(s, q, e)
    BY <1>2a, <2>1, <2>2, <2>3, <2>6, <2>7 DEF Deciding, Decides
  <2> QED BY <2>4, <2>8
<1>5. CASE mode = "unknown"
  <2>1. Trimmed = WithoutLeading(buffer, LineBytes)
    BY <1>5 DEF Trimmed
  <2>2. /\ frames = <<>> /\ buffer = SubSeq(s, p + 1, e) /\ wire = SubSeq(s, e + 1, Len(s))
        /\ \A i \in 1 .. p : s[i] \in LineBytes
    BY <1>5 DEF Placed
  <2>3. PICK q \in p .. e :
          /\ WithoutLeading(buffer, LineBytes) = SubSeq(s, q + 1, e)
          /\ \A i \in p + 1 .. q : s[i] \in LineBytes
          /\ q < e => s[q + 1] \notin LineBytes
    BY <2>2, PartTrimmed
  <2>4. q \in 0 .. Len(s) /\ e \in q .. Len(s) /\ 0 \in 0 .. Len(s) /\ 0 + 1 = 1
    BY <1>1
  <2>5. \A i \in 1 .. q : s[i] \in LineBytes
    <3>1. \A i \in 1 .. q : i \in 1 .. p \/ i \in p + 1 .. q
      BY <1>1
    <3> QED BY <2>2, <2>3, <3>1
  <2>6. ASSUME q < e PROVE q + 1 \in Begins(s, Json(s), q + 1) /\ Reached(s, q)
    <3>1. q + 1 \in q + 1 .. Len(s) /\ q < Len(s) /\ s[q + 1] \notin LineBytes /\ q + 1 \in 1 .. Len(s) + 1
      BY <1>1, <2>3, <2>6
    <3>2. q \in 0 .. Len(s) /\ \A i \in 0 + 1 .. q : s[i] \in LineBytes
      BY <2>4, <2>5
    <3>3. CutFrom(s, Json(s))[0 + 1] = CutFrom(s, Json(s))[q + 1]
      BY <1>2, <2>4, <3>1, <3>2, LinesSkipped
    <3>4. Cut(s) = CutFrom(s, Json(s))[q + 1]
      BY <2>4, <3>3 DEF Cut
    <3>5. CutFrom(s, Json(s))[q + 1] \in Seq(Text)
      BY <3>1, CutUnfolds
    <3>6. Cut(s) = <<>> \o CutFrom(s, Json(s))[q + 1]
      BY <3>4, <3>5
    <3> QED BY <2>2, <3>1, <3>6 DEF Begins, Reached
  <2>7. PICK t : t = SubSeq(s, q + 1, e)
    OBVIOUS
  <2>8. t \in Text /\ Len(t) = e - q
    <3>1. q + 1 \in Nat /\ 1 <= q + 1 /\ q + 1 <= e + 1 /\ e - (q + 1) + 1 = e - q
      BY <1>1
    <3> QED BY <1>1, <2>7, <3>1, Part DEF Text
  <2>9. CASE WithoutLeading(t, Blanks) = <<>>
    <3>1. ModeOf(t) = "unknown" /\ Step(t) = Wait
      BY <1>5, <2>9 DEF ModeOf, Step
    <3>2. Decides(Json(s), t) = Wait
      BY <1>2, <2>8, <2>9, BlanksWait
    <3>3. Deciding(s, q, e)
      BY <1>2a, <2>1, <2>2, <2>3, <2>5, <2>6, <2>7, <3>1, <3>2 DEF Deciding
    <3> QED BY <2>4, <3>3
  <2>10. CASE WithoutLeading(t, Blanks) # <<>>
    <3>1. q < e
      <4>1. ASSUME q = e PROVE FALSE
        <5>1. \A i \in 1 .. Len(t) : t[i] \in Blanks
          BY <1>1, <2>8, <4>1
        <5> QED BY <2>8, <2>10, <5>1, Leading
      <4> QED BY <1>1, <4>1
    <3>2. (Head(WithoutLeading(t, Blanks)) = "{") = Json(s)
      <4>1. e \in q + 1 .. Len(s) /\ q \in 0 .. Len(s) /\ s[q + 1] \notin LineBytes
        BY <1>1, <2>3, <3>1
      <4> QED BY <2>5, <2>7, <2>10, <4>1, JsonOf
    <3>3. ModeOf(t) = IF Json(s) THEN "json" ELSE "text"
      BY <1>2, <1>5, <2>10, <3>2 DEF ModeOf
    <3>4. Step(t) = Decides(Json(s), t)
      BY <1>2, <3>3 DEF Step, Decides
    <3>5. q > 0 \/ s[1] \notin LineBytes
      <4>1. q = 0 => q + 1 = 1
        OBVIOUS
      <4> QED BY <1>1, <2>3, <3>1, <4>1
    <3>6. ModeOf(t) \in {"json", "text"} /\ (ModeOf(t) = "json") = Json(s)
      BY <1>2, <3>3
    <3>7. ModeOf(t) # "unknown"
      BY <3>6
    <3>8. Trimmed = t
      BY <2>1, <2>3, <2>7
    <3>9. Reached(s, q) /\ q + 1 \in Begins(s, Json(s), q + 1)
      BY <2>6, <3>1
    <3>10. Deciding(s, q, e)
      BY <1>2a, <2>2, <2>3, <2>7, <3>4, <3>5, <3>6, <3>7, <3>8, <3>9 DEF Deciding
    <3> QED BY <2>4, <3>10
  <2> QED BY <2>9, <2>10
<1> QED BY <1>3, <1>4, <1>5

-----------------------------------------------------------------------------

LEMMA PartsJoined ==
    ASSUME NEW s \in Text, NEW a \in Nat, NEW b \in Nat, NEW c \in Nat, 1 <= a, a <= b + 1, b <= c, c <= Len(s)
    PROVE  SubSeq(s, a, b) \o SubSeq(s, b + 1, c) = SubSeq(s, a, c)
<1>1. PICK t, u, v : t = SubSeq(s, a, b) /\ u = SubSeq(s, b + 1, c) /\ v = SubSeq(s, a, c)
  OBVIOUS
<1>2. Len(s) \in Nat
  BY DEF Text
<1>3. t \in Seq(Symbols) /\ Len(t) = b - a + 1 /\ \A i \in 1 .. b - a + 1 : t[i] = s[a + i - 1]
  BY <1>1, <1>2, Part DEF Text
<1>4. u \in Seq(Symbols) /\ Len(u) = c - b /\ \A i \in 1 .. c - b : u[i] = s[b + i]
  <2>1. b + 1 \in Nat /\ 1 <= b + 1 /\ b + 1 <= c + 1 /\ c - (b + 1) + 1 = c - b
    OBVIOUS
  <2>2. u \in Seq(Symbols) /\ Len(u) = c - b /\ \A i \in 1 .. c - b : u[i] = s[b + 1 + i - 1]
    BY <1>1, <2>1, Part DEF Text
  <2>3. \A i \in 1 .. c - b : b + 1 + i - 1 = b + i
    OBVIOUS
  <2> QED BY <2>2, <2>3
<1>5. v \in Seq(Symbols) /\ Len(v) = c - a + 1 /\ \A i \in 1 .. c - a + 1 : v[i] = s[a + i - 1]
  <2>1. a <= c + 1
    OBVIOUS
  <2> QED BY <1>1, <2>1, Part DEF Text
<1>6. PICK w : w = t \o u
  OBVIOUS
<1>7. /\ w \in Seq(Symbols) /\ Len(w) = Len(t) + Len(u)
      /\ \A i \in 1 .. Len(t) + Len(u) : w[i] = IF i <= Len(t) THEN t[i] ELSE u[i - Len(t)]
  BY <1>3, <1>4, <1>6, ConcatProperties
<1>8. Len(w) = c - a + 1
  BY <1>3, <1>4, <1>7
<1>9. ASSUME NEW i \in 1 .. c - a + 1 PROVE w[i] = v[i]
  <2>1. i \in 1 .. Len(t) + Len(u)
    BY <1>3, <1>4
  <2>2. CASE i <= b - a + 1
    <3>1. i \in 1 .. b - a + 1
      BY <2>2
    <3> QED BY <1>3, <1>5, <1>7, <2>1, <2>2, <3>1
  <2>3. CASE ~(i <= b - a + 1)
    <3>1. i - (b - a + 1) \in 1 .. c - b /\ b + (i - (b - a + 1)) = a + i - 1
      BY <2>3
    <3>2. w[i] = u[i - (b - a + 1)]
      BY <1>3, <1>7, <2>1, <2>3
    <3> QED BY <1>4, <1>5, <3>1, <3>2
  <2> QED BY <2>2, <2>3
<1>10. w = v
  BY <1>5, <1>7, <1>8, <1>9, SeqEqual
<1> QED BY <1>1, <1>6, <1>10

LEMMA InitHolds == Init => FramingInv
<1> SUFFICES ASSUME Init PROVE FramingInv
  OBVIOUS
<1>1. PICK s : s = Sent(pieces)
  OBVIOUS
<1>2. s \in Text /\ Len(s) \in Nat
  <2>1. Sent(pieces) \in Text
    BY SentIsText DEF Init
  <2> QED BY <1>1, <2>1 DEF Text
<1>3. Json(s) \in BOOLEAN
  BY DEF Json
<1>4. wire = SubSeq(s, 0 + 1, Len(s))
  BY <1>1, <1>2, SubSeqFull DEF Init, Text
<1>5. <<>> = SubSeq(s, 0 + 1, 0)
  BY SubSeqEmpty
<1>6. Decides(Json(s), <<>>) = Wait
  <2>1. <<>> \in Text /\ Len(<<>>) = 0 /\ 1 .. 0 = {}
    BY DEF Text
  <2>2. WithoutLeading(<<>>, Blanks) = <<>>
    BY <2>1, Leading
  <2> QED BY <1>3, <2>1, <2>2, BlanksWait
<1>7. Placed(s, 0, 0)
  <2>1. Sound(pieces, <<>>, 0)
    BY SoundAtFirst DEF Init
  <2> QED BY <1>4, <1>5, <1>6, <2>1 DEF Placed, Init
<1>8. 0 \in 0 .. Len(s) /\ 0 \in 0 .. Len(s) /\ <<>> \in Seq(Text) /\ Len(<<>>) <= MAX_FRAME
  BY <1>2, FramingConstants
<1> QED BY <1>1, <1>7, <1>8 DEF Init, FramingInv

LEMMA RecvKeeps == FramingInv /\ (\E n \in 1 .. MaxChunk : Recv(n)) => FramingInv'
<1> SUFFICES ASSUME FramingInv, NEW n \in 1 .. MaxChunk, Recv(n) PROVE FramingInv'
  OBVIOUS
<1>1. PICK s : s = Sent(pieces)
  OBVIOUS
<1>2. s \in Text /\ Len(s) \in Nat
  <2>1. Sent(pieces) \in Text
    BY SentIsText DEF FramingInv
  <2> QED BY <1>1, <2>1 DEF Text
<1>3. PICK p \in 0 .. Len(s) : \E e \in p .. Len(s) : Placed(s, p, e)
  BY <1>1 DEF FramingInv, Recv
<1>4. PICK e \in p .. Len(s) : Placed(s, p, e)
  BY <1>3
<1>5. p \in Nat /\ e \in Nat /\ p <= e /\ e <= Len(s) /\ n \in Nat /\ 1 <= n
  BY <1>2, FramingConstants
<1>6. buffer = SubSeq(s, p + 1, e) /\ wire = SubSeq(s, e + 1, Len(s))
  BY <1>4 DEF Placed
<1>7. Len(wire) = Len(s) - e /\ wire \in Seq(Symbols)
  <2>1. e + 1 \in Nat /\ 1 <= e + 1 /\ e + 1 <= Len(s) + 1 /\ Len(s) <= Len(s) /\ Len(s) - (e + 1) + 1 = Len(s) - e
    BY <1>2, <1>5
  <2>2. PICK l : l = Len(s)
    OBVIOUS
  <2>3. /\ SubSeq(s, e + 1, l) \in Seq(Symbols) /\ Len(SubSeq(s, e + 1, l)) = l - (e + 1) + 1
    BY <1>2, <2>1, <2>2, Part DEF Text
  <2> QED BY <1>6, <2>1, <2>2, <2>3
<1>8. PICK d : d = e + n
  OBVIOUS
<1>9. d \in p .. Len(s) /\ d \in Nat /\ d <= Len(s)
  <2>1. n <= Len(wire)
    BY DEF Recv
  <2> QED BY <1>2, <1>5, <1>7, <1>8, <2>1
<1>10. /\ SubSeq(wire, 1, n) = SubSeq(s, e + 1, d)
       /\ SubSeq(wire, n + 1, Len(wire)) = SubSeq(s, d + 1, Len(s))
  <2>1. PICK l : l = Len(s)
    OBVIOUS
  <2>2. /\ e + 1 \in Nat /\ 1 <= e + 1 /\ e + 1 <= l + 1 /\ l \in Nat /\ l <= Len(s)
        /\ 1 \in Nat /\ 1 <= 1 /\ 1 <= n + 1 /\ n <= l - (e + 1) + 1
        /\ n + 1 \in Nat /\ 1 <= n + 1 /\ l - e \in Nat /\ n + 1 <= l - e + 1 /\ l - e <= l - (e + 1) + 1
        /\ e + 1 + 1 - 1 = e + 1 /\ e + 1 + n - 1 = d /\ e + 1 + (n + 1) - 1 = d + 1 /\ e + 1 + (l - e) - 1 = l
    BY <1>2, <1>5, <1>8, <1>9, <2>1
  <2>3. SubSeq(SubSeq(s, e + 1, l), 1, n) = SubSeq(s, e + 1 + 1 - 1, e + 1 + n - 1)
    BY <1>2, <1>5, <2>2, PartOfPart DEF Text
  <2>4. SubSeq(SubSeq(s, e + 1, l), n + 1, l - e) = SubSeq(s, e + 1 + (n + 1) - 1, e + 1 + (l - e) - 1)
    BY <1>2, <2>2, PartOfPart DEF Text
  <2> QED BY <1>6, <1>7, <2>1, <2>2, <2>3, <2>4
<1>11. SubSeq(s, p + 1, e) \o SubSeq(s, e + 1, d) = SubSeq(s, p + 1, d)
  <2>1. p + 1 \in Nat /\ 1 <= p + 1 /\ p + 1 <= e + 1 /\ e <= d
    BY <1>5, <1>8
  <2> QED BY <1>2, <1>5, <1>9, <2>1, PartsJoined
<1>12. buffer' = SubSeq(s, p + 1, d) /\ wire' = SubSeq(s, d + 1, Len(s))
  BY <1>6, <1>10, <1>11 DEF Recv
<1>13. Placed(s, p, d)'
  BY <1>4, <1>12 DEF Placed, Reached, Recv
<1>14. pieces' = pieces /\ Sent(pieces') = s
  BY <1>1 DEF Recv
<1>15. \E q \in 0 .. Len(s) : \E f \in q .. Len(s) : Placed(s, q, f)'
  BY <1>9, <1>13
<1> QED BY <1>14, <1>15 DEF FramingInv, Recv, Waiting

(* Where a pop stands                                                      *)
LEMMA PopStands ==
    ASSUME FramingInv, ended = "no", NEW s, s = Sent(pieces)
    PROVE  /\ s \in Text /\ Json(s) \in BOOLEAN
           /\ \E q \in 0 .. Len(s) : \E e \in q .. Len(s) : Deciding(s, q, e)
<1>1. s \in Text /\ Json(s) \in BOOLEAN
  BY SentIsText DEF FramingInv, Json
<1>2. PICK p \in 0 .. Len(s) : \E e \in p .. Len(s) : Placed(s, p, e)
  BY DEF FramingInv
<1>3. PICK e \in p .. Len(s) : Placed(s, p, e)
  BY <1>2
<1>4. pieces \in Streams /\ frames \in Seq(Text) /\ mode \in {"unknown", "json", "text"}
  BY DEF FramingInv
<1>5. \E q \in 0 .. Len(s) : e \in q .. Len(s) /\ Deciding(s, q, e)
  BY <1>1, <1>2, <1>3, <1>4, PopDecides
<1> QED BY <1>1, <1>5

(* Where a report begins, no decision fails and none waits for too many    *)
(* bytes.                                                                  *)
LEMMA ReportStands ==
    ASSUME FramingInv, NEW s, s = Sent(pieces), NEW q \in 0 .. Len(s), NEW e \in q .. Len(s), Deciding(s, q, e),
           NEW t, t = Trimmed, Understandable(pieces)
    PROVE  /\ Decides(Json(s), t).kind \notin {"FORMAT", "LIMIT"}
           /\ q < e /\ Decides(Json(s), t) = Wait => ~(e - q > MAX_FRAME)
<1>1. pieces \in Streams /\ Json(s) = FALSE
  BY UnderstandableIsText DEF FramingInv
<1>2. s \in Text /\ Len(s) \in Nat /\ q \in Nat /\ e \in Nat /\ q <= e
  <2>1. s \in Text
    BY <1>1, SentIsText
  <2> QED BY <2>1 DEF Text
<1>3. t = SubSeq(s, q + 1, e) /\ (q < e => q + 1 \in Begins(s, FALSE, q + 1)) /\ Sound(pieces, frames, q)
  BY <1>1 DEF Deciding
<1>4. CASE q < e
  <2>1. s[q + 1] \notin LineBytes
    BY <1>3, <1>4 DEF Begins
  <2>2. Understood(pieces, frames, q)
    BY <1>3 DEF Sound
  <2>3. PICK i \in 1 .. Len(pieces) : ReportAt(pieces, frames, i, q, e)
    BY <1>1, <1>4, <2>1, <2>2, Report
  <2>4. ReportDecides(pieces, i, q, e, t)
    BY <1>3, <2>3 DEF ReportAt
  <2>5. Decides(FALSE, t).kind \notin {"FORMAT", "LIMIT"}
    BY <2>4 DEF ReportDecides
  <2>6. Decides(FALSE, t) = Wait => e - q <= MAX_FRAME
    BY <2>4 DEF ReportDecides
  <2>7. e - q <= MAX_FRAME => ~(e - q > MAX_FRAME)
    BY <1>2, FramingConstants
  <2> QED BY <1>1, <2>5, <2>6, <2>7
<1>5. CASE ~(q < e)
  <2>1. q = e
    BY <1>2, <1>5
  <2>2. Decides(FALSE, t) = Wait
    BY <1>2, <1>3, <2>1, NothingWaits
  <2>3. Wait.kind \notin {"FORMAT", "LIMIT"}
    BY DEF Wait
  <2> QED BY <1>1, <1>5, <2>2, <2>3
<1> QED BY <1>4, <1>5

LEMMA PopFrameKeeps == FramingInv /\ PopFrame => FramingInv'
<1> SUFFICES ASSUME FramingInv, PopFrame PROVE FramingInv'
  OBVIOUS
<1>1. PICK s : s = Sent(pieces)
  OBVIOUS
<1>2. PICK q \in 0 .. Len(s) : \E e \in q .. Len(s) : Deciding(s, q, e)
  BY <1>1, PopStands DEF PopFrame
<1>3. PICK e \in q .. Len(s) : Deciding(s, q, e)
  BY <1>2
<1>4. s \in Text /\ Json(s) \in BOOLEAN
  BY <1>1, PopStands DEF PopFrame
<1>5. Len(s) \in Nat /\ q \in Nat /\ e \in Nat /\ q <= e /\ e <= Len(s)
  BY <1>4 DEF Text
<1>6. PICK t : t = Trimmed
  OBVIOUS
<1>7. t = SubSeq(s, q + 1, e) /\ Step(t) = Decides(Json(s), t) /\ Step(t).kind = "frame"
  BY <1>3, <1>6 DEF Deciding, PopFrame
<1>8. t \in Text /\ Len(t) = e - q
  <2>1. q < e => q + 1 \in Begins(s, Json(s), q + 1)
    BY <1>3 DEF Deciding
  <2> QED BY <1>4, <1>7, <2>1, CutGoesOn DEF SaysHow
<1>9. PICK n \in 1 .. Len(t) : Decides(Json(s), t) = Frame(n)
  <2>1. Decides(Json(s), t) \in Decisions(t)
    BY <1>4, <1>8, Decided
  <2>2. Decides(Json(s), t).kind = "frame"
    BY <1>7
  <2> QED BY <2>1, <2>2 DEF Decisions, Wait, Fails
<1>10. Step(t).length = n /\ Step(t) # Wait
  BY <1>7, <1>9 DEF Frame, Wait
<1>11. /\ ModeOf(t) \in {"json", "text"} /\ (ModeOf(t) = "json") = Json(s)
       /\ Reached(s, q) /\ wire = SubSeq(s, e + 1, Len(s))
       /\ q < e => q + 1 \in Begins(s, Json(s), q + 1)
  BY <1>3, <1>6, <1>10 DEF Deciding
<1>12. /\ CutFrom(s, Json(s))[q + 1] = <<SubSeq(t, 1, n)>> \o CutFrom(s, Json(s))[q + n + 1]
       /\ SubSeq(t, 1, n) \in Text
       /\ SubSeq(t, n + 1, Len(t)) = SubSeq(s, q + n + 1, e)
  <2>1. SaysHow(s, Json(s), q, e, t)
    BY <1>4, <1>7, <1>11, CutGoesOn
  <2> QED BY <1>9, <2>1 DEF SaysHow
<1>13. PICK r : r = q + n
  OBVIOUS
<1>14. r \in 0 .. Len(s) /\ e \in r .. Len(s) /\ r > 0 /\ r + 1 \in 1 .. Len(s) + 1
  BY <1>5, <1>8, <1>13
<1>15. frames' = Append(frames, SubSeq(t, 1, n)) /\ buffer' = SubSeq(s, r + 1, e)
  BY <1>6, <1>10, <1>12, <1>13 DEF PopFrame, Rest
<1>16. mode' = ModeOf(t) /\ UNCHANGED <<pieces, wire, loop>> /\ loop = "pop"
  BY <1>6 DEF PopFrame
<1>17. frames \in Seq(Text) /\ CutFrom(s, Json(s))[r + 1] \in Seq(Text)
  BY <1>4, <1>14, CutUnfolds DEF FramingInv
<1>18. frames' \in Seq(Text) /\ Cut(s) = frames' \o CutFrom(s, Json(s))[r + 1]
  <2>1. PICK x, c : x = SubSeq(t, 1, n) /\ c = CutFrom(s, Json(s))[r + 1]
    OBVIOUS
  <2>2. x \in Text /\ c \in Seq(Text) /\ <<x>> \in Seq(Text)
    BY <1>12, <1>17, <2>1
  <2>3. Cut(s) = frames \o (<<x>> \o c)
    BY <1>11, <1>12, <1>13, <2>1 DEF Reached
  <2>4. (frames \o <<x>>) \o c = frames \o (<<x>> \o c)
    BY <1>17, <2>2, ConcatAssociative
  <2>5. frames' = frames \o <<x>> /\ frames' \in Seq(Text)
    <3>1. frames' = Append(frames, x)
      BY <1>15, <2>1
    <3>2. Append(frames, x) = frames \o <<x>> /\ Append(frames, x) \in Seq(Text)
      BY <1>17, <2>2, AppendIsConcat
    <3> QED BY <3>1, <3>2
  <2> QED BY <2>1, <2>3, <2>4, <2>5
<1>19. Sound(pieces, frames', r)
  <2>1. CASE ~Understandable(pieces)
    BY <2>1 DEF Sound
  <2>2. CASE Understandable(pieces)
    <3>1. pieces \in Streams /\ Json(s) = FALSE
      BY <1>1, <2>2, UnderstandableIsText DEF FramingInv
    <3>2. s[q + 1] \notin LineBytes
      <4>1. q < e
        BY <1>5, <1>8
      <4> QED BY <1>11, <3>1, <4>1 DEF Begins
    <3>3. Sound(pieces, frames, q)
      BY <1>3 DEF Deciding
    <3>4. q \in 0 .. Len(Sent(pieces)) /\ e \in q .. Len(Sent(pieces))
      BY <1>1
    <3>5. Decides(FALSE, t) = Frame(n) /\ t = SubSeq(Sent(pieces), q + 1, e) /\ Sent(pieces)[q + 1] \notin LineBytes
      BY <1>1, <1>7, <1>9, <3>1, <3>2
    <3>6. Sound(pieces, Append(frames, SubSeq(t, 1, n)), q + n)
      BY <1>8, <1>12, <1>17, <3>1, <3>3, <3>4, <3>5, SoundBehindFrame
    <3> QED BY <1>13, <1>15, <3>6
  <2> QED BY <2>1, <2>2
<1>19a. Placed(s, r, e)'
  BY <1>11, <1>14, <1>15, <1>16, <1>18, <1>19 DEF Placed, Reached
<1>20. \E p \in 0 .. Len(s) : \E f \in p .. Len(s) : Placed(s, p, f)'
  BY <1>14, <1>19a
<1>21. Sent(pieces') = s
  BY <1>1, <1>16
<1>22. errors' \in Nat /\ ended' \in {"no", "RATE", "ERRORS"}
  BY DEF PopFrame, TooFast, HandedOver, FramingInv
<1>23. ended' = "RATE" => Len(frames') > MAX_RATE
  <2>1. ASSUME ended' = "RATE" PROVE Len(frames) >= MAX_RATE
    BY <2>1 DEF PopFrame, TooFast, HandedOver
  <2>2. Len(frames') = Len(frames) + 1 /\ Len(frames) \in Nat
    BY <1>12, <1>15, <1>17, AppendProperties
  <2> QED BY <2>1, <2>2, FramingConstants
<1> QED BY <1>11, <1>16, <1>18, <1>20, <1>21, <1>22, <1>23 DEF FramingInv, Waiting

LEMMA PopFailsKeeps == FramingInv /\ PopFails => FramingInv'
<1> SUFFICES ASSUME FramingInv, PopFails PROVE FramingInv'
  OBVIOUS
<1>1. PICK s : s = Sent(pieces)
  OBVIOUS
<1>2. PICK q \in 0 .. Len(s) : \E e \in q .. Len(s) : Deciding(s, q, e)
  BY <1>1, PopStands DEF PopFails
<1>3. PICK e \in q .. Len(s) : Deciding(s, q, e)
  BY <1>2
<1>4. s \in Text /\ Json(s) \in BOOLEAN
  BY <1>1, PopStands DEF PopFails
<1>5. PICK t : t = Trimmed
  OBVIOUS
<1>6. t = SubSeq(s, q + 1, e) /\ Decides(Json(s), t).kind \in {"FORMAT", "LIMIT"} /\ Step(t) # Wait
  BY <1>3, <1>5 DEF Deciding, PopFails, Wait
<1>7. /\ ModeOf(t) \in {"json", "text"} /\ Reached(s, q)
      /\ q < e => q + 1 \in Begins(s, Json(s), q + 1)
  BY <1>3, <1>5, <1>6 DEF Deciding
<1>8. CutFrom(s, Json(s))[q + 1] = <<>>
  <2>1. SaysHow(s, Json(s), q, e, t)
    BY <1>4, <1>6, <1>7, CutGoesOn
  <2> QED BY <1>6, <2>1 DEF SaysHow
<1>9. frames = Cut(s)
  BY <1>7, <1>8, ConcatEmptySeq DEF Reached, FramingInv
<1>9a. ~Understandable(pieces)
  <2>1. Step(t).kind \in {"FORMAT", "LIMIT"}
    BY <1>5 DEF PopFails
  <2>2. Step(t) = Decides(Json(s), t)
    BY <1>3, <1>5 DEF Deciding
  <2> QED BY <1>1, <1>2, <1>3, <1>5, <1>6, <2>1, <2>2, ReportStands
<1>10. /\ ended' \in {"FORMAT", "LIMIT"} /\ mode' \in {"json", "text"} /\ loop' = "recv"
       /\ UNCHANGED <<pieces, frames, errors>>
  BY <1>5, <1>7 DEF PopFails
<1>11. Sent(pieces') = s
  BY <1>1, <1>10
<1> QED BY <1>9, <1>9a, <1>10, <1>11 DEF FramingInv, Waiting

LEMMA PopNothingKeeps == FramingInv /\ PopNothing => FramingInv'
<1> SUFFICES ASSUME FramingInv, PopNothing PROVE FramingInv'
  OBVIOUS
<1>1. PICK s : s = Sent(pieces)
  OBVIOUS
<1>2. PICK q \in 0 .. Len(s) : \E e \in q .. Len(s) : Deciding(s, q, e)
  BY <1>1, PopStands DEF PopNothing
<1>3. PICK e \in q .. Len(s) : Deciding(s, q, e)
  BY <1>2
<1>4. s \in Text /\ Json(s) \in BOOLEAN
  BY <1>1, PopStands DEF PopNothing
<1>5. Len(s) \in Nat /\ q \in Nat /\ e \in Nat /\ q <= e /\ e <= Len(s)
  BY <1>4 DEF Text
<1>6. PICK t : t = Trimmed
  OBVIOUS
<1>7. /\ t = SubSeq(s, q + 1, e) /\ wire = SubSeq(s, e + 1, Len(s))
      /\ q < e => q + 1 \in Begins(s, Json(s), q + 1) /\ Reached(s, q)
  BY <1>3, <1>6 DEF Deciding
<1>8. Decides(Json(s), t) = Wait
  <2>1. Decides(Json(s), t).kind = "wait"
    BY <1>3, <1>6 DEF Deciding, PopNothing
  <2>2. t \in Text
    BY <1>4, <1>7, CutGoesOn DEF SaysHow
  <2>3. Decides(Json(s), t) \in Decisions(t)
    BY <1>4, <2>2, Decided
  <2> QED BY <2>1, <2>3 DEF Decisions, Fails, Frame
<1>9. /\ buffer' = t /\ mode' = ModeOf(t) /\ loop' = "recv" /\ UNCHANGED <<pieces, wire, frames, errors>>
      /\ ended' = IF Len(t) > MAX_FRAME THEN "LIMIT" ELSE "no"
  BY <1>6 DEF PopNothing, TooLong
<1>10. mode' \in {"unknown", "json", "text"} /\ Len(t) = e - q
  <2>1. Len(t) = e - q
    BY <1>4, <1>7, CutGoesOn DEF SaysHow
  <2> QED BY <1>3, <1>6, <1>9, <2>1 DEF Deciding
<1>11. ASSUME ended' # "no" PROVE frames = Cut(s)
  <2>1. Len(t) > MAX_FRAME
    BY <1>9, <1>11
  <2>2. q < e /\ e - q > MAX_FRAME
    BY <1>5, <1>10, <2>1, FramingConstants
  <2>3. CutFrom(s, Json(s))[q + 1] = <<>>
    <3>1. SaysHow(s, Json(s), q, e, t)
      BY <1>4, <1>7, CutGoesOn
    <3> QED BY <1>8, <2>2, <3>1 DEF SaysHow
  <2> QED BY <1>7, <2>2, <2>3, ConcatEmptySeq DEF Reached, FramingInv
<1>11a. ended' # "no" => ~Understandable(pieces)
  <2>1. ended' # "no" => Len(t) > MAX_FRAME
    BY <1>9
  <2>2. Len(t) > MAX_FRAME => q < e /\ e - q > MAX_FRAME
    BY <1>5, <1>10, FramingConstants
  <2> QED BY <1>1, <1>2, <1>3, <1>6, <1>8, <2>1, <2>2, ReportStands
<1>12. Placed(s, q, e)'
  BY <1>3, <1>6, <1>7, <1>8, <1>9 DEF Placed, Reached, Deciding
<1>13. \E p \in 0 .. Len(s) : \E f \in p .. Len(s) : Placed(s, p, f)'
  BY <1>12
<1>14. Sent(pieces') = s
  BY <1>1, <1>9
<1>15. ended' = "no" => Len(buffer') <= MAX_FRAME
  BY <1>5, <1>9, <1>10, FramingConstants
<1> QED BY <1>9, <1>10, <1>11, <1>11a, <1>13, <1>14, <1>15 DEF FramingInv, Waiting

(* A connection given up for another reason stays where it was.            *)
LEMMA EndKeeps == FramingInv /\ (PartialTimeout \/ Closes) => FramingInv'
<1> SUFFICES ASSUME FramingInv, PartialTimeout \/ Closes PROVE FramingInv'
  OBVIOUS
<1>1. /\ UNCHANGED <<pieces, wire, buffer, mode, loop, frames, errors>>
      /\ ended = "no" /\ ended' \in {"PARTIAL", "CLOSED"}
      /\ ended' = "PARTIAL" => loop = "recv" /\ buffer # <<>>
  BY DEF PartialTimeout, Closes
<1>2. Sent(pieces') = Sent(pieces)
  BY <1>1
<1> QED BY <1>1, <1>2 DEF FramingInv, Placed, Reached, Waiting

THEOREM AlwaysFramingInv == Spec => []FramingInv
<1>1. ASSUME FramingInv, [Next]_vars PROVE FramingInv'
  <2>1. CASE \E n \in 1 .. MaxChunk : Recv(n)
    BY <1>1, <2>1, RecvKeeps
  <2>2. CASE PopFrame
    BY <1>1, <2>2, PopFrameKeeps
  <2>3. CASE PopFails
    BY <1>1, <2>3, PopFailsKeeps
  <2>4. CASE PopNothing
    BY <1>1, <2>4, PopNothingKeeps
  <2>5. CASE PartialTimeout \/ Closes
    BY <1>1, <2>5, EndKeeps
  <2>6. CASE UNCHANGED vars
    <3>1. Sent(pieces') = Sent(pieces)
      BY <2>6 DEF vars
    <3> QED BY <1>1, <2>6, <3>1 DEF vars, FramingInv, Placed, Reached, Waiting
  <2> QED BY <1>1, <2>1, <2>2, <2>3, <2>4, <2>5, <2>6 DEF Next
<1> QED BY <1>1, InitHolds, PTL DEF Spec

-----------------------------------------------------------------------------
(* The theorems                                                            *)

LEMMA FirstPart ==
    ASSUME NEW f \in Seq(Text), NEW g \in Seq(Text)
    PROVE  IsPrefix(f, f \o g)
<1>1. PICK h : h = f \o g
  OBVIOUS
<1>2. /\ h \in Seq(Text) /\ Len(h) = Len(f) + Len(g)
      /\ \A i \in 1 .. Len(f) + Len(g) : h[i] = IF i <= Len(f) THEN f[i] ELSE g[i - Len(f)]
  BY <1>1, ConcatProperties
<1>3. PICK n : n = Len(f)
  OBVIOUS
<1>4. n \in Nat /\ n <= Len(h) /\ n - 1 + 1 = n
  BY <1>2, <1>3
<1>5. SubSeq(h, 1, n) \in Seq(Text) /\ Len(SubSeq(h, 1, n)) = n /\ \A i \in 1 .. n : SubSeq(h, 1, n)[i] = h[i]
  <2>1. /\ SubSeq(h, 1, n) \in Seq(Text) /\ Len(SubSeq(h, 1, n)) = n - 1 + 1
        /\ \A i \in 1 .. n - 1 + 1 : SubSeq(h, 1, n)[i] = h[1 + i - 1]
    BY <1>2, <1>4, Part
  <2>2. \A i \in 1 .. n : 1 + i - 1 = i
    BY <1>4
  <2> QED BY <1>4, <2>1, <2>2
<1>6. ASSUME NEW i \in 1 .. n PROVE SubSeq(h, 1, n)[i] = f[i]
  <2>1. i \in 1 .. Len(f) + Len(g) /\ i <= Len(f)
    BY <1>2, <1>3, <1>4
  <2> QED BY <1>2, <1>5, <2>1
<1>7. SubSeq(h, 1, n) = f
  BY <1>3, <1>5, <1>6, SeqEqual
<1>8. SubSeq(f, 1, n) = f
  BY <1>3, SubSeqFull
<1> QED BY <1>1, <1>3, <1>4, <1>7, <1>8 DEF IsPrefix

LEMMA NothingLeft ==
    ASSUME NEW s \in Text, NEW e \in 0 .. Len(s), SubSeq(s, e + 1, Len(s)) = <<>>
    PROVE  e = Len(s)
<1>1. PICK l : l = Len(s)
  OBVIOUS
<1>2. e + 1 \in Nat /\ 1 <= e + 1 /\ e + 1 <= l + 1 /\ l \in Nat /\ l <= Len(s) /\ e \in Nat
  BY <1>1 DEF Text
<1>3. Len(SubSeq(s, e + 1, l)) = l - (e + 1) + 1
  BY <1>2, Part DEF Text
<1>4. l - (e + 1) + 1 = 0
  BY <1>1, <1>3
<1> QED BY <1>1, <1>2, <1>4

LEMMA FramesAreTheStreams == FramingInv => ChunksDoNotMatter
<1> SUFFICES ASSUME FramingInv PROVE ChunksDoNotMatter
  OBVIOUS
<1>1. PICK s : s = Sent(pieces)
  OBVIOUS
<1>2. s \in Text /\ Json(s) \in BOOLEAN /\ Len(s) \in Nat
  <2>1. s \in Text
    BY <1>1, SentIsText DEF FramingInv
  <2> QED BY <2>1 DEF Json, Text
<1>3. frames \in Seq(Text)
  BY DEF FramingInv
<1>4. \A p \in 0 .. Len(s) : CutFrom(s, Json(s))[p + 1] \in Seq(Text)
  <2>1. \A p \in 0 .. Len(s) : p + 1 \in 1 .. Len(s) + 1
    BY <1>2
  <2> QED BY <1>2, <2>1, CutUnfolds
<1>5. Cut(s) \in Seq(Text)
  <2>1. 0 \in 0 .. Len(s) /\ 0 + 1 = 1
    BY <1>2
  <2> QED BY <1>4, <2>1 DEF Cut
<1>6. \A p \in 0 .. Len(s) : Reached(s, p) => IsPrefix(frames, Cut(s))
  BY <1>3, <1>4, FirstPart DEF Reached
<1>7. IsPrefix(<<>>, Cut(s)) /\ IsPrefix(Cut(s), Cut(s))
  <2>1. <<>> \in Seq(Text) /\ Cut(s) \o <<>> = Cut(s) /\ <<>> \o Cut(s) = Cut(s)
    BY <1>5, ConcatEmptySeq
  <2> QED BY <1>5, <2>1, FirstPart
<1>8. CASE ended \in {"FORMAT", "LIMIT"}
  <2>1. frames = Cut(s)
    BY <1>1, <1>8 DEF FramingInv
  <2> QED BY <1>1, <1>7, <2>1 DEF ChunksDoNotMatter
<1>9. CASE ended \notin {"FORMAT", "LIMIT"}
  <2>1. PICK p \in 0 .. Len(s) : \E e \in p .. Len(s) : Placed(s, p, e)
    BY <1>1, <1>9 DEF FramingInv
  <2>2. PICK e \in p .. Len(s) : Placed(s, p, e)
    BY <2>1
  <2>3. IsPrefix(frames, Cut(s))
    BY <1>6, <1>7, <2>1, <2>2 DEF Placed
  <2>4. ASSUME Finished PROVE frames = Cut(s)
    <3>1. wire = SubSeq(s, e + 1, Len(s)) /\ wire = <<>> /\ loop = "recv"
      BY <2>2, <2>4 DEF Placed, Finished, Waiting
    <3>2. p \in Nat /\ e \in Nat /\ p <= e /\ e <= Len(s)
      BY <1>2
    <3>3. e = Len(s)
      BY <1>2, <3>1, <3>2, NothingLeft
    <3>4. CASE p < e
      <4>1. /\ Decides(Json(s), SubSeq(s, p + 1, e)) = Wait
            /\ p + 1 \in Begins(s, Json(s), p + 1) /\ Reached(s, p)
        BY <2>2, <3>1, <3>4 DEF Placed
      <4>2. SaysHow(s, Json(s), p, e, SubSeq(s, p + 1, e))
        BY <1>2, <4>1, CutGoesOn
      <4>3. CutFrom(s, Json(s))[p + 1] = <<>>
        BY <3>3, <4>1, <4>2 DEF SaysHow
      <4> QED BY <1>3, <4>1, <4>3, ConcatEmptySeq DEF Reached
    <3>5. CASE p = e
      <4>1. p = Len(s) /\ p + 1 \in 1 .. Len(s) + 1 /\ 1 \in 1 .. Len(s) + 1
        BY <1>2, <3>3, <3>5
      <4>2. CASE mode # "unknown"
        <5>1. Begins(s, Json(s), p + 1) = {}
          BY <1>2, <4>1 DEF Begins
        <5>2. CutFrom(s, Json(s))[p + 1] = <<>>
          BY <1>2, <4>1, <5>1, CutUnfolds DEF CutStep
        <5>3. Reached(s, p)
          BY <2>2, <4>2 DEF Placed
        <5> QED BY <1>3, <5>2, <5>3, ConcatEmptySeq DEF Reached
      <4>3. CASE mode = "unknown"
        <5>1. frames = <<>> /\ \A i \in 1 .. Len(s) : s[i] \in LineBytes
          BY <2>2, <4>1, <4>3 DEF Placed
        <5>2. Begins(s, Json(s), 1) = {}
          <6>1. ~(1 > 1)
            OBVIOUS
          <6> QED BY <5>1, <6>1 DEF Begins
        <5>3. CutFrom(s, Json(s))[1] = <<>>
          BY <1>2, <4>1, <5>2, CutUnfolds DEF CutStep
        <5> QED BY <5>1, <5>3 DEF Cut
      <4> QED BY <4>2, <4>3
    <3> QED BY <3>2, <3>4, <3>5
  <2> QED BY <1>1, <1>9, <2>3, <2>4 DEF ChunksDoNotMatter
<1> QED BY <1>8, <1>9

LEMMA ReportsAreReceived == FramingInv => SentIsReceived
<1> SUFFICES ASSUME FramingInv, Clean, InLimits
             PROVE  /\ ended \notin {"FORMAT", "LIMIT"}
                    /\ ended = "RATE" => Len(Reports) > MAX_RATE
                    /\ ended = "PARTIAL" => wire # <<>>
                    /\ IsPrefix(Received, Reports)
                    /\ Finished => Received = Reports
  BY DEF SentIsReceived
<1>1. PICK s : s = Sent(pieces)
  OBVIOUS
<1>2. pieces \in Streams /\ Understandable(pieces) /\ frames \in Seq(Text)
  BY DEF FramingInv, Clean, InLimits, Understandable
<1>3. ended \notin {"FORMAT", "LIMIT"} /\ Json(s) = FALSE
  BY <1>1, <1>2, UnderstandableIsText DEF FramingInv
<1>4. s \in Text /\ Len(s) \in Nat
  <2>1. s \in Text
    BY <1>1, <1>2, SentIsText
  <2> QED BY <2>1 DEF Text
<1>5. PICK p \in 0 .. Len(s) : \E e \in p .. Len(s) : Placed(s, p, e)
  BY <1>1, <1>3 DEF FramingInv
<1>6. PICK e \in p .. Len(s) : Placed(s, p, e)
  BY <1>5
<1>7. Understood(pieces, frames, p)
  BY <1>2, <1>6 DEF Placed, Sound
<1>8. /\ IsPrefix(Received, Reports) /\ (p = Len(s) => Received = Reports)
      /\ Len(frames) <= Len(Reports) /\ Len(Reports) \in Nat
  BY <1>1, <1>2, <1>7, AllUnderstood DEF Received, Reports
<1>9. ASSUME wire = <<>>, loop = "recv" PROVE p = Len(s) /\ e = Len(s)
  <2>1. wire = SubSeq(s, e + 1, Len(s)) /\ wire = <<>> /\ loop = "recv"
    BY <1>6, <1>9 DEF Placed
  <2>2. e = Len(s)
    BY <1>4, <2>1, NothingLeft
  <2>3. ASSUME p < e PROVE FALSE
    <3>1. /\ Decides(FALSE, SubSeq(s, p + 1, e)) = Wait /\ p + 1 \in Begins(s, FALSE, p + 1)
      BY <1>3, <1>6, <2>1, <2>3 DEF Placed
    <3>2. s[p + 1] \notin LineBytes
      BY <3>1 DEF Begins
    <3>3. PICK i \in 1 .. Len(pieces) : ReportAt(pieces, frames, i, p, e)
      BY <1>1, <1>2, <1>7, <2>3, <3>2, Report
    <3>4. e < EndOf(pieces, i) /\ EndOf(pieces, i) <= Len(s)
      BY <1>1, <3>1, <3>3 DEF ReportAt, ReportDecides
    <3>5. EndOf(pieces, i) \in Nat
      <4>1. i \in 0 .. Len(pieces)
        BY <1>2, PlacesOfStream
      <4> QED BY <1>2, <4>1, PlacesOfStream DEF StreamPlaces
    <3> QED BY <1>4, <2>2, <3>4, <3>5
  <2> QED BY <1>4, <2>2, <2>3
<1>10. ASSUME ended = "PARTIAL" PROVE wire # <<>>
  <2>1. loop = "recv" /\ buffer # <<>>
    BY <1>10 DEF FramingInv
  <2>2. wire = <<>> => buffer = SubSeq(s, Len(s) + 1, Len(s))
    BY <1>6, <1>9, <2>1 DEF Placed
  <2>3. SubSeq(s, Len(s) + 1, Len(s)) = <<>>
    BY <1>4, SubSeqEmpty
  <2> QED BY <2>1, <2>2, <2>3
<1>11. ASSUME ended = "RATE" PROVE Len(Reports) > MAX_RATE
  <2>1. Len(frames) > MAX_RATE
    BY <1>11 DEF FramingInv
  <2>2. Len(frames) \in Nat /\ MAX_RATE \in Nat
    BY <1>2, FramingConstants
  <2> QED BY <1>8, <2>1, <2>2
<1> QED BY <1>3, <1>8, <1>9, <1>10, <1>11 DEF Finished, Waiting

(* A station that sends reports within the frame limit, with nothing but   *)
(* line ends between them, is understood: no report is invented or merged  *)
(* with another, none is lost before the connection ends, and the framing  *)
(* never ends it; the rate ends it only if that many reports were sent,    *)
(* the time-out of a part only while bytes are still to come               *)
(* (FrameDecoder.pop, decode_text and the loops of StationPeer.run on what *)
(* encode_result writes).                                                  *)
THEOREM ReportsArriveAsSent == Spec => []SentIsReceived
BY AlwaysFramingInv, ReportsAreReceived, PTL

(* However TCP cuts the stream, the frames taken from it are the first of  *)
(* those the stream as a whole has, and all of them once the receiver waits *)
(* for bytes that do not come or has met bytes that are no frame           *)
(* (FrameDecoder.pop and the loops of StationPeer.run).                    *)
THEOREM FramesAreCutFromTheStream == Spec => []ChunksDoNotMatter
BY AlwaysFramingInv, FramesAreTheStreams, PTL

(* While a connection waits for bytes it keeps no more of them than a      *)
(* frame may have (StationPeer.run).                                       *)
THEOREM BufferStaysSmall == Spec => []BufferBounded
<1>1. FramingInv => BufferBounded
  BY DEF FramingInv, BufferBounded
<1> QED BY <1>1, AlwaysFramingInv, PTL

-----------------------------------------------------------------------------
(* The types, with what becomes of the bytes                               *)

(* Every byte of the stream is in a frame handed over, in the buffer, still*)
(* on the wire, or was left out.                                           *)
Bytewise ==
    /\ buffer \in Text
    /\ \E e \in 0 .. Len(Sent(pieces)) : wire = SubSeq(Sent(pieces), e + 1, Len(Sent(pieces)))
    /\ Len(FlattenSeq(frames)) + Len(buffer) + Len(wire) <= Len(Sent(pieces))

LEMMA OneMoreList ==
    ASSUME NEW f \in Seq(Text), NEW x \in Text
    PROVE  /\ Len(FlattenSeq(Append(f, x))) = Len(FlattenSeq(f)) + Len(x)
           /\ Len(FlattenSeq(f)) \in Nat /\ Len(x) \in Nat
<1>1. PICK q, n : q = Append(f, x) /\ n = Len(f)
  OBVIOUS
<1>2. q \in Seq(Text) /\ Len(q) = n + 1 /\ n \in Nat /\ q[n + 1] = x /\ \A i \in 1 .. n : q[i] = f[i]
  BY <1>1, AppendProperties
<1>3. q \in Seq(Seq(Symbols)) /\ f \in Seq(Seq(Symbols)) /\ x \in Seq(Symbols)
  BY <1>2 DEF Text
<1>4. FlattenSeq(q) = JoinedTo(q, n) \o x
  <2>1. PICK j : j = n + 1
    OBVIOUS
  <2>0. j \in 1 .. Len(q) /\ j - 1 = n /\ Len(q) = j
    BY <1>2, <2>1
  <2>2. JoinedTo(q, Len(q)) = FlattenSeq(q) /\ \A k \in 1 .. Len(q) : JoinedTo(q, k) = JoinedTo(q, k - 1) \o q[k]
    BY <1>3, JoinedStep
  <2>3. JoinedTo(q, j) = JoinedTo(q, j - 1) \o q[j]
    BY <2>0, <2>2
  <2> QED BY <1>2, <2>0, <2>1, <2>2, <2>3
<1>5. JoinedTo(q, n) = FlattenSeq(f)
  <2>1. n \in 0 .. Len(q)
    BY <1>2
  <2>2. SubSeq(q, 1, n) \in Seq(Seq(Symbols)) /\ Len(SubSeq(q, 1, n)) = n /\ \A i \in 1 .. n : SubSeq(q, 1, n)[i] = q[i]
    BY <1>3, <2>1, FirstLists
  <2>3. SubSeq(q, 1, n) = f
    BY <1>1, <1>2, <1>3, <2>2, SeqEqual
  <2> QED BY <2>3 DEF JoinedTo
<1>6. FlattenSeq(f) \in Seq(Symbols)
  BY JoinedText DEF Text
<1>7. Len(FlattenSeq(f) \o x) = Len(FlattenSeq(f)) + Len(x)
  BY <1>3, <1>6, ConcatProperties
<1> QED BY <1>1, <1>3, <1>4, <1>5, <1>6, <1>7

LEMMA WithoutSome ==
    ASSUME NEW s \in Text, NEW set
    PROVE  WithoutLeading(s, set) \in Text /\ Len(WithoutLeading(s, set)) <= Len(s)
<1>1. PICK l : l = Len(s)
  OBVIOUS
<1>2. l \in Nat
  BY <1>1 DEF Text
<1>3. CASE WithoutLeading(s, set) = <<>>
  BY <1>1, <1>2, <1>3 DEF Text
<1>4. CASE WithoutLeading(s, set) # <<>>
  <2>1. PICK k \in 1 .. l : s[k] \notin set /\ \A i \in 1 .. k - 1 : s[i] \in set
    BY <1>1, <1>4, Leading
  <2>2. WithoutLeading(s, set) = SubSeq(s, k, l)
    BY <1>1, <2>1, FirstKept
  <2>3. k \in Nat /\ 1 <= k /\ k <= l + 1 /\ l <= Len(s) /\ l - k + 1 <= l
    BY <1>1, <1>2
  <2>4. SubSeq(s, k, l) \in Seq(Symbols) /\ Len(SubSeq(s, k, l)) = l - k + 1
    BY <1>2, <2>3, Part DEF Text
  <2> QED BY <1>1, <2>2, <2>3, <2>4 DEF Text
<1> QED BY <1>3, <1>4

LEMMA BytewiseHolds == Init => Bytewise
<1> SUFFICES ASSUME Init PROVE Bytewise
  OBVIOUS
<1>1. PICK s : s = Sent(pieces)
  OBVIOUS
<1>2. s \in Text /\ Len(s) \in Nat
  <2>1. s \in Text
    BY <1>1, SentIsText DEF Init
  <2> QED BY <2>1 DEF Text
<1>3. wire = SubSeq(s, 0 + 1, Len(s)) /\ 0 \in 0 .. Len(s) /\ wire = s
  BY <1>1, <1>2, SubSeqFull DEF Init, Text
<1>4. FlattenSeq(<<>>) = <<>>
  <2>1. <<>> \in Seq(Seq(Symbols)) /\ Len(<<>>) = 0
    OBVIOUS
  <2> QED BY <2>1, Joined
<1>5. frames = <<>> /\ buffer = <<>> /\ <<>> \in Text /\ Len(<<>>) = 0
  BY DEF Init, Text
<1>6. Len(FlattenSeq(frames)) + Len(buffer) + Len(wire) <= Len(s)
  <2>1. Len(FlattenSeq(frames)) = 0 /\ Len(buffer) = 0
    BY <1>4, <1>5
  <2> QED BY <1>2, <1>3, <2>1
<1> QED BY <1>1, <1>3, <1>5, <1>6 DEF Bytewise

LEMMA BytewiseKept == FramingInv /\ Bytewise /\ [Next]_vars => Bytewise'
<1> SUFFICES ASSUME FramingInv, Bytewise, [Next]_vars PROVE Bytewise'
  OBVIOUS
<1>1. PICK s, m : s = Sent(pieces) /\ m = Len(s)
  OBVIOUS
<1>2. s \in Text /\ m \in Nat /\ frames \in Seq(Text)
  <2>1. s \in Text
    BY <1>1, SentIsText DEF FramingInv
  <2> QED BY <1>1, <2>1 DEF FramingInv, Text
<1>3. PICK e \in 0 .. m : wire = SubSeq(s, e + 1, m)
  BY <1>1 DEF Bytewise
<1>4. wire \in Seq(Symbols) /\ Len(wire) = m - e /\ e \in Nat /\ e <= m
  <2>1. e + 1 \in Nat /\ 1 <= e + 1 /\ e + 1 <= m + 1 /\ m <= Len(s) /\ m - (e + 1) + 1 = m - e /\ e \in Nat /\ e <= m
    BY <1>1, <1>2
  <2>2. SubSeq(s, e + 1, m) \in Seq(Symbols) /\ Len(SubSeq(s, e + 1, m)) = m - (e + 1) + 1
    BY <1>2, <2>1, Part DEF Text
  <2> QED BY <1>3, <2>1, <2>2
<1>5. PICK f, b, w : f = Len(FlattenSeq(frames)) /\ b = Len(buffer) /\ w = Len(wire)
  OBVIOUS
<1>6. f \in Nat /\ b \in Nat /\ w \in Nat /\ f + b + w <= m /\ buffer \in Text
  <2>1. FlattenSeq(frames) \in Text
    BY <1>2, JoinedText
  <2>2. buffer \in Text /\ f + b + w <= m
    BY <1>1, <1>5 DEF Bytewise
  <2>3. f \in Nat /\ b \in Nat /\ w \in Nat
    BY <1>4, <1>5, <2>1, <2>2 DEF Text
  <2> QED BY <2>2, <2>3
<1>7. PICK t : t = Trimmed
  OBVIOUS
<1>8. t \in Text /\ Len(t) \in Nat /\ Len(t) <= b
  <2>1. t = buffer \/ t = WithoutLeading(buffer, LineBytes)
    BY <1>7 DEF Trimmed
  <2>2. t \in Text /\ Len(t) <= b
    <3>1. CASE t = buffer
      BY <1>5, <1>6, <3>1
    <3>2. CASE t = WithoutLeading(buffer, LineBytes)
      BY <1>5, <1>6, <3>2, WithoutSome
    <3> QED BY <2>1, <3>1, <3>2
  <2> QED BY <2>2 DEF Text
<1>9. CASE \E n \in 1 .. MaxChunk : Recv(n)
  <2>1. PICK n \in 1 .. MaxChunk : Recv(n)
    BY <1>9
  <2>2. n \in Nat /\ n <= w /\ 1 <= n
    BY <1>5, <2>1, FramingConstants DEF Recv
  <2>3. PICK x, z : x = SubSeq(wire, 1, n) /\ z = SubSeq(wire, n + 1, w)
    OBVIOUS
  <2>4. x \in Text /\ Len(x) = n
    <3>1. 1 \in Nat /\ 1 <= 1 /\ 1 <= n + 1 /\ n <= Len(wire) /\ n - 1 + 1 = n
      BY <1>5, <2>2
    <3>2. SubSeq(wire, 1, n) \in Seq(Symbols) /\ Len(SubSeq(wire, 1, n)) = n - 1 + 1
      BY <1>4, <2>2, <3>1, Part
    <3> QED BY <2>3, <3>1, <3>2 DEF Text
  <2>5. Len(z) = w - n
    <3>1. n + 1 \in Nat /\ 1 <= n + 1 /\ n + 1 <= w + 1 /\ w <= Len(wire) /\ w - (n + 1) + 1 = w - n
      BY <1>5, <1>6, <2>2
    <3>2. Len(SubSeq(wire, n + 1, w)) = w - (n + 1) + 1
      BY <1>4, <1>6, <3>1, Part
    <3> QED BY <2>3, <3>1, <3>2
  <2>6. z = SubSeq(s, e + n + 1, m) /\ e + n \in 0 .. m
    <3>1. w = m - e
      BY <1>4, <1>5
    <3>2. /\ e + 1 \in Nat /\ 1 <= e + 1 /\ e + 1 <= m + 1 /\ m <= Len(s) /\ n + 1 \in Nat /\ 1 <= n + 1
          /\ n + 1 <= w + 1 /\ w <= m - (e + 1) + 1 /\ e + 1 + (n + 1) - 1 = e + n + 1 /\ e + 1 + w - 1 = m
          /\ e + n \in 0 .. m
      BY <1>1, <1>2, <1>4, <1>6, <2>2, <3>1
    <3>3. SubSeq(SubSeq(s, e + 1, m), n + 1, w) = SubSeq(s, e + 1 + (n + 1) - 1, e + 1 + w - 1)
      BY <1>2, <1>6, <3>2, PartOfPart DEF Text
    <3> QED BY <1>3, <2>3, <3>2, <3>3
  <2>7. buffer' = buffer \o x /\ wire' = z /\ UNCHANGED <<pieces, frames>>
    BY <1>5, <2>1, <2>3 DEF Recv
  <2>8. buffer' \in Text /\ Len(buffer') = b + n
    <3>1. buffer \in Seq(Symbols) /\ x \in Seq(Symbols)
      BY <1>6, <2>4 DEF Text
    <3>2. buffer \o x \in Seq(Symbols) /\ Len(buffer \o x) = Len(buffer) + Len(x)
      BY <3>1, ConcatProperties
    <3> QED BY <1>5, <2>4, <2>7, <3>2 DEF Text
  <2>9. f + (b + n) + (w - n) <= m
    BY <1>2, <1>6, <2>2
  <2>10. Sent(pieces') = s /\ Len(FlattenSeq(frames')) = f /\ Len(wire') = w - n
    BY <1>1, <1>5, <2>5, <2>7
  <2> QED BY <1>1, <2>6, <2>7, <2>8, <2>9, <2>10 DEF Bytewise
<1>10. CASE PopFrame
  <2>1. Step(t).kind = "frame" /\ UNCHANGED <<pieces, wire>>
    BY <1>7, <1>10 DEF PopFrame
  <2>2. PICK n \in 1 .. Len(t) : Step(t) = Frame(n)
    <3>1. Step(t) = Wait \/ \E json \in BOOLEAN : Step(t) = Decides(json, t)
      <4>1. ModeOf(t) \in {"unknown", "json", "text"}
        BY DEF ModeOf, FramingInv
      <4> QED BY <4>1 DEF Step, Decides
    <3>2. Step(t) # Wait
      BY <2>1 DEF Wait
    <3>3. Step(t) \in Decisions(t)
      BY <1>8, <3>1, <3>2, Decided
    <3> QED BY <2>1, <3>3 DEF Decisions, Wait, Fails
  <2>3. Step(t).length = n
    BY <2>2 DEF Frame
  <2>4. PICK x, z, l : x = SubSeq(t, 1, n) /\ l = Len(t) /\ z = SubSeq(t, n + 1, l)
    OBVIOUS
  <2>5. frames' = Append(frames, x) /\ buffer' = z
    BY <1>7, <1>10, <2>3, <2>4 DEF PopFrame, Rest
  <2>6. x \in Text /\ Len(x) = n /\ n \in Nat /\ n <= l
    <3>1. n \in 0 .. Len(t) /\ n \in Nat /\ n <= l
      BY <1>8, <2>4
    <3> QED BY <1>8, <2>4, <3>1, CommasOfPart
  <2>7. z \in Text /\ Len(z) = l - n
    <3>1. n + 1 \in Nat /\ 1 <= n + 1 /\ n + 1 <= l + 1 /\ l \in Nat /\ l <= Len(t) /\ l - (n + 1) + 1 = l - n
      BY <1>8, <2>4, <2>6
    <3>2. SubSeq(t, n + 1, l) \in Seq(Symbols) /\ Len(SubSeq(t, n + 1, l)) = l - (n + 1) + 1
      BY <1>8, <3>1, Part DEF Text
    <3> QED BY <2>4, <3>1, <3>2 DEF Text
  <2>8. Len(FlattenSeq(frames')) = f + n
    BY <1>2, <1>5, <2>5, <2>6, OneMoreList
  <2>9. f + n + (l - n) + w <= m
    BY <1>2, <1>6, <1>8, <2>4, <2>6
  <2>10. Sent(pieces') = s /\ wire' = wire /\ Len(wire') = w
    BY <1>1, <1>5, <2>1
  <2> QED BY <1>1, <1>3, <2>5, <2>7, <2>8, <2>9, <2>10 DEF Bytewise
<1>11. CASE PopFails \/ PopNothing
  <2>1. buffer' = t /\ UNCHANGED <<pieces, wire, frames>>
    BY <1>7, <1>11 DEF PopFails, PopNothing
  <2>2. Sent(pieces') = s /\ Len(FlattenSeq(frames')) = f /\ Len(wire') = w /\ wire' = wire
    BY <1>1, <1>5, <2>1
  <2>3. f + Len(t) + w <= m
    BY <1>2, <1>6, <1>8
  <2> QED BY <1>1, <1>3, <1>8, <2>1, <2>2, <2>3 DEF Bytewise
<1>12. CASE PartialTimeout \/ Closes \/ UNCHANGED vars
  <2>1. UNCHANGED <<pieces, wire, buffer, frames>> /\ Sent(pieces') = Sent(pieces)
    BY <1>12 DEF PartialTimeout, Closes, vars
  <2> QED BY <2>1 DEF Bytewise
<1> QED BY <1>9, <1>10, <1>11, <1>12 DEF Next

LEMMA LastPart ==
    ASSUME NEW t \in Text, NEW e \in 0 .. Len(t)
    PROVE  IsSuffix(SubSeq(t, e + 1, Len(t)), t)
<1>1. PICK w, m, n : w = SubSeq(t, e + 1, m) /\ m = Len(t) /\ n = m - e
  OBVIOUS
<1>2. m \in Nat /\ e \in Nat /\ e <= m /\ n \in Nat /\ n <= m
  BY <1>1 DEF Text
<1>3. w \in Seq(Symbols) /\ Len(w) = n /\ \A i \in 1 .. n : w[i] = t[e + i]
  <2>1. /\ e + 1 \in Nat /\ 1 <= e + 1 /\ e + 1 <= m + 1 /\ m <= Len(t) /\ m - (e + 1) + 1 = n
        /\ \A i \in 1 .. n : e + 1 + i - 1 = e + i
    BY <1>1, <1>2
  <2>2. /\ SubSeq(t, e + 1, m) \in Seq(Symbols) /\ Len(SubSeq(t, e + 1, m)) = m - (e + 1) + 1
        /\ \A i \in 1 .. m - (e + 1) + 1 : SubSeq(t, e + 1, m)[i] = t[e + 1 + i - 1]
    BY <1>2, <2>1, Part DEF Text
  <2> QED BY <1>1, <2>1, <2>2
<1>4. PICK x, y : x = Reverse(w) /\ y = Reverse(t)
  OBVIOUS
<1>5. x \in Seq(Symbols) /\ Len(x) = n /\ \A i \in 1 .. n : x[i] = w[n - i + 1]
  <2>1. x = [i \in 1 .. n |-> w[n - i + 1]]
    BY <1>3, <1>4 DEF Reverse
  <2>2. \A i \in 1 .. n : n - i + 1 \in 1 .. n
    BY <1>2
  <2>3. \A i \in 1 .. n : w[n - i + 1] \in Symbols
    BY <1>3, <2>2
  <2> QED BY <1>2, <2>1, <2>3
<1>6. y \in Seq(Symbols) /\ Len(y) = m /\ \A i \in 1 .. m : y[i] = t[m - i + 1]
  <2>1. y = [i \in 1 .. m |-> t[m - i + 1]]
    BY <1>1, <1>4 DEF Reverse
  <2>2. \A i \in 1 .. m : m - i + 1 \in 1 .. m
    BY <1>2
  <2>3. \A i \in 1 .. m : t[m - i + 1] \in Symbols
    BY <1>1, <2>2 DEF Text
  <2> QED BY <1>2, <2>1, <2>3
<1>7. ASSUME NEW i \in 1 .. n PROVE x[i] = y[i]
  <2>1. n - i + 1 \in 1 .. n /\ e + (n - i + 1) = m - i + 1 /\ i \in 1 .. m
    BY <1>1, <1>2
  <2> QED BY <1>3, <1>5, <1>6, <2>1
<1>8. SubSeq(x, 1, n) = x
  BY <1>5, SubSeqFull
<1>9. SubSeq(y, 1, n) = x
  <2>1. 1 \in Nat /\ 1 <= 1 /\ 1 <= n + 1 /\ n <= Len(y) /\ n - 1 + 1 = n /\ \A i \in 1 .. n : 1 + i - 1 = i
    BY <1>2, <1>6
  <2>2. /\ SubSeq(y, 1, n) \in Seq(Symbols) /\ Len(SubSeq(y, 1, n)) = n - 1 + 1
        /\ \A i \in 1 .. n - 1 + 1 : SubSeq(y, 1, n)[i] = y[1 + i - 1]
    BY <1>2, <1>6, <2>1, Part
  <2>3. \A i \in 1 .. n : SubSeq(y, 1, n)[i] = x[i]
    BY <1>7, <2>1, <2>2
  <2> QED BY <1>5, <2>1, <2>2, <2>3, SeqEqual
<1> QED BY <1>1, <1>2, <1>4, <1>5, <1>6, <1>8, <1>9 DEF IsSuffix, IsPrefix

(* The loops of StationPeer.run only take bytes from the front of the      *)
(* stream, none of them twice.                                             *)
THEOREM TypeCorrect == Spec => []TypeOK
<1>1. FramingInv /\ Bytewise => TypeOK
  <2> SUFFICES ASSUME FramingInv, Bytewise PROVE IsSuffix(wire, Sent(pieces))
    BY DEF FramingInv, Bytewise, TypeOK
  <2>1. Sent(pieces) \in Text
    BY SentIsText DEF FramingInv
  <2> QED BY <2>1, LastPart DEF Bytewise
<1> QED BY <1>1, AlwaysFramingInv, BytewiseHolds, BytewiseKept, PTL DEF Spec

=============================================================================
