--------------------------- MODULE WebLoginProofs ---------------------------
(***************************************************************************)
(* Safety of WebLogin for any number of addresses, browsers and threads,   *)
(* whatever the limits, the lifetime and the delays are: no more passwords *)
(* are tried than the limits say, and a login is valid for as long as it   *)
(* should be.                                                              *)
(***************************************************************************)
EXTENDS WebLogin, FiniteSetTheorems, SequenceTheorems, TLAPS

Try == [from : Addresses, age : Nat]

Of(tries, a) == {k \in DOMAIN tries : tries[k].from = a}

(* The list counts each of the tries in K, by a time that is late by the   *)
(* delay at most.                                                          *)
Counts(list, tries, K) ==
    \E m \in Injection(K, DOMAIN list) : \A k \in K : list[m[k]] <= tries[k].age + Delay

(* The tries that are remembered, oldest first                             *)
Young(tries) ==
    /\ \A k \in DOMAIN tries : tries[k].age < Window - Delay
    /\ \A k, l \in DOMAIN tries : k < l => tries[k].age >= tries[l].age

(* The addresses of the map are in the order of their last tries.          *)
InOrder(list, tries) == \A i, j \in DOMAIN list : i < j =>
    list[i] # list[j] /\ \A k \in Of(tries, list[i]) : \E l \in Of(tries, list[j]) : k < l

(* An address the map forgot too early made the first of as many tries as  *)
(* there may be in all: none is let through until that one is too old.     *)
Exhausted(a) == Len(admitted) = GlobalLimit /\ Of(admitted, a) \subseteq {1}

LimitTypes ==
    /\ recent \in Seq(Nat) /\ attempts \in [Addresses -> Seq(Nat)]
    /\ places \in Seq(Addresses) /\ admitted \in Seq(Try)

LimitsInv ==
    /\ LimitTypes /\ Young(admitted) /\ InOrder(places, admitted) /\ Len(places) <= MapLimit
    /\ Len(recent) <= GlobalLimit /\ Counts(recent, admitted, DOMAIN admitted)
    /\ \A a \in Addresses :
          /\ Len(attempts[a]) <= LocalLimit
          /\ Counts(attempts[a], admitted, Of(admitted, a)) \/ Exhausted(a)

-----------------------------------------------------------------------------
(* Numbers and lists                                                       *)

(* Among some natural numbers there is a least one.                        *)
LEMMA LeastNumber ==
    ASSUME NEW T \in SUBSET Nat, T # {}
    PROVE  Min(T) \in T /\ \A n \in T : Min(T) <= n
<1>1. PICK x \in T : \A y \in T : ~(<<y, x>> \in OpToRel(<, Nat))
  BY NatLessThanWellFounded, WFMin
<1>2. \A y \in T : x <= y
  <2>1. ASSUME NEW y \in T, y < x PROVE FALSE
    BY <1>1, <2>1 DEF OpToRel
  <2> QED BY <2>1
<1> QED BY <1>2 DEF Min

(* How many numbers there are from a to b                                  *)
LEMMA Interval ==
    ASSUME NEW a \in Int, NEW b \in Int, b + 1 >= a
    PROVE  IsFiniteSet(a .. b) /\ Cardinality(a .. b) = b - a + 1
<1>1. IsFiniteSet(a .. b) /\ Cardinality(a .. b) = IF a > b THEN 0 ELSE b - a + 1
  BY FS_Interval
<1>2. a > b => b - a + 1 = 0
  OBVIOUS
<1> QED BY <1>1, <1>2

(* A list from a certain place on: d entries go.                           *)
LEMMA SinceDrops ==
    ASSUME NEW S, NEW list \in Seq(S), NEW kept \in SUBSET DOMAIN list
    PROVE  \E d \in 0 .. Len(list) :
              /\ Since(list, kept) \in Seq(S) /\ Len(Since(list, kept)) = Len(list) - d
              /\ \A i \in 1 .. Len(list) - d : Since(list, kept)[i] = list[i + d]
              /\ \A i \in kept : i > d
              /\ d < Len(list) => d + 1 \in kept
<1>1. CASE kept = {}
  <2>1. Since(list, kept) = <<>>
    BY <1>1 DEF Since
  <2>2. PICK d \in 0 .. Len(list) : d = Len(list)
    OBVIOUS
  <2>3. Len(list) - d = 0 /\ ~(d < Len(list)) /\ \A i \in 1 .. 0 : FALSE
    BY <2>2
  <2>4. <<>> \in Seq(S) /\ Len(<<>>) = 0
    OBVIOUS
  <2>5. /\ Since(list, kept) \in Seq(S) /\ Len(Since(list, kept)) = Len(list) - d
        /\ \A i \in 1 .. Len(list) - d : Since(list, kept)[i] = list[i + d]
    BY <2>1, <2>3, <2>4
  <2> QED BY <1>1, <2>3, <2>5
<1>2. CASE kept # {}
  <2>1. Min(kept) \in kept /\ \A n \in kept : Min(kept) <= n
    <3>1. kept \in SUBSET Nat
      OBVIOUS
    <3> QED BY <1>2, <3>1, LeastNumber
  <2>2. PICK d : d = Min(kept) - 1
    OBVIOUS
  <2>3. d + 1 \in 1 .. Len(list) /\ d + 1 = Min(kept) /\ d \in 0 .. Len(list)
    BY <2>1, <2>2
  <2>4. Since(list, kept) = SubSeq(list, d + 1, Len(list))
    BY <1>2, <2>3 DEF Since
  <2>5. /\ SubSeq(list, d + 1, Len(list)) \in Seq(S) /\ Len(SubSeq(list, d + 1, Len(list))) = Len(list) - d
        /\ \A i \in 1 .. Len(list) - d : SubSeq(list, d + 1, Len(list))[i] = list[i + d]
    BY <2>3
  <2>6. \A i \in kept : i > d
    BY <2>1, <2>2
  <2> QED BY <2>1, <2>3, <2>4, <2>5, <2>6
<1> QED BY <1>1, <1>2

-----------------------------------------------------------------------------
(* What a list counts                                                      *)

(* No more than it has entries                                             *)
LEMMA CountedAtMost ==
    ASSUME NEW list \in Seq(Nat), NEW tries, NEW K, Counts(list, tries, K)
    PROVE  IsFiniteSet(K) /\ Cardinality(K) <= Len(list) /\ Cardinality(K) \in Nat
<1>1. PICK m \in Injection(K, DOMAIN list) : TRUE
  BY DEF Counts
<1>2. IsFiniteSet(1 .. Len(list)) /\ Cardinality(1 .. Len(list)) = Len(list)
  <2>1. Len(list) \in Int /\ Len(list) + 1 >= 1 /\ Len(list) - 1 + 1 = Len(list)
    OBVIOUS
  <2> QED BY <2>1, Interval
<1>3. DOMAIN list = 1 .. Len(list)
  OBVIOUS
<1>4. m \in Injection(K, 1 .. Len(list))
  BY <1>1, <1>3
<1>5. IsFiniteSet(K) /\ Cardinality(K) <= Cardinality(1 .. Len(list))
  BY <1>2, <1>4, FS_Injection
<1> QED BY <1>2, <1>5, FS_CardinalityType

(* A list whose first entries go still counts the others; and every age    *)
(* may go up by one.                                                       *)
LEMMA CountsStill ==
    ASSUME NEW list \in Seq(Nat), NEW tries, NEW K, NEW m \in Injection(K, DOMAIN list),
           \A k \in K : list[m[k]] <= tries[k].age + Delay, \A k \in K : tries[k].age \in Nat,
           NEW d \in 0 .. Len(list), NEW rest \in Seq(Nat), Len(rest) = Len(list) - d,
           \A i \in 1 .. Len(list) - d : rest[i] = list[i + d],
           \A k \in K : m[k] > d
    PROVE  Counts(rest, tries, K)
<1> DEFINE n == [k \in K |-> m[k] - d]
<1>1. m \in [K -> 1 .. Len(list)] /\ \A k, l \in K : m[k] = m[l] => k = l
  BY DEF Injection, IsInjective
<1>2. \A k \in K : n[k] \in 1 .. Len(rest) /\ rest[n[k]] = list[m[k]]
  BY <1>1
<1>3. n \in Injection(K, DOMAIN rest)
  <2>1. n \in [K -> DOMAIN rest]
    BY <1>2
  <2>2. ASSUME NEW k \in K, NEW l \in K, n[k] = n[l] PROVE k = l
    BY <1>1, <2>2
  <2> QED BY <2>1, <2>2 DEF Injection, IsInjective
<1> QED BY <1>2, <1>3 DEF Counts

(* The entries that are too old for a thread are none that count.          *)
LEMMA DropCounts ==
    ASSUME NEW list \in Seq(Nat), NEW lag \in 0 .. Delay
    PROVE  /\ Drop(list, lag) \in Seq(Nat) /\ Len(Drop(list, lag)) <= Len(list)
           /\ \A tries \in Seq(Try) : \A K \in SUBSET DOMAIN tries :
                 Young(tries) /\ Counts(list, tries, K) => Counts(Drop(list, lag), tries, K)
<1> DEFINE kept == {i \in DOMAIN list : list[i] < Window + lag}
<1>0. Delay \in Nat /\ Window \in Nat
  BY LoginConstants
<1>1. PICK d \in 0 .. Len(list) :
         /\ Drop(list, lag) \in Seq(Nat) /\ Len(Drop(list, lag)) = Len(list) - d
         /\ \A i \in 1 .. Len(list) - d : Drop(list, lag)[i] = list[i + d]
         /\ \A i \in kept : i > d
  BY SinceDrops DEF Drop
<1>2. ASSUME NEW tries \in Seq(Try), NEW K \in SUBSET DOMAIN tries, Young(tries), Counts(list, tries, K)
      PROVE  Counts(Drop(list, lag), tries, K)
  <2>1. PICK m \in Injection(K, DOMAIN list) : \A k \in K : list[m[k]] <= tries[k].age + Delay
    BY <1>2 DEF Counts
  <2>2. \A k \in K : tries[k].age \in Nat /\ tries[k].age < Window - Delay
    <3>1. \A k \in K : tries[k] \in Try
      BY <1>2
    <3> QED BY <1>2, <3>1 DEF Try, Young
  <2>3. \A k \in K : m[k] \in kept
    <3>1. ASSUME NEW k \in K PROVE m[k] \in DOMAIN list /\ list[m[k]] \in Nat
      BY DEF Injection
    <3>2. ASSUME NEW k \in K PROVE list[m[k]] < Window + lag
      <4>1. list[m[k]] \in Nat /\ tries[k].age \in Nat /\ list[m[k]] <= tries[k].age + Delay
        BY <2>1, <2>2, <3>1, <3>2
      <4>2. tries[k].age + Delay < Window
        BY <1>0, <2>2, <4>1
      <4> QED BY <1>0, <4>1, <4>2
    <3> QED BY <3>1, <3>2
  <2> HIDE DEF kept
  <2> QED BY <1>1, <2>1, <2>2, <2>3, CountsStill
<1> QED BY <1>1, <1>2

(* A new try is counted when it is let through.                            *)
LEMMA AppendCounts ==
    ASSUME NEW list \in Seq(Nat), NEW tries \in Seq(Try), NEW K \in SUBSET DOMAIN tries,
           Counts(list, tries, K), NEW lag \in 0 .. Delay, NEW a \in Addresses
    PROVE  /\ Counts(list, Append(tries, [from |-> a, age |-> 0]), K)
           /\ Counts(Append(list, lag), Append(tries, [from |-> a, age |-> 0]), K \cup {Len(tries) + 1})
<1>0. Delay \in Nat
  BY LoginConstants
<1>1. PICK m \in Injection(K, DOMAIN list) : \A k \in K : list[m[k]] <= tries[k].age + Delay
  BY DEF Counts
<1>2. PICK more : more = Append(tries, [from |-> a, age |-> 0])
  OBVIOUS
<1>3. (\A k \in K : more[k] = tries[k]) /\ more[Len(tries) + 1].age = 0 /\ Len(tries) + 1 \notin K
  BY <1>2
<1>4. Counts(list, more, K)
  BY <1>1, <1>3 DEF Counts
<1>5. PICK longer : longer = Append(list, lag)
  OBVIOUS
<1>6. /\ DOMAIN longer = 1 .. Len(list) + 1 /\ longer[Len(list) + 1] = lag /\ DOMAIN list = 1 .. Len(list)
      /\ \A i \in DOMAIN list : longer[i] = list[i]
  BY <1>5
<1> DEFINE both == K \cup {Len(tries) + 1}
           n == [k \in both |-> IF k = Len(tries) + 1 THEN Len(list) + 1 ELSE m[k]]
<1>7. \A k \in K : m[k] \in DOMAIN list /\ n[k] = m[k]
  BY <1>3 DEF Injection
<1>8. n \in Injection(both, DOMAIN longer)
  <2>1. n \in [both -> DOMAIN longer]
    BY <1>6, <1>7
  <2>2. ASSUME NEW k \in both, NEW l \in both, n[k] = n[l] PROVE k = l
    <3>1. \A i \in DOMAIN list : i # Len(list) + 1
      BY <1>6
    <3>2. CASE k \in K /\ l \in K
      BY <1>7, <2>2, <3>2 DEF Injection, IsInjective
    <3>3. CASE ~(k \in K /\ l \in K)
      BY <1>7, <2>2, <3>1, <3>3
    <3> QED BY <3>2, <3>3
  <2> QED BY <2>1, <2>2 DEF Injection, IsInjective
<1>9. \A k \in both : longer[n[k]] <= more[k].age + Delay
  <2>1. ASSUME NEW k \in K PROVE longer[n[k]] <= more[k].age + Delay
    BY <1>1, <1>3, <1>6, <1>7
  <2>2. longer[n[Len(tries) + 1]] <= more[Len(tries) + 1].age + Delay
    BY <1>0, <1>3, <1>6
  <2> QED BY <2>1, <2>2
<1>10. Counts(longer, more, both)
  BY <1>8, <1>9 DEF Counts
<1> QED BY <1>2, <1>4, <1>5, <1>10

-----------------------------------------------------------------------------
(* The order of the map                                                    *)

(* A list without its entry k                                              *)
LEMMA Without ==
    ASSUME NEW S, NEW list \in Seq(S), NEW k \in DOMAIN list
    PROVE  /\ RemoveAt(list, k) \in Seq(S) /\ Len(RemoveAt(list, k)) = Len(list) - 1
           /\ \A i \in 1 .. Len(list) - 1 : RemoveAt(list, k)[i] = IF i < k THEN list[i] ELSE list[i + 1]
<1>1. PICK s, r : s = SubSeq(list, 1, k - 1) /\ r = SubSeq(list, k + 1, Len(list))
  OBVIOUS
<1>2. s \in Seq(S) /\ Len(s) = k - 1 /\ \A i \in 1 .. k - 1 : s[i] = list[i]
  BY <1>1
<1>3. r \in Seq(S) /\ Len(r) = Len(list) - k /\ \A i \in 1 .. Len(list) - k : r[i] = list[i + k]
  <2>1. k + 1 <= Len(list) + 1 /\ k + 1 >= 1 /\ Len(list) \in Nat /\ k \in Nat
    OBVIOUS
  <2> QED BY <1>1, <2>1
<1>4. s \o r \in Seq(S) /\ Len(s \o r) = Len(list) - 1
  BY <1>2, <1>3
<1>5. ASSUME NEW i \in 1 .. Len(list) - 1
      PROVE  (s \o r)[i] = IF i < k THEN list[i] ELSE list[i + 1]
  <2>1. (s \o r)[i] = IF i <= Len(s) THEN s[i] ELSE r[i - Len(s)]
    BY <1>2, <1>3
  <2>2. CASE i < k
    BY <1>2, <2>1, <2>2
  <2>3. CASE ~(i < k)
    <3>1. i - (k - 1) \in 1 .. Len(list) - k /\ (i - (k - 1)) + k = i + 1 /\ ~(i <= k - 1)
      BY <2>3
    <3>2. r[i - (k - 1)] = list[i + 1]
      BY <1>3, <3>1
    <3> QED BY <1>2, <2>1, <2>3, <3>1, <3>2
  <2> QED BY <2>2, <2>3
<1> QED BY <1>1, <1>4, <1>5 DEF RemoveAt

Before(list, x, y) == \E p, q \in DOMAIN list : p < q /\ x = list[p] /\ y = list[q]

(* The address is the last then; the others stay in their order.           *)
LEMMA MovedToEnd ==
    ASSUME NEW list \in Seq(Addresses), NEW a \in Addresses,
           \A i, j \in DOMAIN list : i < j => list[i] # list[j]
    PROVE  /\ MoveToEnd(list, a) \in Seq(Addresses)
           /\ Len(MoveToEnd(list, a)) >= 1 /\ Len(MoveToEnd(list, a)) <= Len(list) + 1
           /\ MoveToEnd(list, a)[Len(MoveToEnd(list, a))] = a
           /\ \A i \in 1 .. Len(MoveToEnd(list, a)) - 1 : MoveToEnd(list, a)[i] # a
           /\ \A i, j \in 1 .. Len(MoveToEnd(list, a)) - 1 : i < j =>
                 Before(list, MoveToEnd(list, a)[i], MoveToEnd(list, a)[j])
<1>1. CASE ~Contains(list, a)
  <2>1. MoveToEnd(list, a) = Append(list, a)
    BY <1>1 DEF MoveToEnd
  <2>2. \A i \in DOMAIN list : list[i] # a
    BY <1>1 DEF Contains
  <2>3. \A i, j \in DOMAIN list : i < j => Before(list, list[i], list[j])
    BY DEF Before
  <2>4. PICK moved : moved = Append(list, a)
    OBVIOUS
  <2>5. /\ moved \in Seq(Addresses) /\ Len(moved) = Len(list) + 1 /\ moved[Len(list) + 1] = a
        /\ DOMAIN list = 1 .. Len(list) /\ \A i \in 1 .. Len(list) : moved[i] = list[i]
        /\ Len(moved) - 1 = Len(list)
    BY <2>4
  <2> QED BY <2>1, <2>2, <2>3, <2>4, <2>5
<1>2. CASE Contains(list, a)
  <2>1. PICK k : k = CHOOSE i \in DOMAIN list : list[i] = a
    OBVIOUS
  <2>2. k \in DOMAIN list /\ list[k] = a
    BY <1>2, <2>1 DEF Contains
  <2>3. PICK rest : rest = RemoveAt(list, k)
    OBVIOUS
  <2>4. /\ rest \in Seq(Addresses) /\ Len(rest) = Len(list) - 1
        /\ \A i \in 1 .. Len(list) - 1 : rest[i] = IF i < k THEN list[i] ELSE list[i + 1]
    BY <2>2, <2>3, Without
  <2>5. MoveToEnd(list, a) = Append(rest, a)
    BY <1>2, <2>1, <2>3 DEF MoveToEnd
  <2>6. PICK moved : moved = Append(rest, a)
    OBVIOUS
  <2>7. /\ moved \in Seq(Addresses) /\ Len(moved) = Len(list) /\ moved[Len(list)] = a
        /\ \A i \in 1 .. Len(list) - 1 : moved[i] = IF i < k THEN list[i] ELSE list[i + 1]
    <3>1. /\ moved \in Seq(Addresses) /\ Len(moved) = Len(rest) + 1 /\ moved[Len(rest) + 1] = a
          /\ \A i \in 1 .. Len(rest) : moved[i] = rest[i]
      BY <2>4, <2>6
    <3> QED BY <2>4, <3>1
  <2>8. ASSUME NEW i \in 1 .. Len(list) - 1
        PROVE  \E p \in DOMAIN list : moved[i] = list[p] /\ p # k /\ p = IF i < k THEN i ELSE i + 1
    BY <2>2, <2>7
  <2>9. ASSUME NEW i \in 1 .. Len(list) - 1 PROVE moved[i] # a
    <3>1. PICK p \in DOMAIN list : moved[i] = list[p] /\ p # k
      BY <2>8
    <3>2. p < k \/ k < p
      BY <2>2, <3>1
    <3> QED BY <2>2, <3>1, <3>2
  <2>10. ASSUME NEW i \in 1 .. Len(list) - 1, NEW j \in 1 .. Len(list) - 1, i < j
         PROVE  Before(list, moved[i], moved[j])
    <3>1. PICK p \in DOMAIN list : moved[i] = list[p] /\ p = IF i < k THEN i ELSE i + 1
      BY <2>8
    <3>2. PICK q \in DOMAIN list : moved[j] = list[q] /\ q = IF j < k THEN j ELSE j + 1
      BY <2>8
    <3>3. p < q
      BY <2>2, <2>10, <3>1, <3>2
    <3> QED BY <3>1, <3>2, <3>3 DEF Before
  <2>11. Len(list) >= 1
    BY <2>2
  <2>12. Len(moved) >= 1 /\ Len(moved) <= Len(list) + 1 /\ 1 .. Len(moved) - 1 = 1 .. Len(list) - 1
    BY <2>7, <2>11
  <2>13. moved[Len(moved)] = a /\ moved \in Seq(Addresses)
    BY <2>7
  <2>14. \A i \in 1 .. Len(moved) - 1 : moved[i] # a
    BY <2>9, <2>12
  <2>15. \A i, j \in 1 .. Len(moved) - 1 : i < j =>
            Before(list, moved[i], moved[j])
    BY <2>10, <2>12
  <2>16. MoveToEnd(list, a) = moved
    BY <2>5, <2>6
  <2> QED BY <2>12, <2>13, <2>14, <2>15, <2>16
<1> QED BY <1>1, <1>2

(* What is let through keeps the order.                                    *)
LEMMA MovedInOrder ==
    ASSUME NEW list \in Seq(Addresses), NEW tries \in Seq(Try), InOrder(list, tries), NEW a \in Addresses
    PROVE  InOrder(MoveToEnd(list, a), Append(tries, [from |-> a, age |-> 0]))
<1>1. PICK moved, more : moved = MoveToEnd(list, a) /\ more = Append(tries, [from |-> a, age |-> 0])
  OBVIOUS
<1>2. /\ moved \in Seq(Addresses) /\ moved[Len(moved)] = a
      /\ \A i \in 1 .. Len(moved) - 1 : moved[i] # a
      /\ \A i, j \in 1 .. Len(moved) - 1 : i < j =>
            Before(list, moved[i], moved[j])
  <2>1. \A i, j \in DOMAIN list : i < j => list[i] # list[j]
    BY DEF InOrder
  <2>2. /\ MoveToEnd(list, a) \in Seq(Addresses) /\ MoveToEnd(list, a)[Len(MoveToEnd(list, a))] = a
        /\ \A i \in 1 .. Len(MoveToEnd(list, a)) - 1 : MoveToEnd(list, a)[i] # a
        /\ \A i, j \in 1 .. Len(MoveToEnd(list, a)) - 1 : i < j =>
              Before(list, MoveToEnd(list, a)[i], MoveToEnd(list, a)[j])
    BY <2>1, MovedToEnd
  <2> QED BY <1>1, <2>2
<1>3. Of(more, a) = Of(tries, a) \cup {Len(tries) + 1} /\ \A p : p # a => Of(more, p) = Of(tries, p)
  <2>1. /\ DOMAIN more = 1 .. Len(tries) + 1 /\ DOMAIN tries = 1 .. Len(tries)
        /\ more[Len(tries) + 1].from = a /\ \A k \in DOMAIN tries : more[k] = tries[k]
    BY <1>1
  <2> QED BY <2>1 DEF Of
<1>4. ASSUME NEW i \in DOMAIN moved, NEW j \in DOMAIN moved, i < j
      PROVE  moved[i] # moved[j] /\ \A k \in Of(more, moved[i]) : \E l \in Of(more, moved[j]) : k < l
  <2>1. i \in 1 .. Len(moved) - 1
    BY <1>2, <1>4
  <2>2. CASE j = Len(moved)
    <3>1. \A k \in Of(tries, moved[i]) : k < Len(tries) + 1
      BY DEF Of
    <3> QED BY <1>2, <1>3, <2>1, <2>2, <3>1
  <2>3. CASE j # Len(moved)
    <3>1. j \in 1 .. Len(moved) - 1
      BY <1>2, <2>3
    <3>2. PICK p, q \in DOMAIN list : p < q /\ moved[i] = list[p] /\ moved[j] = list[q]
      BY <1>2, <1>4, <2>1, <3>1 DEF Before
    <3>3. moved[i] # a /\ moved[j] # a
      BY <1>2, <2>1, <3>1
    <3> QED BY <1>3, <3>2, <3>3 DEF InOrder
  <2> QED BY <2>2, <2>3
<1> QED BY <1>1, <1>4 DEF InOrder

(* The address that makes room has no try among those remembered, unless   *)
(* the map is as small as it may be; then it made the first of as many as  *)
(* there may be.                                                           *)
LEMMA EvictedAreOld ==
    ASSUME NEW list \in Seq(Addresses), NEW tries \in Seq(Try), InOrder(list, tries),
           Len(list) > MapLimit, Len(tries) <= GlobalLimit, NEW k \in Of(tries, list[1])
    PROVE  k = 1 /\ Len(tries) = GlobalLimit
<1>1. MapLimit \in Nat /\ GlobalLimit \in Nat /\ MapLimit >= GlobalLimit - 1
  BY LoginConstants
<1>2. k \in 1 .. Len(tries) /\ Len(list) \in Nat /\ Len(list) >= 1 /\ Len(tries) \in Nat
  BY <1>1 DEF Of
<1>0. PICK f : f = [j \in 2 .. Len(list) |-> CHOOSE l \in Of(tries, list[j]) : k < l]
  OBVIOUS
<1>3. ASSUME NEW j \in 2 .. Len(list)
      PROVE  f[j] \in Of(tries, list[j]) /\ k < f[j]
  <2>1. 1 \in DOMAIN list /\ j \in DOMAIN list /\ 1 < j
    BY <1>2
  <2>2. \E l \in Of(tries, list[j]) : k < l
    BY <2>1 DEF InOrder
  <2> QED BY <1>0, <2>2
<1>4. f \in Injection(2 .. Len(list), k + 1 .. Len(tries))
  <2>1. \A j \in 2 .. Len(list) : f[j] \in k + 1 .. Len(tries) /\ tries[f[j]].from = list[j]
    <3>1. ASSUME NEW j \in 2 .. Len(list), NEW l \in Of(tries, list[j]), k < l
          PROVE  l \in k + 1 .. Len(tries) /\ tries[l].from = list[j]
      BY <1>2, <3>1 DEF Of
    <3> QED BY <1>3, <3>1
  <2>2. ASSUME NEW i \in 2 .. Len(list), NEW j \in 2 .. Len(list), f[i] = f[j] PROVE i = j
    <3>1. list[i] = list[j] /\ i \in DOMAIN list /\ j \in DOMAIN list
      BY <2>1, <2>2
    <3>2. ~(i < j) /\ ~(j < i)
      BY <3>1 DEF InOrder
    <3> QED BY <3>2
  <2>3. f \in [2 .. Len(list) -> k + 1 .. Len(tries)]
    BY <1>0, <2>1
  <2> QED BY <2>2, <2>3 DEF Injection, IsInjective
<1>5. Cardinality(2 .. Len(list)) <= Cardinality(k + 1 .. Len(tries))
  <2>1. IsFiniteSet(k + 1 .. Len(tries))
    BY <1>2, Interval
  <2> QED BY <1>4, <2>1, FS_Injection
<1>6. Cardinality(2 .. Len(list)) = Len(list) - 1
  <2>1. 2 \in Int /\ Len(list) \in Int /\ Len(list) + 1 >= 2
    BY <1>2
  <2>2. Cardinality(2 .. Len(list)) = Len(list) - 2 + 1
    BY <2>1, Interval
  <2> QED BY <2>1, <2>2
<1>7. Cardinality(k + 1 .. Len(tries)) = Len(tries) - k
  <2>1. k + 1 \in Int /\ Len(tries) \in Int /\ Len(tries) + 1 >= k + 1
    BY <1>2
  <2>2. Cardinality(k + 1 .. Len(tries)) = Len(tries) - (k + 1) + 1
    BY <2>1, Interval
  <2> QED BY <1>2, <2>1, <2>2
<1> QED BY <1>1, <1>2, <1>5, <1>6, <1>7

-----------------------------------------------------------------------------
(* The limits, step by step                                                *)

(* Nothing is always counted.                                              *)
LEMMA NothingCounts ==
    ASSUME NEW list, NEW tries
    PROVE  Counts(list, tries, {})
<1>1. PICK m : m = [k \in {} |-> 0]
  OBVIOUS
<1>2. m \in [{} -> DOMAIN list]
  BY <1>1
<1>3. m \in Injection({}, DOMAIN list)
  BY <1>2 DEF Injection, IsInjective
<1> QED BY <1>3 DEF Counts

(* When time goes on all ages go up, and the oldest tries are forgotten.   *)
LEMMA AgedCounts ==
    ASSUME NEW list \in Seq(Nat), NEW tries \in Seq(Try), NEW K \in SUBSET DOMAIN tries,
           Counts(list, tries, K),
           NEW older \in Seq(Nat), DOMAIN older = DOMAIN list, \A i \in DOMAIN list : older[i] <= list[i] + 1,
           NEW d \in Nat, NEW left, NEW L \in SUBSET Nat,
           \A k \in L : k + d \in K /\ left[k].age = tries[k + d].age + 1
    PROVE  Counts(older, left, L)
<1>1. PICK m \in Injection(K, DOMAIN list) : \A k \in K : list[m[k]] <= tries[k].age + Delay
  BY DEF Counts
<1>2. PICK n : n = [k \in L |-> m[k + d]]
  OBVIOUS
<1>3. \A k \in K : m[k] \in DOMAIN list /\ list[m[k]] \in Nat /\ older[m[k]] \in Nat
  BY DEF Injection
<1>4. n \in Injection(L, DOMAIN older)
  <2>1. n \in [L -> DOMAIN older]
    BY <1>2, <1>3
  <2>2. ASSUME NEW k \in L, NEW l \in L, n[k] = n[l] PROVE k = l
    <3>1. k + d = l + d
      BY <1>2, <2>2 DEF Injection, IsInjective
    <3> QED BY <3>1
  <2> QED BY <2>1, <2>2 DEF Injection, IsInjective
<1>5. ASSUME NEW k \in L PROVE older[n[k]] <= left[k].age + Delay
  <2>1. n[k] = m[k + d] /\ k + d \in K /\ left[k].age = tries[k + d].age + 1
    BY <1>2
  <2>2. tries[k + d].age \in Nat /\ Delay \in Nat
    <3>1. tries[k + d] \in Try
      BY <2>1
    <3> QED BY <3>1, LoginConstants DEF Try
  <2>3. list[m[k + d]] <= tries[k + d].age + Delay /\ older[m[k + d]] <= list[m[k + d]] + 1
    BY <1>1, <1>3, <2>1
  <2>4. list[m[k + d]] \in Nat /\ older[m[k + d]] \in Nat
    BY <1>3, <2>1
  <2>5. older[m[k + d]] <= tries[k + d].age + 1 + Delay
    <3>1. \A x, y, z, late \in Nat : y <= x + late /\ z <= y + 1 => z <= x + 1 + late
      OBVIOUS
    <3> QED BY <2>2, <2>3, <2>4, <3>1
  <2>6. tries[k + d].age + 1 + Delay = left[k].age + Delay
    BY <2>1
  <2> QED BY <2>1, <2>5, <2>6
<1> QED BY <1>4, <1>5 DEF Counts

(* A list of ages goes up by one.                                          *)
LEMMA OlderList ==
    ASSUME NEW list \in Seq(Nat)
    PROVE  /\ [i \in DOMAIN list |-> Older(list[i])] \in Seq(Nat)
           /\ DOMAIN [i \in DOMAIN list |-> Older(list[i])] = DOMAIN list
           /\ Len([i \in DOMAIN list |-> Older(list[i])]) = Len(list)
           /\ \A i \in DOMAIN list : [k \in DOMAIN list |-> Older(list[k])][i] <= list[i] + 1
<1>1. PICK older : older = [i \in DOMAIN list |-> Older(list[i])]
  OBVIOUS
<1>2. \A i \in DOMAIN list : Older(list[i]) \in Nat /\ Older(list[i]) <= list[i] + 1
  BY DEF Older
<1>3. DOMAIN list = 1 .. Len(list) /\ Len(list) \in Nat
  OBVIOUS
<1>4. older \in [1 .. Len(list) -> Nat] /\ DOMAIN older = DOMAIN list
  BY <1>1, <1>2, <1>3
<1>5. older \in Seq(Nat) /\ Len(older) = Len(list)
  BY <1>3, <1>4
<1> QED BY <1>1, <1>2, <1>4, <1>5

(* What is left of the tries                                               *)
LEMMA TickForgets ==
    ASSUME LimitTypes, Young(admitted), Tick
    PROVE  \E d \in Nat :
              /\ admitted' \in Seq(Try) /\ Len(admitted') = Len(admitted) - d
              /\ \A k \in DOMAIN admitted' :
                    /\ k + d \in DOMAIN admitted /\ admitted'[k].from = admitted[k + d].from
                    /\ admitted'[k].age = admitted[k + d].age + 1
              /\ Young(admitted')
<1>1. PICK aged : aged = [i \in DOMAIN admitted |-> [admitted[i] EXCEPT !.age = @ + 1]]
  OBVIOUS
<1>2. DOMAIN admitted = 1 .. Len(admitted) /\ Len(admitted) \in Nat /\ \A i \in DOMAIN admitted : admitted[i] \in Try
  BY DEF LimitTypes
<1>3. \A i \in DOMAIN admitted :
         /\ aged[i] \in Try /\ aged[i].from = admitted[i].from /\ aged[i].age = admitted[i].age + 1
  BY <1>1, <1>2 DEF Try
<1>4. aged \in Seq(Try) /\ Len(aged) = Len(admitted) /\ DOMAIN aged = DOMAIN admitted
  <2>1. aged \in [1 .. Len(admitted) -> Try]
    BY <1>1, <1>2, <1>3
  <2> QED BY <1>2, <2>1
<1>5. PICK kept : kept = {i \in DOMAIN aged : aged[i].age < Window - Delay}
  OBVIOUS
<1>6. admitted' = Since(aged, kept)
  BY <1>1, <1>5 DEF Tick, Recall
<1>7. PICK d \in 0 .. Len(aged) :
         /\ Since(aged, kept) \in Seq(Try) /\ Len(Since(aged, kept)) = Len(aged) - d
         /\ \A i \in 1 .. Len(aged) - d : Since(aged, kept)[i] = aged[i + d]
         /\ d < Len(aged) => d + 1 \in kept
  <2>1. kept \in SUBSET DOMAIN aged
    BY <1>5
  <2> QED BY <1>4, <2>1, SinceDrops
<1>8. /\ admitted' \in Seq(Try) /\ Len(admitted') = Len(admitted) - d /\ DOMAIN admitted' = 1 .. Len(admitted) - d
      /\ \A k \in DOMAIN admitted' : k + d \in DOMAIN admitted /\ k \in Nat /\ admitted'[k] = aged[k + d]
  BY <1>2, <1>4, <1>6, <1>7
<1>9. ASSUME NEW k \in DOMAIN admitted', NEW l \in DOMAIN admitted', k < l
      PROVE  admitted'[k].age >= admitted'[l].age
  <2>1. k + d < l + d /\ k + d \in DOMAIN admitted /\ l + d \in DOMAIN admitted
    BY <1>8, <1>9
  <2>2. admitted[k + d].age >= admitted[l + d].age /\ admitted[k + d].age \in Nat /\ admitted[l + d].age \in Nat
    BY <1>2, <2>1 DEF Young, Try
  <2>3. admitted'[k].age = admitted[k + d].age + 1 /\ admitted'[l].age = admitted[l + d].age + 1
    BY <1>3, <1>8, <2>1
  <2> QED BY <2>2, <2>3
<1>10. ASSUME NEW k \in DOMAIN admitted' PROVE admitted'[k].age < Window - Delay
  <2>1. 1 \in DOMAIN admitted' /\ d < Len(aged) /\ k >= 1
    BY <1>4, <1>8
  <2>2. admitted'[1].age < Window - Delay
    <3>0. d + 1 = 1 + d
      BY <1>7
    <3>1. d + 1 \in kept /\ admitted'[1] = aged[d + 1]
      BY <1>7, <1>8, <2>1, <3>0
    <3> QED BY <1>5, <3>1
  <2>3. admitted'[1].age \in Nat /\ admitted'[k].age \in Nat /\ Window - Delay \in Int
    <3>1. admitted'[1] \in Try /\ admitted'[k] \in Try
      BY <1>8, <2>1
    <3> QED BY <3>1, LoginConstants DEF Try
  <2>4. admitted'[1].age >= admitted'[k].age
    <3>1. k = 1 \/ 1 < k
      BY <1>8
    <3> QED BY <1>9, <2>1, <2>3, <3>1
  <2> QED BY <2>2, <2>3, <2>4
<1>11. Young(admitted')
  BY <1>9, <1>10 DEF Young
<1>12. d \in Nat
  BY <1>7
<1> QED BY <1>3, <1>8, <1>11, <1>12

(* Time goes on.                                                           *)
LEMMA TickLimits ==
    ASSUME LimitsInv, Tick
    PROVE  LimitsInv'
<1>1. PICK d \in Nat :
         /\ admitted' \in Seq(Try) /\ Len(admitted') = Len(admitted) - d
         /\ \A k \in DOMAIN admitted' :
               /\ k + d \in DOMAIN admitted /\ admitted'[k].from = admitted[k + d].from
               /\ admitted'[k].age = admitted[k + d].age + 1
         /\ Young(admitted')
  BY TickForgets DEF LimitsInv
<1>2. /\ recent \in Seq(Nat) /\ admitted \in Seq(Try) /\ attempts \in [Addresses -> Seq(Nat)]
      /\ places \in Seq(Addresses) /\ UNCHANGED places
  BY DEF LimitsInv, LimitTypes, Tick
<1>3. /\ recent' \in Seq(Nat) /\ DOMAIN recent' = DOMAIN recent /\ Len(recent') = Len(recent)
      /\ \A i \in DOMAIN recent : recent'[i] <= recent[i] + 1
  BY <1>2, OlderList DEF Tick
<1>4. \A a \in Addresses : attempts'[a] = [i \in DOMAIN attempts[a] |-> Older(attempts[a][i])]
  BY DEF Tick
<1>5. ASSUME NEW a \in Addresses
      PROVE  /\ attempts'[a] \in Seq(Nat) /\ DOMAIN attempts'[a] = DOMAIN attempts[a]
             /\ Len(attempts'[a]) = Len(attempts[a])
             /\ \A i \in DOMAIN attempts[a] : attempts'[a][i] <= attempts[a][i] + 1
  <2>1. attempts[a] \in Seq(Nat)
    BY <1>2
  <2> QED BY <1>4, <2>1, OlderList
<1>6. attempts' \in [Addresses -> Seq(Nat)]
  <2>1. attempts' = [a \in Addresses |-> [i \in DOMAIN attempts[a] |-> Older(attempts[a][i])]]
    BY DEF Tick
  <2> QED BY <1>5, <2>1
<1>7. Counts(recent', admitted', DOMAIN admitted')
  <2>1. DOMAIN admitted' \in SUBSET Nat
    BY <1>1
  <2>2. Counts(recent, admitted, DOMAIN admitted)
    BY DEF LimitsInv
  <2>3. \A k \in DOMAIN admitted' : k + d \in DOMAIN admitted /\ admitted'[k].age = admitted[k + d].age + 1
    BY <1>1
  <2>4. DOMAIN admitted \in SUBSET DOMAIN admitted
    OBVIOUS
  <2> QED BY <1>2, <1>3, <2>1, <2>2, <2>3, <2>4, AgedCounts
<1>8. \A a : \A k \in Of(admitted', a) : k \in Nat /\ k >= 1 /\ k + d \in Of(admitted, a)
  BY <1>1 DEF Of
<1>9. ASSUME NEW a \in Addresses
      PROVE  Counts(attempts'[a], admitted', Of(admitted', a)) \/ Exhausted(a)'
  <2>1. CASE Counts(attempts[a], admitted, Of(admitted, a))
    <3>1. Of(admitted, a) \in SUBSET DOMAIN admitted /\ Of(admitted', a) \in SUBSET Nat
      BY <1>8 DEF Of
    <3>2. \A k \in Of(admitted', a) : k + d \in Of(admitted, a) /\ admitted'[k].age = admitted[k + d].age + 1
      BY <1>1, <1>8 DEF Of
    <3>3. attempts[a] \in Seq(Nat)
      BY <1>2
    <3>4. /\ attempts'[a] \in Seq(Nat) /\ DOMAIN attempts'[a] = DOMAIN attempts[a]
          /\ \A i \in DOMAIN attempts[a] : attempts'[a][i] <= attempts[a][i] + 1
      BY <1>5
    <3> QED BY <1>2, <2>1, <3>1, <3>2, <3>3, <3>4, AgedCounts
  <2>2. CASE Exhausted(a)
    <3>1. CASE d = 0
      <4>1. \A k \in Of(admitted', a) : k = 1
        <5>1. ASSUME NEW k \in Of(admitted', a) PROVE k = 1
          <6>1. k \in Nat /\ k + d = 1
            BY <1>8, <2>2 DEF Exhausted
          <6> QED BY <3>1, <6>1
        <5> QED BY <5>1
      <4>2. Len(admitted') = Len(admitted)
        BY <1>1, <1>2, <3>1
      <4> QED BY <2>2, <4>1, <4>2 DEF Exhausted
    <3>2. CASE d # 0
      <4>1. Of(admitted', a) = {}
        <5>1. ASSUME NEW k \in Of(admitted', a) PROVE FALSE
          <6>1. k \in Nat /\ k >= 1 /\ k + d = 1
            BY <1>8, <2>2 DEF Exhausted
          <6> QED BY <3>2, <6>1
        <5> QED BY <5>1
      <4> QED BY <4>1, NothingCounts
    <3> QED BY <3>1, <3>2
  <2> QED BY <2>1, <2>2 DEF LimitsInv
<1>10. InOrder(places, admitted')
  <2>1. InOrder(places, admitted)
    BY DEF LimitsInv
  <2>2. ASSUME NEW i \in DOMAIN places, NEW j \in DOMAIN places, i < j, NEW k \in Of(admitted', places[i])
        PROVE  \E l \in Of(admitted', places[j]) : k < l
    <3>1. k \in Nat /\ k + d \in Of(admitted, places[i])
      BY <1>8
    <3>2. PICK l \in Of(admitted, places[j]) : k + d < l
      BY <2>1, <2>2, <3>1 DEF InOrder
    <3>3. l \in 1 .. Len(admitted) /\ admitted[l].from = places[j]
      BY <1>2, <3>2 DEF Of
    <3>4. l - d \in DOMAIN admitted' /\ (l - d) + d = l /\ k < l - d
      BY <1>1, <1>2, <3>1, <3>2, <3>3
    <3>5. l - d \in Of(admitted', places[j])
      BY <1>1, <3>3, <3>4 DEF Of
    <3> QED BY <3>4, <3>5
  <2> QED BY <2>1, <2>2 DEF InOrder
<1>11. LimitTypes'
  BY <1>1, <1>2, <1>3, <1>6 DEF LimitTypes
<1>12. /\ Len(recent') <= GlobalLimit /\ Len(places') <= MapLimit
       /\ \A a \in Addresses : Len(attempts'[a]) <= LocalLimit
  BY <1>2, <1>3, <1>5 DEF LimitsInv
<1> QED BY <1>1, <1>2, <1>7, <1>9, <1>10, <1>11, <1>12 DEF LimitsInv

(* An attempt that is refused leaves what counts.                          *)
LEMMA RefusedLimits ==
    ASSUME LimitsInv, NEW a \in Addresses, NEW lag \in 0 .. Delay,
           RefusedGlobally(a, lag) \/ RefusedLocally(a, lag)
    PROVE  LimitsInv'
<1>1. /\ recent \in Seq(Nat) /\ admitted \in Seq(Try) /\ attempts \in [Addresses -> Seq(Nat)]
      /\ UNCHANGED <<places, admitted>> /\ recent' = Drop(recent, lag) /\ Young(admitted)
  BY DEF LimitsInv, LimitTypes, RefusedGlobally, RefusedLocally
<1>2. recent' \in Seq(Nat) /\ Len(recent') <= GlobalLimit /\ Counts(recent', admitted, DOMAIN admitted)
  <2>1. /\ Drop(recent, lag) \in Seq(Nat) /\ Len(Drop(recent, lag)) <= Len(recent)
        /\ Counts(Drop(recent, lag), admitted, DOMAIN admitted)
    BY <1>1, DropCounts DEF LimitsInv
  <2>2. Len(recent) <= GlobalLimit /\ GlobalLimit \in Nat
    BY LoginConstants DEF LimitsInv
  <2> QED BY <1>1, <2>1, <2>2
<1>3. ASSUME NEW p \in Addresses
      PROVE  /\ attempts'[p] \in Seq(Nat) /\ Len(attempts'[p]) <= LocalLimit
             /\ Counts(attempts'[p], admitted, Of(admitted, p)) \/ Exhausted(p)
  <2>1. attempts[p] \in Seq(Nat) /\ Of(admitted, p) \in SUBSET DOMAIN admitted
    BY <1>1 DEF Of
  <2>2. /\ Drop(attempts[p], lag) \in Seq(Nat) /\ Len(Drop(attempts[p], lag)) <= Len(attempts[p])
        /\ Counts(attempts[p], admitted, Of(admitted, p)) => Counts(Drop(attempts[p], lag), admitted, Of(admitted, p))
    BY <1>1, <2>1, DropCounts
  <2>3. attempts'[p] = attempts[p] \/ attempts'[p] = Drop(attempts[p], lag)
    BY <1>1 DEF RefusedGlobally, RefusedLocally
  <2>4. /\ Len(attempts[p]) <= LocalLimit /\ LocalLimit \in Nat
        /\ Counts(attempts[p], admitted, Of(admitted, p)) \/ Exhausted(p)
    BY LoginConstants DEF LimitsInv
  <2>5. CASE attempts'[p] = attempts[p]
    BY <2>1, <2>4, <2>5
  <2>6. CASE attempts'[p] = Drop(attempts[p], lag)
    <3>1. Len(Drop(attempts[p], lag)) <= LocalLimit
      BY <2>1, <2>2, <2>4
    <3> QED BY <2>2, <2>4, <2>6, <3>1
  <2> QED BY <2>3, <2>5, <2>6
<1>4. attempts' \in [Addresses -> Seq(Nat)]
  <2>1. DOMAIN attempts' = Addresses /\ attempts' = [p \in DOMAIN attempts' |-> attempts'[p]]
    BY <1>1 DEF RefusedGlobally, RefusedLocally
  <2> QED BY <1>3, <2>1
<1> QED BY <1>1, <1>2, <1>3, <1>4 DEF LimitsInv, LimitTypes, Exhausted

(* An attempt that is let through: then nobody is exhausted, and who has   *)
(* to make room for its address is not forgotten too early.                *)
LEMMA AdmittedLimits ==
    ASSUME LimitsInv, NEW a \in Addresses, NEW lag \in 0 .. Delay, Admitted(a, lag)
    PROVE  LimitsInv'
<1>0. GlobalLimit \in Nat /\ LocalLimit \in Nat /\ MapLimit \in Nat /\ Delay \in Nat
  BY LoginConstants
<1>1. /\ recent \in Seq(Nat) /\ admitted \in Seq(Try) /\ attempts \in [Addresses -> Seq(Nat)]
      /\ places \in Seq(Addresses) /\ Young(admitted) /\ lag \in Nat
      /\ recent' = Append(Drop(recent, lag), lag) /\ admitted' = Append(admitted, [from |-> a, age |-> 0])
  BY <1>0 DEF LimitsInv, LimitTypes, Admitted
<1>2. Len(Drop(recent, lag)) < GlobalLimit /\ Len(Drop(attempts[a], lag)) < LocalLimit
  <2>1. Drop(recent, lag) \in Seq(Nat) /\ Drop(attempts[a], lag) \in Seq(Nat)
    BY <1>1, DropCounts
  <2>2. Len(Drop(recent, lag)) \in Nat /\ Len(Drop(attempts[a], lag)) \in Nat
    BY <2>1
  <2> QED BY <1>0, <2>2 DEF Admitted, GloballyLimited, LocallyLimited
<1>3. /\ Drop(recent, lag) \in Seq(Nat) /\ Counts(Drop(recent, lag), admitted, DOMAIN admitted)
  BY <1>1, DropCounts DEF LimitsInv
<1>4. DOMAIN admitted' = DOMAIN admitted \cup {Len(admitted) + 1} /\ admitted' \in Seq(Try)
      /\ Len(admitted') = Len(admitted) + 1 /\ Len(admitted) \in Nat /\ DOMAIN admitted = 1 .. Len(admitted)
  <2>1. [from |-> a, age |-> 0] \in Try
    BY DEF Try
  <2> QED BY <1>1, <2>1
<1>5. recent' \in Seq(Nat) /\ Len(recent') <= GlobalLimit /\ Counts(recent', admitted', DOMAIN admitted')
  <2>1. DOMAIN admitted \in SUBSET DOMAIN admitted
    OBVIOUS
  <2>2. Counts(recent', admitted', DOMAIN admitted')
    <3>1. Counts(Append(Drop(recent, lag), lag), Append(admitted, [from |-> a, age |-> 0]),
                 DOMAIN admitted \cup {Len(admitted) + 1})
      BY <1>1, <1>3, <2>1, AppendCounts
    <3> QED BY <1>1, <1>4, <3>1
  <2>3. recent' \in Seq(Nat) /\ Len(recent') = Len(Drop(recent, lag)) + 1 /\ Len(Drop(recent, lag)) \in Nat
    BY <1>1, <1>3
  <2> QED BY <1>0, <1>2, <2>2, <2>3
<1>6. Len(admitted') <= GlobalLimit
  <2>1. Cardinality(DOMAIN admitted') <= Len(recent')
    BY <1>5, CountedAtMost
  <2>2. Cardinality(1 .. Len(admitted')) = Len(admitted') /\ DOMAIN admitted' = 1 .. Len(admitted')
    <3>1. Len(admitted') \in Int /\ Len(admitted') + 1 >= 1 /\ Len(admitted') - 1 + 1 = Len(admitted')
      BY <1>4
    <3>2. Cardinality(1 .. Len(admitted')) = Len(admitted') - 1 + 1
      BY <3>1, Interval
    <3> QED BY <1>4, <3>1, <3>2
  <2>3. Len(recent') \in Nat /\ Len(admitted') \in Nat
    BY <1>4, <1>5
  <2> QED BY <1>0, <1>5, <2>1, <2>2, <2>3
<1>7. Young(admitted')
  <2>1. /\ \A k \in DOMAIN admitted : admitted'[k] = admitted[k] /\ admitted[k] \in Try
        /\ admitted'[Len(admitted) + 1].age = 0
    BY <1>1
  <2>2. Window - Delay > 0 /\ Window - Delay \in Int
    BY LoginConstants
  <2>3. \A k \in DOMAIN admitted' : admitted'[k].age < Window - Delay
    BY <1>1, <1>4, <2>1, <2>2 DEF Young
  <2>4. ASSUME NEW k \in DOMAIN admitted', NEW l \in DOMAIN admitted', k < l
        PROVE  admitted'[k].age >= admitted'[l].age
    <3>1. k \in DOMAIN admitted
      BY <1>4, <2>4
    <3>2. CASE l \in DOMAIN admitted
      BY <1>1, <2>1, <2>4, <3>1, <3>2 DEF Young
    <3>3. CASE l = Len(admitted) + 1
      <4>1. admitted[k].age \in Nat
        BY <2>1, <3>1 DEF Try
      <4> QED BY <2>1, <3>1, <3>3, <4>1
    <3> QED BY <1>4, <3>2, <3>3
  <2> QED BY <2>3, <2>4 DEF Young
<1>8. PICK moved : moved = MoveToEnd(places, a)
  OBVIOUS
<1>9. moved \in Seq(Addresses) /\ Len(moved) >= 1 /\ Len(moved) <= MapLimit + 1 /\ InOrder(moved, admitted')
  <2>1. \A i, j \in DOMAIN places : i < j => places[i] # places[j]
    BY DEF LimitsInv, InOrder
  <2>2. moved \in Seq(Addresses) /\ Len(moved) >= 1 /\ Len(moved) <= Len(places) + 1
    BY <1>1, <1>8, <2>1, MovedToEnd
  <2>3. InOrder(moved, admitted')
    BY <1>1, <1>8, MovedInOrder DEF LimitsInv
  <2>4. Len(places) <= MapLimit /\ Len(places) \in Nat /\ Len(moved) \in Nat
    BY <1>1, <2>2 DEF LimitsInv
  <2> QED BY <1>0, <2>2, <2>3, <2>4
<1>10. /\ places' = IF Len(moved) > MapLimit THEN Tail(moved) ELSE moved
       /\ attempts' = [p \in Addresses |->
                         IF Len(moved) > MapLimit /\ p = moved[1] THEN <<>>
                         ELSE IF p = a THEN Append(Drop(attempts[a], lag), lag)
                         ELSE attempts[p]]
  <2>1. Head(moved) = moved[1]
    BY <1>9
  <2>2. \A p : p \in Evicted(moved) <=> Len(moved) > MapLimit /\ p = moved[1]
    BY <2>1 DEF Evicted
  <2>3. Evicted(moved) = {} <=> ~(Len(moved) > MapLimit)
    BY DEF Evicted
  <2>4. /\ places' = IF Evicted(moved) = {} THEN moved ELSE Tail(moved)
        /\ attempts' = [p \in Addresses |->
                          IF p \in Evicted(moved) THEN <<>>
                          ELSE IF p = a THEN Append(Drop(attempts[a], lag), lag)
                          ELSE attempts[p]]
    BY <1>8 DEF Admitted
  <2> QED BY <2>2, <2>3, <2>4
<1>11. places' \in Seq(Addresses) /\ Len(places') <= MapLimit /\ InOrder(places', admitted')
  <2>1. CASE ~(Len(moved) > MapLimit)
    BY <1>0, <1>9, <1>10, <2>1
  <2>2. CASE Len(moved) > MapLimit
    <3>1. /\ places' \in Seq(Addresses) /\ Len(places') = Len(moved) - 1 /\ DOMAIN places' = 1 .. Len(moved) - 1
          /\ \A i \in DOMAIN places' : places'[i] = moved[i + 1] /\ i + 1 \in DOMAIN moved /\ i \in Nat
      <4>1. moved # <<>> /\ places' = Tail(moved)
        BY <1>9, <1>10, <2>2
      <4> QED BY <1>9, <4>1
    <3>2. InOrder(places', admitted')
      <4>1. ASSUME NEW i \in DOMAIN places', NEW j \in DOMAIN places', i < j
            PROVE  /\ places'[i] # places'[j]
                   /\ \A k \in Of(admitted', places'[i]) : \E l \in Of(admitted', places'[j]) : k < l
        <5>1. i + 1 \in DOMAIN moved /\ j + 1 \in DOMAIN moved /\ i + 1 < j + 1
          BY <3>1, <4>1
        <5> QED BY <1>9, <3>1, <5>1 DEF InOrder
      <4> QED BY <4>1 DEF InOrder
    <3> QED BY <1>0, <1>9, <3>1, <3>2
  <2> QED BY <2>1, <2>2
<1>12. /\ Of(admitted', a) = Of(admitted, a) \cup {Len(admitted) + 1}
       /\ \A p : p # a => Of(admitted', p) = Of(admitted, p)
  <2>1. admitted'[Len(admitted) + 1].from = a /\ \A k \in DOMAIN admitted : admitted'[k] = admitted[k]
    BY <1>1
  <2> QED BY <1>4, <2>1 DEF Of
<1>13. \A p : ~Exhausted(p)
  <2>1. Len(admitted') = Len(admitted) + 1 /\ Len(admitted) \in Nat
    BY <1>4
  <2>2. \A n, m \in Nat : n + 1 <= m => n # m
    OBVIOUS
  <2>3. Len(admitted) # GlobalLimit
    BY <1>0, <1>6, <2>1, <2>2
  <2> QED BY <2>3 DEF Exhausted
<1>14. ASSUME NEW p \in Addresses
       PROVE  /\ attempts'[p] \in Seq(Nat) /\ Len(attempts'[p]) <= LocalLimit
              /\ Counts(attempts'[p], admitted', Of(admitted', p)) \/ Exhausted(p)'
  <2>1. /\ attempts[p] \in Seq(Nat) /\ Of(admitted, p) \in SUBSET DOMAIN admitted
        /\ Counts(attempts[p], admitted, Of(admitted, p)) /\ Len(attempts[p]) <= LocalLimit
    BY <1>1, <1>13 DEF LimitsInv, Of
  <2>2. CASE Len(moved) > MapLimit /\ p = moved[1]
    <3>1. attempts'[p] = <<>>
      BY <1>10, <2>2
    <3>2. \A k \in Of(admitted', p) : k = 1 /\ Len(admitted') = GlobalLimit
      BY <1>4, <1>6, <1>9, <2>2, EvictedAreOld
    <3>3. CASE Of(admitted', p) = {}
      BY <1>0, <3>1, <3>3, NothingCounts
    <3>4. CASE Of(admitted', p) # {}
      <4>1. Exhausted(p)'
        BY <3>2, <3>4 DEF Exhausted
      <4> QED BY <1>0, <3>1, <4>1
    <3> QED BY <3>3, <3>4
  <2>3. CASE ~(Len(moved) > MapLimit /\ p = moved[1]) /\ p = a
    <3>1. attempts'[p] = Append(Drop(attempts[p], lag), lag)
      BY <1>10, <2>3
    <3>2. Drop(attempts[p], lag) \in Seq(Nat) /\ Counts(Drop(attempts[p], lag), admitted, Of(admitted, p))
      BY <1>1, <2>1, DropCounts
    <3>3. Counts(attempts'[p], admitted', Of(admitted', p))
      <4>1. Counts(Append(Drop(attempts[p], lag), lag), Append(admitted, [from |-> a, age |-> 0]),
                   Of(admitted, p) \cup {Len(admitted) + 1})
        BY <1>1, <2>1, <3>2, AppendCounts
      <4> QED BY <1>1, <1>12, <2>3, <3>1, <4>1
    <3>4. attempts'[p] \in Seq(Nat) /\ Len(attempts'[p]) = Len(Drop(attempts[p], lag)) + 1
      BY <1>1, <3>1, <3>2
    <3>5. Len(Drop(attempts[p], lag)) \in Nat
      BY <3>2
    <3> QED BY <1>0, <1>2, <2>3, <3>3, <3>4, <3>5
  <2>4. CASE ~(Len(moved) > MapLimit /\ p = moved[1]) /\ p # a
    <3>1. attempts'[p] = attempts[p] /\ Of(admitted', p) = Of(admitted, p)
      BY <1>10, <1>12, <2>4
    <3>2. Counts(attempts[p], admitted', Of(admitted, p))
      BY <1>1, <2>1, AppendCounts
    <3> QED BY <2>1, <3>1, <3>2
  <2> QED BY <2>2, <2>3, <2>4
<1>15. attempts' \in [Addresses -> Seq(Nat)]
  <2>1. DOMAIN attempts' = Addresses /\ attempts' = [p \in DOMAIN attempts' |-> attempts'[p]]
    BY <1>10
  <2> QED BY <1>14, <2>1
<1> QED BY <1>4, <1>5, <1>7, <1>11, <1>14, <1>15 DEF LimitsInv, LimitTypes

(* Every step keeps the invariant of the limits.                           *)
LEMMA LimitsStep == LimitsInv /\ [Next]_vars => LimitsInv'
<1> SUFFICES ASSUME LimitsInv, [Next]_vars PROVE LimitsInv'
  OBVIOUS
<1>1. CASE Tick
  BY <1>1, TickLimits
<1>2. CASE \E a \in Addresses, lag \in 0 .. Delay : Attempt(a, lag)
  BY <1>2, RefusedLimits, AdmittedLimits DEF Attempt
<1>3. ASSUME UNCHANGED limits PROVE LimitsInv'
  <2>1. UNCHANGED <<recent, places, attempts, admitted>>
    BY <1>3 DEF limits
  <2> QED BY <2>1 DEF LimitsInv, LimitTypes, Exhausted
<1>4. CASE \/ \E c \in checking, lag \in 0 .. Delay : Grant(c, lag)
           \/ \E g \in granting : EndLogin(g)
           \/ \E b \in Browsers : Logout(b)
           \/ Request
           \/ UNCHANGED vars
  BY <1>3, <1>4 DEF Grant, EndLogin, Logout, Request, vars
<1> QED BY <1>1, <1>2, <1>4 DEF Next

(* Nothing has been tried at the start.                                    *)
LEMMA LimitsInit == Init => LimitsInv
<1> SUFFICES ASSUME Init PROVE LimitsInv
  OBVIOUS
<1>1. /\ recent = <<>> /\ places = <<>> /\ admitted = <<>>
      /\ \A a \in Addresses : attempts[a] = <<>>
  BY DEF Init
<1>2. LimitTypes
  BY DEF Init, LimitTypes
<1>3. DOMAIN admitted = {} /\ DOMAIN places = {} /\ \A a : Of(admitted, a) = {}
  BY <1>1 DEF Of
<1>4. Counts(<<>>, admitted, {})
  BY NothingCounts
<1>5. Len(<<>>) = 0 /\ GlobalLimit >= 0 /\ LocalLimit >= 0 /\ MapLimit >= 0
  BY LoginConstants
<1>6. Young(admitted) /\ InOrder(places, admitted)
  BY <1>3 DEF Young, InOrder
<1> QED BY <1>1, <1>2, <1>3, <1>4, <1>5, <1>6 DEF LimitsInv

(* The limits on the tries follow.                                         *)
LEMMA LimitsHold == LimitsInv => TriesAreLimited
<1> SUFFICES ASSUME LimitsInv PROVE TriesAreLimited
  OBVIOUS
<1>1. GlobalLimit \in Nat /\ LocalLimit \in Nat /\ LocalLimit > 0
  BY LoginConstants
<1>2. /\ recent \in Seq(Nat) /\ admitted \in Seq(Try) /\ attempts \in [Addresses -> Seq(Nat)]
      /\ Len(recent) <= GlobalLimit /\ Counts(recent, admitted, DOMAIN admitted)
  BY DEF LimitsInv, LimitTypes
<1>3. ASSUME NEW K, IsFiniteSet(K), NEW n \in Nat, Cardinality(K) <= n
      PROVE  Within(K) <= n
  <2>1. PICK T : T = {i \in K : admitted[i].age < Window - Delay}
    OBVIOUS
  <2>2. T \in SUBSET K
    BY <2>1
  <2>3. IsFiniteSet(T) /\ Cardinality(T) <= Cardinality(K)
    BY <1>3, <2>2, FS_Subset
  <2>4. Cardinality(T) \in Nat /\ Cardinality(K) \in Nat
    BY <1>3, <2>3, FS_CardinalityType
  <2>5. Cardinality(T) <= n
    BY <1>3, <2>3, <2>4
  <2> QED BY <2>1, <2>5 DEF Within
<1>4. Within(DOMAIN admitted) <= GlobalLimit
  <2>1. /\ IsFiniteSet(DOMAIN admitted) /\ Cardinality(DOMAIN admitted) <= Len(recent)
        /\ Cardinality(DOMAIN admitted) \in Nat
    BY <1>2, CountedAtMost
  <2>2. Cardinality(DOMAIN admitted) <= GlobalLimit
    BY <1>1, <1>2, <2>1
  <2> QED BY <1>1, <1>3, <2>1, <2>2
<1>5. ASSUME NEW a \in Addresses PROVE Within(From(a)) <= LocalLimit
  <2>1. From(a) = Of(admitted, a)
    BY DEF From, Of
  <2>2. attempts[a] \in Seq(Nat) /\ Len(attempts[a]) <= LocalLimit
    BY <1>2 DEF LimitsInv
  <2>3. CASE Counts(attempts[a], admitted, Of(admitted, a))
    <3>1. /\ IsFiniteSet(From(a)) /\ Cardinality(From(a)) <= Len(attempts[a])
          /\ Cardinality(From(a)) \in Nat
      BY <2>1, <2>2, <2>3, CountedAtMost
    <3>2. Cardinality(From(a)) <= LocalLimit
      BY <1>1, <2>2, <3>1
    <3> QED BY <1>1, <1>3, <3>1, <3>2
  <2>4. CASE Exhausted(a)
    <3>1. From(a) \in SUBSET {1}
      BY <2>1, <2>4 DEF Exhausted
    <3>2. IsFiniteSet({1}) /\ Cardinality({1}) = 1
      BY FS_Singleton
    <3>3. IsFiniteSet(From(a)) /\ Cardinality(From(a)) <= 1
      BY <3>1, <3>2, FS_Subset
    <3>4. Cardinality(From(a)) \in Nat
      BY <3>3, FS_CardinalityType
    <3>5. Cardinality(From(a)) <= LocalLimit
      BY <1>1, <3>3, <3>4
    <3> QED BY <1>1, <1>3, <3>3, <3>5
  <2> QED BY <2>3, <2>4 DEF LimitsInv
<1> QED BY <1>4, <1>5 DEF LimitsInv, TriesAreLimited

(* However many threads and addresses there are, and in whatever order the *)
(* threads come to Auth.lock, no more passwords are tried in a window than *)
(* _limit says, in all and from one address, though _limit forgets the     *)
(* addresses that tried least recently (Auth._limit).                      *)
THEOREM NoMoreTriesThanAllowed == Spec => []TriesAreLimited
<1>1. Spec => []LimitsInv
  BY LimitsInit, LimitsStep, PTL DEF Spec
<1> QED BY <1>1, LimitsHold, PTL

-----------------------------------------------------------------------------
(* The logins                                                              *)

Login == [age : Nat, revoked : BOOLEAN]

(* The token's end is what is left of its life, less what it was late, and *)
(* it has not been revoked.                                                *)
Ends(t) ==
    /\ sessions[t] \in Nat
    /\ sessions[t] > 0 => sessions[t] + grants[t].age <= Lifetime
    /\ sessions[t] + grants[t].age >= Lifetime - Delay
    /\ ~grants[t].revoked

(* Among the latest, as many as the limit, that are neither old nor revoked *)
Due(t) ==
    /\ Len(grants) - t < SessionLimit
    /\ grants[t].age < Lifetime - Delay /\ ~grants[t].revoked

LoginsInv ==
    /\ grants \in Seq(Login) /\ DOMAIN sessions \subseteq DOMAIN grants
    /\ \A t \in DOMAIN sessions : Ends(t)
    /\ \A t \in DOMAIN grants : Due(t) => t \in DOMAIN sessions

(* The numbers of the tokens                                               *)
LEMMA LoginBounds ==
    /\ Lifetime \in Nat /\ Delay \in Nat /\ SessionLimit \in Nat
    /\ SessionLimit > 0 /\ Delay < Lifetime
BY LoginConstants

(* What LoginsHold says follows.                                           *)
LEMMA LoginsAreHeld == LoginsInv => LoginsHold
<1> SUFFICES ASSUME LoginsInv, NEW t \in DOMAIN grants
             PROVE  /\ Accepts(t) => grants[t].age < Lifetime /\ ~grants[t].revoked
                    /\ Due(t) => Accepts(t)
  BY DEF LoginsHold, Due
<1>1. grants[t] \in Login /\ grants[t].age \in Nat
  <2>1. grants[t] \in Login
    BY DEF LoginsInv
  <2> QED BY <2>1 DEF Login
<1>2. ASSUME Accepts(t) PROVE grants[t].age < Lifetime /\ ~grants[t].revoked
  <2>1. t \in DOMAIN sessions /\ sessions[t] > 0 /\ Ends(t)
    BY <1>2 DEF Accepts, LoginsInv
  <2>2. \A n, m, k \in Nat : n > 0 /\ n + m <= k => m < k
    OBVIOUS
  <2> QED BY <1>1, <2>1, <2>2, LoginBounds DEF Ends
<1>3. ASSUME Due(t) PROVE Accepts(t)
  <2>1. t \in DOMAIN sessions /\ Ends(t)
    BY <1>3 DEF LoginsInv
  <2>2. sessions[t] \in Nat /\ sessions[t] + grants[t].age >= Lifetime - Delay
    BY <2>1 DEF Ends
  <2>3. grants[t].age < Lifetime - Delay
    BY <1>3 DEF Due
  <2>4. \A n, m \in Nat, k \in Int : n + m >= k /\ m < k => n > 0
    OBVIOUS
  <2>5. sessions[t] > 0
    BY <1>1, <2>2, <2>3, <2>4, LoginBounds
  <2> QED BY <2>1, <2>5 DEF Accepts
<1> QED BY <1>2, <1>3

(* Nobody is logged in at the start.                                       *)
LEMMA LoginsInit == Init => LoginsInv
<1> SUFFICES ASSUME Init PROVE LoginsInv
  OBVIOUS
<1>1. grants = <<>> /\ DOMAIN sessions = {}
  BY DEF Init
<1> QED BY <1>1 DEF LoginsInv

(* Time passes for the logins as for those who wait for their end.         *)
LEMMA TickLogins == LoginsInv /\ Tick => LoginsInv'
<1> SUFFICES ASSUME LoginsInv, Tick PROVE LoginsInv'
  OBVIOUS
<1>1. grants \in Seq(Login) /\ DOMAIN grants = 1 .. Len(grants) /\ Len(grants) \in Nat
  BY DEF LoginsInv
<1>2. /\ DOMAIN grants' = DOMAIN grants /\ DOMAIN sessions' = DOMAIN sessions
      /\ \A t \in DOMAIN grants :
            grants'[t] = [grants[t] EXCEPT !.age = IF @ < Lifetime THEN @ + 1 ELSE @]
      /\ \A t \in DOMAIN sessions :
            sessions'[t] = IF sessions[t] > 0 THEN sessions[t] - 1 ELSE 0
  BY DEF Tick
<1>3. ASSUME NEW t \in DOMAIN grants
      PROVE  /\ grants'[t] \in Login /\ grants[t].age \in Nat /\ grants'[t].revoked = grants[t].revoked
             /\ grants'[t].age = IF grants[t].age < Lifetime THEN grants[t].age + 1 ELSE grants[t].age
  <2>1. grants[t] \in Login
    BY <1>1
  <2> QED BY <1>2, <2>1 DEF Login
<1>4. grants' \in Seq(Login) /\ Len(grants') = Len(grants)
  <2>1. grants' = [t \in 1 .. Len(grants) |-> grants'[t]]
    BY <1>1, <1>2 DEF Tick
  <2>2. \A t \in 1 .. Len(grants) : grants'[t] \in Login
    BY <1>1, <1>3
  <2>3. grants' \in [1 .. Len(grants) -> Login]
    BY <2>1, <2>2
  <2> QED BY <1>1, <2>3
<1>5. ASSUME NEW t \in DOMAIN sessions PROVE Ends(t)'
  <2>1. t \in DOMAIN grants /\ Ends(t)
    BY DEF LoginsInv
  <2>2. \A n, m, k, d \in Nat : \A x, y \in Nat :
           /\ x = IF n > 0 THEN n - 1 ELSE 0
           /\ y = IF m < k THEN m + 1 ELSE m
           /\ n > 0 => n + m <= k
           /\ n + m >= k - d
           => (x > 0 => x + y <= k) /\ x + y >= k - d
    OBVIOUS
  <2>3. sessions[t] \in Nat /\ sessions'[t] = IF sessions[t] > 0 THEN sessions[t] - 1 ELSE 0
    BY <1>2, <2>1 DEF Ends
  <2>4. sessions'[t] \in Nat
    BY <2>3
  <2>5. grants'[t].age \in Nat
    BY <1>3, <2>1 DEF Login
  <2>6. /\ grants[t].age \in Nat /\ grants'[t].revoked = grants[t].revoked
        /\ grants'[t].age = IF grants[t].age < Lifetime THEN grants[t].age + 1 ELSE grants[t].age
    BY <1>3, <2>1
  <2>7. (sessions'[t] > 0 => sessions'[t] + grants'[t].age <= Lifetime)
        /\ sessions'[t] + grants'[t].age >= Lifetime - Delay
    BY <2>1, <2>2, <2>3, <2>4, <2>5, <2>6, LoginBounds DEF Ends
  <2> QED BY <2>1, <2>4, <2>6, <2>7 DEF Ends
<1>6. ASSUME NEW t \in DOMAIN grants, Due(t)' PROVE t \in DOMAIN sessions
  <2>1. grants[t].age < Lifetime - Delay
    BY <1>3, <1>6, LoginBounds DEF Due
  <2>2. Due(t)
    BY <1>3, <1>4, <1>6, <2>1 DEF Due
  <2> QED BY <2>2 DEF LoginsInv
<1> QED BY <1>2, <1>4, <1>5, <1>6 DEF LoginsInv

(* A purge takes the logins whose end has come.                            *)
LEMMA PurgedEnded ==
    ASSUME LoginsInv
    PROVE  /\ DOMAIN Purged \subseteq DOMAIN sessions
           /\ \A t \in DOMAIN Purged : Purged[t] = sessions[t]
           /\ \A t \in DOMAIN grants : Due(t) => t \in DOMAIN Purged
<1>1. /\ DOMAIN Purged = {t \in DOMAIN sessions : sessions[t] > 0}
      /\ \A t \in DOMAIN Purged : Purged[t] = sessions[t]
  BY DEF Purged, Restrict
<1>2. ASSUME NEW t \in DOMAIN grants, Due(t) PROVE t \in DOMAIN Purged
  <2>1. Accepts(t)
    BY <1>2, LoginsAreHeld DEF LoginsHold, Due
  <2> QED BY <1>1, <2>1 DEF Accepts
<1> QED BY <1>1, <1>2

LEMMA RequestLogins == LoginsInv /\ Request => LoginsInv'
<1> SUFFICES ASSUME LoginsInv, Request PROVE LoginsInv'
  OBVIOUS
<1>1. sessions' = Purged /\ UNCHANGED grants
  BY DEF Request
<1>2. ASSUME NEW t \in DOMAIN sessions' PROVE Ends(t)'
  <2>1. t \in DOMAIN sessions /\ sessions'[t] = sessions[t]
    BY <1>1, PurgedEnded
  <2> QED BY <1>1, <2>1 DEF LoginsInv, Ends
<1> QED BY <1>1, <1>2, PurgedEnded DEF LoginsInv, Due

(* A login is revoked together with its token, if it is one.               *)
LEMMA RevokedLogins ==
    ASSUME LoginsInv, NEW token, Revoked(token) PROVE LoginsInv'
<1>1. grants \in Seq(Login) /\ DOMAIN grants = 1 .. Len(grants) /\ Len(grants) \in Nat
  BY DEF LoginsInv
<1>2. /\ DOMAIN grants' = DOMAIN grants /\ DOMAIN sessions' = DOMAIN sessions \ {token}
      /\ \A t \in DOMAIN grants :
            grants'[t] = IF t = token THEN [grants[t] EXCEPT !.revoked = TRUE] ELSE grants[t]
      /\ \A t \in DOMAIN sessions' : sessions'[t] = sessions[t]
  BY DEF Revoked, Restrict
<1>3. ASSUME NEW t \in DOMAIN grants
      PROVE  grants'[t] \in Login /\ grants'[t].age = grants[t].age /\ (t = token => grants'[t].revoked)
  <2>1. grants[t] \in Login
    BY <1>1
  <2> QED BY <1>2, <2>1 DEF Login
<1>4. grants' \in Seq(Login) /\ Len(grants') = Len(grants)
  <2>1. grants' = [t \in 1 .. Len(grants) |-> grants'[t]]
    BY <1>1, <1>2 DEF Revoked
  <2>2. \A t \in 1 .. Len(grants) : grants'[t] \in Login
    BY <1>1, <1>3
  <2>3. grants' \in [1 .. Len(grants) -> Login]
    BY <2>1, <2>2
  <2> QED BY <1>1, <2>3
<1>5. ASSUME NEW t \in DOMAIN sessions' PROVE Ends(t)'
  <2>1. t \in DOMAIN sessions /\ t # token /\ t \in DOMAIN grants /\ Ends(t)
    BY <1>2 DEF LoginsInv
  <2> QED BY <1>2, <2>1 DEF Ends
<1>6. ASSUME NEW t \in DOMAIN grants, Due(t)' PROVE t \in DOMAIN sessions'
  <2>1. t # token
    BY <1>3, <1>6 DEF Due
  <2>2. Due(t)
    BY <1>2, <1>4, <1>6, <2>1 DEF Due
  <2> QED BY <1>2, <2>1, <2>2 DEF LoginsInv
<1> QED BY <1>2, <1>4, <1>5, <1>6 DEF LoginsInv

(* The login that makes room is one that as many as the limit came after.  *)
LEMMA TrimmedAreOld ==
    ASSUME NEW n \in Nat, NEW valid \in SUBSET (1 .. n), NEW t \in valid, n - t < SessionLimit
    PROVE  t \in Trim(valid)
<1>1. CASE Cardinality(valid) > SessionLimit
  <2>1. PICK first : first = Min(valid)
    OBVIOUS
  <2>2. first \in valid /\ \A x \in valid : first <= x
    <3>1. valid \in SUBSET Nat /\ valid # {}
      OBVIOUS
    <3> QED BY <2>1, <3>1, LeastNumber
  <2>3. first \in Int /\ n \in Int /\ n + 1 >= first /\ valid \in SUBSET (first .. n)
    BY <2>2
  <2>4. IsFiniteSet(first .. n) /\ Cardinality(first .. n) = n - first + 1
    BY <2>3, Interval
  <2>5. IsFiniteSet(valid) /\ Cardinality(valid) <= n - first + 1
    BY <2>3, <2>4, FS_Subset
  <2>6. Cardinality(valid) \in Nat
    BY <2>5, FS_CardinalityType
  <2>7. \A c, l \in Nat, i, f \in Int : c > l /\ c <= i - f + 1 => ~(i - f < l)
    OBVIOUS
  <2>8. ~(n - first < SessionLimit)
    BY <1>1, <2>3, <2>5, <2>6, <2>7, LoginBounds
  <2>9. t # first
    BY <2>8
  <2> QED BY <1>1, <2>1, <2>9 DEF Trim
<1> QED BY <1>1 DEF Trim

(* A new login lives as long as the clock it was given says.               *)
LEMMA GrantLogins ==
    ASSUME LoginsInv, NEW c, NEW lag \in 0 .. Delay, Grant(c, lag) PROVE LoginsInv'
<1>1. grants \in Seq(Login) /\ DOMAIN grants = 1 .. Len(grants) /\ Len(grants) \in Nat
  BY DEF LoginsInv
<1>2. PICK token : token = Len(grants) + 1
  OBVIOUS
<1>3. PICK valid : valid = DOMAIN Purged \cup {token}
  OBVIOUS
<1>4. /\ grants' = Append(grants, [age |-> 0, revoked |-> FALSE])
      /\ sessions' = [t \in Trim(valid) |-> IF t = token THEN Lifetime - lag ELSE sessions[t]]
  BY <1>2, <1>3 DEF Grant
<1>5. /\ grants' \in Seq(Login) /\ Len(grants') = token /\ token \in Nat
      /\ DOMAIN grants' = DOMAIN grants \cup {token} /\ token \notin DOMAIN grants
      /\ grants'[token] = [age |-> 0, revoked |-> FALSE]
      /\ \A t \in DOMAIN grants : grants'[t] = grants[t]
  <2>1. [age |-> 0, revoked |-> FALSE] \in Login
    BY DEF Login
  <2> QED BY <1>1, <1>2, <1>4, <2>1
<1>6. DOMAIN sessions' = Trim(valid) /\ Trim(valid) \subseteq valid
  BY <1>4 DEF Trim
<1>7. DOMAIN Purged \subseteq DOMAIN sessions /\ DOMAIN sessions \subseteq DOMAIN grants
  BY PurgedEnded DEF LoginsInv
<1>8. ASSUME NEW t \in DOMAIN sessions' PROVE Ends(t)'
  <2>1. CASE t = token
    <3>1. sessions'[t] = Lifetime - lag /\ grants'[t].age = 0 /\ ~grants'[t].revoked
      BY <1>4, <1>5, <1>6, <2>1
    <3>2. Lifetime - lag \in Nat /\ Lifetime - lag + 0 <= Lifetime /\ Lifetime - lag + 0 >= Lifetime - Delay
      BY LoginBounds
    <3> QED BY <3>1, <3>2 DEF Ends
  <2>2. CASE t # token
    <3>1. t \in DOMAIN sessions /\ t \in DOMAIN grants /\ Ends(t)
      BY <1>3, <1>6, <1>7, <2>2 DEF LoginsInv
    <3>2. sessions'[t] = sessions[t] /\ grants'[t] = grants[t]
      BY <1>4, <1>5, <1>6, <2>2, <3>1
    <3> QED BY <3>1, <3>2 DEF Ends
  <2> QED BY <2>1, <2>2
<1>9. ASSUME NEW t \in DOMAIN grants', Due(t)' PROVE t \in DOMAIN sessions'
  <2>1. t \in valid
    <3>1. CASE t \in DOMAIN grants
      <4>1. Len(grants) - t < SessionLimit
        BY <1>1, <1>2, <1>5, <1>9, <3>1, LoginBounds DEF Due
      <4>2. Due(t)
        BY <1>5, <1>9, <3>1, <4>1 DEF Due
      <4> QED BY <1>3, <3>1, <4>2, PurgedEnded
    <3> QED BY <1>3, <1>5, <3>1
  <2>2. valid \in SUBSET (1 .. token)
    BY <1>1, <1>2, <1>3, <1>7
  <2>3. token - t < SessionLimit
    BY <1>5, <1>9 DEF Due
  <2> QED BY <1>5, <1>6, <2>1, <2>2, <2>3, TrimmedAreOld
<1> QED BY <1>3, <1>5, <1>6, <1>7, <1>8, <1>9 DEF LoginsInv

(* Every step keeps the invariant of the logins.                           *)
LEMMA LoginsStep == LoginsInv /\ [Next]_vars => LoginsInv'
<1> SUFFICES ASSUME LoginsInv, [Next]_vars PROVE LoginsInv'
  OBVIOUS
<1>1. CASE Tick
  BY <1>1, TickLogins
<1>2. CASE \E c \in checking, lag \in 0 .. Delay : Grant(c, lag)
  BY <1>2, GrantLogins
<1>3. CASE \/ \E g \in granting : EndLogin(g)
           \/ \E b \in Browsers : Logout(b)
  BY <1>3, RevokedLogins DEF EndLogin, Logout
<1>4. CASE Request
  BY <1>4, RequestLogins
<1>5. CASE \/ \E a \in Addresses, lag \in 0 .. Delay : Attempt(a, lag)
           \/ UNCHANGED vars
  <2>1. UNCHANGED <<sessions, grants>>
    BY <1>5 DEF Attempt, RefusedGlobally, RefusedLocally, Admitted, vars, logins
  <2> QED BY <2>1 DEF LoginsInv, Ends, Due
<1> QED BY <1>1, <1>2, <1>3, <1>4, <1>5 DEF Next

(* Whatever the order in which logins, logouts and purges come to          *)
(* Auth.lock, a login is valid to the end of its life unless it is revoked *)
(* or pushed out by as many later ones as the limit says, and never longer *)
(* (Auth.login, get and logout, with the routes that call them).           *)
THEOREM LoginsLastAsTheyShould == Spec => []LoginsHold
<1>1. Spec => []LoginsInv
  BY LoginsInit, LoginsStep, PTL DEF Spec
<1> QED BY <1>1, LoginsAreHeld, PTL

=============================================================================
