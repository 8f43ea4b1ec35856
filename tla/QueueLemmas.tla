---------------------------- MODULE QueueLemmas ----------------------------
(***************************************************************************)
(* Facts about the queue operations of PriorityQueue that the proofs of    *)
(* the synchronization objects rest on.                                    *)
(***************************************************************************)
EXTENDS PriorityQueue, Integers, SequenceTheorems, FunctionTheorems, FiniteSetTheorems,
        WellFoundedInduction, TLAPS

\* Every non-empty set of naturals has a least element.
LEMMA LeastNatural ==
  ASSUME NEW I, I \subseteq Nat, I # {}
  PROVE  \E m \in I : \A n \in I : m <= n
<1> DEFINE R == {ss \in Nat \X Nat : ss[1] < ss[2]}
<1>1. IsWellFoundedOn(R, Nat)
  BY NatLessThanWellFounded DEF OpToRel
<1>2. PICK m \in I : \A n \in I : <<n, m>> \notin R
  <2> HIDE DEF R
  <2> QED BY <1>1, WFMin
<1>3. ASSUME NEW n \in I
      PROVE  m <= n
  <2>1. n \in Nat /\ m \in Nat /\ <<n, m>> \notin R
    BY <1>2
  <2>2. ~(<<n, m>>[1] < <<n, m>>[2])
    BY <2>1
  <2> QED BY <2>1, <2>2
<1> QED
  BY <1>3

\* DeleteFromQueue closes the gap at the first position of the object.
LEMMA DeleteFromQueueFact ==
  ASSUME NEW S, NEW q \in Seq(S), NEW x, ObjectInQueue(q, x)
  PROVE  \E k \in 1..Len(q) :
           /\ q[k] = x
           /\ DeleteFromQueue(q, x) =
                [i \in 1..(Len(q) - 1) |-> IF i < k THEN q[i] ELSE q[i + 1]]
<1> DEFINE I == {i \in 1..Len(q) : q[i] = x}
<1>1. I # {} /\ I \subseteq Nat
  BY DEF ObjectInQueue, Contains
<1>2. DeleteFromQueue(q, x) = RemoveAt(q, Min(I))
  BY <1>1, Zenon DEF DeleteFromQueue, RemoveFirst, SelectInSeq, ObjectInQueue, Contains
<1>3. \E m \in I : \A n \in I : m <= n
  <2> HIDE DEF I
  <2> QED BY <1>1, LeastNatural
<1>4. PICK k \in I : k = Min(I)
  BY <1>3, Zenon DEF Min
<1>5. k \in 1..Len(q) /\ q[k] = x
  OBVIOUS
<1> HIDE DEF I
<1> DEFINE a == SubSeq(q, 1, k - 1)
           b == SubSeq(q, k + 1, Len(q))
           c == [i \in 1..(Len(q) - 1) |-> IF i < k THEN q[i] ELSE q[i + 1]]
<1>6. DeleteFromQueue(q, x) = a \o b
  BY <1>2, <1>4 DEF RemoveAt
<1>7. /\ a \in Seq(S) /\ Len(a) = k - 1
      /\ \A i \in 1..(k - 1) : a[i] = q[i]
      /\ b \in Seq(S) /\ Len(b) = Len(q) - k
      /\ \A i \in 1..(Len(q) - k) : b[i] = q[k + i]
  BY <1>5
<1>8. c \in Seq(S) /\ Len(c) = Len(q) - 1
  BY <1>5
<1>9. a \o b = c
  <2> HIDE DEF a, b
  <2>1. /\ a \o b \in Seq(S)
        /\ Len(a \o b) = Len(q) - 1
        /\ \A i \in 1..(Len(q) - 1) :
             (a \o b)[i] = IF i <= k - 1 THEN a[i] ELSE b[i - (k - 1)]
    <3>1. /\ a \o b \in Seq(S)
          /\ Len(a \o b) = Len(a) + Len(b)
          /\ \A i \in 1..(Len(a) + Len(b)) :
               (a \o b)[i] = IF i <= Len(a) THEN a[i] ELSE b[i - Len(a)]
      BY <1>7, ConcatProperties, Zenon
    <3>2. Len(a) + Len(b) = Len(q) - 1
      BY <1>5, <1>7
    <3> QED BY <1>7, <3>1, <3>2, Zenon
  <2>2. \A i \in 1..(Len(q) - 1) : (a \o b)[i] = c[i]
    BY <1>5, <1>7, <2>1
  <2> HIDE DEF c
  <2> QED BY <1>8, <2>1, <2>2, SeqEqual
<1> QED
  BY <1>5, <1>6, <1>9

-----------------------------------------------------------------------------
(* What the operations do to a queue in which no object is queued twice, in  *)
(* terms of who is queued: the proofs of the objects use nothing else.       *)

LEMMA EmptyQueue ==
  ASSUME NEW S, NEW q \in Seq(S)
  PROVE  /\ <<>> \in Seq(S) /\ IsInjective(<<>>)
         /\ \A x : ~ObjectInQueue(<<>>, x)
         /\ q = <<>> <=> \A x : ~ObjectInQueue(q, x)
         /\ q = <<>> <=> Len(q) = 0
         /\ \A x : ObjectInQueue(q, x) => x \in S
<1>1. <<>> \in Seq(S) /\ Len(<<>>) = 0 /\ DOMAIN <<>> = 1..0 /\ (q = <<>> <=> Len(q) = 0)
  OBVIOUS
<1>2. IsInjective(<<>>)
  BY <1>1 DEF IsInjective
<1>3. \A x : ~ObjectInQueue(<<>>, x)
  BY <1>1 DEF ObjectInQueue, Contains
<1>4. q # <<>> => ObjectInQueue(q, q[1])
  BY <1>1 DEF ObjectInQueue, Contains
<1>5. \A x : ObjectInQueue(q, x) => x \in S
  BY DEF ObjectInQueue, Contains
<1> QED
  BY <1>1, <1>2, <1>3, <1>4, <1>5

LEMMA DeleteKeeps ==
  ASSUME NEW S, NEW q \in Seq(S), IsInjective(q), NEW x
  PROVE  /\ DeleteFromQueue(q, x) \in Seq(S)
         /\ IsInjective(DeleteFromQueue(q, x))
         /\ \A y : ObjectInQueue(DeleteFromQueue(q, x), y) <=> ObjectInQueue(q, y) /\ y # x
<1>1. CASE ~ObjectInQueue(q, x)
  <2>1. DeleteFromQueue(q, x) = q
    BY <1>1, Zenon DEF DeleteFromQueue, RemoveFirst, ObjectInQueue, Contains
  <2> QED BY <1>1, <2>1
<1>2. CASE ObjectInQueue(q, x)
  <2> DEFINE r == DeleteFromQueue(q, x)
  <2>1. PICK k \in 1..Len(q) :
          /\ q[k] = x
          /\ r = [i \in 1..(Len(q) - 1) |-> IF i < k THEN q[i] ELSE q[i + 1]]
    BY <1>2, DeleteFromQueueFact
  <2> HIDE DEF r
  <2>2. r \in Seq(S) /\ Len(r) = Len(q) - 1 /\ DOMAIN r = 1..Len(r)
    BY <2>1
  <2>3. \A i \in 1..Len(r) : r[i] = IF i < k THEN q[i] ELSE q[i + 1]
    BY <2>1, <2>2
  <2>4. \A i, j \in 1..Len(q) : q[i] = q[j] => i = j
    BY DEF IsInjective
  <2>5. IsInjective(r)
    BY <2>2, <2>3, <2>4 DEF IsInjective
  <2>6. ASSUME NEW y
        PROVE  ObjectInQueue(r, y) <=> ObjectInQueue(q, y) /\ y # x
    <3>1. ASSUME NEW i \in 1..Len(r), r[i] = y
          PROVE  ObjectInQueue(q, y) /\ y # x
      BY <2>1, <2>2, <2>3, <2>4, <3>1 DEF ObjectInQueue, Contains
    <3>2. ASSUME NEW i \in 1..Len(q), q[i] = y, y # x
          PROVE  ObjectInQueue(r, y)
      <4>1. CASE i < k
        BY <2>2, <2>3, <3>2, <4>1 DEF ObjectInQueue, Contains
      <4>2. CASE i > k
        <5>1. i - 1 \in 1..Len(r) /\ r[i - 1] = y
          BY <2>2, <2>3, <3>2, <4>2
        <5> QED BY <5>1 DEF ObjectInQueue, Contains
      <4> QED BY <2>1, <3>2, <4>1, <4>2
    <3> QED BY <3>1, <3>2 DEF ObjectInQueue, Contains
  <2> QED BY <2>2, <2>5, <2>6 DEF r
<1> QED BY <1>1, <1>2

LEMMA HeaderTaken ==
  ASSUME NEW S, NEW q \in Seq(S), IsInjective(q), q # <<>>
  PROVE  /\ HeaderElement(q) \in S /\ ObjectInQueue(q, HeaderElement(q))
         /\ WithoutHeader(q) \in Seq(S)
         /\ IsInjective(WithoutHeader(q))
         /\ \A y : ObjectInQueue(WithoutHeader(q), y)
                     <=> ObjectInQueue(q, y) /\ y # HeaderElement(q)
<1> DEFINE r == WithoutHeader(q)
<1>1. /\ HeaderElement(q) = q[1] /\ 1 \in 1..Len(q)
      /\ r \in Seq(S) /\ Len(r) = Len(q) - 1
      /\ \A i \in 1..Len(r) : r[i] = q[i + 1]
  BY DEF HeaderElement, WithoutHeader
<1> HIDE DEF r
<1>2. \A i, j \in 1..Len(q) : q[i] = q[j] => i = j
  BY DEF IsInjective
<1>3. IsInjective(r)
  BY <1>1, <1>2 DEF IsInjective
<1>4. ASSUME NEW y
      PROVE  ObjectInQueue(r, y) <=> ObjectInQueue(q, y) /\ y # q[1]
  <2>1. ASSUME NEW i \in 1..Len(r), r[i] = y
        PROVE  ObjectInQueue(q, y) /\ y # q[1]
    BY <1>1, <1>2, <2>1 DEF ObjectInQueue, Contains
  <2>2. ASSUME NEW i \in 1..Len(q), q[i] = y, y # q[1]
        PROVE  ObjectInQueue(r, y)
    <3>1. i - 1 \in 1..Len(r) /\ r[i - 1] = y
      BY <1>1, <2>2
    <3> QED BY <3>1 DEF ObjectInQueue, Contains
  <2> QED BY <2>1, <2>2 DEF ObjectInQueue, Contains
<1> QED BY <1>1, <1>3, <1>4 DEF r, ObjectInQueue, Contains

LEMMA AppendKeeps ==
  ASSUME NEW S, NEW q \in Seq(S), IsInjective(q), NEW x \in S, ~ObjectInQueue(q, x)
  PROVE  /\ Append(q, x) \in Seq(S)
         /\ IsInjective(Append(q, x))
         /\ \A y : ObjectInQueue(Append(q, x), y) <=> ObjectInQueue(q, y) \/ y = x
<1> DEFINE r == Append(q, x)
<1>1. /\ r \in Seq(S) /\ Len(r) = Len(q) + 1
      /\ \A i \in 1..Len(q) : r[i] = q[i]
      /\ r[Len(q) + 1] = x
  OBVIOUS
<1> HIDE DEF r
<1>2. \A i, j \in 1..Len(q) : q[i] = q[j] => i = j
  BY DEF IsInjective
<1>3. \A i \in 1..Len(q) : q[i] # x
  BY DEF ObjectInQueue, Contains
<1>4. \A i \in 1..Len(r) : i \in 1..Len(q) \/ i = Len(q) + 1
  BY <1>1
<1>5. IsInjective(r)
  <2>1. DOMAIN r = 1..Len(r)
    BY <1>1
  <2> QED BY <1>1, <1>2, <1>3, <1>4, <2>1 DEF IsInjective
<1>6. Len(q) + 1 \in 1..Len(r) /\ \A i \in 1..Len(q) : i \in 1..Len(r)
  BY <1>1
<1>7. ASSUME NEW y
      PROVE  ObjectInQueue(r, y) <=> ObjectInQueue(q, y) \/ y = x
  BY <1>1, <1>4, <1>6 DEF ObjectInQueue, Contains
<1> QED BY <1>1, <1>5, <1>7 DEF r

-----------------------------------------------------------------------------
(* Insertion by priority.                                                   *)

\* No element of the queue outranks one before it.
Sorted(q, pri) == \A i, j \in 1..Len(q) : i < j => pri[q[j]] <= pri[q[i]]

\* r is q with x behind position k, which is behind everything that ranks at
\* least as high; the rest moves by one position.
InsertedAfter(k, q, x, pri, r) ==
  /\ k > 0 => pri[q[k]] >= pri[x]
  /\ \A i \in (k + 1)..Len(q) : pri[q[i]] < pri[x]
  /\ \A i \in 1..k : r[i] = q[i]
  /\ r[k + 1] = x
  /\ \A i \in (k + 1)..Len(q) : r[i + 1] = q[i]

LEMMA InsertIntoQueueFact ==
  ASSUME NEW S, NEW q \in Seq(S), NEW x \in S, NEW pri \in [S -> Nat], NEW r,
         r = InsertIntoQueue(q, x, pri)
  PROVE  /\ r \in Seq(S) /\ Len(r) = Len(q) + 1
         /\ \E k \in 0..Len(q) : InsertedAfter(k, q, x, pri, r)
<1> DEFINE I == {i \in 1..Len(q) : pri[q[i]] >= pri[x]}
<1>1. PICK k \in 0..Len(q) :
        /\ k > 0 => pri[q[k]] >= pri[x]
        /\ \A i \in 1..Len(q) : i > k => ~(pri[q[i]] >= pri[x])
        /\ InsertIntoQueue(q, x, pri) = InsertAt(q, 1 + k, x)
  <2>1. CASE I = {}
    <3>1. InsertIntoQueue(q, x, pri) = InsertAt(q, 1 + 0, x)
      BY <2>1, Zenon DEF InsertIntoQueue, SelectLastInSeq
    <3>2. \A i \in 1..Len(q) : ~(pri[q[i]] >= pri[x])
      BY <2>1
    <3> QED BY <3>1, <3>2
  <2>2. CASE I # {}
    <3>1. InsertIntoQueue(q, x, pri) = InsertAt(q, 1 + Max(I), x)
      BY <2>2, Zenon DEF InsertIntoQueue, SelectLastInSeq
    <3>2. \E m \in I : \A n \in I : m >= n
      <4> DEFINE J == {Len(q) - i : i \in I}
      <4>1. J \subseteq Nat /\ J # {}
        BY <2>2
      <4>2. PICK j \in J : \A n \in J : j <= n
        <5> HIDE DEF J
        <5> QED BY <4>1, LeastNatural
      <4>3. PICK m \in I : j = Len(q) - m
        BY <4>2
      <4>4. ASSUME NEW n \in I PROVE m >= n
        <5>1. Len(q) - n \in J
          OBVIOUS
        <5>2. j <= Len(q) - n
          BY <4>2, <5>1
        <5>3. m \in Int /\ n \in Int /\ Len(q) \in Nat
          OBVIOUS
        <5> HIDE DEF I, J
        <5> QED BY <4>3, <5>2, <5>3
      <4> QED BY <4>4
    <3>3. PICK k \in I : k = Max(I) /\ \A n \in I : k >= n
      BY <3>2, Zenon DEF Max
    <3>4. /\ k \in 1..Len(q) /\ pri[q[k]] >= pri[x]
          /\ \A i \in 1..Len(q) : pri[q[i]] >= pri[x] => k >= i
      BY <3>3
    <3>5. \A i \in 1..Len(q) : i > k => ~(pri[q[i]] >= pri[x])
      BY <3>4
    <3> HIDE DEF I
    <3> QED BY <3>1, <3>3, <3>4, <3>5
  <2> QED BY <2>1, <2>2
<1>2. \A i \in 1..Len(q) : q[i] \in S /\ pri[q[i]] \in Nat
  OBVIOUS
<1>3. \A i \in 1..Len(q) : i > k => pri[q[i]] < pri[x]
  BY <1>1, <1>2
<1> DEFINE a == SubSeq(q, 1, k)
           b == SubSeq(q, 1 + k, Len(q))
           d == a \o <<x>>
<1> HIDE DEF I
<1>4. k \in Nat /\ Len(q) \in Nat /\ k <= Len(q)
  OBVIOUS
<1>5. r = d \o b
  <2>1. (1 + k) - 1 = k
    OBVIOUS
  <2> QED BY <1>1, <2>1, Zenon DEF InsertAt
<1>6. /\ a \in Seq(S) /\ Len(a) = k /\ \A i \in 1..k : a[i] = q[i]
      /\ b \in Seq(S) /\ Len(b) = Len(q) - k
      /\ \A i \in 1..(Len(q) - k) : b[i] = q[k + i]
      /\ <<x>> \in Seq(S) /\ Len(<<x>>) = 1 /\ <<x>>[1] = x
  <2>1. k \in Int /\ 1 + k \in Int /\ Len(q) \in Nat /\ 1 \in Int
    OBVIOUS
  <2>2. /\ \A i \in 1..k : q[i] \in S
        /\ \A i \in (1 + k)..Len(q) : q[i] \in S
    OBVIOUS
  <2>3. /\ a \in Seq(S) /\ Len(a) = IF 1 <= k THEN k - 1 + 1 ELSE 0
        /\ \A i \in 1..(k - 1 + 1) : a[i] = q[1 + i - 1]
    BY <2>1, <2>2, SubSeqProperties
  <2>4. /\ b \in Seq(S) /\ Len(b) = IF 1 + k <= Len(q) THEN Len(q) - (1 + k) + 1 ELSE 0
        /\ \A i \in 1..(Len(q) - (1 + k) + 1) : b[i] = q[1 + k + i - 1]
    BY <2>1, <2>2, SubSeqProperties
  <2>5. <<x>> \in Seq(S) /\ Len(<<x>>) = 1 /\ <<x>>[1] = x
    OBVIOUS
  <2> HIDE DEF a, b
  <2> QED BY <2>1, <2>3, <2>4, <2>5
<1> HIDE DEF a, b, d
<1>7. /\ d \in Seq(S) /\ Len(d) = k + 1
      /\ \A i \in 1..k : d[i] = q[i]
      /\ d[k + 1] = x
  <2>1. /\ d \in Seq(S) /\ Len(d) = Len(a) + Len(<<x>>)
        /\ \A i \in 1..(Len(a) + Len(<<x>>)) :
             d[i] = IF i <= Len(a) THEN a[i] ELSE <<x>>[i - Len(a)]
    BY <1>6, ConcatProperties, Zenon DEF d
  <2>2. /\ Len(d) = k + 1
        /\ \A i \in 1..(k + 1) : d[i] = IF i <= k THEN a[i] ELSE <<x>>[i - k]
    BY <1>6, <2>1, Zenon
  <2>3. ASSUME NEW i \in 1..k PROVE d[i] = q[i]
    BY <1>4, <1>6, <2>2
  <2>4. k + 1 \in 1..(k + 1) /\ ~(k + 1 <= k) /\ (k + 1) - k = 1
    BY <1>4
  <2>5. d[k + 1] = x
    BY <1>6, <2>2, <2>4, Zenon
  <2> QED BY <2>1, <2>2, <2>3, <2>5
<1>8. /\ r \in Seq(S) /\ Len(r) = Len(d) + Len(b)
      /\ \A i \in 1..(Len(d) + Len(b)) :
           r[i] = IF i <= Len(d) THEN d[i] ELSE b[i - Len(d)]
  <2>1. /\ d \o b \in Seq(S) /\ Len(d \o b) = Len(d) + Len(b)
        /\ \A i \in 1..(Len(d) + Len(b)) :
             (d \o b)[i] = IF i <= Len(d) THEN d[i] ELSE b[i - Len(d)]
    <3>1. d \in Seq(S) /\ b \in Seq(S)
      BY <1>6, <1>7
    <3> QED BY <3>1, ConcatProperties, Zenon
  <2> QED BY <1>5, <2>1, Zenon
<1>9. /\ Len(r) = Len(q) + 1
      /\ \A i \in 1..(Len(q) + 1) :
           r[i] = IF i <= k + 1 THEN d[i] ELSE b[i - (k + 1)]
  <2>1. (k + 1) + (Len(q) - k) = Len(q) + 1
    BY <1>4
  <2>2. Len(d) + Len(b) = Len(q) + 1
    BY <1>6, <1>7, <2>1, Zenon
  <2> QED BY <1>7, <1>8, <2>2, Zenon
<1>10. ASSUME NEW i \in 1..(k + 1) PROVE r[i] = d[i]
  BY <1>4, <1>9
<1>11. ASSUME NEW i \in (k + 1)..Len(q) PROVE r[i + 1] = q[i]
  <2>1. /\ i + 1 \in 1..(Len(q) + 1) /\ ~(i + 1 <= k + 1) /\ i + 1 - (k + 1) = i - k
        /\ i - k \in 1..(Len(q) - k) /\ k + (i - k) = i
    BY <1>4
  <2> DEFINE n == i + 1
  <2>2. n \in 1..(Len(q) + 1) /\ ~(n <= k + 1) /\ n - (k + 1) = i - k
    BY <2>1
  <2> HIDE DEF n
  <2>3. r[n] = b[n - (k + 1)]
    BY <1>9, <2>2, Zenon
  <2> QED BY <1>6, <2>1, <2>2, <2>3, Zenon DEF n
<1>12. k + 1 \in 1..(k + 1) /\ \A i \in 1..k : i \in 1..(k + 1)
  BY <1>4
<1>13. \A i \in (k + 1)..Len(q) : i \in 1..Len(q) /\ i > k
  BY <1>4
<1> QED
  <2>1. r[k + 1] = x /\ \A i \in 1..k : r[i] = q[i]
    BY <1>7, <1>10, <1>12, Zenon
  <2>2. \A i \in (k + 1)..Len(q) : pri[q[i]] < pri[x]
    BY <1>3, <1>13, Zenon
  <2>3. InsertedAfter(k, q, x, pri, r)
    BY <1>1, <1>11, <2>1, <2>2, Zenon DEF InsertedAfter
  <2> QED BY <1>8, <1>9, <2>3

LEMMA InsertKeeps ==
  ASSUME NEW S, NEW q \in Seq(S), IsInjective(q), NEW x \in S, ~ObjectInQueue(q, x),
         NEW pri \in [S -> Nat], NEW r, r = InsertIntoQueue(q, x, pri)
  PROVE  /\ r \in Seq(S)
         /\ IsInjective(r)
         /\ \A y : ObjectInQueue(r, y) <=> ObjectInQueue(q, y) \/ y = x
         /\ Sorted(q, pri) => Sorted(r, pri)
<1>1. /\ r \in Seq(S) /\ Len(r) = Len(q) + 1
      /\ \E k \in 0..Len(q) : InsertedAfter(k, q, x, pri, r)
  BY InsertIntoQueueFact
<1>2. PICK k \in 0..Len(q) :
        /\ k > 0 => pri[q[k]] >= pri[x]
        /\ \A i \in (k + 1)..Len(q) : pri[q[i]] < pri[x]
        /\ \A i \in 1..k : r[i] = q[i]
        /\ r[k + 1] = x
        /\ \A i \in (k + 1)..Len(q) : r[i + 1] = q[i]
  BY <1>1 DEF InsertedAfter
<1>3. k \in Nat /\ Len(q) \in Nat /\ k <= Len(q) /\ DOMAIN q = 1..Len(q) /\ DOMAIN r = 1..Len(r)
  BY <1>1
<1>4. \A i \in 1..Len(q) : q[i] \in S /\ pri[q[i]] \in Nat /\ q[i] # x
  BY DEF ObjectInQueue, Contains
\* Where the element at a position of the new queue comes from.
<1> DEFINE old(i) == IF i <= k THEN i ELSE i - 1
<1>5. ASSUME NEW i \in 1..Len(r)
      PROVE  \/ i = k + 1 /\ r[i] = x
             \/ i # k + 1 /\ old(i) \in 1..Len(q) /\ r[i] = q[old(i)]
  <2>1. CASE i <= k
    BY <1>2, <1>3, <2>1
  <2>2. CASE i = k + 1
    BY <1>2, <2>2
  <2>3. CASE i > k + 1
    <3>1. i - 1 \in (k + 1)..Len(q) /\ (i - 1) + 1 = i /\ i - 1 \in 1..Len(q) /\ ~(i <= k)
      BY <1>1, <1>3, <2>3
    <3>2. r[i] = q[i - 1]
      BY <1>2, <3>1
    <3> QED BY <2>3, <3>1, <3>2
  <2> QED BY <1>3, <2>1, <2>2, <2>3
<1>6. \A i, j \in 1..Len(q) : q[i] = q[j] => i = j
  BY <1>3 DEF IsInjective
<1>7. IsInjective(r)
  <2>1. ASSUME NEW i \in 1..Len(r), NEW j \in 1..Len(r), r[i] = r[j]
        PROVE  i = j
    <3>1. \/ i = k + 1 /\ r[i] = x
          \/ i # k + 1 /\ old(i) \in 1..Len(q) /\ r[i] = q[old(i)]
      BY <1>5
    <3>2. \/ j = k + 1 /\ r[j] = x
          \/ j # k + 1 /\ old(j) \in 1..Len(q) /\ r[j] = q[old(j)]
      BY <1>5
    <3>3. CASE i = k + 1 \/ j = k + 1
      <4> HIDE DEF old
      <4> QED BY <1>4, <2>1, <3>1, <3>2, <3>3
    <3>4. CASE i # k + 1 /\ j # k + 1
      <4>1. old(i) = old(j)
        <5> HIDE DEF old
        <5> QED BY <1>6, <2>1, <3>1, <3>2, <3>4
      <4>2. i \in Int /\ j \in Int
        OBVIOUS
      <4> QED BY <1>3, <3>4, <4>1, <4>2
    <3> QED BY <3>3, <3>4
  <2> QED BY <1>3, <2>1 DEF IsInjective
<1>8. ASSUME NEW y
      PROVE  ObjectInQueue(r, y) <=> ObjectInQueue(q, y) \/ y = x
  <2>1. ASSUME NEW i \in 1..Len(r), r[i] = y
        PROVE  ObjectInQueue(q, y) \/ y = x
    <3> HIDE DEF old
    <3> QED BY <1>5, <2>1 DEF ObjectInQueue, Contains
  <2>2. ObjectInQueue(r, x)
    <3>1. k + 1 \in 1..Len(r)
      BY <1>1, <1>3
    <3> QED BY <1>2, <3>1 DEF ObjectInQueue, Contains
  <2>3. ASSUME NEW i \in 1..Len(q), q[i] = y
        PROVE  ObjectInQueue(r, y)
    <3>1. CASE i <= k
      <4>1. i \in 1..k /\ i \in 1..Len(r)
        BY <1>1, <1>3, <3>1
      <4> QED BY <1>2, <2>3, <4>1 DEF ObjectInQueue, Contains
    <3>2. CASE i > k
      <4>1. i \in (k + 1)..Len(q) /\ i + 1 \in 1..Len(r)
        BY <1>1, <1>3, <3>2
      <4> QED BY <1>2, <2>3, <4>1 DEF ObjectInQueue, Contains
    <3> QED BY <1>3, <3>1, <3>2
  <2> QED BY <2>1, <2>2, <2>3 DEF ObjectInQueue, Contains
<1>9. ASSUME Sorted(q, pri)
      PROVE  Sorted(r, pri)
  <2>1. \A i, j \in 1..Len(q) : i <= j => pri[q[j]] <= pri[q[i]]
    BY <1>4, <1>9 DEF Sorted
  <2>2. ASSUME NEW i \in 1..Len(q), i <= k
        PROVE  pri[x] <= pri[q[i]]
    <3>1. k \in 1..Len(q) /\ k > 0
      BY <1>3, <2>2
    <3>2. pri[q[k]] >= pri[x] /\ pri[q[k]] <= pri[q[i]]
      BY <1>2, <2>1, <2>2, <3>1
    <3>3. pri[q[k]] \in Nat /\ pri[q[i]] \in Nat /\ pri[x] \in Nat
      BY <1>4, <3>1
    <3> QED BY <3>2, <3>3
  <2>3. ASSUME NEW i \in 1..Len(q), i > k
        PROVE  pri[q[i]] <= pri[x]
    <3>1. i \in (k + 1)..Len(q)
      BY <1>3, <2>3
    <3>2. pri[q[i]] < pri[x] /\ pri[q[i]] \in Nat /\ pri[x] \in Nat
      BY <1>2, <1>4, <3>1
    <3> QED BY <3>2
  <2>4. ASSUME NEW i \in 1..Len(r), NEW j \in 1..Len(r), i < j
        PROVE  pri[r[j]] <= pri[r[i]]
    <3>1. \/ i = k + 1 /\ r[i] = x
          \/ i # k + 1 /\ old(i) \in 1..Len(q) /\ r[i] = q[old(i)]
      BY <1>5
    <3>2. \/ j = k + 1 /\ r[j] = x
          \/ j # k + 1 /\ old(j) \in 1..Len(q) /\ r[j] = q[old(j)]
      BY <1>5
    <3>3. i \in Int /\ j \in Int
      BY <1>1, <1>3
    <3>4. CASE i = k + 1
      <4>1. j # k + 1 /\ old(j) > k
        BY <1>3, <2>4, <3>3, <3>4
      <4> HIDE DEF old
      <4> QED BY <2>3, <3>1, <3>2, <3>4, <4>1
    <3>5. CASE j = k + 1
      <4>1. i # k + 1 /\ old(i) <= k
        BY <1>3, <2>4, <3>3, <3>5
      <4> HIDE DEF old
      <4> QED BY <2>2, <3>1, <3>2, <3>5, <4>1
    <3>6. CASE i # k + 1 /\ j # k + 1
      <4>1. old(i) <= old(j)
        BY <1>3, <2>4, <3>3, <3>6
      <4> HIDE DEF old
      <4> QED BY <2>1, <3>1, <3>2, <3>6, <4>1
    <3> QED BY <3>4, <3>5, <3>6
  <2> QED BY <2>4 DEF Sorted
<1> QED BY <1>1, <1>7, <1>8, <1>9

\* Taking elements out keeps the order, and the header is the highest.
LEMMA SortedKept ==
  ASSUME NEW S, NEW q \in Seq(S), NEW pri \in [S -> Nat], Sorted(q, pri)
  PROVE  /\ \A x : Sorted(DeleteFromQueue(q, x), pri)
         /\ q # <<>> => Sorted(WithoutHeader(q), pri)
         /\ \A y : ObjectInQueue(q, y) => pri[y] <= pri[HeaderElement(q)]
<1>1. \A i, j \in 1..Len(q) : i < j => pri[q[j]] <= pri[q[i]]
  BY DEF Sorted
<1>2. ASSUME NEW x
      PROVE  Sorted(DeleteFromQueue(q, x), pri)
  <2> DEFINE r == DeleteFromQueue(q, x)
  <2>1. CASE ~ObjectInQueue(q, x)
    <3>1. r = q
      BY <2>1, Zenon DEF DeleteFromQueue, RemoveFirst, ObjectInQueue, Contains
    <3> QED BY <3>1
  <2>2. CASE ObjectInQueue(q, x)
    <3>1. PICK k \in 1..Len(q) :
            /\ q[k] = x
            /\ r = [i \in 1..(Len(q) - 1) |-> IF i < k THEN q[i] ELSE q[i + 1]]
      BY <2>2, DeleteFromQueueFact
    <3> HIDE DEF r
    <3>2. Len(r) = Len(q) - 1 /\ \A i \in 1..Len(r) : r[i] = IF i < k THEN q[i] ELSE q[i + 1]
      BY <3>1
    <3>3. ASSUME NEW i \in 1..Len(r), NEW j \in 1..Len(r), i < j
          PROVE  pri[r[j]] <= pri[r[i]]
      <4> DEFINE old(n) == IF n < k THEN n ELSE n + 1
      <4>1. r[i] = q[old(i)] /\ r[j] = q[old(j)]
        BY <3>2
      <4>2. old(i) \in 1..Len(q) /\ old(j) \in 1..Len(q) /\ old(i) < old(j)
        BY <3>2, <3>3
      <4> HIDE DEF old
      <4> QED BY <1>1, <4>1, <4>2
    <3>4. Sorted(r, pri)
      BY <3>3 DEF Sorted
    <3> QED BY <3>4 DEF r
  <2> QED BY <2>1, <2>2
<1>3. ASSUME q # <<>>
      PROVE  Sorted(WithoutHeader(q), pri)
  <2>1. /\ Len(WithoutHeader(q)) = Len(q) - 1
        /\ \A i \in 1..Len(WithoutHeader(q)) : WithoutHeader(q)[i] = q[i + 1]
    BY <1>3 DEF WithoutHeader
  <2>2. ASSUME NEW i \in 1..Len(WithoutHeader(q)), NEW j \in 1..Len(WithoutHeader(q)), i < j
        PROVE  pri[WithoutHeader(q)[j]] <= pri[WithoutHeader(q)[i]]
    <3>1. i + 1 \in 1..Len(q) /\ j + 1 \in 1..Len(q) /\ i + 1 < j + 1
      BY <2>1, <2>2
    <3> QED BY <1>1, <2>1, <3>1
  <2> QED BY <2>2 DEF Sorted
<1>4. ASSUME NEW y, ObjectInQueue(q, y)
      PROVE  pri[y] <= pri[HeaderElement(q)]
  <2>1. PICK i \in 1..Len(q) : q[i] = y
    BY <1>4 DEF ObjectInQueue, Contains
  <2>2. 1 \in 1..Len(q) /\ HeaderElement(q) = q[1] /\ pri[q[1]] \in Nat
    BY <2>1 DEF HeaderElement
  <2> QED BY <1>1, <2>1, <2>2
<1> QED BY <1>2, <1>3, <1>4

\* A queue in which nobody is queued twice has as many positions as members.
LEMMA QueueMembers ==
  ASSUME NEW S, NEW q \in Seq(S)
  PROVE  /\ \A x : x \in ToSet(q) <=> ObjectInQueue(q, x)
         /\ IsFiniteSet(ToSet(q))
         /\ IsInjective(q) => Cardinality(ToSet(q)) = Len(q)
<1>1. Len(q) \in Nat /\ DOMAIN q = 1..Len(q)
  OBVIOUS
<1>2. \A x : x \in ToSet(q) <=> ObjectInQueue(q, x)
  BY <1>1 DEF ToSet, ObjectInQueue, Contains
<1>3. q \in [1..Len(q) -> ToSet(q)] /\ \A y \in ToSet(q) : \E i \in 1..Len(q) : q[i] = y
  BY <1>1 DEF ToSet
<1>4. IsFiniteSet(ToSet(q))
  <2>1. q \in Surjection(1..Len(q), ToSet(q))
    BY <1>3, Fun_IsSurj
  <2> QED BY <1>1, <2>1, FS_NatSurjection DEF ExistsSurjection
<1>5. ASSUME IsInjective(q)
      PROVE  Cardinality(ToSet(q)) = Len(q)
  <2>1. \A i, j \in 1..Len(q) : q[i] = q[j] => i = j
    BY <1>1, <1>5 DEF IsInjective
  <2>2. q \in Bijection(1..Len(q), ToSet(q))
    BY <1>3, <2>1, Fun_IsBij
  <2> QED BY <1>1, <2>2, FS_CountingElements DEF ExistsBijection
<1> QED BY <1>2, <1>4, <1>5
=============================================================================
