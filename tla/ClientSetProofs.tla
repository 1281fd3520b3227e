--------------------------- MODULE ClientSetProofs ---------------------------
(***************************************************************************)
(* Proofs about ClientSet.  BoxInv is the invariant: the registry, what an *)
(* activation under way remembers to go back to, and the ids.  An          *)
(* operation on the registry leaves a partition of the same clients        *)
(* (Keeps); a sort is a permutation because in a strict order of a finite  *)
(* set no two elements have the same number of elements before them; the   *)
(* poll's loops over clients that went and came are followed to the first  *)
(* step at which they could have gone wrong.                               *)
(***************************************************************************)
EXTENDS ClientSet, SequenceTheorems, FiniteSetTheorems, WellFoundedInduction,
        NaturalsInduction, TLAPS

USE ClientSetBounds

Identity  == Character \cup {Nobody}
Numbering == UNION {[S -> Nat \ {0}] : S \in SUBSET Pid}
Client    == [number : Numbering, who : [Pid -> Identity], observed : [Pid -> Identity],
              active : Pid \cup {Nobody}, pips : Seq(Pid)]

-----------------------------------------------------------------------------
(* Sequences *)

LEMMA SequenceIs ==
  ASSUME NEW T, NEW n \in Nat, NEW s \in [1 .. n -> T]
  PROVE  s \in Seq(T) /\ Len(s) = n
OBVIOUS

LEMMA ElementsAre ==
  ASSUME NEW T, NEW s \in Seq(T)
  PROVE  ToSet(s) \subseteq T
BY DEF ToSet

LEMMA JoinedIs ==
  ASSUME NEW T, NEW s \in Seq(T), NEW t \in Seq(T)
  PROVE  /\ s \o t \in Seq(T) /\ Len(s \o t) = Len(s) + Len(t)
         /\ Len(s) \in Nat /\ DOMAIN s = 1 .. Len(s)
         /\ DOMAIN (s \o t) = 1 .. Len(s) + Len(t)
         /\ \A i \in 1 .. Len(s) : (s \o t)[i] = s[i]
         /\ \A i \in Len(s) + 1 .. Len(s) + Len(t) : (s \o t)[i] = t[i - Len(s)]
OBVIOUS

-----------------------------------------------------------------------------
(* Sorting *)

\* R is a strict order of S.
Orders(R, S) ==
  /\ \A p \in S : <<p, p>> \notin R
  /\ \A p, q, r \in S : <<p, q>> \in R /\ <<q, r>> \in R => <<p, r>> \in R
  /\ \A p, q \in S : p # q => <<p, q>> \in R \/ <<q, p>> \in R

\* No two elements have the same number of others before them.
LEMMA PlacesDiffer ==
  ASSUME NEW S, IsFiniteSet(S), NEW R, Orders(R, S)
  PROVE  /\ \A p \in S : Cardinality(Before(S, R, p)) \in 0 .. Cardinality(S) - 1
         /\ \A p, q \in S : p # q =>
              Cardinality(Before(S, R, p)) # Cardinality(Before(S, R, q))
<1> DEFINE B(p) == Before(S, R, p)
<1>1. \A p \in S : /\ IsFiniteSet(B(p)) /\ Cardinality(B(p)) \in Nat
                   /\ Cardinality(B(p)) < Cardinality(S)
  <2>1. TAKE p \in S
  <2>2. B(p) \in SUBSET (S \ {p})
    BY <2>1 DEF Before, Orders
  <2>3. IsFiniteSet(S \ {p}) /\ Cardinality(S \ {p}) = Cardinality(S) - 1
    BY <2>1, FS_RemoveElement
  <2>4. IsFiniteSet(B(p)) /\ Cardinality(B(p)) <= Cardinality(S \ {p})
    BY <2>2, <2>3, FS_Subset
  <2>5. Cardinality(B(p)) \in Nat /\ Cardinality(S) \in Nat
    BY <2>4, FS_CardinalityType
  <2> QED BY <2>3, <2>4, <2>5
<1>2. ASSUME NEW p \in S, NEW q \in S, <<p, q>> \in R
      PROVE  Cardinality(B(p)) < Cardinality(B(q))
  <2>1. p \in B(q) /\ p \notin B(p) /\ B(p) \in SUBSET B(q)
    BY <1>2 DEF Before, Orders
  <2>2. Cardinality(B(p)) <= Cardinality(B(q)) /\ (Cardinality(B(q)) = Cardinality(B(p)) => B(q) = B(p))
    BY <1>1, <2>1, FS_Subset
  <2>3. B(q) # B(p)
    BY <2>1
  <2> HIDE DEF B
  <2> QED BY <1>1, <2>2, <2>3
<1>3. Cardinality(S) \in Nat
  BY FS_CardinalityType
<1> HIDE DEF B
<1>4. \A p \in S : Cardinality(B(p)) \in 0 .. Cardinality(S) - 1
  BY <1>1, <1>3
<1>5. \A p, q \in S : p # q => Cardinality(B(p)) # Cardinality(B(q))
  <2>1. TAKE p, q \in S
  <2>2. HAVE p # q
  <2>3. <<p, q>> \in R \/ <<q, p>> \in R
    BY <2>1, <2>2 DEF Orders
  <2>4. Cardinality(B(p)) \in Nat /\ Cardinality(B(q)) \in Nat
    BY <1>1, <2>1
  <2> QED BY <1>2, <2>1, <2>3, <2>4
<1> QED BY <1>4, <1>5 DEF B

\* So the places are those of a sequence that lists the elements once.
LEMMA ListedOnce ==
  ASSUME NEW S, IsFiniteSet(S), NEW R, Orders(R, S)
  PROVE  /\ Listed(S, R) \in Seq(S) /\ Len(Listed(S, R)) = Cardinality(S)
         /\ IsInjective(Listed(S, R)) /\ ToSet(Listed(S, R)) = S
<1> DEFINE at(p) == Cardinality(Before(S, R, p)) + 1
           f == [p \in S |-> at(p)]
           L == Listed(S, R)
<1>1. PICK n \in Nat : n = Cardinality(S)
  BY FS_CardinalityType
<1>2. /\ \A p \in S : Cardinality(Before(S, R, p)) \in 0 .. n - 1
      /\ \A p, q \in S : p # q =>
              Cardinality(Before(S, R, p)) # Cardinality(Before(S, R, q))
  BY <1>1, PlacesDiffer
<1>3. (\A p \in S : at(p) \in 1 .. n) /\ (\A p, q \in S : at(p) = at(q) => p = q)
  BY <1>1, <1>2
<1>4. f \in Injection(S, 1 .. n)
  <2> HIDE DEF at
  <2> QED BY <1>3 DEF Injection, IsInjective
<1>5. IsFiniteSet(1 .. n) /\ Cardinality(1 .. n) = n
  BY <1>1, FS_Interval
<1>6. f \in Surjection(S, 1 .. n)
  <2> HIDE DEF f
  <2> QED BY <1>1, <1>4, <1>5, FS_Injection
<1>7. \A i \in 1 .. n : \E p \in S : at(p) = i
  <2> HIDE DEF at
  <2> QED BY <1>6 DEF Surjection
<1>8. \A i \in 1 .. n : \E p \in S : Cardinality(Before(S, R, p)) = i - 1
  <2>1. TAKE i \in 1 .. n
  <2>2. PICK p \in S : at(p) = i
    BY <1>7, <2>1
  <2>3. Cardinality(Before(S, R, p)) = i - 1
    BY <1>1, <1>2, <2>1, <2>2
  <2> QED BY <2>3
<1>9. L = [i \in 1 .. n |-> CHOOSE p \in S : Cardinality(Before(S, R, p)) = i - 1]
  BY <1>1 DEF Listed
<1> HIDE DEF L
<1>10. \A i \in 1 .. n : L[i] \in S /\ Cardinality(Before(S, R, L[i])) = i - 1
  BY <1>8, <1>9
<1>11. L \in [1 .. n -> S]
  BY <1>9, <1>10
<1>12. L \in Seq(S) /\ Len(L) = n /\ DOMAIN L = 1 .. n
  BY <1>1, <1>11
<1>13. IsInjective(L)
  <2>1. \A i, j \in 1 .. n : L[i] = L[j] => i - 1 = j - 1
    BY <1>10
  <2>2. \A i, j \in 1 .. n : i - 1 = j - 1 => i = j
    BY <1>1
  <2> QED BY <1>12, <2>1, <2>2 DEF IsInjective
<1>14. \A p \in S : \E i \in 1 .. n : L[i] = p
  <2>1. TAKE p \in S
  <2>2. at(p) \in 1 .. n /\ at(p) - 1 = Cardinality(Before(S, R, p))
    BY <1>1, <1>2, <1>3, <2>1
  <2>3. L[at(p)] \in S /\ Cardinality(Before(S, R, L[at(p)])) = Cardinality(Before(S, R, p))
    BY <1>10, <2>2
  <2>4. L[at(p)] = p
    BY <1>2, <2>1, <2>3
  <2> QED BY <2>2, <2>4
<1>15. ToSet(L) = S
  BY <1>10, <1>12, <1>14 DEF ToSet
<1> QED BY <1>1, <1>12, <1>13, <1>15 DEF L

\* There is a first place.
LEMMA LeastNatural ==
  ASSUME NEW S \in SUBSET Nat, S # {}
  PROVE  \E x \in S : \A y \in S : x <= y
<1>1. PICK x \in S : \A y \in S : ~ (<<y, x>> \in OpToRel(<, Nat))
  BY NatLessThanWellFounded, WFMin
<1>2. ASSUME NEW y \in S, y < x PROVE FALSE
  <2>1. <<y, x>> \in Nat \X Nat /\ <<y, x>>[1] = y /\ <<y, x>>[2] = x
    OBVIOUS
  <2>2. <<y, x>> \in OpToRel(<, Nat)
    BY <2>1, <1>2, Zenon DEF OpToRel
  <2> QED BY <2>2, <1>1
<1> QED BY <1>2

LEMMA PositionStands ==
  ASSUME NEW T, NEW s \in Seq(T), NEW e
  PROVE  /\ Position(s, e) \in 1 .. Len(s) + 1
         /\ Contains(s, e) => Position(s, e) \in DOMAIN s /\ s[Position(s, e)] = e
<1>1. PICK n \in Nat : n = Len(s) /\ DOMAIN s = 1 .. n
  OBVIOUS
<1>2. CASE Contains(s, e)
  <2> DEFINE S == {i \in 1 .. n : s[i] = e}
             P(i) == s[i] = e /\ \A j \in 1 .. i - 1 : s[j] # e
  <2>1. S # {} /\ S \in SUBSET Nat
    BY <1>1, <1>2 DEF Contains
  <2>2. PICK i \in S : \A j \in S : i <= j
    BY <2>1, LeastNatural
  <2>3. i \in 1 .. n /\ P(i)
    <3>1. i \in 1 .. n /\ s[i] = e
      BY <2>2
    <3>2. \A j \in 1 .. i - 1 : j \in 1 .. n /\ ~(i <= j)
      BY <3>1, <1>1
    <3>3. \A j \in 1 .. i - 1 : s[j] # e
      BY <2>2, <3>2
    <3> QED BY <3>1, <3>3
  <2>4. Position(s, e) = CHOOSE k \in 1 .. n : P(k)
    BY <1>1, <1>2 DEF Position
  <2> HIDE DEF P
  <2>5. Position(s, e) \in 1 .. n /\ P(Position(s, e))
    BY <2>3, <2>4
  <2>6. Position(s, e) \in 1 .. n + 1
    BY <1>1, <2>5
  <2> QED BY <1>1, <2>5, <2>6 DEF P
<1>3. CASE ~Contains(s, e)
  <2>1. Position(s, e) = n + 1
    BY <1>1, <1>3 DEF Position
  <2> QED BY <1>1, <1>3, <2>1
<1> QED BY <1>2, <1>3

\* w is s without its i-th element.
Skips(w, s, i) == w = RemoveAt(s, i)

LEMMA SkipsOne ==
  ASSUME NEW T, NEW s \in Seq(T), NEW i \in 1 .. Len(s), NEW w, Skips(w, s, i)
  PROVE  /\ w \in Seq(T) /\ Len(w) = Len(s) - 1
         /\ \A k \in 1 .. Len(s) - 1 : w[k] = IF k < i THEN s[k] ELSE s[k + 1]
<1>1. PICK n \in Nat : n = Len(s)
  OBVIOUS
<1> DEFINE a == SubSeq(s, 1, i - 1) b == SubSeq(s, i + 1, n)
<1>2. i \in 1 .. n /\ \A k \in 1 .. n : s[k] \in T
  BY <1>1
<1>3. \A k \in 1 .. i - 1 : k \in 1 .. n
  BY <1>1, <1>2
<1>4. \A k \in i + 1 .. n : k \in 1 .. n
  BY <1>1, <1>2
<1>5. \A k \in 1 .. i - 1 : s[k] \in T
  BY <1>2, <1>3
<1>6. \A k \in i + 1 .. n : s[k] \in T
  BY <1>2, <1>4
<1>7. /\ a \in Seq(T) /\ Len(a) = IF 1 <= i - 1 THEN i - 1 - 1 + 1 ELSE 0
      /\ \A k \in 1 .. i - 1 - 1 + 1 : a[k] = s[1 + k - 1]
  BY <1>1, <1>2, <1>5, SubSeqProperties
<1>8. /\ b \in Seq(T) /\ Len(b) = IF i + 1 <= n THEN n - (i + 1) + 1 ELSE 0
      /\ \A k \in 1 .. n - (i + 1) + 1 : b[k] = s[i + 1 + k - 1]
  BY <1>1, <1>2, <1>6, SubSeqProperties
<1>9. w = a \o b
  BY <1>1 DEF Skips, RemoveAt
<1> HIDE DEF a, b
<1>10. Len(a) = i - 1 /\ Len(b) = n - i
  BY <1>1, <1>2, <1>7, <1>8
<1>11. /\ w \in Seq(T) /\ Len(w) = Len(a) + Len(b)
       /\ \A k \in 1 .. Len(a) + Len(b) : w[k] = IF k <= Len(a) THEN a[k] ELSE b[k - Len(a)]
  <2>1. a \in Seq(T) /\ b \in Seq(T)
    BY <1>7, <1>8
  <2>2. /\ a \o b \in Seq(T) /\ Len(a \o b) = Len(a) + Len(b)
        /\ \A k \in 1 .. Len(a) + Len(b) : (a \o b)[k] = IF k <= Len(a) THEN a[k] ELSE b[k - Len(a)]
    BY <2>1, ConcatProperties
  <2> QED BY <1>9, <2>2
<1>12. Len(w) = n - 1 /\ \A k \in 1 .. n - 1 : w[k] = IF k <= i - 1 THEN a[k] ELSE b[k - (i - 1)]
  <2>1. (i - 1) + (n - i) = n - 1
    BY <1>1, <1>2
  <2> QED BY <1>10, <1>11, <2>1
<1>13. ASSUME NEW k \in 1 .. n - 1
       PROVE  w[k] = IF k < i THEN s[k] ELSE s[k + 1]
  <2>1. CASE k < i
    <3>1. k <= i - 1 /\ k \in 1 .. i - 1 - 1 + 1 /\ 1 + k - 1 = k
      BY <1>1, <1>2, <1>13, <2>1
    <3> QED BY <1>7, <1>12, <1>13, <2>1, <3>1
  <2>2. CASE ~(k < i)
    <3>1. ~(k <= i - 1) /\ k - (i - 1) \in 1 .. n - (i + 1) + 1 /\ i + 1 + (k - (i - 1)) - 1 = k + 1
      BY <1>1, <1>2, <1>13, <2>2
    <3> QED BY <1>8, <1>12, <1>13, <2>2, <3>1
  <2> QED BY <2>1, <2>2
<1> QED BY <1>1, <1>11, <1>12, <1>13

LEMMA WithoutOne ==
  ASSUME NEW T, NEW s \in Seq(T), IsInjective(s), NEW e
  PROVE  /\ Retained(s, e) \in Seq(T) /\ IsInjective(Retained(s, e))
         /\ ToSet(Retained(s, e)) = ToSet(s) \ {e}
         /\ Len(Retained(s, e)) <= Len(s)
<1>1. PICK n \in Nat : n = Len(s) /\ DOMAIN s = 1 .. n
  OBVIOUS
<1>2. CASE ~Contains(s, e)
  <2>1. Retained(s, e) = s /\ e \notin ToSet(s)
    BY <1>1, <1>2 DEF Retained, Contains, ToSet
  <2> QED BY <1>1, <2>1
<1>3. CASE Contains(s, e)
  <2> DEFINE w == Retained(s, e) i == Position(s, e)
  <2>1. i \in 1 .. n /\ s[i] = e
    BY <1>1, <1>3, PositionStands
  <2>2. Skips(w, s, i)
    BY <1>3 DEF Retained, Skips
  <2> HIDE DEF w, i
  <2>3. /\ w \in Seq(T) /\ Len(w) = n - 1
        /\ \A k \in 1 .. n - 1 : w[k] = IF k < i THEN s[k] ELSE s[k + 1]
    BY <1>1, <2>1, <2>2, SkipsOne
  <2>4. DOMAIN w = 1 .. n - 1 /\ n - 1 <= n
    BY <1>1, <2>3
  <2>5. \A k \in 1 .. n - 1 : \E j \in 1 .. n : j # i /\ w[k] = s[j] /\ j = IF k < i THEN k ELSE k + 1
    <3>1. TAKE k \in 1 .. n - 1
    <3>2. CASE k < i
      <4>1. k \in 1 .. n /\ k # i /\ w[k] = s[k]
        BY <1>1, <2>1, <2>3, <3>1, <3>2
      <4> QED BY <4>1, <3>2
    <3>3. CASE ~(k < i)
      <4>1. k + 1 \in 1 .. n /\ k + 1 # i /\ w[k] = s[k + 1]
        BY <1>1, <2>1, <2>3, <3>1, <3>3
      <4> QED BY <4>1, <3>3
    <3> QED BY <3>2, <3>3
  <2>6. \A j \in 1 .. n : j # i => \E k \in 1 .. n - 1 : w[k] = s[j]
    <3>1. TAKE j \in 1 .. n
    <3>2. HAVE j # i
    <3>3. CASE j < i
      <4>1. j \in 1 .. n - 1
        BY <1>1, <2>1, <3>1, <3>3
      <4>2. w[j] = s[j]
        BY <2>3, <3>3, <4>1
      <4> QED BY <4>1, <4>2
    <3>4. CASE ~(j < i)
      <4>1. j - 1 \in 1 .. n - 1 /\ ~(j - 1 < i) /\ (j - 1) + 1 = j
        BY <1>1, <2>1, <3>1, <3>2, <3>4
      <4>2. w[j - 1] = s[j]
        BY <4>1, <2>3
      <4> QED BY <4>1, <4>2
    <3> QED BY <3>3, <3>4
  <2>7. \A j, k \in 1 .. n : s[j] = s[k] => j = k
    BY <1>1 DEF IsInjective
  <2>8. IsInjective(w)
    <3>1. ASSUME NEW k \in 1 .. n - 1, NEW l \in 1 .. n - 1, w[k] = w[l] PROVE k = l
      <4>1. PICK j \in 1 .. n : w[k] = s[j] /\ j = IF k < i THEN k ELSE k + 1
        BY <2>5, <3>1
      <4>2. PICK h \in 1 .. n : w[l] = s[h] /\ h = IF l < i THEN l ELSE l + 1
        BY <2>5, <3>1
      <4>3. j = h
        BY <2>7, <3>1, <4>1, <4>2
      <4> QED BY <1>1, <2>1, <3>1, <4>1, <4>2, <4>3
    <3> QED BY <2>4, <3>1 DEF IsInjective
  <2>9. ToSet(w) = ToSet(s) \ {e}
    <3>1. \A k \in 1 .. n - 1 : w[k] \in ToSet(s) /\ w[k] # e
      <4>1. TAKE k \in 1 .. n - 1
      <4>2. PICK j \in 1 .. n : j # i /\ w[k] = s[j]
        BY <2>5, <4>1
      <4>3. s[j] # s[i]
        BY <2>1, <2>7, <4>2
      <4> QED BY <1>1, <2>1, <4>2, <4>3 DEF ToSet
    <3>2. \A x \in ToSet(s) : x # e => \E k \in 1 .. n - 1 : w[k] = x
      <4>1. TAKE x \in ToSet(s)
      <4>2. HAVE x # e
      <4>3. PICK j \in 1 .. n : s[j] = x
        BY <1>1, <4>1 DEF ToSet
      <4>4. j # i
        BY <2>1, <4>2, <4>3
      <4> QED BY <2>6, <4>3, <4>4
    <3>3. ToSet(w) = {w[k] : k \in 1 .. n - 1}
      BY <2>4 DEF ToSet
    <3> QED BY <3>1, <3>2, <3>3
  <2>10. n - 1 <= n
    BY <1>1
  <2> QED BY <1>1, <2>3, <2>8, <2>9, <2>10 DEF w
<1> QED BY <1>2, <1>3

\* Sequences of distinct elements, as the operations on them change them.
LEMMA TailRest ==
  ASSUME NEW T, NEW s \in Seq(T), IsInjective(s), s # <<>>
  PROVE  /\ Head(s) \in T /\ Head(s) \in ToSet(s)
         /\ Tail(s) \in Seq(T) /\ IsInjective(Tail(s)) /\ Len(Tail(s)) <= Len(s)
         /\ ToSet(Tail(s)) = ToSet(s) \ {Head(s)}
<1>1. PICK n \in Nat : n = Len(s) /\ DOMAIN s = 1 .. n
  OBVIOUS
<1>2. n # 0 /\ Head(s) = s[1]
  BY <1>1
<1> DEFINE w == Tail(s)
<1>3. w \in Seq(T) /\ Len(w) = n - 1 /\ \A k \in 1 .. n - 1 : w[k] = s[k + 1]
  BY <1>1, <1>2, HeadTailProperties
<1>4. DOMAIN w = 1 .. n - 1 /\ n - 1 \in Nat /\ n - 1 <= n
  BY <1>1, <1>2, <1>3
<1>5. \A k \in 1 .. n - 1 : k + 1 \in 1 .. n /\ k + 1 # 1
  BY <1>1, <1>2
<1>6. \A j \in 1 .. n : j # 1 => j - 1 \in 1 .. n - 1 /\ (j - 1) + 1 = j
  BY <1>1, <1>2
<1>7. \A j, k \in 1 .. n : s[j] = s[k] => j = k
  BY <1>1 DEF IsInjective
<1>8. 1 \in 1 .. n
  BY <1>1, <1>2
<1> HIDE DEF w
<1>9. IsInjective(w)
  <2>1. ASSUME NEW j \in 1 .. n - 1, NEW k \in 1 .. n - 1, w[j] = w[k] PROVE j = k
    <3>1. j + 1 = k + 1
      BY <1>3, <1>5, <1>7, <2>1
    <3> QED BY <1>1, <2>1, <3>1
  <2> QED BY <1>4, <2>1 DEF IsInjective
<1>10. ToSet(w) = {w[k] : k \in 1 .. n - 1} /\ ToSet(s) = {s[k] : k \in 1 .. n}
  BY <1>1, <1>4 DEF ToSet
<1>11. ToSet(w) = ToSet(s) \ {s[1]}
  <2>1. ASSUME NEW x \in ToSet(w) PROVE x \in ToSet(s) \ {s[1]}
    <3>1. PICK k \in 1 .. n - 1 : x = w[k]
      BY <1>10, <2>1
    <3>2. x = s[k + 1] /\ k + 1 \in 1 .. n /\ s[k + 1] # s[1]
      BY <1>3, <1>5, <1>7, <1>8, <3>1
    <3> QED BY <1>10, <3>2
  <2>2. ASSUME NEW x \in ToSet(s), x # s[1] PROVE x \in ToSet(w)
    <3>1. PICK j \in 1 .. n : x = s[j]
      BY <1>10, <2>2
    <3>2. j - 1 \in 1 .. n - 1 /\ (j - 1) + 1 = j
      BY <1>6, <2>2, <3>1
    <3>3. w[j - 1] = x
      BY <1>3, <3>1, <3>2
    <3> QED BY <1>10, <3>2, <3>3
  <2> QED BY <2>1, <2>2
<1>12. Head(s) \in ToSet(s) /\ Head(s) \in T
  BY <1>1, <1>2, <1>8 DEF ToSet
<1> QED BY <1>1, <1>2, <1>3, <1>4, <1>9, <1>11, <1>12 DEF w

LEMMA AppendOne ==
  ASSUME NEW T, NEW s \in Seq(T), IsInjective(s), NEW e \in T, e \notin ToSet(s)
  PROVE  /\ Append(s, e) \in Seq(T) /\ IsInjective(Append(s, e))
         /\ Len(Append(s, e)) = Len(s) + 1 /\ ToSet(Append(s, e)) = ToSet(s) \cup {e}
<1>1. PICK n \in Nat : n = Len(s) /\ DOMAIN s = 1 .. n
  OBVIOUS
<1> DEFINE w == Append(s, e)
<1>2. w \in Seq(T) /\ Len(w) = n + 1 /\ w[n + 1] = e /\ \A k \in 1 .. n : w[k] = s[k]
  BY <1>1, AppendProperties
<1>3. DOMAIN w = 1 .. n + 1 /\ \A k \in 1 .. n + 1 : k = n + 1 \/ k \in 1 .. n
  BY <1>1, <1>2
<1>4. n + 1 \in 1 .. n + 1 /\ \A k \in 1 .. n : k \in 1 .. n + 1
  BY <1>1
<1> HIDE DEF w
<1>5. \A k \in 1 .. n : s[k] # e /\ s[k] \in ToSet(s)
  BY <1>1 DEF ToSet
<1>6. \A j, k \in 1 .. n : s[j] = s[k] => j = k
  BY <1>1 DEF IsInjective
<1>7. IsInjective(w)
  BY <1>2, <1>3, <1>5, <1>6 DEF IsInjective
<1>8. ToSet(w) = {w[k] : k \in 1 .. n + 1}
  BY <1>3 DEF ToSet
<1>9. ToSet(s) = {s[k] : k \in 1 .. n}
  BY <1>1 DEF ToSet
<1>10. ToSet(w) = ToSet(s) \cup {e}
  BY <1>2, <1>3, <1>4, <1>8, <1>9
<1> QED BY <1>1, <1>2, <1>7, <1>10 DEF w

\* w is s with e in the place of its m-th element.
Puts(w, s, m, e) == w = [i \in DOMAIN s |-> IF i = m THEN e ELSE s[i]]

LEMMA PutOne ==
  ASSUME NEW T, NEW s \in Seq(T), IsInjective(s), NEW e \in T, e \notin ToSet(s),
         NEW m \in DOMAIN s, NEW w, Puts(w, s, m, e)
  PROVE  /\ w \in Seq(T) /\ IsInjective(w) /\ Len(w) = Len(s)
         /\ ToSet(w) = (ToSet(s) \ {s[m]}) \cup {e}
<1>1. PICK n \in Nat : n = Len(s) /\ DOMAIN s = 1 .. n
  OBVIOUS
<1>2. w = [i \in 1 .. n |-> IF i = m THEN e ELSE s[i]]
  BY <1>1 DEF Puts
<1>3. \A i \in 1 .. n : s[i] \in T
  BY <1>1
<1>4. w \in [1 .. n -> T]
  BY <1>2, <1>3
<1>5. w \in Seq(T) /\ Len(w) = n /\ DOMAIN w = 1 .. n
  <2>1. w \in Seq(T) /\ Len(w) = n
    BY <1>4, SequenceIs
  <2> QED BY <1>4, <2>1
<1>6. m \in 1 .. n /\ w[m] = e /\ \A i \in 1 .. n : i # m => w[i] = s[i]
  BY <1>1, <1>2
<1>7. \A k \in 1 .. n : s[k] # e /\ s[k] \in ToSet(s)
  BY <1>1 DEF ToSet
<1>8. \A j, k \in 1 .. n : s[j] = s[k] => j = k
  BY <1>1 DEF IsInjective
<1>9. IsInjective(w)
  BY <1>5, <1>6, <1>7, <1>8 DEF IsInjective
<1>10. ToSet(w) = {w[k] : k \in 1 .. n} /\ ToSet(s) = {s[k] : k \in 1 .. n}
  BY <1>1, <1>5 DEF ToSet
<1>11. ToSet(w) = (ToSet(s) \ {s[m]}) \cup {e}
  <2>1. ASSUME NEW x \in ToSet(w) PROVE x \in (ToSet(s) \ {s[m]}) \cup {e}
    <3>1. PICK k \in 1 .. n : x = w[k]
      BY <1>10, <2>1
    <3>2. CASE k = m
      BY <1>6, <3>1, <3>2
    <3>3. CASE k # m
      <4>1. x = s[k] /\ s[k] \in ToSet(s)
        BY <1>6, <1>7, <3>1, <3>3
      <4>2. s[k] # s[m]
        BY <1>6, <1>8, <3>1, <3>3
      <4> QED BY <4>1, <4>2
    <3> QED BY <3>2, <3>3
  <2>2. ASSUME NEW x \in ToSet(s) \ {s[m]} PROVE x \in ToSet(w)
    <3>1. PICK k \in 1 .. n : x = s[k]
      BY <1>10, <2>2
    <3>2. x = w[k]
      BY <1>6, <2>2, <3>1
    <3> QED BY <1>10, <3>1, <3>2
  <2>3. e \in ToSet(w)
    BY <1>6, <1>10
  <2> QED BY <2>1, <2>2, <2>3
<1> QED BY <1>1, <1>5, <1>9, <1>11

LEMMA FirstOnes ==
  ASSUME NEW T, NEW s \in Seq(T), IsInjective(s), NEW m \in Nat, m <= Len(s)
  PROVE  /\ SubSeq(s, 1, m) \in Seq(T) /\ IsInjective(SubSeq(s, 1, m))
         /\ Len(SubSeq(s, 1, m)) = m /\ ToSet(SubSeq(s, 1, m)) \subseteq ToSet(s)
<1>1. PICK n \in Nat : n = Len(s) /\ DOMAIN s = 1 .. n
  OBVIOUS
<1> DEFINE w == SubSeq(s, 1, m)
<1>2. \A k \in 1 .. m : k \in 1 .. n /\ s[k] \in T
  BY <1>1
<1>3. /\ w \in Seq(T) /\ Len(w) = IF 1 <= m THEN m - 1 + 1 ELSE 0
      /\ \A k \in 1 .. m - 1 + 1 : w[k] = s[1 + k - 1]
  BY <1>1, <1>2, SubSeqProperties
<1>4. Len(w) = m /\ DOMAIN w = 1 .. m
  BY <1>3
<1>5. \A k \in 1 .. m : k \in 1 .. m - 1 + 1 /\ 1 + k - 1 = k
  OBVIOUS
<1>6. \A k \in 1 .. m : w[k] = s[k]
  BY <1>3, <1>5
<1> HIDE DEF w
<1>7. IsInjective(w)
  BY <1>1, <1>2, <1>4, <1>6 DEF IsInjective
<1>8. ToSet(w) \subseteq ToSet(s)
  BY <1>1, <1>2, <1>4, <1>6 DEF ToSet
<1> QED BY <1>3, <1>4, <1>7, <1>8 DEF w
-----------------------------------------------------------------------------
(* The registry *)

\* The clients of the set L are divided into the active one, a, and the PiPs, s,
\* except for those that are neither.
Partitioned(s, a, L) ==
  /\ s \in Seq(Pid) /\ IsInjective(s)
  /\ ToSet(s) \subseteq L /\ a \notin ToSet(s) /\ a \in L \cup {Nobody}

Registry(c) ==
  /\ c \in Client /\ IsInjective(c.number)
  /\ Partitioned(c.pips, c.active, Loaded(c))
Settled(c) == c.active = Nobody => c.pips = <<>>
Fits(c)    == Len(c.pips) <= MaxPips

\* d is c with other numbers, names or PiPs of the same clients.
Keeps(c, d) ==
  /\ Registry(d) /\ Loaded(d) = Loaded(c) /\ d.active = c.active
  /\ Fits(c) => Fits(d)
  /\ Settled(c) => Settled(d)

LEMMA KeepsOn ==
  ASSUME NEW c, NEW d, NEW e, Keeps(c, d), Keeps(d, e)
  PROVE  Keeps(c, e)
BY DEF Keeps

LEMMA KeepsItself ==
  ASSUME NEW c, Registry(c)
  PROVE  Keeps(c, c)
BY DEF Keeps

LEMMA NumberingIs ==
  ASSUME NEW f
  PROVE  f \in Numbering <=> /\ DOMAIN f \in SUBSET Pid
                             /\ f \in [DOMAIN f -> Nat \ {0}]
BY DEF Numbering

LEMMA LoadedFinite ==
  ASSUME NEW c, Registry(c)
  PROVE  /\ Loaded(c) \in SUBSET Pid /\ IsFiniteSet(Loaded(c))
         /\ c.number \in [Loaded(c) -> Nat \ {0}]
<1>1. c.number \in Numbering
  BY DEF Registry, Client
<1>2. Loaded(c) \in SUBSET Pid /\ c.number \in [Loaded(c) -> Nat \ {0}]
  BY <1>1, NumberingIs DEF Loaded
<1>3. IsFiniteSet(Loaded(c))
  BY <1>2, FS_Subset DEF ClientSetBounds
<1> QED BY <1>2, <1>3

\* d is c with other numbers, or with another partition.
Renumbers(d, c, f)  == d = [c EXCEPT !.number = f]
Divides(d, c, a, s) == d = [c EXCEPT !.active = a, !.pips = s]

LEMMA Renumbered ==
  ASSUME NEW c, Registry(c), NEW f, f \in [Loaded(c) -> Nat \ {0}], IsInjective(f),
         NEW d, Renumbers(d, c, f)
  PROVE  Keeps(c, d)
<1>1. c \in Client /\ Loaded(c) \in SUBSET Pid
  BY LoadedFinite DEF Registry
<1>2. f \in Numbering
  BY <1>1, NumberingIs
<1>3. d = [number |-> f, who |-> c.who, observed |-> c.observed, active |-> c.active,
           pips |-> c.pips]
  BY <1>1 DEF Client, Renumbers
<1>4. d.number = f /\ d.active = c.active /\ d.pips = c.pips
  BY <1>3
<1>5. d \in Client
  BY <1>1, <1>2, <1>3 DEF Client
<1>6. Loaded(d) = Loaded(c)
  BY <1>4 DEF Loaded
<1>7. Registry(d)
  BY <1>4, <1>5, <1>6 DEF Registry
<1> QED BY <1>4, <1>6, <1>7 DEF Keeps, Fits, Settled

LEMMA Repartitioned ==
  ASSUME NEW c, Registry(c), NEW a, NEW s, Partitioned(s, a, Loaded(c)),
         NEW d, Divides(d, c, a, s)
  PROVE  /\ Registry(d) /\ Loaded(d) = Loaded(c) /\ d.number = c.number /\ d.who = c.who
         /\ d.active = a /\ d.pips = s
<1>1. c \in Client /\ Loaded(c) \in SUBSET Pid
  BY LoadedFinite DEF Registry
<1>2. a \in Pid \cup {Nobody} /\ s \in Seq(Pid)
  BY <1>1 DEF Partitioned
<1>3. d = [number |-> c.number, who |-> c.who, observed |-> c.observed, active |-> a, pips |-> s]
  BY <1>1 DEF Client, Divides
<1>4. d.number = c.number /\ d.active = a /\ d.pips = s /\ d.who = c.who
  BY <1>3
<1>5. d \in Client
  BY <1>1, <1>2, <1>3 DEF Client
<1>6. Loaded(d) = Loaded(c)
  BY <1>4 DEF Loaded
<1> QED BY <1>4, <1>5, <1>6 DEF Registry

\* A client without a number gets one that is free.
LEMMA FreeNumber ==
  ASSUME NEW c, Registry(c)
  PROVE  /\ NextAvailableNumber(c) \in Nat \ {0}
         /\ \A q \in Loaded(c) : c.number[q] # NextAvailableNumber(c)
<1>1. IsFiniteSet(Loaded(c)) /\ c.number \in [Loaded(c) -> Nat \ {0}]
  BY LoadedFinite
<1>2. PICK k \in Nat : k = Cardinality(Loaded(c))
  BY <1>1, FS_CardinalityType
<1> DEFINE S == {n \in 1 .. k + 1 : \A q \in Loaded(c) : c.number[q] # n}
           Free(n) == /\ \A q \in Loaded(c) : c.number[q] # n
                      /\ \A m \in 1 .. n - 1 : \E q \in Loaded(c) : c.number[q] = m
<1>3. S # {}
  <2>1. SUFFICES ASSUME \A n \in 1 .. k + 1 : \E q \in Loaded(c) : c.number[q] = n
                 PROVE  FALSE
    OBVIOUS
  <2> DEFINE g == [n \in 1 .. k + 1 |-> CHOOSE q \in Loaded(c) : c.number[q] = n]
  <2>2. \A n \in 1 .. k + 1 : g[n] \in Loaded(c) /\ c.number[g[n]] = n
    BY <2>1
  <2>3. g \in [1 .. k + 1 -> Loaded(c)] /\ \A m, n \in 1 .. k + 1 : g[m] = g[n] => m = n
    BY <2>2
  <2> HIDE DEF g
  <2>4. g \in Injection(1 .. k + 1, Loaded(c))
    BY <2>3 DEF Injection, IsInjective
  <2>5. Cardinality(1 .. k + 1) <= k
    BY <1>1, <1>2, <2>4, FS_Injection
  <2>6. Cardinality(1 .. k + 1) = k + 1
    BY <1>2, FS_Interval
  <2> QED BY <1>2, <2>5, <2>6
<1>4. PICK n \in S : \A m \in S : n <= m
  <2>1. S \in SUBSET Nat
    BY <1>2
  <2> HIDE DEF S
  <2> QED BY <1>3, <2>1, LeastNatural
<1>5. n \in 1 .. k + 1 /\ Free(n)
  <2>1. \A m \in 1 .. n - 1 : m \in 1 .. k + 1 /\ ~(n <= m)
    BY <1>2
  <2> QED BY <1>4, <2>1
<1>6. NextAvailableNumber(c) = CHOOSE m \in 1 .. k + 1 : Free(m)
  BY <1>2 DEF NextAvailableNumber
<1> HIDE DEF Free
<1>7. NextAvailableNumber(c) \in 1 .. k + 1 /\ Free(NextAvailableNumber(c))
  BY <1>5, <1>6
<1> QED BY <1>2, <1>7 DEF Free
-----------------------------------------------------------------------------
(* Its operations *)

LEMMA EnsureActiveSettles ==
  ASSUME NEW c, Registry(c)
  PROVE  Registry(EnsureActive(c)) /\ Settled(EnsureActive(c)) /\ Loaded(EnsureActive(c)) = Loaded(c)
<1>1. CASE c.active = Nobody /\ c.pips # <<>>
  <2> DEFINE s == c.pips
  <2>1. s \in Seq(Pid) /\ IsInjective(s) /\ ToSet(s) \subseteq Loaded(c) /\ s # <<>>
    BY <1>1 DEF Registry, Partitioned
  <2>2. /\ Head(s) \in Pid /\ Head(s) \in ToSet(s)
        /\ Tail(s) \in Seq(Pid) /\ IsInjective(Tail(s))
        /\ ToSet(Tail(s)) = ToSet(s) \ {Head(s)}
    BY <2>1, TailRest
  <2>3. Partitioned(Tail(s), Head(s), Loaded(c))
    BY <2>1, <2>2 DEF Partitioned
  <2>4. Divides(EnsureActive(c), c, Head(s), Tail(s))
    BY <1>1 DEF EnsureActive, Divides
  <2> HIDE DEF s
  <2>5. /\ Registry(EnsureActive(c)) /\ Loaded(EnsureActive(c)) = Loaded(c)
        /\ EnsureActive(c).active = Head(s)
    BY <2>3, <2>4, Repartitioned
  <2>6. Head(s) # Nobody
    BY <2>2
  <2> QED BY <2>5, <2>6 DEF Settled
<1>2. CASE ~(c.active = Nobody /\ c.pips # <<>>)
  <2>1. EnsureActive(c) = c
    BY <1>2 DEF EnsureActive
  <2> QED BY <1>2, <2>1 DEF Settled
<1> QED BY <1>1, <1>2

LEMMA RemoveClientKeeps ==
  ASSUME NEW c, Registry(c), NEW p \in Pid
  PROVE  /\ Registry(RemoveClient(c, p))
         /\ Loaded(RemoveClient(c, p)) = Loaded(c) \ {p}
<1> DEFINE f == [q \in Loaded(c) \ {p} |-> c.number[q]]
           a == IF c.active = p THEN Nobody ELSE c.active
           w == Retained(c.pips, p)
           d == [number |-> f, who |-> [c.who EXCEPT ![p] = Nobody],
                 observed |-> [c.observed EXCEPT ![p] = Nobody], active |-> a, pips |-> w]
<1>1. /\ Loaded(c) \in SUBSET Pid /\ c.number \in [Loaded(c) -> Nat \ {0}]
      /\ c \in Client /\ IsInjective(c.number)
      /\ Partitioned(c.pips, c.active, Loaded(c))
  BY LoadedFinite DEF Registry
<1>2. f \in [Loaded(c) \ {p} -> Nat \ {0}] /\ DOMAIN f = Loaded(c) \ {p}
  BY <1>1
<1>3. f \in Numbering
  <2> HIDE DEF f
  <2> QED BY <1>1, <1>2, NumberingIs
<1>4. IsInjective(f)
  BY <1>1 DEF IsInjective, Loaded
<1>5. /\ w \in Seq(Pid) /\ IsInjective(w) /\ ToSet(w) = ToSet(c.pips) \ {p}
  BY <1>1, WithoutOne DEF Partitioned
<1>6. Partitioned(w, a, Loaded(c) \ {p})
  <2> HIDE DEF w
  <2> QED BY <1>1, <1>5 DEF Partitioned
<1>7. /\ [c.who EXCEPT ![p] = Nobody] \in [Pid -> Identity]
      /\ [c.observed EXCEPT ![p] = Nobody] \in [Pid -> Identity]
  <2>1. c.who \in [Pid -> Identity] /\ c.observed \in [Pid -> Identity] /\ Nobody \in Identity
    BY <1>1 DEF Client, Identity
  <2> QED BY <2>1
<1>8. a \in Pid \cup {Nobody}
  BY <1>1 DEF Client
<1> HIDE DEF f, a, w
<1>9. d \in Client
  BY <1>3, <1>5, <1>7, <1>8 DEF Client
<1>10. d.number = f /\ d.active = a /\ d.pips = w
  OBVIOUS
<1>11. RemoveClient(c, p) = IF c.active = p THEN EnsureActive(d) ELSE d
  BY DEF RemoveClient, f, a, w
<1> HIDE DEF d
<1>12. Loaded(d) = Loaded(c) \ {p}
  BY <1>2, <1>10 DEF Loaded
<1>13. Registry(d)
  BY <1>4, <1>6, <1>9, <1>10, <1>12 DEF Registry
<1>14. Registry(EnsureActive(d)) /\ Loaded(EnsureActive(d)) = Loaded(d)
  BY <1>13, EnsureActiveSettles
<1> QED BY <1>11, <1>12, <1>13, <1>14

LEMMA AddKeeps ==
  ASSUME NEW c, Registry(c), NEW p \in Pid, p \notin Loaded(c)
  PROVE  Registry(Add(c, p)) /\ Loaded(Add(c, p)) = Loaded(c) \cup {p}
<1> DEFINE f == [q \in Loaded(c) \cup {p} |->
                   IF q = p THEN NextAvailableNumber(c) ELSE c.number[q]]
           first == c.active = Nobody /\ focus \in {p, Nobody}
           a == IF first THEN p ELSE c.active
           w == IF first THEN c.pips ELSE Append(c.pips, p)
           d == [number |-> f, who |-> c.who, observed |-> c.observed, active |-> a, pips |-> w]
<1>1. /\ Loaded(c) \in SUBSET Pid /\ c.number \in [Loaded(c) -> Nat \ {0}]
      /\ c \in Client /\ IsInjective(c.number) /\ DOMAIN c.number = Loaded(c)
      /\ Partitioned(c.pips, c.active, Loaded(c))
  BY LoadedFinite DEF Registry, Loaded
<1>2. /\ NextAvailableNumber(c) \in Nat \ {0}
      /\ \A q \in Loaded(c) : c.number[q] # NextAvailableNumber(c)
  BY FreeNumber
<1>3. f \in [Loaded(c) \cup {p} -> Nat \ {0}] /\ DOMAIN f = Loaded(c) \cup {p}
  BY <1>1, <1>2
<1>4. IsInjective(f)
  BY <1>1, <1>2 DEF IsInjective
<1>5. f \in Numbering
  <2> HIDE DEF f
  <2> QED BY <1>1, <1>3, NumberingIs
<1>6. Partitioned(w, a, Loaded(c) \cup {p})
  <2>1. CASE first
    BY <1>1, <2>1 DEF Partitioned
  <2>2. CASE ~first
    <3>1. p \notin ToSet(c.pips) /\ c.pips \in Seq(Pid) /\ IsInjective(c.pips)
      BY <1>1 DEF Partitioned
    <3>2. /\ Append(c.pips, p) \in Seq(Pid) /\ IsInjective(Append(c.pips, p))
          /\ ToSet(Append(c.pips, p)) = ToSet(c.pips) \cup {p}
      BY <3>1, AppendOne
    <3>3. c.active # p
      BY <1>1 DEF Partitioned
    <3> QED BY <1>1, <2>2, <3>2, <3>3 DEF Partitioned
  <2> QED BY <2>1, <2>2
<1>7. w \in Seq(Pid) /\ a \in Pid \cup {Nobody}
  BY <1>1, <1>6 DEF Partitioned
<1>8. Add(c, p) = d
  <2>1. c = [number |-> c.number, who |-> c.who, observed |-> c.observed,
             active |-> c.active, pips |-> c.pips]
    BY <1>1 DEF Client
  <2>2. CASE first
    <3>1. Add(c, p) = [c EXCEPT !.number = f, !.active = p]
      BY <2>2 DEF Add
    <3> HIDE DEF f
    <3> QED BY <2>1, <2>2, <3>1
  <2>3. CASE ~first
    <3>1. Add(c, p) = [c EXCEPT !.number = f, !.pips = Append(@, p)]
      BY <2>3 DEF Add
    <3> HIDE DEF f
    <3> QED BY <2>1, <2>3, <3>1
  <2> QED BY <2>2, <2>3
<1> HIDE DEF f, a, w
<1>9. d \in Client
  BY <1>1, <1>5, <1>7 DEF Client
<1>10. d.number = f /\ d.active = a /\ d.pips = w
  OBVIOUS
<1> HIDE DEF d
<1>11. Loaded(d) = Loaded(c) \cup {p}
  BY <1>3, <1>10 DEF Loaded
<1> QED BY <1>4, <1>6, <1>8, <1>9, <1>10, <1>11 DEF Registry

LEMMA TruncatedFits ==
  ASSUME NEW c, Registry(c), Settled(c)
  PROVE  /\ Registry(Truncated(c)) /\ Settled(Truncated(c)) /\ Fits(Truncated(c))
         /\ Loaded(Truncated(c)) = Loaded(c) /\ Truncated(c).active = c.active
<1> DEFINE m == IF Len(c.pips) < MaxPips THEN Len(c.pips) ELSE MaxPips
           w == SubSeq(c.pips, 1, m)
<1>1. /\ c \in Client /\ c.pips \in Seq(Pid) /\ IsInjective(c.pips)
      /\ Partitioned(c.pips, c.active, Loaded(c))
  BY DEF Registry, Partitioned
<1>2. m \in Nat /\ m <= Len(c.pips) /\ m <= MaxPips
  <2>1. Len(c.pips) \in Nat /\ MaxPips \in Nat
    BY <1>1 DEF ClientSetBounds
  <2> QED BY <2>1
<1>3. Divides(Truncated(c), c, c.active, w)
  BY <1>1 DEF Truncated, Client, Divides
<1> HIDE DEF m
<1>4. w \in Seq(Pid) /\ IsInjective(w) /\ Len(w) = m /\ ToSet(w) \subseteq ToSet(c.pips)
  BY <1>1, <1>2, FirstOnes
<1> HIDE DEF w
<1>5. Partitioned(w, c.active, Loaded(c))
  BY <1>1, <1>4 DEF Partitioned
<1>6. /\ Registry(Truncated(c)) /\ Loaded(Truncated(c)) = Loaded(c)
      /\ Truncated(c).active = c.active /\ Truncated(c).pips = w
  BY <1>3, <1>5, Repartitioned
<1>7. c.pips = <<>> => w = <<>>
  <2>1. ASSUME c.pips = <<>> PROVE Len(w) = 0
    BY <1>2, <1>4, <2>1
  <2> QED BY <1>4, <2>1
<1> QED BY <1>2, <1>4, <1>6, <1>7 DEF Settled, Fits

LEMMA ContainsIs ==
  ASSUME NEW T, NEW s \in Seq(T), NEW e
  PROVE  Contains(s, e) <=> e \in ToSet(s)
<1>1. DOMAIN s = 1 .. Len(s)
  OBVIOUS
<1> QED BY <1>1 DEF Contains, ToSet

\* What d is when p is promoted in c.
Promotion(d, c, p) ==
  /\ Registry(d) /\ Loaded(d) = Loaded(c) /\ d.number = c.number /\ d.who = c.who
  /\ d.active = p
  /\ Fits(c) => Fits(d)
  /\ c.active # Nobody /\ p \in ToSet(c.pips) => ToSet(d.pips) = (ToSet(c.pips) \ {p}) \cup {c.active}

\* What w must be to be the PiPs then.
PipsBeside(w, c, p) ==
  /\ w \in Seq(Pid) /\ IsInjective(w) /\ p \notin ToSet(w) /\ ToSet(w) \subseteq Loaded(c)
  /\ Len(c.pips) <= MaxPips => Len(w) <= MaxPips
  /\ c.active # Nobody /\ p \in ToSet(c.pips) => ToSet(w) = (ToSet(c.pips) \ {p}) \cup {c.active}

LEMMA PromotePromotes ==
  ASSUME NEW c, Registry(c), NEW p, Promotes(c, p)
  PROVE  Promotion(Promote(c, p), c, p)
<1> DEFINE s == c.pips
           a == c.active
           d == Promote(c, p)
<1>1. /\ s \in Seq(Pid) /\ IsInjective(s) /\ ToSet(s) \subseteq Loaded(c)
      /\ a \notin ToSet(s) /\ a \in Loaded(c) \cup {Nobody}
  BY DEF Registry, Partitioned
<1>2. p \in Loaded(c) /\ p # a /\ Loaded(c) \in SUBSET Pid /\ p \in Pid
  BY LoadedFinite DEF Promotes
<1>3. Contains(s, p) <=> p \in ToSet(s)
  BY <1>1, ContainsIs
<1>4. MaxPips \in Nat \ {0} /\ Len(s) \in Nat /\ DOMAIN s = 1 .. Len(s)
  BY <1>1 DEF ClientSetBounds
<1>5. ASSUME NEW w, Divides(d, c, p, w), PipsBeside(w, c, p)
      PROVE  Promotion(d, c, p)
  <2>1. Partitioned(w, p, Loaded(c))
    BY <1>2, <1>5 DEF Partitioned, PipsBeside
  <2> HIDE DEF d
  <2>2. /\ Registry(d) /\ Loaded(d) = Loaded(c) /\ d.number = c.number /\ d.who = c.who
        /\ d.active = p /\ d.pips = w
    BY <1>5, <2>1, Repartitioned
  <2> QED BY <1>5, <2>2 DEF Promotion, Fits, PipsBeside
<1>6. CASE Contains(s, p) /\ a = Nobody
  <2> DEFINE w == Retained(s, p)
  <2>1. Divides(d, c, p, w)
    BY <1>6 DEF Promote, Divides
  <2>2. /\ w \in Seq(Pid) /\ IsInjective(w) /\ ToSet(w) = ToSet(s) \ {p} /\ Len(w) <= Len(s)
    BY <1>1, WithoutOne
  <2> HIDE DEF w, d
  <2>3. Len(s) <= MaxPips => Len(w) <= MaxPips
    BY <1>4, <2>2
  <2>9. PipsBeside(w, c, p)
    BY <1>1, <1>6, <2>2, <2>3 DEF PipsBeside
  <2> QED BY <1>5, <2>1, <2>9 DEF d
<1>7. CASE Contains(s, p) /\ a # Nobody
  <2> DEFINE w == [i \in DOMAIN s |-> IF s[i] = p THEN a ELSE s[i]]
  <2>1. Divides(d, c, p, w)
    BY <1>2, <1>7 DEF Promote, Divides
  <2>2. PICK m \in DOMAIN s : s[m] = p
    BY <1>3, <1>7 DEF ToSet
  <2>3. Puts(w, s, m, a)
    <3>1. \A i \in DOMAIN s : s[i] = p <=> i = m
      BY <1>1, <2>2 DEF IsInjective
    <3> QED BY <3>1 DEF Puts
  <2> HIDE DEF w, d
  <2>4. a \in Pid
    BY <1>1, <1>2, <1>7
  <2>5. /\ w \in Seq(Pid) /\ IsInjective(w) /\ Len(w) = Len(s)
        /\ ToSet(w) = (ToSet(s) \ {s[m]}) \cup {a}
    BY <1>1, <2>2, <2>3, <2>4, PutOne
  <2>6. ToSet(w) = (ToSet(s) \ {p}) \cup {a}
    BY <2>2, <2>5
  <2>7. ToSet(w) \subseteq Loaded(c) /\ p \notin ToSet(w)
    BY <1>1, <1>2, <1>7, <2>6
  <2>8. Len(s) <= MaxPips => Len(w) <= MaxPips
    BY <2>5
  <2>9. PipsBeside(w, c, p)
    BY <2>5, <2>6, <2>7, <2>8 DEF PipsBeside
  <2> QED BY <1>5, <2>1, <2>9 DEF d
<1>8. CASE ~Contains(s, p) /\ a = Nobody
  <2>1. Divides(d, c, p, s)
    BY <1>8 DEF Promote, Divides
  <2> HIDE DEF d
  <2>9. PipsBeside(s, c, p)
    BY <1>1, <1>3, <1>8 DEF PipsBeside
  <2> QED BY <1>5, <2>1, <2>9 DEF d
<1>9. CASE ~Contains(s, p) /\ a # Nobody /\ Len(s) < MaxPips
  <2> DEFINE w == Append(s, a)
  <2>1. Divides(d, c, p, w)
    BY <1>9 DEF Promote, Divides
  <2>2. a \in Pid
    BY <1>1, <1>2, <1>9
  <2>3. /\ w \in Seq(Pid) /\ IsInjective(w) /\ Len(w) = Len(s) + 1 /\ ToSet(w) = ToSet(s) \cup {a}
    BY <1>1, <2>2, AppendOne
  <2> HIDE DEF w, d
  <2>4. ToSet(w) \subseteq Loaded(c) /\ p \notin ToSet(w)
    BY <1>1, <1>2, <1>3, <1>9, <2>3
  <2>5. Len(w) <= MaxPips
    BY <1>4, <1>9, <2>3
  <2>9. PipsBeside(w, c, p)
    BY <1>3, <1>9, <2>3, <2>4, <2>5 DEF PipsBeside
  <2> QED BY <1>5, <2>1, <2>9 DEF d
<1>10. CASE ~Contains(s, p) /\ a # Nobody /\ ~(Len(s) < MaxPips)
  <2> DEFINE v == [s EXCEPT ![MaxPips] = a]
             w == SubSeq(v, 1, MaxPips)
  <2>1. Divides(d, c, p, w)
    BY <1>10 DEF Promote, Divides
  <2>2. a \in Pid /\ MaxPips \in DOMAIN s /\ MaxPips <= Len(s)
    BY <1>1, <1>2, <1>4, <1>10
  <2>3. Puts(v, s, MaxPips, a)
    BY <2>2 DEF Puts
  <2> HIDE DEF v, d
  <2>4. /\ v \in Seq(Pid) /\ IsInjective(v) /\ Len(v) = Len(s)
        /\ ToSet(v) = (ToSet(s) \ {s[MaxPips]}) \cup {a}
    BY <1>1, <2>2, <2>3, PutOne
  <2>5. /\ w \in Seq(Pid) /\ IsInjective(w) /\ Len(w) = MaxPips /\ ToSet(w) \subseteq ToSet(v)
    BY <1>4, <2>2, <2>4, FirstOnes
  <2> HIDE DEF w
  <2>6. ToSet(w) \subseteq Loaded(c) /\ p \notin ToSet(w)
    BY <1>1, <1>2, <1>3, <1>10, <2>4, <2>5
  <2>7. Len(w) <= MaxPips
    BY <1>4, <2>5
  <2>9. PipsBeside(w, c, p)
    BY <1>3, <1>10, <2>5, <2>6, <2>7 DEF PipsBeside
  <2> QED BY <1>5, <2>1, <2>9 DEF d
<1> QED BY <1>6, <1>7, <1>8, <1>9, <1>10

LEMMA PromoteKeeps ==
  ASSUME NEW c, Registry(c), NEW p
  PROVE  /\ Registry(Promote(c, p)) /\ Loaded(Promote(c, p)) = Loaded(c)
         /\ Fits(c) => Fits(Promote(c, p))
         /\ Settled(c) => Settled(Promote(c, p))
<1>1. CASE Promotes(c, p)
  <2>1. Promotion(Promote(c, p), c, p)
    BY <1>1, PromotePromotes
  <2>2. p # Nobody
    BY <1>1, LoadedFinite DEF Promotes
  <2> QED BY <2>1, <2>2 DEF Promotion, Settled
<1>2. CASE ~Promotes(c, p)
  <2>1. Promote(c, p) = c
    BY <1>2 DEF Promote
  <2> QED BY <2>1
<1> QED BY <1>1, <1>2

LEMMA AutoOrderKeeps ==
  ASSUME NEW c, Registry(c)
  PROVE  Keeps(c, ApplyAutoOrder(c)) /\ Keeps(c, AutoOrdered(c))
<1> DEFINE s == c.pips
           S == ToSet(s)
           R == ByNumber(c, S)
           w == Listed(S, R)
           d == ApplyAutoOrder(c)
<1>1. /\ s \in Seq(Pid) /\ IsInjective(s) /\ S \subseteq Loaded(c)
      /\ Partitioned(s, c.active, Loaded(c)) /\ c \in Client
  BY DEF Registry, Partitioned
<1>2. /\ IsFiniteSet(Loaded(c)) /\ c.number \in [Loaded(c) -> Nat \ {0}]
      /\ IsInjective(c.number)
  BY LoadedFinite DEF Registry
<1>3. IsFiniteSet(S)
  BY <1>1, <1>2, FS_Subset
<1>4. Orders(R, S)
  <2>1. \A p, q \in S : <<p, q>> \in R <=> c.number[p] < c.number[q]
    <3> HIDE DEF S
    <3> QED BY DEF ByNumber
  <2>2. \A p \in S : c.number[p] \in Nat
    BY <1>1, <1>2
  <2>3. \A p, q \in S : c.number[p] = c.number[q] => p = q
    BY <1>1, <1>2 DEF IsInjective
  <2> HIDE DEF S, R
  <2>4. \A p \in S : <<p, p>> \notin R
    BY <2>1, <2>2
  <2>5. \A p, q, r \in S : <<p, q>> \in R /\ <<q, r>> \in R => <<p, r>> \in R
    BY <2>1, <2>2
  <2>6. \A p, q \in S : p # q => <<p, q>> \in R \/ <<q, p>> \in R
    BY <2>1, <2>2, <2>3
  <2> QED BY <2>4, <2>5, <2>6 DEF Orders
<1>5. w \in Seq(S) /\ Len(w) = Cardinality(S) /\ IsInjective(w) /\ ToSet(w) = S
  <2> HIDE DEF S, R
  <2> QED BY <1>3, <1>4, ListedOnce
<1>6. Len(w) <= Len(s)
  <2>1. Len(s) \in Nat /\ DOMAIN s = 1 .. Len(s)
    BY <1>1
  <2>2. s \in Surjection(1 .. Len(s), S)
    BY <1>1, <2>1 DEF Surjection, ToSet
  <2>3. ExistsSurjection(1 .. Len(s), S)
    BY <2>2 DEF ExistsSurjection
  <2> HIDE DEF S
  <2> QED BY <1>5, <2>1, <2>3, FS_SurjCardinalityBound
<1>7. w \in Seq(Pid)
  BY <1>1, <1>5, LoadedFinite, SeqMonotonic
<1>8. Divides(d, c, c.active, w)
  BY <1>1 DEF ApplyAutoOrder, Divides, Client
<1> HIDE DEF w, d
<1>9. Partitioned(w, c.active, Loaded(c))
  BY <1>1, <1>5, <1>7 DEF Partitioned
<1>10. Registry(d) /\ Loaded(d) = Loaded(c) /\ d.active = c.active /\ d.pips = w
  BY <1>8, <1>9, Repartitioned
<1>11. Fits(c) => Fits(d)
  <2>1. Len(w) \in Nat /\ Len(s) \in Nat /\ MaxPips \in Nat
    BY <1>1, <1>7 DEF ClientSetBounds
  <2> QED BY <1>6, <1>10, <2>1 DEF Fits
<1>12. Settled(c) => Settled(d)
  <2>1. ASSUME s = <<>> PROVE w = <<>>
    <3>1. Len(w) = 0
      BY <1>6, <1>7, <2>1
    <3> QED BY <1>7, <3>1
  <2> QED BY <1>10, <2>1 DEF Settled
<1>13. Keeps(c, d)
  BY <1>10, <1>11, <1>12 DEF Keeps
<1> QED BY <1>13, KeepsItself DEF AutoOrdered, d

LEMMA PreferredOrderKeeps ==
  ASSUME NEW c, Registry(c)
  PROVE  Keeps(c, ApplyPreferredBoxOrder(c))
<1> DEFINE S == Loaded(c)
           R == ByPreference(c)
           f == [p \in S |-> Cardinality(Before(S, R, p)) + 1]
           at(p) == Position(Preferred, c.who[p])
<1>1. /\ IsFiniteSet(S) /\ c.number \in [S -> Nat \ {0}] /\ IsInjective(c.number)
      /\ DOMAIN c.number = S
  BY LoadedFinite DEF Registry, Loaded
<1>2. \A p \in S : at(p) \in Nat
  <2>1. Preferred \in Seq(Character)
    BY DEF ClientSetBounds
  <2>2. \A p : at(p) \in 1 .. Len(Preferred) + 1
    BY <2>1, PositionStands
  <2> HIDE DEF at
  <2> QED BY <2>2
<1>3. Orders(R, S)
  <2>1. \A p, q \in S : <<p, q>> \in R <=>
          at(p) < at(q) \/ (at(p) = at(q) /\ c.number[p] < c.number[q])
    <3> HIDE DEF S
    <3> QED BY DEF ByPreference, S
  <2>2. \A p \in S : c.number[p] \in Nat
    BY <1>1
  <2>3. \A p, q \in S : c.number[p] = c.number[q] => p = q
    BY <1>1 DEF IsInjective
  <2> HIDE DEF S, R, at
  <2>4. \A p \in S : <<p, p>> \notin R
    BY <1>2, <2>1, <2>2
  <2>5. \A p, q, r \in S : <<p, q>> \in R /\ <<q, r>> \in R => <<p, r>> \in R
    BY <1>2, <2>1, <2>2
  <2>6. \A p, q \in S : p # q => <<p, q>> \in R \/ <<q, p>> \in R
    <3>1. TAKE p, q \in S
    <3>2. HAVE p # q
    <3>3. at(p) \in Nat /\ at(q) \in Nat
      BY <1>2, <3>1
    <3>4. c.number[p] \in Nat /\ c.number[q] \in Nat /\ c.number[p] # c.number[q]
      BY <2>2, <2>3, <3>1, <3>2
    <3>5. \/ at(p) < at(q) \/ (at(p) = at(q) /\ c.number[p] < c.number[q])
          \/ at(q) < at(p) \/ (at(q) = at(p) /\ c.number[q] < c.number[p])
      BY <3>3, <3>4
    <3> QED BY <2>1, <3>1, <3>5
  <2> QED BY <2>4, <2>5, <2>6 DEF Orders
<1> HIDE DEF R, S, at
<1>4. /\ \A p \in S : Cardinality(Before(S, R, p)) \in 0 .. Cardinality(S) - 1
      /\ \A p, q \in S : p # q => Cardinality(Before(S, R, p)) # Cardinality(Before(S, R, q))
  BY <1>1, <1>3, PlacesDiffer
<1>5. Cardinality(S) \in Nat
  BY <1>1, FS_CardinalityType
<1>6. \A p \in S : Cardinality(Before(S, R, p)) \in Nat
  BY <1>4, <1>5
<1>7. f \in [S -> Nat \ {0}]
  BY <1>6
<1>8. IsInjective(f)
  <2>1. ASSUME NEW p \in S, NEW q \in S, f[p] = f[q] PROVE p = q
    <3>1. Cardinality(Before(S, R, p)) + 1 = Cardinality(Before(S, R, q)) + 1
      BY <2>1
    <3>2. Cardinality(Before(S, R, p)) = Cardinality(Before(S, R, q))
      BY <1>6, <2>1, <3>1
    <3> QED BY <1>4, <2>1, <3>2
  <2>2. DOMAIN f = S
    OBVIOUS
  <2> HIDE DEF f
  <2> QED BY <2>1, <2>2 DEF IsInjective
<1>9. CASE Preferred = <<>>
  BY <1>9, KeepsItself DEF ApplyPreferredBoxOrder
<1>10. CASE Preferred # <<>>
  <2>1. Renumbers(ApplyPreferredBoxOrder(c), c, f)
    BY <1>10 DEF ApplyPreferredBoxOrder, Renumbers, S, R
  <2> HIDE DEF f
  <2> QED BY <1>7, <1>8, <2>1, Renumbered DEF S
<1> QED BY <1>9, <1>10

LEMMA ReorderedKeeps ==
  ASSUME NEW c, Registry(c)
  PROVE  Keeps(c, Reordered(c))
<1> DEFINE d == ApplyPreferredBoxOrder(c)
<1>1. Keeps(c, d)
  BY PreferredOrderKeeps
<1>2. Reordered(c) = IF d.number # c.number THEN AutoOrdered(d) ELSE d
  BY DEF Reordered
<1> HIDE DEF d
<1>3. Keeps(d, AutoOrdered(d))
  BY <1>1, AutoOrderKeeps DEF Keeps
<1> QED BY <1>1, <1>2, <1>3, KeepsOn

\* What one with other names needs.
Renames(d, c, w, o) == d = [c EXCEPT !.who = w, !.observed = o]

LEMMA Renamed ==
  ASSUME NEW c, Registry(c), NEW w \in [Pid -> Identity], NEW o \in [Pid -> Identity],
         NEW d, Renames(d, c, w, o)
  PROVE  Keeps(c, d)
<1>1. c \in Client
  BY DEF Registry
<1>2. d = [number |-> c.number, who |-> w, observed |-> o, active |-> c.active, pips |-> c.pips]
  BY <1>1 DEF Client, Renames
<1>3. d.number = c.number /\ d.active = c.active /\ d.pips = c.pips
  BY <1>2
<1>4. d \in Client
  BY <1>1, <1>2 DEF Client
<1>5. Loaded(d) = Loaded(c)
  BY <1>3 DEF Loaded
<1> QED BY <1>3, <1>4, <1>5 DEF Keeps, Registry, Fits, Settled

LEMMA WhoObservedKeeps ==
  ASSUME NEW c, Registry(c), shm \in [Pid -> Identity]
  PROVE  Keeps(c, WhoObserved(c))
<1> DEFINE w == [p \in Pid |-> IF FreshIdentity(c, p) THEN shm[p] ELSE c.who[p]]
           o == [p \in Pid |-> IF FreshIdentity(c, p) THEN shm[p] ELSE c.observed[p]]
<1>1. c.who \in [Pid -> Identity] /\ c.observed \in [Pid -> Identity] /\ c \in Client
  BY DEF Registry, Client
<1>2. w \in [Pid -> Identity] /\ o \in [Pid -> Identity]
  BY <1>1
<1>3. Renames(WhoObserved(c), c, w, o)
  <2> HIDE DEF FreshIdentity
  <2> QED BY <1>1 DEF WhoObserved, Renames, Client
<1> HIDE DEF w, o
<1> QED BY <1>2, <1>3, Renamed

LEMMA IdentifiedKeeps ==
  ASSUME NEW c, Registry(c), shm \in [Pid -> Identity]
  PROVE  Keeps(c, Identified(c, WhoObserved(c)))
<1> DEFINE o == WhoObserved(c)
<1>1. Keeps(c, o)
  BY WhoObservedKeeps
<1>2. Identified(c, o) = c \/ Identified(c, o) = Reordered(o)
  BY DEF Identified
<1> HIDE DEF o
<1>3. Keeps(o, Reordered(o))
  BY <1>1, ReorderedKeeps DEF Keeps
<1>4. Keeps(c, Identified(c, o))
  BY <1>1, <1>2, <1>3, KeepsOn, KeepsItself
<1> QED BY <1>4 DEF o

LEMMA ReconciledKeeps ==
  ASSUME NEW c, Registry(c)
  PROVE  /\ Registry(Reconciled(c)) /\ Loaded(Reconciled(c)) = Loaded(c)
         /\ Fits(c) => Fits(Reconciled(c))
         /\ Settled(c) => Settled(Reconciled(c))
         /\ Reconciled(c).active = IF focus \in Loaded(c) THEN focus ELSE c.active
<1>1. CASE Promotes(c, focus)
  <2> DEFINE d == Promote(c, focus)
  <2>1. Promotion(d, c, focus)
    BY <1>1, PromotePromotes
  <2>2. /\ Registry(d) /\ Loaded(d) = Loaded(c) /\ (Fits(c) => Fits(d))
        /\ (Settled(c) => Settled(d))
    BY PromoteKeeps
  <2>3. Reconciled(c) = AutoOrdered(d)
    BY <1>1 DEF Reconciled
  <2> HIDE DEF d
  <2>4. Keeps(d, AutoOrdered(d))
    BY <2>2, AutoOrderKeeps
  <2>5. d.active = focus /\ focus \in Loaded(c)
    BY <1>1, <2>1 DEF Promotion, Promotes
  <2> QED BY <2>2, <2>3, <2>4, <2>5 DEF Keeps
<1>2. CASE ~Promotes(c, focus)
  <2>1. Reconciled(c) = c
    BY <1>2 DEF Reconciled
  <2>2. focus \in Loaded(c) => focus = c.active
    BY <1>2 DEF Promotes
  <2> QED BY <2>1, <2>2
<1> QED BY <1>1, <1>2

-----------------------------------------------------------------------------
(* The loops of the poll *)

\* g holds c and what it becomes by each removal.
Removals(g, c, gone, n) ==
  g = [i \in 0 .. n |-> IF i = 0 THEN c ELSE RemoveClient(g[i - 1], gone[i])]

LEMMA RemovalsExist ==
  ASSUME NEW c, NEW gone, NEW n \in Nat
  PROVE  \E g : Removals(g, c, gone, n)
<1> DEFINE S == {m \in Nat : ~ \E g : Removals(g, c, gone, m)}
<1>1. ASSUME NEW m \in S, \A k \in S : m <= k PROVE FALSE
  <2>1. m \in Nat /\ ~ \E g : Removals(g, c, gone, m)
    BY <1>1
  <2>2. CASE m = 0
    <3> DEFINE g == [i \in 0 .. 0 |-> c]
    <3>1. g = [i \in 0 .. 0 |-> IF i = 0 THEN c ELSE RemoveClient(g[i - 1], gone[i])]
      <4>1. \A i \in 0 .. 0 : i = 0
        OBVIOUS
      <4> QED BY <4>1
    <3>2. Removals(g, c, gone, 0)
      BY <3>1 DEF Removals
    <3> QED BY <2>1, <2>2, <3>2
  <2>3. CASE m # 0
    <3>1. m - 1 \in Nat /\ ~(m <= m - 1)
      BY <2>1, <2>3
    <3>2. PICK h : Removals(h, c, gone, m - 1)
      BY <1>1, <3>1
    <3> DEFINE g == [i \in 0 .. m |-> IF i = m THEN RemoveClient(h[m - 1], gone[m]) ELSE h[i]]
    <3>3. /\ \A i \in 0 .. m - 1 : i \in 0 .. m /\ i # m /\ (i # 0 => i - 1 \in 0 .. m - 1)
          /\ \A i \in 0 .. m : i # m => i \in 0 .. m - 1
          /\ m \in 0 .. m /\ m - 1 \in 0 .. m - 1
      BY <2>1, <3>1
    <3>4. g[m] = RemoveClient(h[m - 1], gone[m]) /\ \A i \in 0 .. m - 1 : g[i] = h[i]
      BY <3>3
    <3>5. \A i \in 0 .. m - 1 : h[i] = IF i = 0 THEN c ELSE RemoveClient(h[i - 1], gone[i])
      BY <3>2 DEF Removals
    <3>6. DOMAIN g = 0 .. m /\ g = [i \in 0 .. m |-> g[i]]
      OBVIOUS
    <3> HIDE DEF g
    <3>7. \A i \in 0 .. m : g[i] = IF i = 0 THEN c ELSE RemoveClient(g[i - 1], gone[i])
      BY <2>3, <3>3, <3>4, <3>5
    <3>8. Removals(g, c, gone, m)
      BY <3>6, <3>7 DEF Removals
    <3> QED BY <2>1, <3>8
  <2> QED BY <2>2, <2>3
<1>2. S = {}
  <2>1. S \in SUBSET Nat
    OBVIOUS
  <2> HIDE DEF S
  <2> QED BY <1>1, <2>1, LeastNatural
<1> QED BY <1>2

LEMMA RemoveAllRemoves ==
  ASSUME NEW c, NEW gone \in Seq(Pid)
  PROVE  \E g : Removals(g, c, gone, Len(gone)) /\ RemoveAll(c, gone) = g[Len(gone)]
<1>1. Len(gone) \in Nat
  OBVIOUS
<1>2. \E g : Removals(g, c, gone, Len(gone))
  BY <1>1, RemovalsExist
<1> DEFINE a == CHOOSE g : Removals(g, c, gone, Len(gone))
<1>3. Removals(a, c, gone, Len(gone))
  BY <1>2
<1>4. RemoveAll(c, gone) = a[Len(gone)]
  BY DEF RemoveAll, Removals
<1> QED BY <1>3, <1>4

\* h holds c and what it becomes by each addition.
Additions(g, c, new, n) ==
  g = [i \in 0 .. n |-> IF i = 0 THEN c ELSE Add(g[i - 1], new[i])]

LEMMA AdditionsExist ==
  ASSUME NEW c, NEW new, NEW n \in Nat
  PROVE  \E g : Additions(g, c, new, n)
<1> DEFINE S == {m \in Nat : ~ \E g : Additions(g, c, new, m)}
<1>1. ASSUME NEW m \in S, \A k \in S : m <= k PROVE FALSE
  <2>1. m \in Nat /\ ~ \E g : Additions(g, c, new, m)
    BY <1>1
  <2>2. CASE m = 0
    <3> DEFINE g == [i \in 0 .. 0 |-> c]
    <3>1. g = [i \in 0 .. 0 |-> IF i = 0 THEN c ELSE Add(g[i - 1], new[i])]
      <4>1. \A i \in 0 .. 0 : i = 0
        OBVIOUS
      <4> QED BY <4>1
    <3>2. Additions(g, c, new, 0)
      BY <3>1 DEF Additions
    <3> QED BY <2>1, <2>2, <3>2
  <2>3. CASE m # 0
    <3>1. m - 1 \in Nat /\ ~(m <= m - 1)
      BY <2>1, <2>3
    <3>2. PICK h : Additions(h, c, new, m - 1)
      BY <1>1, <3>1
    <3> DEFINE g == [i \in 0 .. m |-> IF i = m THEN Add(h[m - 1], new[m]) ELSE h[i]]
    <3>3. /\ \A i \in 0 .. m - 1 : i \in 0 .. m /\ i # m /\ (i # 0 => i - 1 \in 0 .. m - 1)
          /\ \A i \in 0 .. m : i # m => i \in 0 .. m - 1
          /\ m \in 0 .. m /\ m - 1 \in 0 .. m - 1
      BY <2>1, <3>1
    <3>4. g[m] = Add(h[m - 1], new[m]) /\ \A i \in 0 .. m - 1 : g[i] = h[i]
      BY <3>3
    <3>5. \A i \in 0 .. m - 1 : h[i] = IF i = 0 THEN c ELSE Add(h[i - 1], new[i])
      BY <3>2 DEF Additions
    <3>6. DOMAIN g = 0 .. m /\ g = [i \in 0 .. m |-> g[i]]
      OBVIOUS
    <3> HIDE DEF g
    <3>7. \A i \in 0 .. m : g[i] = IF i = 0 THEN c ELSE Add(g[i - 1], new[i])
      BY <2>3, <3>3, <3>4, <3>5
    <3>8. Additions(g, c, new, m)
      BY <3>6, <3>7 DEF Additions
    <3> QED BY <2>1, <3>8
  <2> QED BY <2>2, <2>3
<1>2. S = {}
  <2>1. S \in SUBSET Nat
    OBVIOUS
  <2> HIDE DEF S
  <2> QED BY <1>1, <2>1, LeastNatural
<1> QED BY <1>2

LEMMA AddAllAdds ==
  ASSUME NEW c, NEW new \in Seq(Pid)
  PROVE  \E g : Additions(g, c, new, Len(new)) /\ AddAll(c, new) = g[Len(new)]
<1>1. Len(new) \in Nat
  OBVIOUS
<1>2. \E g : Additions(g, c, new, Len(new))
  BY <1>1, AdditionsExist
<1> DEFINE a == CHOOSE g : Additions(g, c, new, Len(new))
<1>3. Additions(a, c, new, Len(new))
  BY <1>2
<1>4. AddAll(c, new) = a[Len(new)]
  BY DEF AddAll, Additions
<1> QED BY <1>3, <1>4

LEMMA RemoveAllKeeps ==
  ASSUME NEW c, Registry(c), NEW gone \in Seq(Pid)
  PROVE  Registry(RemoveAll(c, gone)) /\ Loaded(RemoveAll(c, gone)) \subseteq Loaded(c)
<1>1. PICK n \in Nat : n = Len(gone) /\ \A i \in 1 .. n : gone[i] \in Pid
  OBVIOUS
<1>2. PICK g : Removals(g, c, gone, n) /\ RemoveAll(c, gone) = g[n]
  BY <1>1, RemoveAllRemoves
<1>3. \A i \in 0 .. n : g[i] = IF i = 0 THEN c ELSE RemoveClient(g[i - 1], gone[i])
  BY <1>2 DEF Removals
<1> DEFINE P(i) == Registry(g[i]) /\ Loaded(g[i]) \subseteq Loaded(c)
           S == {i \in 0 .. n : ~P(i)}
<1>4. P(0)
  BY <1>1, <1>3
<1>5. ASSUME NEW i \in S, \A k \in S : i <= k PROVE FALSE
  <2>1. i \in 1 .. n /\ i - 1 \in 0 .. n /\ ~(i <= i - 1) /\ i # 0 /\ i \in 0 .. n
    BY <1>1, <1>4, <1>5
  <2>2. P(i - 1)
    BY <1>5, <2>1
  <2>3. g[i] = RemoveClient(g[i - 1], gone[i]) /\ gone[i] \in Pid
    BY <1>1, <1>3, <2>1
  <2>4. P(i)
    BY <2>2, <2>3, RemoveClientKeeps
  <2> QED BY <1>5, <2>4
<1>6. S \in SUBSET Nat
  BY <1>1
<1> HIDE DEF P
<1>7. \A i \in 0 .. n : P(i)
  <2> HIDE DEF S
  <2>1. S = {}
    BY <1>5, <1>6, LeastNatural
  <2> QED BY <2>1 DEF S
<1>8. P(n)
  BY <1>1, <1>7
<1> QED BY <1>2, <1>8 DEF P

LEMMA AddAllKeeps ==
  ASSUME NEW c, Registry(c), NEW new \in Seq(Pid), IsInjective(new),
         ToSet(new) \cap Loaded(c) = {}
  PROVE  Registry(AddAll(c, new))
<1>1. PICK n \in Nat : n = Len(new) /\ DOMAIN new = 1 .. n /\ \A i \in 1 .. n : new[i] \in Pid
  OBVIOUS
<1>2. PICK g : Additions(g, c, new, n) /\ AddAll(c, new) = g[n]
  BY <1>1, AddAllAdds
<1>3. \A i \in 0 .. n : g[i] = IF i = 0 THEN c ELSE Add(g[i - 1], new[i])
  BY <1>2 DEF Additions
<1> DEFINE P(i) == Registry(g[i]) /\ Loaded(g[i]) \subseteq Loaded(c) \cup {new[k] : k \in 1 .. i}
           S == {i \in 0 .. n : ~P(i)}
<1>4. P(0)
  BY <1>1, <1>3
<1>5. ASSUME NEW i \in S, \A k \in S : i <= k PROVE FALSE
  <2>1. i \in 1 .. n /\ i - 1 \in 0 .. n /\ ~(i <= i - 1) /\ i # 0 /\ i \in 0 .. n
    BY <1>1, <1>4, <1>5
  <2>2. P(i - 1)
    BY <1>5, <2>1
  <2>3. g[i] = Add(g[i - 1], new[i]) /\ new[i] \in Pid
    BY <1>1, <1>3, <2>1
  <2>4. new[i] \notin Loaded(c)
    BY <1>1, <2>1 DEF ToSet
  <2>5. \A k \in 1 .. i - 1 : k \in DOMAIN new /\ i \in DOMAIN new /\ k # i /\ k \in 1 .. i
    BY <1>1, <2>1
  <2>6. \A k \in 1 .. i - 1 : new[k] # new[i]
    BY <2>5 DEF IsInjective
  <2>7. new[i] \notin Loaded(g[i - 1])
    BY <2>2, <2>4, <2>6
  <2>8. Registry(g[i]) /\ Loaded(g[i]) = Loaded(g[i - 1]) \cup {new[i]}
    BY <2>2, <2>3, <2>7, AddKeeps
  <2>9. i \in 1 .. i
    BY <2>1
  <2>10. P(i)
    BY <2>2, <2>5, <2>8, <2>9
  <2> QED BY <1>5, <2>10
<1>6. S \in SUBSET Nat
  BY <1>1
<1> HIDE DEF P
<1>7. \A i \in 0 .. n : P(i)
  <2> HIDE DEF S
  <2>1. S = {}
    BY <1>5, <1>6, LeastNatural
  <2> QED BY <2>1 DEF S
<1>8. P(n)
  BY <1>1, <1>7
<1> QED BY <1>2, <1>8 DEF P

\* One of the orders in which a loop may walk a set.
LEMMA Walked ==
  ASSUME NEW S \in SUBSET Pid, NEW w \in SetToSeqs(S)
  PROVE  w \in Seq(Pid) /\ IsInjective(w) /\ ToSet(w) \subseteq S
<1>1. IsFiniteSet(S)
  BY FS_Subset DEF ClientSetBounds
<1>2. PICK n \in Nat : n = Cardinality(S)
  BY <1>1, FS_CardinalityType
<1>3. w \in [1 .. n -> S] /\ \A i, j \in 1 .. n : i # j => w[i] # w[j]
  BY <1>2 DEF SetToSeqs
<1>4. w \in Seq(Pid) /\ DOMAIN w = 1 .. n
  BY <1>2, <1>3
<1> QED BY <1>3, <1>4 DEF IsInjective, ToSet

-----------------------------------------------------------------------------
(* Box cycles *)

PlayingOf(K, w, ch) == {p \in K : w[p] = ch}
PlayersOf(K, w) == {CHOOSE p \in PlayingOf(K, w, ch) : TRUE :
                      ch \in {d \in ToSet(Cycle) : PlayingOf(K, w, d) # {}}}
OrderOf(K, w) ==
  {pq \in PlayersOf(K, w) \X PlayersOf(K, w) :
     LET a == w[pq[1]] b == w[pq[2]]
     IN \/ Position(Preferred, a) < Position(Preferred, b)
        \/ Position(Preferred, a) = Position(Preferred, b) /\ Position(Cycle, a) < Position(Cycle, b)}

LEMMA MembersAre ==
  ASSUME NEW c
  PROVE  CycleMembers(c) = Listed(PlayersOf(Known(c), c.who), OrderOf(Known(c), c.who))
BY DEF CycleMembers, Players, InCycleOrder, Playing, PlayingOf, PlayersOf, OrderOf

LEMMA PlayersOrdered ==
  ASSUME NEW K, NEW w
  PROVE  PlayersOf(K, w) \subseteq K /\ Orders(OrderOf(K, w), PlayersOf(K, w))
<1> DEFINE S == PlayersOf(K, w)
           R == OrderOf(K, w)
           first(p) == Position(Preferred, w[p])
           second(p) == Position(Cycle, w[p])
           Who(ch) == CHOOSE p \in PlayingOf(K, w, ch) : TRUE
<1>1. ASSUME NEW p \in S
      PROVE  p \in K /\ w[p] \in ToSet(Cycle) /\ p = Who(w[p])
  <2>1. PICK ch \in ToSet(Cycle) : PlayingOf(K, w, ch) # {} /\ p = Who(ch)
    BY <1>1 DEF PlayersOf
  <2>2. p \in PlayingOf(K, w, ch)
    BY <2>1
  <2>3. p \in K /\ w[p] = ch
    BY <2>2 DEF PlayingOf
  <2> QED BY <2>1, <2>3
<1>2. Preferred \in Seq(Character) /\ Cycle \in Seq(Character)
  BY DEF ClientSetBounds
<1>3. \A p : first(p) \in 1 .. Len(Preferred) + 1 /\ second(p) \in 1 .. Len(Cycle) + 1
  BY <1>2, PositionStands
<1>4. \A p : first(p) \in Nat /\ second(p) \in Nat
  <2> HIDE DEF first, second
  <2> QED BY <1>2, <1>3
<1>5. ASSUME NEW p \in S, NEW q \in S, second(p) = second(q) PROVE p = q
  <2>1. Contains(Cycle, w[p]) /\ Contains(Cycle, w[q])
    BY <1>1, <1>2, <1>5, ContainsIs
  <2>2. Cycle[second(p)] = w[p] /\ Cycle[second(q)] = w[q]
    BY <1>2, <2>1, PositionStands
  <2> HIDE DEF second
  <2>3. w[p] = w[q]
    BY <1>5, <2>2
  <2> HIDE DEF S, Who
  <2> QED BY <1>1, <1>5, <2>3
<1>6. \A p, q \in S : <<p, q>> \in R <=>
        first(p) < first(q) \/ (first(p) = first(q) /\ second(p) < second(q))
  BY DEF OrderOf
<1> HIDE DEF S, R, first, second, Who
<1>7. Orders(R, S)
  <2>1. \A p, q \in S : second(p) = second(q) => p = q
    BY <1>5
  <2> QED BY <1>4, <1>6, <2>1 DEF Orders
<1> QED BY <1>1, <1>7 DEF S, R

LEMMA MembersListed ==
  ASSUME NEW c, Registry(c)
  PROVE  /\ CycleMembers(c) \in Seq(Pid) /\ IsInjective(CycleMembers(c))
         /\ ToSet(CycleMembers(c)) \subseteq Known(c)
<1> DEFINE S == PlayersOf(Known(c), c.who)
           R == OrderOf(Known(c), c.who)
<1>1. Loaded(c) \in SUBSET Pid /\ IsFiniteSet(Loaded(c))
  BY LoadedFinite
<1>2. S \subseteq Known(c) /\ Orders(R, S)
  BY PlayersOrdered
<1>3. Known(c) \subseteq Loaded(c)
  BY DEF Known
<1>4. CycleMembers(c) = Listed(S, R)
  BY MembersAre
<1> HIDE DEF S, R
<1>5. IsFiniteSet(S)
  BY <1>1, <1>2, <1>3, FS_Subset
<1>6. Listed(S, R) \in Seq(S) /\ IsInjective(Listed(S, R)) /\ ToSet(Listed(S, R)) = S
  BY <1>2, <1>5, ListedOnce
<1>7. Listed(S, R) \in Seq(Pid)
  BY <1>1, <1>2, <1>3, <1>6, SeqMonotonic
<1> QED BY <1>2, <1>4, <1>6, <1>7

\* Remainders.
LEMMA Division ==
  ASSUME NEW a \in Int, NEW m \in Nat \ {0}
  PROVE  (a % m) \in 0..(m - 1) /\ a \div m \in Int /\ a = m * (a \div m) + (a % m)
BY SMT

LEMMA DivisionUnique ==
  ASSUME NEW m \in Nat \ {0}, NEW q \in Int, NEW p \in Int,
         NEW r \in 0..(m - 1), NEW s \in 0..(m - 1), m * q + r = m * p + s
  PROVE  q = p /\ r = s
BY SMT

LEMMA Remainder ==
  ASSUME NEW m \in Nat \ {0}, NEW q \in Int, NEW r \in 0..(m - 1), NEW a \in Int, a = m * q + r
  PROVE  a % m = r
<1> DEFINE d == a \div m
           e == a % m
<1>1. e \in 0 .. m - 1 /\ d \in Int /\ a = m * d + e
  BY ONLY a \in Int, m \in Nat \ {0}, Division
<1> HIDE DEF d, e
<1>2. m * q + r = m * d + e
  BY <1>1
<1>3. r = e
  BY ONLY <1>1, <1>2, m \in Nat \ {0}, q \in Int, r \in 0 .. m - 1, DivisionUnique
<1> QED BY <1>3 DEF e

LEMMA SmallRemainder ==
  ASSUME NEW m \in Nat \ {0}, NEW x \in 0..(m - 1)
  PROVE  x % m = x
BY SMT

\* Who may be cycled to depends on who is known, which promoting one of them leaves.
LEMMA PromoteKnown ==
  ASSUME NEW c, Registry(c), Settled(c), NEW p \in Known(c)
  PROVE  /\ Registry(Promote(c, p)) /\ Settled(Promote(c, p)) /\ Promote(c, p).active = p
         /\ Known(Promote(c, p)) = Known(c) /\ Promote(c, p).who = c.who
         /\ Loaded(Promote(c, p)) = Loaded(c)
<1> DEFINE d == Promote(c, p)
<1>1. p \in Loaded(c) /\ p \in {c.active} \cup ToSet(c.pips)
  BY DEF Known
<1>2. CASE Promotes(c, p)
  <2>1. Promotion(d, c, p) /\ Registry(d) /\ (Settled(c) => Settled(d))
    BY <1>2, PromotePromotes, PromoteKeeps
  <2> HIDE DEF d
  <2>2. p # c.active /\ p \in ToSet(c.pips)
    BY <1>1, <1>2 DEF Promotes
  <2>3. c.active # Nobody
    BY <2>2 DEF Settled, ToSet
  <2>4. c.active \in Loaded(c)
    BY <2>3 DEF Registry, Partitioned
  <2>5. ToSet(d.pips) = (ToSet(c.pips) \ {p}) \cup {c.active} /\ d.active = p
    BY <2>1, <2>2, <2>3 DEF Promotion
  <2>6. {d.active} \cup ToSet(d.pips) = {c.active} \cup ToSet(c.pips)
    BY <2>2, <2>5
  <2>7. Known(d) = Known(c)
    BY <2>1, <2>6 DEF Known, Promotion
  <2> QED BY <2>1, <2>7 DEF Promotion, d
<1>3. CASE ~Promotes(c, p)
  <2>1. d = c
    BY <1>3 DEF Promote
  <2>2. c.active = p
    BY <1>1, <1>3 DEF Promotes
  <2> QED BY <2>1, <2>2
<1> QED BY <1>2, <1>3

LEMMA PromoteMembers ==
  ASSUME NEW c, Registry(c), Settled(c), NEW p \in Known(c)
  PROVE  CycleMembers(Promote(c, p)) = CycleMembers(c)
<1> DEFINE d == Promote(c, p)
<1>1. Known(d) = Known(c) /\ d.who = c.who
  BY PromoteKnown
<1> HIDE DEF d
<1>2. /\ CycleMembers(d) = Listed(PlayersOf(Known(d), d.who), OrderOf(Known(d), d.who))
      /\ CycleMembers(c) = Listed(PlayersOf(Known(c), c.who), OrderOf(Known(c), c.who))
  BY MembersAre
<1>3. CycleMembers(d) = CycleMembers(c)
  BY <1>1, <1>2
<1> QED BY <1>3 DEF d

\* One place on and one place back, round the end.
LEMMA Turns ==
  ASSUME NEW n \in Nat \ {0}, NEW k \in 1 .. n
  PROVE  /\ (k % n) + 1 \in 1 .. n
         /\ (((k % n) + 1 + n - 2) % n) + 1 = k
<1>1. CASE k < n
  <2> k \in 0 .. n - 1
    BY <1>1
  <2>1. k % n = k
    BY SmallRemainder
  <2>2. k + 1 + n - 2 = n * 1 + (k - 1) /\ k - 1 \in 0 .. n - 1 /\ k + 1 + n - 2 \in Int /\ 1 \in Int
    BY <1>1
  <2> DEFINE a == k + 1 + n - 2
             r == k - 1
  <2>3. a = n * 1 + r /\ r \in 0 .. n - 1 /\ a \in Int /\ 1 \in Int
    BY <2>2
  <2> HIDE DEF a, r
  <2>4. a % n = r
    BY ONLY <2>3, n \in Nat \ {0}, Remainder
  <2>5. (k + 1 + n - 2) % n = k - 1
    BY <2>4 DEF a, r
  <2> QED BY <1>1, <2>1, <2>5
<1>2. CASE k = n
  <2>1. n = n * 1 + 0 /\ 0 \in 0 .. n - 1 /\ n \in Int /\ 1 \in Int
    OBVIOUS
  <2>2. k % n = 0
    BY <1>2, <2>1, Remainder
  <2>3. 0 + 1 + n - 2 = n - 1 /\ n - 1 \in 0 .. n - 1
    OBVIOUS
  <2>4. (0 + 1 + n - 2) % n = n - 1
    BY <2>3, SmallRemainder
  <2> QED BY <1>2, <2>2, <2>4
<1> QED BY <1>1, <1>2

\* Where cycling leads from the k-th member.
LEMMA CycleFrom ==
  ASSUME NEW c, NEW ms, ms = CycleMembers(c), ms \in Seq(Pid), IsInjective(ms),
         NEW k \in DOMAIN ms, ms[k] = c.active
  PROVE  /\ CycleTarget(c, TRUE) = ms[(k % Len(ms)) + 1]
         /\ CycleTarget(c, FALSE) = ms[((k + Len(ms) - 2) % Len(ms)) + 1]
<1>1. ms # <<>>
  OBVIOUS
<1>2. {i \in DOMAIN ms : ms[i] = c.active} = {k}
  BY DEF IsInjective
<1>3. \A S : S = {k} => S # {} /\ (CHOOSE j \in S : TRUE) = k
  OBVIOUS
<1>4. k = CHOOSE j \in {i \in DOMAIN ms : ms[i] = c.active} : TRUE
  BY <1>2, <1>3
<1>5. {i \in DOMAIN ms : ms[i] = c.active} # {}
  BY <1>2
<1> QED BY <1>1, <1>4, <1>5 DEF CycleTarget

LEMMA CyclesReverseFrom ==
  ASSUME NEW c, Registry(c), Settled(c), NEW p \in ToSet(CycleMembers(c))
  PROVE  LET at == Promote(c, p)
             on == Promote(at, CycleTarget(at, TRUE))
         IN CycleTarget(on, FALSE) = p
<1> DEFINE ms == CycleMembers(c)
           at == Promote(c, p)
           q  == CycleTarget(at, TRUE)
           on == Promote(at, q)
<1>1. ms \in Seq(Pid) /\ IsInjective(ms) /\ ToSet(ms) \subseteq Known(c)
  BY MembersListed
<1>2. PICK n \in Nat : n = Len(ms) /\ DOMAIN ms = 1 .. n
  BY <1>1
<1>3. PICK k \in 1 .. n : ms[k] = p
  BY <1>2 DEF ToSet
<1>4. n \in Nat \ {0}
  BY <1>3
<1>5. p \in Known(c)
  BY <1>1
<1>6. /\ Registry(at) /\ Settled(at) /\ at.active = p /\ Known(at) = Known(c)
      /\ CycleMembers(at) = ms
  BY <1>5, PromoteKnown, PromoteMembers
<1> HIDE DEF at, ms
<1>7. q = ms[(k % n) + 1]
  BY <1>1, <1>2, <1>3, <1>6, CycleFrom
<1>8. (k % n) + 1 \in 1 .. n /\ (((k % n) + 1 + n - 2) % n) + 1 = k
  BY <1>4, Turns
<1> DEFINE j == (k % n) + 1
<1>9. j \in DOMAIN ms /\ ms[j] = q
  BY <1>2, <1>7, <1>8
<1> HIDE DEF q
<1>10. q \in Known(at)
  BY <1>1, <1>6, <1>9 DEF ToSet
<1>11. on.active = q /\ CycleMembers(on) = ms
  BY <1>6, <1>10, PromoteKnown, PromoteMembers
<1> HIDE DEF on
<1>12. ((j + n - 2) % n) + 1 = k
  BY <1>8
<1> HIDE DEF j
<1>13. CycleTarget(on, FALSE) = ms[((j + n - 2) % n) + 1]
  BY <1>1, <1>2, <1>9, <1>11, CycleFrom
<1>14. CycleTarget(on, FALSE) = p
  BY <1>3, <1>12, <1>13
<1> QED BY <1>14 DEF on, at, q

-----------------------------------------------------------------------------
(* Client ids *)

AtMost(n) == IF n < MaxRetired THEN n ELSE MaxRetired

\* n ids were issued, of which f holds the live ones and r the last retired ones.
IdsKept(f, n, r) ==
  /\ DOMAIN f \in SUBSET Pid /\ n \in Nat
  /\ f \in [DOMAIN f -> 1 .. n] /\ IsInjective(f)
  /\ r \in Seq(1 .. n)
  /\ \A p \in DOMAIN f : f[p] \notin ToSet(r)
  /\ Len(r) = AtMost(n - Cardinality(DOMAIN f))

LEMMA SetToSeqLists ==
  ASSUME NEW S, IsFiniteSet(S)
  PROVE  /\ SetToSeq(S) \in [1 .. Cardinality(S) -> S] /\ IsInjective(SetToSeq(S))
         /\ \A p \in S : \E i \in 1 .. Cardinality(S) : SetToSeq(S)[i] = p
<1>1. Cardinality(S) \in Nat /\ ExistsBijection(1 .. Cardinality(S), S)
  BY FS_CardinalityType
<1>2. PICK g \in [1 .. Cardinality(S) -> S] : IsInjective(g)
  BY <1>1 DEF ExistsBijection, Bijection, Injection
<1> DEFINE f == SetToSeq(S)
<1>3. f \in [1 .. Cardinality(S) -> S] /\ IsInjective(f)
  BY <1>2 DEF SetToSeq
<1> HIDE DEF f
<1>4. f \in Injection(1 .. Cardinality(S), S)
  BY <1>3 DEF Injection
<1>5. Cardinality(1 .. Cardinality(S)) = Cardinality(S) /\ IsFiniteSet(1 .. Cardinality(S))
  BY <1>1, FS_Interval
<1>6. f \in Surjection(1 .. Cardinality(S), S)
  BY <1>4, <1>5, FS_Injection
<1> QED BY <1>3, <1>6 DEF Surjection, f

LEMMA KeepLastKeeps ==
  ASSUME NEW T, NEW s \in Seq(T)
  PROVE  /\ KeepLast(s) \in Seq(T) /\ Len(KeepLast(s)) = AtMost(Len(s))
         /\ ToSet(KeepLast(s)) \subseteq ToSet(s)
<1>1. PICK n \in Nat : n = Len(s) /\ DOMAIN s = 1 .. n
  OBVIOUS
<1>2. MaxRetired \in Nat \ {0}
  BY DEF ClientSetBounds
<1>3. CASE n > MaxRetired
  <2> DEFINE k == n - MaxRetired
             w == SubSeq(s, k + 1, n)
  <2>1. KeepLast(s) = w
    BY <1>1, <1>3 DEF KeepLast
  <2>2. k + 1 \in 1 .. n /\ k \in Nat
    BY <1>2, <1>3
  <2>3. /\ w \in Seq(T) /\ Len(w) = n - (k + 1) + 1
        /\ \A i \in 1 .. n - (k + 1) + 1 : w[i] = s[k + 1 + i - 1]
    BY <1>1, <2>2
  <2>4. n - (k + 1) + 1 = MaxRetired
    BY <1>1, <1>2
  <2>5. \A i \in 1 .. n - (k + 1) + 1 : k + 1 + i - 1 \in DOMAIN s
    BY <1>1, <1>2, <2>2
  <2> HIDE DEF w
  <2>6. DOMAIN w = 1 .. n - (k + 1) + 1
    BY <2>3
  <2>7. ToSet(w) \subseteq ToSet(s)
    BY <2>3, <2>5, <2>6 DEF ToSet
  <2>8. AtMost(Len(s)) = MaxRetired
    BY <1>1, <1>2, <1>3 DEF AtMost
  <2> QED BY <2>1, <2>3, <2>4, <2>7, <2>8
<1>4. CASE ~(n > MaxRetired)
  <2>1. KeepLast(s) = s
    BY <1>1, <1>4 DEF KeepLast
  <2>2. AtMost(Len(s)) = Len(s)
    BY <1>1, <1>2, <1>4 DEF AtMost
  <2> QED BY <2>1, <2>2
<1> QED BY <1>3, <1>4

\* As many ids are retired as clients left.
LEMMA IdsCount ==
  ASSUME NEW D, IsFiniteSet(D), NEW L, IsFiniteSet(L), NEW n \in Nat
  PROVE  /\ Cardinality(D \ L) \in Nat /\ Cardinality(L \ D) \in Nat /\ Cardinality(D) \in Nat
         /\ Cardinality(L) \in Nat
         /\ n + Cardinality(L \ D) - Cardinality(L) = n - Cardinality(D) + Cardinality(D \ L)
<1>1. /\ IsFiniteSet(D \ L) /\ Cardinality(D \ L) = Cardinality(D) - Cardinality(D \cap L)
      /\ IsFiniteSet(L \ D) /\ Cardinality(L \ D) = Cardinality(L) - Cardinality(L \cap D)
      /\ IsFiniteSet(D \cap L)
  BY FS_Difference, FS_Intersection
<1>2. Cardinality(D \cap L) = Cardinality(L \cap D)
  <2>1. D \cap L = L \cap D
    OBVIOUS
  <2> QED BY <2>1
<1>3. /\ Cardinality(D) \in Nat /\ Cardinality(L) \in Nat /\ Cardinality(D \cap L) \in Nat
      /\ Cardinality(D \ L) \in Nat /\ Cardinality(L \ D) \in Nat
  BY <1>1, FS_CardinalityType
<1> QED BY <1>1, <1>2, <1>3

LEMMA MapIdsKeeps ==
  ASSUME IdsKept(ids, idsMade, retired), NEW c, Registry(c), MapIds(c)
  PROVE  IdsKept(ids', idsMade', retired')
<1> DEFINE D == DOMAIN ids
           L == Loaded(c)
           G == SetToSeq(D \ L)
           W == SetToSeq(L \ D)
           g == [i \in DOMAIN G |-> ids[G[i]]]
           at(p) == CHOOSE i \in DOMAIN W : W[i] = p
           f == [p \in L |-> IF p \in D THEN ids[p] ELSE idsMade + at(p)]
<1>1. retired' = KeepLast(retired \o g) /\ idsMade' = idsMade + Len(W) /\ ids' = f
  BY DEF MapIds
<1>2. /\ D \in SUBSET Pid /\ idsMade \in Nat /\ ids \in [D -> 1 .. idsMade] /\ IsInjective(ids)
      /\ retired \in Seq(1 .. idsMade) /\ \A p \in D : ids[p] \notin ToSet(retired)
      /\ Len(retired) = AtMost(idsMade - Cardinality(D))
  BY DEF IdsKept
<1>3. L \in SUBSET Pid /\ IsFiniteSet(L) /\ IsFiniteSet(D)
  BY <1>2, LoadedFinite, FS_Subset DEF ClientSetBounds
<1>4. IsFiniteSet(D \ L) /\ IsFiniteSet(L \ D)
  BY <1>3, FS_Difference
<1>5. /\ Cardinality(D \ L) \in Nat /\ Cardinality(L \ D) \in Nat /\ Cardinality(D) \in Nat
      /\ Cardinality(L) \in Nat
      /\ idsMade + Cardinality(L \ D) - Cardinality(L) = idsMade - Cardinality(D) + Cardinality(D \ L)
  BY <1>2, <1>3, IdsCount
<1>6. PICK m \in Nat : m = Cardinality(D \ L)
  BY <1>5
<1>7. PICK k \in Nat : k = Cardinality(L \ D)
  BY <1>5
<1>8. G \in [1 .. m -> D \ L]
  BY <1>4, <1>6, SetToSeqLists
<1>9. W \in [1 .. k -> L \ D] /\ IsInjective(W) /\ \A p \in L \ D : \E i \in 1 .. k : W[i] = p
  BY <1>4, <1>7, SetToSeqLists
<1>10. Len(W) = k /\ DOMAIN W = 1 .. k
  <2> HIDE DEF W
  <2> QED BY <1>7, <1>9
<1>11. DOMAIN G = 1 .. m
  BY <1>8
<1> HIDE DEF G, W, L, D
<1>12. g \in Seq(1 .. idsMade) /\ Len(g) = m /\ DOMAIN g = 1 .. m
  <2>1. \A i \in 1 .. m : G[i] \in D /\ ids[G[i]] \in 1 .. idsMade
    BY <1>2, <1>8
  <2>2. g \in [1 .. m -> 1 .. idsMade]
    BY <1>11, <2>1
  <2> HIDE DEF g
  <2>3. g \in Seq(1 .. idsMade) /\ Len(g) = m
    BY <1>6, <2>2, SequenceIs
  <2> QED BY <2>2, <2>3
<1>13. \A i \in 1 .. m : g[i] = ids[G[i]] /\ G[i] \in D /\ G[i] \notin L
  BY <1>8, <1>11
<1>14. \A p \in L \ D : at(p) \in 1 .. k /\ W[at(p)] = p
  BY <1>9, <1>10
<1> HIDE DEF g, at
<1> DEFINE r == retired \o g
           n == idsMade + k
<1>15. r \in Seq(1 .. idsMade) /\ Len(r) = Len(retired) + m /\ Len(retired) \in Nat
  <2>1. retired \in Seq(1 .. idsMade) /\ g \in Seq(1 .. idsMade) /\ Len(g) = m
    BY <1>2, <1>12
  <2>2. /\ retired \o g \in Seq(1 .. idsMade) /\ Len(retired) \in Nat
        /\ Len(retired \o g) = Len(retired) + Len(g)
    BY ONLY <2>1, JoinedIs
  <2> QED BY <2>1, <2>2
<1>16. ToSet(r) \subseteq ToSet(retired) \cup ToSet(g)
  <2>1. PICK a \in Nat : a = Len(retired) /\ DOMAIN retired = 1 .. a
    BY <1>2
  <2>2. DOMAIN r = 1 .. a + m
    BY <1>15, <2>1
  <2>3. /\ \A i \in 1 .. a : r[i] = retired[i] /\ i \in DOMAIN retired
        /\ \A i \in a + 1 .. a + m : r[i] = g[i - a] /\ i - a \in DOMAIN g
    <3>1. /\ \A i \in 1 .. a : r[i] = retired[i]
          /\ \A i \in a + 1 .. a + m : r[i] = g[i - a]
      <4>1. retired \in Seq(1 .. idsMade) /\ g \in Seq(1 .. idsMade) /\ Len(g) = m /\ Len(retired) = a
        BY <1>2, <1>12, <2>1
      <4>2. /\ \A i \in 1 .. Len(retired) : (retired \o g)[i] = retired[i]
            /\ \A i \in Len(retired) + 1 .. Len(retired) + Len(g) :
                 (retired \o g)[i] = g[i - Len(retired)]
        BY ONLY <4>1, JoinedIs
      <4> QED BY <4>1, <4>2
    <3>2. \A i \in a + 1 .. a + m : i - a \in 1 .. m
      BY <2>1, <1>6
    <3> QED BY <1>12, <2>1, <3>1, <3>2
  <2>4. \A i \in 1 .. a + m : i \in 1 .. a \/ i \in a + 1 .. a + m
    BY <2>1
  <2> HIDE DEF r
  <2> QED BY <2>2, <2>3, <2>4 DEF ToSet
<1> HIDE DEF r
<1>17. /\ retired' \in Seq(1 .. idsMade) /\ Len(retired') = AtMost(Len(retired) + m)
       /\ ToSet(retired') \subseteq ToSet(r)
  <2>1. retired' = KeepLast(r)
    BY <1>1 DEF r
  <2> QED BY <1>15, <2>1, KeepLastKeeps
<1>18. \A x \in ToSet(retired') : x \in ToSet(retired) \/ \E i \in 1 .. m : x = g[i]
  BY <1>12, <1>16, <1>17 DEF ToSet
<1>19. idsMade' = n /\ n \in Nat /\ \A i \in 1 .. idsMade : i \in 1 .. n
  <2>1. idsMade' = n
    BY <1>1, <1>10
  <2>2. idsMade \in Nat /\ k \in Nat
    BY <1>2
  <2> QED BY <2>1, <2>2
<1>20. ids' = f /\ DOMAIN f = L
  BY <1>1
<1>21. \A p \in L : /\ p \in D => f[p] = ids[p] /\ f[p] \in 1 .. idsMade
                    /\ p \notin D => /\ f[p] = idsMade + at(p) /\ f[p] \in 1 .. n
                                     /\ f[p] \notin 1 .. idsMade
  <2>1. \A p \in L \ D : at(p) \in 1 .. k
    BY <1>14
  <2>2. \A i \in 1 .. k : idsMade + i \in 1 .. n /\ idsMade + i \notin 1 .. idsMade
    BY <1>2, <1>7
  <2> QED BY <1>2, <2>1, <2>2
<1> HIDE DEF f, n
<1>22. f \in [L -> 1 .. n]
  <2>1. \A p \in L : f[p] \in 1 .. n
    BY <1>19, <1>21
  <2> QED BY <1>20, <2>1 DEF f
<1>23. IsInjective(f)
  <2>1. SUFFICES ASSUME NEW p \in L, NEW q \in L, f[p] = f[q] PROVE p = q
    BY <1>20 DEF IsInjective
  <2>2. CASE p \in D /\ q \in D
    BY <1>2, <1>21, <2>1, <2>2 DEF IsInjective, D
  <2>3. CASE p \notin D /\ q \notin D
    <3>1. at(p) \in 1 .. k /\ at(q) \in 1 .. k /\ idsMade + at(p) = idsMade + at(q)
      BY <1>14, <1>21, <2>1, <2>3
    <3>2. at(p) = at(q)
      BY <1>2, <1>7, <3>1
    <3> QED BY <1>14, <2>3, <3>2
  <2>4. CASE (p \in D /\ q \notin D) \/ (p \notin D /\ q \in D)
    BY <1>21, <2>1, <2>4
  <2> QED BY <2>2, <2>3, <2>4
<1>24. \A p \in L : f[p] \notin ToSet(retired')
  <2>1. SUFFICES ASSUME NEW p \in L, f[p] \in ToSet(retired') PROVE FALSE
    OBVIOUS
  <2>2. f[p] \in 1 .. idsMade
    <3>1. ToSet(retired') \subseteq 1 .. idsMade
      BY ONLY <1>17, ElementsAre
    <3> QED BY <2>1, <3>1
  <2>3. p \in D /\ f[p] = ids[p]
    BY <1>21, <2>2
  <2>4. PICK i \in 1 .. m : ids[p] = g[i]
    BY <1>2, <1>18, <2>1, <2>3
  <2>5. ids[p] = ids[G[i]] /\ G[i] \in D /\ G[i] \notin L
    BY <1>13, <2>4
  <2> QED BY <1>2, <2>3, <2>5 DEF IsInjective, D
<1>25. Len(retired') = AtMost(n - Cardinality(L))
  <2>1. PICK e \in Nat, z \in Nat, y \in Nat :
          e = Cardinality(D) /\ y = Cardinality(L) /\ z = Len(retired)
    BY <1>5, <1>15
  <2>2. z = AtMost(idsMade - e) /\ Len(retired') = AtMost(z + m) /\ n - y = idsMade - e + m
    BY <1>2, <1>5, <1>6, <1>7, <1>17, <2>1 DEF n
  <2>3. idsMade - e \in Int /\ MaxRetired \in Nat
    BY <1>2, <2>1 DEF ClientSetBounds
  <2>4. AtMost(z + m) = AtMost(idsMade - e + m)
    BY <1>6, <2>1, <2>2, <2>3 DEF AtMost
  <2> QED BY <2>1, <2>2, <2>4
<1>26. retired' \in Seq(1 .. n)
  BY <1>17, <1>19, SeqMonotonic
<1> QED BY <1>3, <1>19, <1>20, <1>22, <1>23, <1>24, <1>25, <1>26 DEF IdsKept

-----------------------------------------------------------------------------
(* The invariant *)

Sound(c) == Registry(c) /\ Settled(c) /\ Fits(c)

Outside == running \in SUBSET Pid /\ focus \in Pid \cup {Nobody} /\ shm \in [Pid -> Identity]

\* What an activation under way remembers is what the broadcaster was told, and can
\* be gone back to; without one the broadcaster knows the active client.
Recalls(w, c, t) ==
  IF w = NoSwap THEN t = c.active
  ELSE /\ w.target = c.active /\ w.target \in Loaded(c)
       /\ w.active = t /\ Partitioned(w.pips, w.active, Loaded(c))
       /\ w.active = Nobody => w.pips = <<>>
       /\ Len(w.pips) <= MaxPips

BoxInv ==
  /\ Outside /\ Sound(clients)
  /\ Recalls(swap, clients, told)
  /\ IdsKept(ids, idsMade, retired)

LEMMA KeepsSound ==
  ASSUME NEW c, Sound(c), NEW d, Keeps(c, d)
  PROVE  Sound(d) /\ d.active = c.active /\ Loaded(d) = Loaded(c)
BY DEF Sound, Keeps

LEMMA SetToPart ==
  ASSUME Outside, UNCHANGED osVars
  PROVE  Outside'
BY DEF Outside, osVars

LEMMA IdsStay ==
  ASSUME IdsKept(ids, idsMade, retired), UNCHANGED mapperVars
  PROVE  IdsKept(ids', idsMade', retired')
<1>1. ids' = ids /\ idsMade' = idsMade /\ retired' = retired
  BY DEF mapperVars
<1> QED BY <1>1

\* A transaction between activations.
LEMMA CommitKeeps ==
  ASSUME BoxInv, ~busy, NEW c, Sound(c), Commit(c), told' = c.active
  PROVE  BoxInv'
<1>1. clients' = c /\ swap' = swap /\ UNCHANGED osVars /\ MapIds(c)
  BY DEF Commit, PublishClients
<1>2. Outside' /\ Sound(clients')
  BY <1>1, SetToPart DEF BoxInv
<1>3. Recalls(swap', clients', told')
  BY <1>1 DEF Recalls, busy
<1>4. IdsKept(ids', idsMade', retired')
  BY <1>1, MapIdsKeeps DEF BoxInv, Sound
<1> QED BY <1>2, <1>3, <1>4 DEF BoxInv

LEMMA EditKeeps ==
  ASSUME BoxInv, ~busy, NEW c, Keeps(clients, c), Edit(c)
  PROVE  BoxInv'
<1>1. Sound(c) /\ c.active = clients.active
  BY KeepsSound DEF BoxInv
<1>2. told' = c.active
  BY <1>1 DEF Edit, BoxInv, Recalls, busy
<1> QED BY <1>1, <1>2, CommitKeeps DEF Edit

LEMMA InitHolds == BoxInit => BoxInv
<1> SUFFICES ASSUME BoxInit PROVE BoxInv
  OBVIOUS
<1>1. Outside
  BY DEF BoxInit, Outside, Identity
<1>2. Sound(clients) /\ clients.active = Nobody
  <2>1. <<>> \in Seq(Pid) /\ IsInjective(<<>>) /\ ToSet(<<>>) = {} /\ Len(<<>>) = 0 /\ DOMAIN <<>> = {}
    BY DEF IsInjective, ToSet
  <2>2. <<>> \in Numbering
    <3>1. <<>> \in [DOMAIN <<>> -> Nat \ {0}]
      BY <2>1
    <3> QED BY <2>1, <3>1, NumberingIs
  <2>3. /\ clients \in Client /\ clients.number = <<>> /\ clients.pips = <<>>
        /\ clients.active = Nobody
    BY <2>1, <2>2 DEF BoxInit, Client, Identity
  <2>4. MaxPips \in Nat
    BY DEF ClientSetBounds
  <2> QED BY <2>1, <2>3, <2>4 DEF Sound, Registry, Partitioned, Loaded, Settled, Fits
<1>3. Recalls(swap, clients, told)
  BY <1>2 DEF BoxInit, Recalls
<1>4. IdsKept(ids, idsMade, retired)
  <2>1. ids = <<>> /\ idsMade = 0 /\ retired = <<>> /\ DOMAIN <<>> = {} /\ Len(<<>>) = 0
    BY DEF BoxInit
  <2>2. Cardinality({}) = 0 /\ MaxRetired \in Nat \ {0}
    BY FS_EmptySet DEF ClientSetBounds
  <2>3. AtMost(0 - 0) = 0
    BY <2>2 DEF AtMost
  <2>4. <<>> \in [DOMAIN <<>> -> 1 .. 0] /\ <<>> \in Seq(1 .. 0)
    BY <2>1
  <2> QED BY <2>1, <2>2, <2>3, <2>4 DEF IdsKept, IsInjective
<1> QED BY <1>1, <1>2, <1>3, <1>4 DEF BoxInv

-----------------------------------------------------------------------------
(* The steps *)

\* Windows and games come and go without the overlay.
LEMMA OutsideSteps ==
  ASSUME BoxInv, UNCHANGED <<clients, swap, told, mapperVars>>, Outside'
  PROVE  BoxInv'
<1>1. clients' = clients /\ swap' = swap /\ told' = told
  OBVIOUS
<1>2. IdsKept(ids', idsMade', retired')
  BY IdsStay DEF BoxInv
<1> QED BY <1>1, <1>2 DEF BoxInv

LEMMA ForegroundEventKeeps ==
  ASSUME BoxInv, ForegroundEvent
  PROVE  BoxInv'
<1>1. ~busy /\ Sound(clients) /\ told = clients.active
  BY DEF ForegroundEvent, BoxInv, Recalls, busy
<1>2. CASE focus \in Loaded(clients)
  <2>1. Commit(Reconciled(clients)) /\ told' = focus
    BY <1>2 DEF ForegroundEvent
  <2>2. Sound(Reconciled(clients)) /\ Reconciled(clients).active = focus
    BY <1>1, <1>2, ReconciledKeeps DEF Sound
  <2> QED BY <1>1, <2>1, <2>2, CommitKeeps
<1>3. CASE focus \notin Loaded(clients)
  <2>1. Commit(clients) /\ told' = clients.active
    BY <1>1, <1>3 DEF ForegroundEvent
  <2> QED BY <1>1, <2>1, CommitKeeps
<1> QED BY <1>2, <1>3

LEMMA PollSameKeeps ==
  ASSUME BoxInv, PollSame
  PROVE  BoxInv'
<1> DEFINE p == Reconciled(clients)
           c == Identified(p, WhoObserved(p))
<1>1. ~busy /\ Sound(clients) /\ shm \in [Pid -> Identity] /\ Commit(c) /\ told' = c.active
  BY DEF PollSame, BoxInv, Outside
<1>2. Sound(p)
  BY <1>1, ReconciledKeeps DEF Sound
<1> HIDE DEF p
<1>3. Keeps(p, c)
  BY <1>1, <1>2, IdentifiedKeeps DEF Sound
<1>4. Sound(c)
  BY <1>2, <1>3, KeepsSound
<1> HIDE DEF c
<1> QED BY <1>1, <1>4, CommitKeeps

LEMMA PollChangedKeeps ==
  ASSUME BoxInv, PollChanged
  PROVE  BoxInv'
<1>1. /\ ~busy /\ Sound(clients) /\ shm \in [Pid -> Identity] /\ running \in SUBSET Pid
      /\ Loaded(clients) \in SUBSET Pid
  BY LoadedFinite DEF PollChanged, BoxInv, Outside, Sound
<1>2. PICK gone, new, added, p, o, i, c :
        /\ gone \in SetToSeqs(Loaded(clients) \ running)
        /\ new \in SetToSeqs(running \ Loaded(clients))
        /\ added = EnsureActive(AddAll(RemoveAll(clients, gone), new))
        /\ p = Truncated(Reconciled(added)) /\ o = WhoObserved(p)
        /\ i = ApplyPreferredBoxOrder(Identified(p, o)) /\ c = AutoOrdered(i)
        /\ Commit(c) /\ told' = c.active
  BY DEF PollChanged
<1>3. gone \in Seq(Pid)
  BY <1>1, <1>2, Walked
<1>4. new \in Seq(Pid) /\ IsInjective(new) /\ ToSet(new) \subseteq running \ Loaded(clients)
  BY <1>1, <1>2, Walked
<1> DEFINE less == RemoveAll(clients, gone)
           more == AddAll(less, new)
<1>5. Registry(less) /\ Loaded(less) \subseteq Loaded(clients)
  BY <1>1, <1>3, RemoveAllKeeps DEF Sound
<1>6. added = EnsureActive(more)
  BY <1>2
<1> HIDE DEF less
<1>7. ToSet(new) \cap Loaded(less) = {}
  BY <1>4, <1>5
<1>8. Registry(more)
  BY <1>4, <1>5, <1>7, AddAllKeeps
<1> HIDE DEF more
<1>9. Registry(added) /\ Settled(added)
  BY <1>6, <1>8, EnsureActiveSettles
<1>10. Registry(Reconciled(added)) /\ Settled(Reconciled(added))
  BY <1>9, ReconciledKeeps
<1>11. Sound(p)
  BY <1>2, <1>10, TruncatedFits DEF Sound
<1>12. Keeps(p, Identified(p, o))
  BY <1>1, <1>2, <1>11, IdentifiedKeeps DEF Sound
<1>13. Keeps(p, i)
  BY <1>2, <1>12, PreferredOrderKeeps, KeepsOn DEF Keeps
<1>14. Keeps(p, c)
  BY <1>2, <1>13, AutoOrderKeeps, KeepsOn DEF Keeps
<1>15. Sound(c)
  BY <1>11, <1>14, KeepsSound
<1> QED BY <1>1, <1>2, <1>15, CommitKeeps

LEMMA ActivatePidKeeps ==
  ASSUME BoxInv, NEW p, ActivatePid(p)
  PROVE  BoxInv'
<1>1. /\ ~busy /\ Sound(clients) /\ told = clients.active /\ Outside
      /\ p \in Known(clients) /\ Loaded(clients) \in SUBSET Pid /\ told' = told
      /\ UNCHANGED mapperVars
  BY LoadedFinite DEF ActivatePid, BoxInv, Recalls, busy, Sound, Unpublished
<1>2. p \in Loaded(clients) /\ p \in Pid
  BY <1>1 DEF Known
<1>3. Outside'
  <2>1. running' = running /\ shm' = shm /\ focus' \in {p, focus, Nobody}
    BY DEF ActivatePid, ForegroundConfirmed, ForegroundFails
  <2> QED BY <1>1, <1>2, <2>1 DEF Outside
<1>4. IdsKept(ids', idsMade', retired')
  BY <1>1, IdsStay DEF BoxInv
<1>5. CASE UNCHANGED <<clients, swap>>
  BY <1>1, <1>3, <1>5, OutsideSteps
<1>6. CASE /\ swap' = [target |-> p, active |-> clients.active, pips |-> clients.pips]
           /\ clients' = Promote(clients, p)
  <2> DEFINE d == Promote(clients, p)
  <2>1. Registry(d) /\ Settled(d) /\ d.active = p /\ Loaded(d) = Loaded(clients) /\ Fits(d)
    BY <1>1, PromoteKnown, PromoteKeeps DEF Sound
  <2>2. /\ swap'.target = p /\ swap'.active = clients.active /\ swap'.pips = clients.pips
        /\ swap' # NoSwap
    <3>1. swap'.target = p /\ swap'.active = clients.active /\ swap'.pips = clients.pips
      BY <1>6
    <3>2. NoSwap.target = Nobody /\ p # Nobody
      BY <1>2 DEF NoSwap, ClientSetBounds
    <3> QED BY <3>1, <3>2
  <2>3. clients' = d
    BY <1>6
  <2> HIDE DEF d
  <2>4. /\ Partitioned(clients.pips, clients.active, Loaded(clients))
        /\ clients.active = Nobody => clients.pips = <<>>
        /\ Len(clients.pips) <= MaxPips
    BY <1>1 DEF Sound, Registry, Settled, Fits
  <2>5. Recalls(swap', clients', told')
    BY <1>1, <1>2, <2>1, <2>2, <2>3, <2>4 DEF Recalls
  <2>6. Sound(clients')
    BY <2>1, <2>3 DEF Sound
  <2> QED BY <1>3, <1>4, <2>5, <2>6 DEF BoxInv
<1> QED BY <1>5, <1>6 DEF ActivatePid

LEMMA ActivationConfirmedKeeps ==
  ASSUME BoxInv, ActivationConfirmed
  PROVE  BoxInv'
<1> DEFINE d == AutoOrdered(clients)
<1>1. /\ swap # NoSwap /\ Sound(clients) /\ Outside /\ swap.target = clients.active
      /\ swap.target \in Loaded(clients) /\ Loaded(clients) \in SUBSET Pid
      /\ clients' = d /\ told' = swap.target /\ swap' = NoSwap /\ MapIds(d)
      /\ ForegroundConfirmed(swap.target)
  BY LoadedFinite DEF ActivationConfirmed, BoxInv, Recalls, busy, Sound, PublishClients
<1>2. Sound(d) /\ d.active = clients.active
  BY <1>1, AutoOrderKeeps, KeepsSound DEF Sound
<1> HIDE DEF d
<1>3. Outside'
  BY <1>1 DEF ForegroundConfirmed, Outside
<1>4. IdsKept(ids', idsMade', retired')
  BY <1>1, <1>2, MapIdsKeeps DEF BoxInv, Sound
<1>5. Recalls(swap', clients', told')
  BY <1>1, <1>2 DEF Recalls
<1> QED BY <1>1, <1>2, <1>3, <1>4, <1>5 DEF BoxInv

LEMMA ActivationRolledBackKeeps ==
  ASSUME BoxInv, ActivationRolledBack
  PROVE  BoxInv'
<1> DEFINE d == [clients EXCEPT !.active = swap.active, !.pips = swap.pips]
<1>1. /\ swap # NoSwap /\ Sound(clients) /\ Outside /\ swap.active = told
      /\ Partitioned(swap.pips, swap.active, Loaded(clients))
      /\ swap.active = Nobody => swap.pips = <<>>
      /\ Len(swap.pips) <= MaxPips
      /\ clients' = d /\ told' = told /\ swap' = NoSwap /\ UNCHANGED mapperVars
      /\ ForegroundFails
  BY DEF ActivationRolledBack, BoxInv, Recalls, busy, Unpublished
<1>2. Divides(d, clients, swap.active, swap.pips)
  BY DEF Divides
<1> HIDE DEF d
<1>3. Registry(d) /\ d.active = swap.active /\ d.pips = swap.pips
  BY <1>1, <1>2, Repartitioned DEF Sound
<1>4. Sound(d)
  BY <1>1, <1>3 DEF Sound, Settled, Fits
<1>5. Outside'
  BY <1>1 DEF ForegroundFails, Outside
<1>6. IdsKept(ids', idsMade', retired')
  BY <1>1, IdsStay DEF BoxInv
<1>7. Recalls(swap', clients', told')
  BY <1>1, <1>3 DEF Recalls
<1> QED BY <1>1, <1>4, <1>5, <1>6, <1>7 DEF BoxInv

LEMMA ForceRebuildKeeps ==
  ASSUME BoxInv, ForceRebuild
  PROVE  BoxInv'
<1> DEFINE e == ApplyPreferredBoxOrder(clients)
           d == AutoOrdered(e)
<1>1. /\ Sound(clients) /\ Outside /\ told = clients.active
      /\ clients' = d /\ told' = told /\ swap' = NoSwap /\ UNCHANGED mapperVars
      /\ UNCHANGED osVars
  BY DEF ForceRebuild, BoxInv, Recalls, busy, Unpublished
<1>2. Keeps(clients, e)
  BY <1>1, PreferredOrderKeeps DEF Sound
<1> HIDE DEF e
<1>3. Keeps(clients, d)
  BY <1>2, AutoOrderKeeps, KeepsOn DEF Keeps
<1>4. Sound(d) /\ d.active = clients.active
  BY <1>1, <1>3, KeepsSound
<1> HIDE DEF d
<1>5. Outside' /\ IdsKept(ids', idsMade', retired')
  BY <1>1, IdsStay, SetToPart DEF BoxInv
<1>6. Recalls(swap', clients', told')
  BY <1>1, <1>4 DEF Recalls
<1> QED BY <1>1, <1>4, <1>5, <1>6 DEF BoxInv

\* Two clients exchange their numbers, or one takes a number and gives its own.
Exchanges(f, n, p, q) ==
  f = [r \in DOMAIN n |-> IF r = p THEN n[q] ELSE IF r = q THEN n[p] ELSE n[r]]

LEMMA ExchangedNumbers ==
  ASSUME NEW S, NEW n \in [S -> Nat \ {0}], IsInjective(n), NEW p \in S, NEW q \in S,
         NEW f, Exchanges(f, n, p, q)
  PROVE  f \in [S -> Nat \ {0}] /\ IsInjective(f)
<1>1. DOMAIN f = S /\ DOMAIN n = S
  BY DEF Exchanges
<1>2. f \in [S -> Nat \ {0}]
  BY DEF Exchanges
<1>3. \A r, s \in S : f[r] = f[s] => r = s
  BY DEF IsInjective, Exchanges
<1> QED BY <1>1, <1>2, <1>3 DEF IsInjective

LEMMA TakenNumber ==
  ASSUME NEW S, NEW n \in [S -> Nat \ {0}], IsInjective(n), NEW p \in S, NEW k \in Nat \ {0}, NEW f,
         k # n[p], f = [r \in S |-> IF r = p THEN k ELSE IF n[r] = k THEN n[p] ELSE n[r]]
  PROVE  f \in [S -> Nat \ {0}] /\ IsInjective(f)
<1>1. DOMAIN f = S /\ DOMAIN n = S
  OBVIOUS
<1>2. f \in [S -> Nat \ {0}]
  OBVIOUS
<1>3. \A r, s \in S : f[r] = f[s] => r = s
  BY DEF IsInjective
<1> QED BY <1>1, <1>2, <1>3 DEF IsInjective

LEMMA SwapActiveWindowNumbersKeeps ==
  ASSUME BoxInv, NEW p \in Pid, SwapActiveWindowNumbers(p)
  PROVE  BoxInv'
<1> DEFINE a == clients.active
           n == clients.number
           S == Loaded(clients)
           d == [clients EXCEPT !.number[p] = n[a], !.number[a] = n[p]]
           f == [r \in S |-> IF r = p THEN n[a] ELSE IF r = a THEN n[p] ELSE n[r]]
<1>1. /\ ~busy /\ Registry(clients) /\ a # Nobody /\ p \in S /\ p # a /\ Edit(AutoOrdered(d))
  BY DEF SwapActiveWindowNumbers, BoxInv, Sound
<1>2. clients \in Client /\ a \in S /\ n \in [S -> Nat \ {0}] /\ IsInjective(n)
  BY <1>1, LoadedFinite DEF Registry, Partitioned
<1>3. Renumbers(d, clients, f)
  <2>1. [[n EXCEPT ![p] = n[a]] EXCEPT ![a] = n[p]] = f
    BY <1>1, <1>2
  <2>2. d = [clients EXCEPT !.number = [[n EXCEPT ![p] = n[a]] EXCEPT ![a] = n[p]]]
    BY <1>2 DEF Client
  <2> QED BY <2>1, <2>2 DEF Renumbers
<1> HIDE DEF S, n, a, f
<1>4. f \in [S -> Nat \ {0}] /\ IsInjective(f)
  <2>1. Exchanges(f, n, p, a)
    BY <1>2 DEF f, Exchanges
  <2>2. n \in [S -> Nat \ {0}] /\ IsInjective(n) /\ p \in S /\ a \in S
    BY <1>1, <1>2
  <2> QED BY ONLY <2>1, <2>2, ExchangedNumbers
<1> HIDE DEF d
<1>5. Keeps(clients, d)
  BY <1>1, <1>3, <1>4, Renumbered DEF S
<1>6. Keeps(clients, AutoOrdered(d))
  BY <1>5, AutoOrderKeeps, KeepsOn DEF Keeps
<1> QED BY <1>1, <1>6, EditKeeps

\* Exchanging two PiPs leaves the same ones.
LEMMA ExchangedPips ==
  ASSUME NEW s \in Seq(Pid), IsInjective(s), NEW p \in ToSet(s), NEW q \in ToSet(s), NEW w,
         w = [i \in DOMAIN s |-> CASE s[i] = p -> q [] s[i] = q -> p [] OTHER -> s[i]], p # q
  PROVE  w \in Seq(Pid) /\ IsInjective(w) /\ Len(w) = Len(s) /\ ToSet(w) \subseteq ToSet(s)
<1>1. PICK n \in Nat : n = Len(s) /\ DOMAIN s = 1 .. n
  OBVIOUS
<1>2. \A i \in 1 .. n : w[i] = IF s[i] = p THEN q ELSE IF s[i] = q THEN p ELSE s[i]
  BY <1>1
<1>3. \A i \in 1 .. n : s[i] \in ToSet(s) /\ s[i] \in Pid
  BY <1>1 DEF ToSet
<1>4. p \in Pid /\ q \in Pid
  BY DEF ToSet
<1>5. \A i \in 1 .. n : w[i] \in ToSet(s) /\ w[i] \in Pid
  BY <1>2, <1>3, <1>4
<1>6. DOMAIN w = 1 .. n
  BY <1>1
<1>7. w \in [1 .. n -> Pid]
  BY <1>1, <1>5
<1>8. w \in Seq(Pid) /\ Len(w) = n
  BY <1>7, SequenceIs
<1>9. \A i, j \in 1 .. n : w[i] = w[j] => i = j
  <2>1. \A i, j \in 1 .. n : w[i] = w[j] => s[i] = s[j]
    BY <1>2
  <2> QED BY <1>1, <2>1 DEF IsInjective
<1>10. ToSet(w) \subseteq ToSet(s)
  BY <1>5, <1>6 DEF ToSet
<1> QED BY <1>1, <1>6, <1>8, <1>9, <1>10 DEF IsInjective

LEMMA DragPipKeeps ==
  ASSUME BoxInv, NEW p \in Pid, NEW q \in Pid, DragPip(p, q)
  PROVE  BoxInv'
<1> DEFINE s == clients.pips
           n == clients.number
           S == Loaded(clients)
           w == [i \in DOMAIN s |-> CASE s[i] = p -> q [] s[i] = q -> p [] OTHER -> s[i]]
           f == [r \in S |-> IF r = p THEN n[q] ELSE IF r = q THEN n[p] ELSE n[r]]
           d == [clients EXCEPT !.pips = w]
           e == [clients EXCEPT !.pips = w, !.number[p] = n[q], !.number[q] = n[p]]
<1>1. /\ ~busy /\ Registry(clients) /\ p # q /\ {p, q} \subseteq ToSet(s)
      /\ Edit(IF autoOrder THEN e ELSE d)
  BY DEF DragPip, BoxInv, Sound
<1>2. /\ clients \in Client /\ n \in [S -> Nat \ {0}] /\ IsInjective(n) /\ s \in Seq(Pid) /\ IsInjective(s)
      /\ ToSet(s) \subseteq S /\ Partitioned(s, clients.active, S)
  BY <1>1, LoadedFinite DEF Registry, Partitioned
<1>3. p \in S /\ q \in S /\ p \in ToSet(s) /\ q \in ToSet(s)
  BY <1>1, <1>2
<1>4. Divides(d, clients, clients.active, w)
  BY <1>2 DEF Divides, Client
<1>5. Renumbers(e, d, f)
  <2>1. [[n EXCEPT ![p] = n[q]] EXCEPT ![q] = n[p]] = f
    BY <1>1, <1>2, <1>3
  <2> HIDE DEF w, f
  <2>2. e = [d EXCEPT !.number = [[n EXCEPT ![p] = n[q]] EXCEPT ![q] = n[p]]]
    BY <1>2 DEF Client
  <2> QED BY <2>1, <2>2 DEF Renumbers
<1> HIDE DEF S, n, s
<1>6. f \in [S -> Nat \ {0}] /\ IsInjective(f)
  <2> HIDE DEF f
  <2>1. Exchanges(f, n, p, q)
    BY <1>2 DEF f, Exchanges
  <2>2. n \in [S -> Nat \ {0}] /\ IsInjective(n) /\ p \in S /\ q \in S
    BY <1>2, <1>3
  <2> QED BY ONLY <2>1, <2>2, ExchangedNumbers
<1>7. w \in Seq(Pid) /\ IsInjective(w) /\ Len(w) = Len(s) /\ ToSet(w) \subseteq ToSet(s)
  <2> HIDE DEF w
  <2>1. w = [i \in DOMAIN s |-> CASE s[i] = p -> q [] s[i] = q -> p [] OTHER -> s[i]]
    BY DEF w
  <2>2. s \in Seq(Pid) /\ IsInjective(s) /\ p \in ToSet(s) /\ q \in ToSet(s) /\ p # q
    BY <1>1, <1>2, <1>3
  <2> QED BY ONLY <2>1, <2>2, ExchangedPips
<1> HIDE DEF d, e, f, w
<1>8. Partitioned(w, clients.active, S)
  BY <1>2, <1>7 DEF Partitioned
<1>9. /\ Registry(d) /\ Loaded(d) = S /\ d.number = n /\ d.active = clients.active /\ d.pips = w
  BY <1>1, <1>4, <1>8, Repartitioned DEF S, n
<1>10. Keeps(clients, d)
  <2>1. clients.pips = <<>> => w = <<>>
    BY <1>2, <1>7 DEF s
  <2> QED BY <1>7, <1>9, <2>1 DEF Keeps, Settled, Fits, S, s
<1>11. Keeps(d, e)
  BY <1>5, <1>6, <1>9, Renumbered
<1>12. Keeps(clients, IF autoOrder THEN e ELSE d)
  BY <1>10, <1>11, KeepsOn
<1> QED BY <1>1, <1>12, EditKeeps

LEMMA HandleNumberAssignKeeps ==
  ASSUME BoxInv, NEW p \in Pid, NEW k \in Nat \ {0}, HandleNumberAssign(p, k)
  PROVE  BoxInv'
<1> DEFINE n == clients.number
           S == Loaded(clients)
           f == [r \in S |-> IF r = p THEN k ELSE IF n[r] = k THEN n[p] ELSE n[r]]
           d == [clients EXCEPT !.number = f]
<1>1. ~busy /\ Registry(clients) /\ p \in S /\ k # n[p]
  BY DEF HandleNumberAssign, BoxInv, Sound
<1>2. n \in [S -> Nat \ {0}] /\ IsInjective(n) /\ clients \in Client
  BY <1>1, LoadedFinite DEF Registry
<1>3. Edit(d)
  BY <1>2 DEF HandleNumberAssign, Client
<1>4. Renumbers(d, clients, f)
  BY DEF Renumbers
<1> HIDE DEF S, n, f
<1>5. f \in [S -> Nat \ {0}] /\ IsInjective(f)
  BY <1>1, <1>2, TakenNumber DEF f
<1> HIDE DEF d
<1>6. Keeps(clients, d)
  BY <1>1, <1>4, <1>5, Renumbered DEF S
<1> QED BY <1>1, <1>3, <1>6, EditKeeps

LEMMA HandleCharAssignKeeps ==
  ASSUME BoxInv, NEW p \in Pid, NEW ch \in Character, HandleCharAssign(p, ch)
  PROVE  BoxInv'
<1> DEFINE w == [clients.who EXCEPT ![p] = ch]
           d == [clients EXCEPT !.who[p] = ch]
<1>1. ~busy /\ Registry(clients) /\ clients \in Client /\ Edit(Reordered(d))
  BY DEF HandleCharAssign, BoxInv, Sound, Registry
<1>2. w \in [Pid -> Identity] /\ clients.observed \in [Pid -> Identity]
  BY <1>1 DEF Client, Identity
<1>3. Renames(d, clients, w, clients.observed)
  BY <1>1 DEF Renames, Client
<1> HIDE DEF d, w
<1>4. Keeps(clients, d)
  BY <1>1, <1>2, <1>3, Renamed
<1>5. Keeps(clients, Reordered(d))
  BY <1>4, ReorderedKeeps, KeepsOn DEF Keeps
<1> QED BY <1>1, <1>5, EditKeeps

LEMMA NextKeeps ==
  ASSUME BoxInv, [BoxNext]_boxVars
  PROVE  BoxInv'
<1>1. CASE UNCHANGED boxVars
  <2>1. UNCHANGED <<clients, swap, told, mapperVars>> /\ UNCHANGED osVars
    BY <1>1 DEF boxVars
  <2> QED BY <2>1, OutsideSteps, SetToPart DEF BoxInv
<1>2. ASSUME NEW p \in Pid, Launch(p) \/ Exit(p) \/ FocusMoves(p) \/ FocusMoves(Nobody)
              \/ \E ch \in Character : LogIn(p, ch)
      PROVE  BoxInv'
  <2>1. UNCHANGED <<clients, swap, told, mapperVars>>
    BY <1>2 DEF Launch, Exit, FocusMoves, LogIn
  <2>2. Outside
    BY DEF BoxInv
  <2>3. CASE Launch(p)
    <3>1. Outside'
      BY <2>2, <2>3 DEF Launch, Outside, Identity
    <3> QED BY <2>1, <3>1, OutsideSteps
  <2>4. CASE Exit(p)
    <3>1. Outside'
      BY <2>2, <2>4 DEF Exit, Outside
    <3> QED BY <2>1, <3>1, OutsideSteps
  <2>5. CASE FocusMoves(p) \/ FocusMoves(Nobody)
    <3>1. Outside'
      BY <2>2, <2>5 DEF FocusMoves, Outside
    <3> QED BY <2>1, <3>1, OutsideSteps
  <2>6. CASE \E ch \in Character : LogIn(p, ch)
    <3>1. Outside'
      BY <2>2, <2>6 DEF LogIn, Outside, Identity
    <3> QED BY <2>1, <3>1, OutsideSteps
  <2> QED BY <1>2, <2>3, <2>4, <2>5, <2>6
<1>3. CASE FocusMoves(Nobody)
  <2>1. UNCHANGED <<clients, swap, told, mapperVars>> /\ Outside'
    BY <1>3 DEF FocusMoves, BoxInv, Outside
  <2> QED BY <2>1, OutsideSteps
<1>4. CASE ForegroundEvent \/ PollSame \/ PollChanged
  BY <1>4, ForegroundEventKeeps, PollSameKeeps, PollChangedKeeps
<1>5. ASSUME NEW n, SwapToNumber(n) PROVE BoxInv'
  BY <1>5, ActivatePidKeeps DEF SwapToNumber
<1>6. ASSUME NEW forward, CycleBox(forward) PROVE BoxInv'
  BY <1>6, ActivatePidKeeps DEF CycleBox
<1>7. ASSUME NEW s, ActivateOnUi(s) PROVE BoxInv'
  BY <1>7, ActivatePidKeeps DEF ActivateOnUi
<1>8. CASE ActivationConfirmed \/ ActivationRolledBack
  BY <1>8, ActivationConfirmedKeeps, ActivationRolledBackKeeps
<1>9. ASSUME NEW p \in Pid, SwapActiveWindowNumbers(p) PROVE BoxInv'
  BY <1>9, SwapActiveWindowNumbersKeeps
<1>10. ASSUME NEW p \in Pid, NEW q \in Pid, DragPip(p, q) PROVE BoxInv'
  BY <1>10, DragPipKeeps
<1>11. ASSUME NEW p \in Pid, NEW n \in 1 .. Cardinality(Pid), HandleNumberAssign(p, n) PROVE BoxInv'
  <2>1. Cardinality(Pid) \in Nat
    BY FS_CardinalityType DEF ClientSetBounds
  <2>2. n \in Nat \ {0}
    BY <1>11, <2>1
  <2> QED BY <1>11, <2>2, HandleNumberAssignKeeps
<1>12. ASSUME NEW p \in Pid, NEW ch \in Character, HandleCharAssign(p, ch) PROVE BoxInv'
  BY <1>12, HandleCharAssignKeeps
<1>13. CASE SaveSettings
  <2>1. UNCHANGED <<clients, swap, told, mapperVars>> /\ UNCHANGED osVars
    BY <1>13 DEF SaveSettings
  <2> QED BY <2>1, OutsideSteps, SetToPart DEF BoxInv
<1>14. CASE ForceRebuild
  BY <1>14, ForceRebuildKeeps
<1> HIDE DEF BoxInv
<1> QED BY <1>1, <1>2, <1>3, <1>4, <1>5, <1>6, <1>7, <1>8, <1>9, <1>10, <1>11, <1>12, <1>13,
           <1>14 DEF BoxNext

\* Live ids are as many as the clients that have them.
Values(f) == {f[p] : p \in DOMAIN f}

LEMMA LiveIds ==
  ASSUME NEW D, IsFiniteSet(D), NEW T, NEW f \in [D -> T], IsInjective(f)
  PROVE  Cardinality(Values(f)) = Cardinality(D)
<1>1. f \in Surjection(D, Values(f)) /\ f \in Injection(D, Values(f))
  BY DEF Surjection, Injection, Values
<1> QED BY <1>1, FS_Surjection

LEMMA InvImplies ==
  ASSUME BoxInv
  PROVE  ClientSetSound
<1>1. /\ Outside /\ Registry(clients) /\ Settled(clients) /\ Fits(clients)
      /\ clients \in Client /\ Partitioned(clients.pips, clients.active, Loaded(clients))
      /\ IsInjective(clients.number) /\ Loaded(clients) \in SUBSET Pid
      /\ clients.number \in [Loaded(clients) -> Nat \ {0}]
      /\ Recalls(swap, clients, told) /\ IdsKept(ids, idsMade, retired)
  BY LoadedFinite DEF BoxInv, Sound, Registry
<1>2. BoxTypeOK
  <2>1. clients.active \in Pid \cup {Nobody} /\ clients.pips \in Seq(Pid)
    BY <1>1 DEF Client
  <2>2. told \in Pid \cup {Nobody}
    BY <1>1, <2>1 DEF Recalls, Partitioned
  <2>3. Len(retired) <= MaxRetired
    <3>1. PICK e \in Nat, r \in Nat : e = Cardinality(DOMAIN ids) /\ r = Len(retired)
      <4>1. IsFiniteSet(DOMAIN ids)
        BY <1>1, FS_Subset DEF IdsKept, ClientSetBounds
      <4> QED BY <1>1, <4>1, FS_CardinalityType DEF IdsKept
    <3>2. idsMade \in Nat /\ r = AtMost(idsMade - e) /\ MaxRetired \in Nat
      BY <1>1, <3>1 DEF IdsKept, ClientSetBounds
    <3> QED BY <3>1, <3>2 DEF AtMost
  <2> QED BY <1>1, <2>1, <2>2, <2>3 DEF BoxTypeOK, Outside
<1>3. PartitionSound
  BY <1>1 DEF PartitionSound, Partitioned, Settled, Fits, IsInjective
<1>4. NumbersDistinct
  BY <1>1 DEF NumbersDistinct, IsInjective, Loaded
<1>5. BroadcastKnowsActive
  BY <1>1 DEF BroadcastKnowsActive, Recalls, busy
<1>6. IdsSound
  <2> DEFINE live == {ids[p] : p \in DOMAIN ids}
  <2>1. /\ DOMAIN ids \in SUBSET Pid /\ ids \in [DOMAIN ids -> 1 .. idsMade] /\ IsInjective(ids)
        /\ \A p \in DOMAIN ids : ids[p] \notin ToSet(retired)
        /\ Len(retired) = AtMost(idsMade - Cardinality(DOMAIN ids))
    BY <1>1 DEF IdsKept
  <2>2. IsFiniteSet(DOMAIN ids)
    BY <2>1, FS_Subset DEF ClientSetBounds
  <2>3. Cardinality(live) = Cardinality(DOMAIN ids)
    <3>1. Cardinality(Values(ids)) = Cardinality(DOMAIN ids)
      BY <2>1, <2>2, LiveIds
    <3> QED BY <3>1 DEF Values
  <2>4. live \cap ToSet(retired) = {} /\ live \subseteq 1 .. idsMade
    BY <2>1
  <2> HIDE DEF live
  <2>5. Len(retired) = AtMost(idsMade - Cardinality(live))
    BY <2>1, <2>3
  <2> QED BY <2>3, <2>4, <2>5 DEF IdsSound, live, AtMost
<1>7. CyclesReverse
  BY <1>1, CyclesReverseFrom DEF CyclesReverse
<1> QED BY <1>2, <1>3, <1>4, <1>5, <1>6, <1>7 DEF ClientSetSound

\* The overlay, the broadcaster and the control API tell the same clients apart, for
\* any processes, identities, preferred order, cycle and limits (clients.rs,
\* event_loop.rs, client_controller.rs, activation.rs, SnapshotMapper).
THEOREM ClientSetAlwaysSound == BoxSpec => []ClientSetSound
<1>1. BoxInv /\ [BoxNext]_boxVars => BoxInv'
  BY NextKeeps
<1>2. BoxInv => ClientSetSound
  BY InvImplies
<1> QED BY InitHolds, <1>1, <1>2, PTL DEF BoxSpec
=============================================================================
