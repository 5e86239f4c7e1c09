------------------------- MODULE ActiveExpiryTable --------------------------
(***************************************************************************)
(* What the proofs about ActiveExpiry need to know of volatile_keys_: that *)
(* an insertion, with or without a rehash, adds its key to the table and an*)
(* erasure takes it away, and that it stays a table.                       *)
(***************************************************************************)
EXTENDS ActiveExpiry, FiniteSetTheorems, SequenceTheorems, TLAPS

-----------------------------------------------------------------------------
(* Sequences without repetition.                                           *)

LEMMA InsertAtIs ==
  ASSUME NEW S, NEW s \in Seq(S), NEW i \in 1..(Len(s) + 1), NEW e \in S
  PROVE  /\ InsertAt(s, i, e) \in Seq(S) /\ Len(InsertAt(s, i, e)) = Len(s) + 1
         /\ \A j \in 1..(Len(s) + 1) :
              InsertAt(s, i, e)[j] = IF j < i THEN s[j] ELSE IF j = i THEN e ELSE s[j - 1]
  <1>. DEFINE front == SubSeq(s, 1, i - 1)
              back == SubSeq(s, i, Len(s))
              mid == front \o <<e>>
              whole == mid \o back
  <1>1. Len(s) \in Nat /\ i \in Nat /\ \A j \in 1..Len(s) : s[j] \in S
    OBVIOUS
  <1>2. /\ front \in Seq(S) /\ Len(front) = i - 1
        /\ \A j \in 1..(i - 1) : front[j] = s[j]
    BY <1>1, SubSeqProperties
  <1>3. /\ back \in Seq(S) /\ Len(back) = Len(s) - i + 1
        /\ \A j \in 1..(Len(s) - i + 1) : back[j] = s[i + j - 1]
    BY <1>1, SubSeqProperties
  <1>. HIDE DEF front, back
  <1>4. /\ mid \in Seq(S) /\ Len(mid) = i
        /\ \A j \in 1..i : mid[j] = IF j < i THEN front[j] ELSE e
    BY <1>1, <1>2
  <1>. HIDE DEF mid
  <1>5. /\ whole \in Seq(S) /\ Len(whole) = Len(s) + 1
        /\ \A j \in 1..(Len(s) + 1) : whole[j] = IF j <= i THEN mid[j] ELSE back[j - i]
    BY <1>1, <1>3, <1>4
  <1>. HIDE DEF whole
  <1>6. ASSUME NEW j \in 1..(Len(s) + 1)
        PROVE  whole[j] = IF j < i THEN s[j] ELSE IF j = i THEN e ELSE s[j - 1]
    <2>1. CASE j < i
      <3>1. j \in 1..i /\ j \in 1..(i - 1)
        BY <1>1, <2>1
      <3>. QED  BY <3>1, <2>1, <1>2, <1>4, <1>5
    <2>2. CASE j = i
      BY <1>1, <2>2, <1>4, <1>5
    <2>3. CASE j > i
      <3>1. j - i \in 1..(Len(s) - i + 1) /\ i + (j - i) - 1 = j - 1
        BY <1>1, <2>3
      <3>2. back[j - i] = s[j - 1]
        BY <3>1, <1>3
      <3>3. whole[j] = back[j - i]
        BY <2>3, <1>1, <1>5
      <3>. QED  BY <3>2, <3>3, <2>3, <1>1
    <2>. QED  BY <1>1, <2>1, <2>2, <2>3
  <1>. QED  BY <1>5, <1>6 DEF InsertAt, whole, mid, front, back

LEMMA RemoveAtIs ==
  ASSUME NEW S, NEW s \in Seq(S), NEW i \in 1..Len(s)
  PROVE  /\ RemoveAt(s, i) \in Seq(S) /\ Len(RemoveAt(s, i)) = Len(s) - 1
         /\ \A j \in 1..(Len(s) - 1) :
              RemoveAt(s, i)[j] = IF j < i THEN s[j] ELSE s[j + 1]
  <1>. DEFINE front == SubSeq(s, 1, i - 1)
              back == SubSeq(s, i + 1, Len(s))
              whole == front \o back
  <1>1. Len(s) \in Nat /\ i \in Nat /\ \A j \in 1..Len(s) : s[j] \in S
    OBVIOUS
  <1>2. /\ front \in Seq(S) /\ Len(front) = i - 1
        /\ \A j \in 1..(i - 1) : front[j] = s[j]
    BY <1>1, SubSeqProperties
  <1>3. /\ back \in Seq(S) /\ Len(back) = Len(s) - i
        /\ \A j \in 1..(Len(s) - i) : back[j] = s[i + j]
    <2>1. /\ back \in Seq(S) /\ Len(back) = IF i + 1 <= Len(s) THEN Len(s) - (i + 1) + 1 ELSE 0
          /\ \A j \in 1..(Len(s) - (i + 1) + 1) : back[j] = s[i + 1 + j - 1]
      BY <1>1, SubSeqProperties
    <2>2. \A j \in 1..(Len(s) - i) : j \in 1..(Len(s) - (i + 1) + 1) /\ i + 1 + j - 1 = i + j
      BY <1>1
    <2>. QED  BY <1>1, <2>1, <2>2
  <1>. HIDE DEF front, back
  <1>4. /\ whole \in Seq(S) /\ Len(whole) = Len(front) + Len(back)
        /\ \A j \in 1..(Len(front) + Len(back)) :
             whole[j] = IF j <= Len(front) THEN front[j] ELSE back[j - Len(front)]
    BY <1>2, <1>3, ConcatProperties
  <1>. HIDE DEF whole
  <1>7. \A j \in 1..(Len(s) - 1) : whole[j] = IF j <= i - 1 THEN front[j] ELSE back[j - (i - 1)]
    <2>1. Len(front) + Len(back) = Len(s) - 1
      BY <1>1, <1>2, <1>3
    <2>. QED  BY <1>2, <1>4, <2>1
  <1>5. ASSUME NEW j \in 1..(Len(s) - 1)
        PROVE  whole[j] = IF j < i THEN s[j] ELSE s[j + 1]
    <2>1. CASE j < i
      <3>1. j <= i - 1 /\ j \in 1..(i - 1)
        BY <1>1, <2>1
      <3>. QED  BY <3>1, <2>1, <1>2, <1>7
    <2>2. CASE ~(j < i)
      <3>1. j - (i - 1) \in 1..(Len(s) - i) /\ i + (j - (i - 1)) = j + 1
        BY <1>1, <2>2
      <3>2. back[j - (i - 1)] = s[j + 1]
        BY <3>1, <1>3
      <3>3. whole[j] = back[j - (i - 1)]
        BY <2>2, <1>1, <1>7
      <3>. QED  BY <3>2, <3>3, <2>2
    <2>. QED  BY <2>1, <2>2
  <1>6. Len(whole) = Len(s) - 1
    BY <1>1, <1>2, <1>3, <1>4
  <1>. QED  BY <1>4, <1>5, <1>6 DEF RemoveAt, whole, front, back

LEMMA Inserted ==
  ASSUME NEW S, NEW s \in Seq(S), IsInjective(s), NEW i \in 1..(Len(s) + 1),
         NEW e \in S, e \notin Range(s)
  PROVE  IsInjective(InsertAt(s, i, e)) /\ Range(InsertAt(s, i, e)) = Range(s) \cup {e}
  <1>. DEFINE t == InsertAt(s, i, e)
  <1>1. /\ Len(s) \in Nat /\ i \in Nat /\ DOMAIN s = 1..Len(s)
        /\ t \in Seq(S) /\ DOMAIN t = 1..(Len(s) + 1)
        /\ \A j \in 1..(Len(s) + 1) : t[j] = IF j < i THEN s[j] ELSE IF j = i THEN e ELSE s[j - 1]
    BY InsertAtIs
  <1>. HIDE DEF t
  <1>2. \A j \in 1..Len(s) : s[j] # e
    BY <1>1 DEF Range
  <1>3. \A j, l \in 1..Len(s) : s[j] = s[l] => j = l
    BY <1>1 DEF IsInjective
  <1>4. ASSUME NEW j \in 1..(Len(s) + 1), NEW l \in 1..(Len(s) + 1), t[j] = t[l], j < l
        PROVE  FALSE
    <2>1. (j < i => j \in 1..Len(s)) /\ (j > i => j - 1 \in 1..Len(s))
      BY <1>1
    <2>2. (l < i => l \in 1..Len(s)) /\ (l > i => l - 1 \in 1..Len(s))
      BY <1>1
    <2>3. CASE l < i
      BY <1>1, <1>3, <1>4, <2>1, <2>2, <2>3
    <2>4. CASE l = i
      BY <1>1, <1>2, <1>4, <2>1, <2>2, <2>4
    <2>5. CASE l > i
      <3>1. t[l] = s[l - 1] /\ l - 1 \in 1..Len(s)
        BY <1>1, <2>2, <2>5
      <3>2. CASE j < i
        BY <3>1, <3>2, <1>1, <1>3, <1>4, <2>1, <2>5
      <3>3. CASE j = i
        BY <3>1, <3>3, <1>1, <1>2, <1>4
      <3>4. CASE j > i
        BY <3>1, <3>4, <1>1, <1>3, <1>4, <2>1
      <3>. QED  BY <1>1, <3>2, <3>3, <3>4
    <2>. QED  BY <1>1, <2>3, <2>4, <2>5
  <1>5. IsInjective(t)
    <2>1. ASSUME NEW j \in 1..(Len(s) + 1), NEW l \in 1..(Len(s) + 1), t[j] = t[l]
          PROVE  j = l
      BY <1>1, <1>4, <2>1
    <2>. QED  BY <1>1, <2>1 DEF IsInjective
  <1>6. Range(t) \subseteq Range(s) \cup {e}
    <2>1. ASSUME NEW j \in 1..(Len(s) + 1) PROVE t[j] = e \/ \E l \in 1..Len(s) : t[j] = s[l]
      BY <1>1
    <2>. QED  BY <1>1, <2>1 DEF Range
  <1>7. Range(s) \cup {e} \subseteq Range(t)
    <2>1. e \in Range(t)
      <3>1. t[i] = e /\ i \in DOMAIN t
        BY <1>1
      <3>. QED  BY <3>1 DEF Range
    <2>2. ASSUME NEW l \in 1..Len(s) PROVE \E j \in 1..(Len(s) + 1) : t[j] = s[l]
      <3>1. CASE l < i
        <4>1. l \in 1..(Len(s) + 1) /\ t[l] = s[l]
          BY <1>1, <3>1
        <4>. QED  BY <4>1
      <3>2. CASE ~(l < i)
        <4>1. l + 1 \in 1..(Len(s) + 1) /\ t[l + 1] = s[(l + 1) - 1] /\ (l + 1) - 1 = l
          BY <1>1, <3>2
        <4>. QED  BY <4>1
      <3>. QED  BY <3>1, <3>2
    <2>3. ASSUME NEW x \in Range(s) PROVE x \in Range(t)
      <3>1. PICK l \in 1..Len(s) : x = s[l]
        BY <1>1 DEF Range
      <3>2. PICK j \in 1..(Len(s) + 1) : t[j] = s[l]
        BY <2>2
      <3>3. j \in DOMAIN t /\ t[j] = x
        BY <1>1, <3>1, <3>2
      <3>. QED  BY <3>3 DEF Range
    <2>. QED  BY <2>1, <2>3
  <1>8. Range(t) = Range(s) \cup {e}
    BY <1>6, <1>7, Zenon
  <1>. QED  BY <1>5, <1>8 DEF t

LEMMA Removed ==
  ASSUME NEW S, NEW s \in Seq(S), IsInjective(s), NEW i \in 1..Len(s)
  PROVE  IsInjective(RemoveAt(s, i)) /\ Range(RemoveAt(s, i)) = Range(s) \ {s[i]}
  <1>. DEFINE t == RemoveAt(s, i)
  <1>1. /\ Len(s) \in Nat /\ i \in Nat /\ DOMAIN s = 1..Len(s)
        /\ t \in Seq(S) /\ DOMAIN t = 1..(Len(s) - 1)
        /\ \A j \in 1..(Len(s) - 1) : t[j] = IF j < i THEN s[j] ELSE s[j + 1]
    BY RemoveAtIs
  <1>. HIDE DEF t
  <1>2. \A j, l \in 1..Len(s) : s[j] = s[l] => j = l
    BY <1>1 DEF IsInjective
  <1>. DEFINE at(j) == IF j < i THEN j ELSE j + 1
  <1>3. \A j \in 1..(Len(s) - 1) : at(j) \in 1..Len(s) /\ at(j) # i /\ t[j] = s[at(j)]
    BY <1>1
  <1>4. \A j, l \in 1..(Len(s) - 1) : at(j) = at(l) => j = l
    BY <1>1
  <1>5. \A l \in 1..Len(s) : l # i => \E j \in 1..(Len(s) - 1) : at(j) = l
    <2>. SUFFICES ASSUME NEW l \in 1..Len(s), l # i
                  PROVE  \E j \in 1..(Len(s) - 1) : at(j) = l
      OBVIOUS
    <2>1. CASE l < i
      <3>1. l \in 1..(Len(s) - 1) /\ at(l) = l
        BY <1>1, <2>1
      <3>. QED  BY <3>1
    <2>2. CASE l > i
      <3>1. l - 1 \in 1..(Len(s) - 1) /\ at(l - 1) = l
        BY <1>1, <2>2
      <3>. QED  BY <3>1
    <2>. QED  BY <1>1, <2>1, <2>2
  <1>. HIDE DEF at
  <1>6. IsInjective(t)
    <2>1. ASSUME NEW j \in 1..(Len(s) - 1), NEW l \in 1..(Len(s) - 1), t[j] = t[l] PROVE j = l
      <3>1. s[at(j)] = s[at(l)] /\ at(j) \in 1..Len(s) /\ at(l) \in 1..Len(s)
        BY <1>3, <2>1
      <3>2. at(j) = at(l)
        BY <1>2, <3>1
      <3>. QED  BY <1>4, <3>2
    <2>. QED  BY <1>1, <2>1 DEF IsInjective
  <1>7. Range(t) \subseteq Range(s) \ {s[i]}
    BY <1>1, <1>2, <1>3 DEF Range
  <1>8. Range(s) \ {s[i]} \subseteq Range(t)
    <2>1. ASSUME NEW x \in Range(s), x # s[i] PROVE x \in Range(t)
      <3>1. PICK l \in 1..Len(s) : x = s[l]
        BY <1>1 DEF Range
      <3>2. PICK j \in 1..(Len(s) - 1) : at(j) = l
        BY <2>1, <3>1, <1>5
      <3>3. t[j] = x /\ j \in DOMAIN t
        BY <3>1, <3>2, <1>1, <1>3
      <3>. QED  BY <3>3 DEF Range
    <2>. QED  BY <2>1
  <1>9. Range(t) = Range(s) \ {s[i]}
    BY <1>7, <1>8, Zenon
  <1>. QED  BY <1>6, <1>9 DEF t

\* As many different keys as there are: all of them.
LEMMA OrdersAre ==
  ASSUME NEW T, IsFiniteSet(T), NEW f \in SetToSeqs(T)
  PROVE  f \in Seq(T) /\ IsInjective(f) /\ Range(f) = T
  <1>. DEFINE n == Cardinality(T)
  <1>1. n \in Nat
    BY FS_CardinalityType
  <1>2. f \in [1..n -> T] /\ \A i, j \in 1..n : i # j => f[i] # f[j]
    BY DEF SetToSeqs
  <1>. HIDE DEF n
  <1>3. IsInjective(f)
    BY <1>2 DEF IsInjective
  <1>4. f \in Seq(T)
    BY <1>1, <1>2
  <1>5. IsFiniteSet(1..n) /\ Cardinality(1..n) = n
    <2>1. IsFiniteSet(1..n) /\ Cardinality(1..n) = IF 1 > n THEN 0 ELSE n - 1 + 1
      BY <1>1, FS_Interval
    <2>. QED  BY <1>1, <2>1
  <1>6. Range(f) = T
    <2>1. Range(f) \subseteq T
      BY <1>2 DEF Range
    <2>2. IsFiniteSet(Range(f)) /\ Cardinality(Range(f)) <= n /\ Cardinality(Range(f)) \in Nat
      BY <2>1, FS_Subset, FS_CardinalityType DEF n
    <2>3. CASE Range(f) # T
      <3>1. Cardinality(Range(f)) < n
        BY <2>1, <2>3, FS_Subset, FS_CardinalityType DEF n
      <3>2. f \in [1..n -> Range(f)]
        BY <1>2 DEF Range
      <3>3. \E i, j \in 1..n : i # j /\ f[i] = f[j]
        BY <1>5, <2>2, <3>1, <3>2, FS_PigeonHole
      <3>. QED  BY <1>2, <3>3
    <2>. QED  BY <2>3
  <1>. QED  BY <1>3, <1>4, <1>6

-----------------------------------------------------------------------------
(* The table.                                                              *)

Slot(b, n) == {k \in Keys : BucketOf(k, n) = b}

\* Every key in the bucket of its hash, once.
Table(c, n) ==
  /\ n \in Nat \ {0} /\ DOMAIN c = 0..(n - 1)
  /\ \A b \in 0..(n - 1) : c[b] \in Seq(Slot(b, n)) /\ IsInjective(c[b])

LEMMA BucketIs ==
  ASSUME NEW k \in Keys, NEW n \in Nat \ {0}
  PROVE  BucketOf(k, n) \in 0..(n - 1)
  <1>1. Hash[k] \in Nat
    BY ExpiryAssumption
  <1>. QED  BY <1>1 DEF BucketOf

LEMMA TableCount ==
  ASSUME NEW c, NEW n, Table(c, n)
  PROVE  Cardinality(DOMAIN c) = n
  <1>1. Cardinality(0..(n - 1)) = IF 0 > n - 1 THEN 0 ELSE n - 1 - 0 + 1
    BY FS_Interval DEF Table
  <1>. QED  BY <1>1 DEF Table

LEMMA InChains ==
  ASSUME NEW c, NEW n, Table(c, n)
  PROVE  /\ \A b \in 0..(n - 1) : Range(c[b]) \subseteq Slot(b, n)
         /\ Chained(c) \subseteq Keys /\ IsFiniteSet(Chained(c))
         /\ \A k \in Chained(c) : BucketOf(k, n) \in 0..(n - 1) /\ k \in Range(c[BucketOf(k, n)])
  <1>1. ASSUME NEW b \in 0..(n - 1) PROVE Range(c[b]) \subseteq Slot(b, n)
    <2>1. c[b] \in Seq(Slot(b, n))
      BY DEF Table
    <2>. QED  BY <2>1 DEF Range
  <1>2. ASSUME NEW k \in Chained(c)
        PROVE  k \in Keys /\ BucketOf(k, n) \in 0..(n - 1) /\ k \in Range(c[BucketOf(k, n)])
    <2>1. PICK b \in 0..(n - 1) : k \in Range(c[b])
      BY DEF Chained, Table
    <2>2. k \in Slot(b, n)
      BY <1>1, <2>1
    <2>. QED  BY <2>1, <2>2 DEF Slot
  <1>3. Chained(c) \subseteq Keys
    BY <1>2
  <1>4. IsFiniteSet(Chained(c))
    BY <1>3, FS_Subset, ExpiryAssumption
  <1>. QED  BY <1>1, <1>2, <1>3, <1>4

\* One chain changes, and the table with it.
LEMMA ChainChanges ==
  ASSUME NEW c, NEW n, Table(c, n), NEW b \in 0..(n - 1),
         NEW s, s \in Seq(Slot(b, n)), IsInjective(s),
         NEW d, DOMAIN d = DOMAIN c, d[b] = s, \A a \in DOMAIN c : a # b => d[a] = c[a]
  PROVE  Table(d, n) /\ Chained(d) = (Chained(c) \ Range(c[b])) \cup Range(s)
  <1>1. /\ DOMAIN d = 0..(n - 1) /\ DOMAIN c = 0..(n - 1) /\ d[b] = s
        /\ \A a \in 0..(n - 1) : a # b => d[a] = c[a]
    BY DEF Table
  <1>2. Table(d, n)
    BY <1>1 DEF Table
  <1>3. Chained(d) \subseteq (Chained(c) \ Range(c[b])) \cup Range(s)
    <2>1. ASSUME NEW k \in Chained(d), k \notin Range(s)
          PROVE  k \in Chained(c) /\ k \notin Range(c[b])
      <3>1. PICK a \in 0..(n - 1) : k \in Range(d[a])
        BY <1>1 DEF Chained
      <3>2. a # b /\ k \in Range(c[a])
        BY <3>1, <1>1, <2>1
      <3>3. BucketOf(k, n) = a
        BY <3>2, InChains DEF Slot
      <3>4. k \notin Range(c[b])
        BY <3>2, <3>3, InChains DEF Slot
      <3>5. k \in Chained(c)
        BY <3>2, <1>1 DEF Chained
      <3>. QED  BY <3>4, <3>5
    <2>. QED  BY <2>1
  <1>4. (Chained(c) \ Range(c[b])) \cup Range(s) \subseteq Chained(d)
    <2>1. ASSUME NEW k \in Chained(c), k \notin Range(c[b]) PROVE k \in Chained(d)
      <3>1. PICK a \in 0..(n - 1) : k \in Range(c[a])
        BY <1>1 DEF Chained
      <3>2. d[a] = c[a]
        BY <3>1, <1>1, <2>1
      <3>. QED  BY <3>1, <3>2, <1>1 DEF Chained
    <2>2. Range(s) \subseteq Chained(d)
      BY <1>1 DEF Chained
    <2>. QED  BY <2>1, <2>2, Zenon
  <1>5. Chained(d) = (Chained(c) \ Range(c[b])) \cup Range(s)
    BY <1>3, <1>4, Zenon
  <1>. QED  BY <1>2, <1>5

LEMMA Rehashed ==
  ASSUME NEW S \in SUBSET Keys, NEW n \in Nat \ {0}, NEW c \in Arrangements(S, n)
  PROVE  Table(c, n) /\ Chained(c) = S
  <1>. DEFINE part(b) == {k \in S : BucketOf(k, n) = b}
  <1>1. DOMAIN c = 0..(n - 1) /\ \A b \in 0..(n - 1) : c[b] \in SetToSeqs(part(b))
    BY DEF Arrangements
  <1>2. \A b \in 0..(n - 1) : IsFiniteSet(part(b)) /\ part(b) \subseteq Slot(b, n)
    BY FS_Subset, ExpiryAssumption DEF Slot
  <1>3. \A b \in 0..(n - 1) : c[b] \in Seq(part(b)) /\ IsInjective(c[b]) /\ Range(c[b]) = part(b)
    <2>. TAKE b \in 0..(n - 1)
    <2>1. c[b] \in SetToSeqs(part(b)) /\ IsFiniteSet(part(b))
      BY <1>1, <1>2
    <2>. HIDE DEF part
    <2>. QED  BY <2>1, OrdersAre
  <1>4. \A b \in 0..(n - 1) : c[b] \in Seq(Slot(b, n))
    <2>. TAKE b \in 0..(n - 1)
    <2>1. c[b] \in Seq(part(b)) /\ part(b) \subseteq Slot(b, n)
      BY <1>2, <1>3
    <2>. HIDE DEF part
    <2>. QED  BY <2>1
  <1>5. Table(c, n)
    BY <1>1, <1>3, <1>4 DEF Table
  <1>6. Chained(c) = S
    <2>1. \A k \in S : BucketOf(k, n) \in 0..(n - 1) /\ k \in part(BucketOf(k, n))
      BY BucketIs
    <2>2. S \subseteq Chained(c)
      BY <2>1, <1>1, <1>3 DEF Chained
    <2>3. Chained(c) \subseteq S
      BY <1>1, <1>3 DEF Chained
    <2>. QED  BY <2>2, <2>3
  <1>. QED  BY <1>5, <1>6

LEMMA InsertAdds ==
  ASSUME NEW n, Table(chains, n), n <= 2 * MaxBuckets, NEW k \in Keys, Insert(k)
  PROVE  /\ \E m \in 1..(2 * MaxBuckets) : Table(chains', m)
         /\ Index' = Index \cup {k}
  <1>1. n \in Nat /\ n >= 1 /\ Count = n /\ MaxBuckets \in Nat
    <2>1. Count = n
      BY TableCount DEF Count
    <2>2. n \in Nat \ {0}
      BY DEF Table
    <2>. QED  BY <2>1, <2>2, ExpiryAssumption
  <1>2. IsFiniteSet(Index) /\ Index \subseteq Keys
    BY InChains DEF Index
  <1>3. CASE k \in Index /\ UNCHANGED chains
    <2>1. Index \cup {k} = Index
      BY <1>3
    <2>. QED  BY <1>1, <1>3, <2>1 DEF Index
  <1>4. CASE /\ k \notin Index
             /\ LET b == BucketOf(k, Count)
                IN  \E i \in 1..(Len(chains[b]) + 1) :
                      chains' = [chains EXCEPT ![b] = InsertAt(@, i, k)]
    <2>. DEFINE b == BucketOf(k, n)
                s == chains[b]
    <2>1. b \in 0..(n - 1) /\ k \in Slot(b, n)
      BY <1>1, BucketIs DEF Slot
    <2>. HIDE DEF b
    <2>2. s \in Seq(Slot(b, n)) /\ IsInjective(s)
      BY <2>1 DEF Table
    <2>3. PICK i \in 1..(Len(s) + 1) : chains' = [chains EXCEPT ![b] = InsertAt(s, i, k)]
      BY <1>1, <1>4 DEF b
    <2>4. Range(s) \subseteq Index /\ k \notin Range(s)
      <3>1. DOMAIN chains = 0..(n - 1)
        BY DEF Table
      <3>2. Range(s) \subseteq Index
        BY <2>1, <3>1 DEF Index, Chained
      <3>. QED  BY <1>4, <3>2
    <2>. DEFINE t == InsertAt(s, i, k)
    <2>. HIDE DEF s
    <2>5. t \in Seq(Slot(b, n)) /\ IsInjective(t) /\ Range(t) = Range(s) \cup {k}
      BY <2>1, <2>2, <2>4, InsertAtIs, Inserted
    <2>. HIDE DEF t
    <2>6. Table(chains', n) /\ Chained(chains') = (Chained(chains) \ Range(chains[b])) \cup Range(t)
      <3>1. chains' = [chains EXCEPT ![b] = t]
        BY <2>3 DEF t
      <3>2. DOMAIN chains' = DOMAIN chains /\ \A a \in DOMAIN chains : a # b => chains'[a] = chains[a]
        BY <3>1
      <3>3. chains'[b] = t
        BY <2>1, <3>1 DEF Table
      <3>. QED  BY <2>1, <2>5, <3>2, <3>3, ChainChanges
    <2>7. Index' = Index \cup {k}
      BY <2>4, <2>5, <2>6 DEF Index, s
    <2>. QED  BY <1>1, <2>6, <2>7
  <1>5. CASE /\ k \notin Index /\ Cardinality(Index) = Count
             /\ chains' \in Arrangements(Index \cup {k}, 2 * Count)
    <2>1. 2 * n \in Nat \ {0} /\ Index \cup {k} \subseteq Keys
      BY <1>1, <1>2
    <2>2. Table(chains', 2 * n) /\ Chained(chains') = Index \cup {k}
      BY <1>1, <1>5, <2>1, Rehashed
    <2>3. Cardinality(Index \cup {k}) <= Cardinality(Keys) /\ Cardinality(Index \cup {k}) = n + 1
      BY <1>1, <1>2, <1>5, <2>1, FS_AddElement, FS_Subset, ExpiryAssumption
    <2>4. n + 1 <= MaxBuckets
      <3>1. Cardinality(Keys) \in Nat /\ MaxBuckets >= Cardinality(Keys)
        BY ExpiryAssumption, FS_CardinalityType
      <3>. QED  BY <1>1, <2>3, <3>1
    <2>5. 2 * n \in 1..(2 * MaxBuckets)
      BY <1>1, <2>4
    <2>. QED  BY <2>2, <2>5 DEF Index
  <1>. QED  BY <1>3, <1>4, <1>5 DEF Insert

LEMMA EraseTakes ==
  ASSUME NEW n, Table(chains, n), NEW k, Erase(k)
  PROVE  Table(chains', n) /\ Index' = Index \ {k}
  <1>1. CASE k \notin Index /\ UNCHANGED chains
    <2>1. Index \ {k} = Index
      BY <1>1
    <2>. QED  BY <1>1, <2>1 DEF Index
  <1>2. CASE \E b \in DOMAIN chains : \E i \in DOMAIN chains[b] :
               chains[b][i] = k /\ chains' = [chains EXCEPT ![b] = RemoveAt(@, i)]
    <2>1. DOMAIN chains = 0..(n - 1)
      BY DEF Table
    <2>0. PICK b \in 0..(n - 1) : \E i \in DOMAIN chains[b] :
            chains[b][i] = k /\ chains' = [chains EXCEPT ![b] = RemoveAt(@, i)]
      BY <1>2, <2>1
    <2>2. PICK i \in DOMAIN chains[b] :
            chains[b][i] = k /\ chains' = [chains EXCEPT ![b] = RemoveAt(chains[b], i)]
      BY <2>0
    <2>. DEFINE s == chains[b]
                t == RemoveAt(s, i)
    <2>3. s \in Seq(Slot(b, n)) /\ IsInjective(s) /\ i \in 1..Len(s) /\ s[i] = k
      BY <2>2 DEF Table
    <2>4. Range(s) \subseteq Index
      BY <2>1 DEF Index, Chained
    <2>. HIDE DEF s
    <2>5. t \in Seq(Slot(b, n)) /\ IsInjective(t) /\ Range(t) = Range(s) \ {k}
      BY <2>3, RemoveAtIs, Removed
    <2>. HIDE DEF t
    <2>6. Table(chains', n) /\ Chained(chains') = (Chained(chains) \ Range(chains[b])) \cup Range(t)
      <3>1. chains' = [chains EXCEPT ![b] = t]
        BY <2>2 DEF t, s
      <3>2. DOMAIN chains' = DOMAIN chains /\ \A a \in DOMAIN chains : a # b => chains'[a] = chains[a]
        BY <3>1
      <3>3. chains'[b] = t
        BY <3>1 DEF Table
      <3>. QED  BY <2>5, <3>2, <3>3, ChainChanges
    <2>7. Index' = Index \ {k}
      <3>1. Index' = (Index \ Range(s)) \cup (Range(s) \ {k})
        BY <2>5, <2>6 DEF Index, s
      <3>2. k \in Range(s)
        BY <2>3 DEF Range
      <3>. QED  BY <2>4, <3>1, <3>2
    <2>. QED  BY <2>6, <2>7
  <1>. QED  BY <1>1, <1>2 DEF Erase

LEMMA ClearTable ==
  ASSUME NEW n, Table(chains, n), chains' = [b \in DOMAIN chains |-> <<>>]
  PROVE  Table(chains', n) /\ Index' = {}
  <1>1. DOMAIN chains' = 0..(n - 1) /\ \A b \in 0..(n - 1) : chains'[b] = <<>>
    BY DEF Table
  <1>2. Table(chains', n)
    BY <1>1 DEF Table, IsInjective
  <1>3. \A b \in 0..(n - 1) : Range(chains'[b]) = {}
    BY <1>1 DEF Range
  <1>4. Index' = {}
    BY <1>1, <1>3 DEF Index, Chained
  <1>. QED  BY <1>2, <1>4
=============================================================================
