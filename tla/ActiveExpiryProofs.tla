------------------------- MODULE ActiveExpiryProofs -------------------------
(***************************************************************************)
(* Proofs about ActiveExpiry, for every set of keys, hash function, sample *)
(* size and number of rounds: the walk of active_expire_cycle makes the    *)
(* sample that Keyspace takes it to make, and a cycle that finds everything*)
(* due takes a whole sample in each of its rounds.                         *)
(***************************************************************************)
EXTENDS ActiveExpiryTable

-----------------------------------------------------------------------------
(* The types, and what a walk has done so far.                             *)

\* The buckets that a walk has left behind, and the keys it has passed.
Behind ==
  {b \in DOMAIN chains :
     b \in (bucket - scanned)..(bucket - 1) \/ b - Count >= bucket - scanned}
Passed ==
  {k \in Keys : \/ \E b \in Behind : k \in Range(chains[b])
                \/ \E i \in 1..(place - 1) : k = chains[bucket][i]}

\* The sample is what the walk has passed, each key once.
WalkInv ==
  pc = "walk" =>
    /\ Index # {}
    /\ place <= Len(chains[bucket]) + 1
    /\ Range(sampled) = Passed /\ IsInjective(sampled)
    /\ Len(sampled) <= SampleSize

RoundInv ==
  /\ pc = "idle" => round = 0
  /\ pc \in {"walk", "reclaim"} => round < MaxRounds

IInv == TypeOK /\ WalkInv /\ RoundInv

LEMMA TableOK ==
  ASSUME TypeOK
  PROVE  Table(chains, Count) /\ Count \in Nat /\ Count >= 1 /\ Count <= 2 * MaxBuckets
  <1>1. Count \in 1..(2 * MaxBuckets) /\ DOMAIN chains = 0..(Count - 1)
    BY DEF TypeOK
  <1>2. \A b \in 0..(Count - 1) : chains[b] \in Seq(Slot(b, Count)) /\ IsInjective(chains[b])
    BY <1>1 DEF TypeOK, Slot
  <1>. QED  BY <1>1, <1>2, ExpiryAssumption DEF Table

LEMMA TypedTable ==
  ASSUME NEW c, NEW m \in 1..(2 * MaxBuckets), Table(c, m)
  PROVE  LET n == Cardinality(DOMAIN c)
         IN  /\ n \in 1..(2 * MaxBuckets) /\ DOMAIN c = 0..(n - 1)
             /\ \A b \in DOMAIN c : /\ c[b] \in Seq({k \in Keys : BucketOf(k, n) = b})
                                    /\ IsInjective(c[b])
  <1>1. Cardinality(DOMAIN c) = m
    BY TableCount
  <1>. QED  BY <1>1 DEF Table, Slot

LEMMA InitTable ==
  ASSUME Init
  PROVE  Table(chains, 1) /\ Index = {}
  <1>1. DOMAIN chains = {0} /\ chains[0] = <<>> /\ 0..(1 - 1) = {0}
    BY DEF Init
  <1>2. Table(chains, 1)
    BY <1>1 DEF Table, IsInjective
  <1>3. Range(chains[0]) = {}
    BY <1>1 DEF Range
  <1>4. Index = {}
    BY <1>1, <1>3 DEF Index, Chained
  <1>. QED  BY <1>2, <1>4

LEMMA InitInv ==
  ASSUME Init
  PROVE  IInv
  <1>1. 1 \in 1..(2 * MaxBuckets)
    BY ExpiryAssumption
  <1>2. /\ Count \in 1..(2 * MaxBuckets) /\ DOMAIN chains = 0..(Count - 1)
        /\ \A b \in DOMAIN chains : /\ chains[b] \in Seq({k \in Keys : BucketOf(k, Count) = b})
                                    /\ IsInjective(chains[b])
    BY <1>1, InitTable, TypedTable DEF Count
  <1>3. TypeOK
    BY <1>2, InitTable, ExpiryAssumption DEF TypeOK, Init
  <1>. QED  BY <1>3 DEF IInv, WalkInv, RoundInv, Init

\* A step that changes it, outside a walk.
LEMMA TableStep ==
  ASSUME TypeOK, NEW m \in 1..(2 * MaxBuckets), Table(chains', m),
         due' \subseteq Index', pc' \in {"idle", "round", "reclaim"}, round' \in 0..MaxRounds,
         place' \in Nat \ {0}, sampled' \in Seq(Keys), doomed' \in Seq(Keys)
  PROVE  TypeOK'
  <1>1. /\ Count' \in 1..(2 * MaxBuckets) /\ DOMAIN chains' = 0..(Count' - 1)
        /\ \A b \in DOMAIN chains' : /\ chains'[b] \in Seq({k \in Keys : BucketOf(k, Count') = b})
                                     /\ IsInjective(chains'[b])
    BY TypedTable DEF Count
  <1>. QED  BY <1>1 DEF TypeOK

\* A step that leaves the index alone.
LEMMA SameTable ==
  ASSUME TypeOK, UNCHANGED index, pc' \in {"idle", "round", "walk", "reclaim"},
         round' \in 0..MaxRounds, pc' = "walk" => bucket' \in DOMAIN chains /\ scanned' \in 0..Count,
         place' \in Nat \ {0}, sampled' \in Seq(Keys), doomed' \in Seq(Keys)
  PROVE  TypeOK'
  <1>1. chains' = chains /\ due' = due
    BY DEF index
  <1>2. Count' = Count /\ Index' = Index
    BY <1>1 DEF Count, Index
  <1>. QED  BY <1>1, <1>2 DEF TypeOK

\* The cursor goes round.
LEMMA Wraps ==
  ASSUME NEW n \in Nat \ {0}, NEW b \in 0..(n - 1)
  PROVE  (b + 1) % n = IF b + 1 = n THEN 0 ELSE b + 1
  <1>1. CASE b + 1 = n
    BY <1>1
  <1>2. CASE b + 1 < n
    BY <1>2
  <1>. QED  BY <1>1, <1>2

\* The walk has not been here before.
LEMMA NotPassed ==
  ASSUME TypeOK, WalkInv, Walking, place <= Len(chains[bucket])
  PROVE  chains[bucket][place] \in Keys /\ chains[bucket][place] \notin Passed
  <1>. DEFINE n == Count
              s == chains[bucket]
              k == s[place]
  <1>1. /\ n \in Nat /\ bucket \in 0..(n - 1) /\ scanned \in Nat /\ scanned < n
        /\ place \in 1..Len(s) /\ Len(s) \in Nat
        /\ s \in Seq(Slot(bucket, n)) /\ IsInjective(s) /\ DOMAIN chains = 0..(n - 1)
    <2>1. /\ pc = "walk" /\ scanned < n /\ bucket \in DOMAIN chains /\ scanned \in 0..n
          /\ place \in Nat \ {0} /\ DOMAIN chains = 0..(n - 1)
      BY DEF TypeOK, Walking
    <2>2. Table(chains, n) /\ n \in Nat
      BY TableOK
    <2>3. s \in Seq(Slot(bucket, n)) /\ IsInjective(s)
      BY <2>1, <2>2 DEF Table
    <2>. HIDE DEF n
    <2>. QED  BY <2>1, <2>2, <2>3
  <1>2. k \in Slot(bucket, n) /\ k \in Keys /\ BucketOf(k, n) = bucket
    BY <1>1 DEF Slot
  <1>3. ASSUME NEW b \in Behind PROVE k \notin Range(chains[b])
    <2>1. b \in 0..(n - 1) /\ b # bucket
      BY <1>1 DEF Behind
    <2>2. Range(chains[b]) \subseteq Slot(b, n)
      BY <2>1, TableOK, InChains
    <2>. QED  BY <1>2, <2>1, <2>2 DEF Slot
  <1>4. \A i \in 1..(place - 1) : k # s[i]
    BY <1>1 DEF IsInjective
  <1>. HIDE DEF k
  <1>5. k \notin Passed
    <2>1. k \in Passed => \/ \E b \in Behind : k \in Range(chains[b])
                         \/ \E i \in 1..(place - 1) : k = s[i]
      BY DEF Passed
    <2>. QED  BY <2>1, <1>3, <1>4
  <1>. QED  BY <1>2, <1>5 DEF k

LEMMA AppendedOnce ==
  ASSUME NEW S, NEW s \in Seq(S), IsInjective(s), NEW e \in S, e \notin Range(s)
  PROVE  /\ Append(s, e) \in Seq(S) /\ Len(Append(s, e)) = Len(s) + 1
         /\ IsInjective(Append(s, e)) /\ Range(Append(s, e)) = Range(s) \cup {e}
  <1>. DEFINE t == Append(s, e)
  <1>1. /\ Len(s) \in Nat /\ DOMAIN s = 1..Len(s) /\ DOMAIN t = 1..(Len(s) + 1)
        /\ t[Len(s) + 1] = e /\ \A i \in 1..Len(s) : t[i] = s[i]
        /\ t \in Seq(S) /\ Len(t) = Len(s) + 1
    OBVIOUS
  <1>. HIDE DEF t
  <1>2. \A i \in 1..Len(s) : s[i] # e
    BY <1>1 DEF Range
  <1>3. IsInjective(t)
    BY <1>1, <1>2 DEF IsInjective
  <1>4. Range(t) \subseteq Range(s) \cup {e}
    BY <1>1 DEF Range
  <1>5. Range(s) \cup {e} \subseteq Range(t)
    BY <1>1 DEF Range
  <1>6. Range(t) = Range(s) \cup {e}
    BY <1>4, <1>5, Zenon
  <1>. QED  BY <1>1, <1>3, <1>6 DEF t

LEMMA LookInv ==
  ASSUME IInv, Look
  PROVE  IInv'
  <1>. DEFINE k == chains[bucket][place]
  <1>1. /\ Walking /\ place <= Len(chains[bucket]) /\ pc = "walk" /\ Len(sampled) < SampleSize
        /\ sampled' = Append(sampled, k) /\ place' = place + 1
        /\ doomed' = IF k \in then THEN Append(doomed, k) ELSE doomed
        /\ UNCHANGED <<index, pc, round, bucket, scanned, then, began>>
    BY DEF Look, Walking
  <1>2. TypeOK /\ WalkInv /\ RoundInv
    BY DEF IInv
  <1>3. k \in Keys /\ k \notin Passed
    BY <1>1, <1>2, NotPassed
  <1>4. /\ Range(sampled) = Passed /\ IsInjective(sampled) /\ sampled \in Seq(Keys)
        /\ doomed \in Seq(Keys) /\ place \in Nat \ {0}
    BY <1>1, <1>2 DEF WalkInv, TypeOK
  <1>5. /\ sampled' \in Seq(Keys) /\ Len(sampled') = Len(sampled) + 1
        /\ IsInjective(sampled') /\ Range(sampled') = Passed \cup {k}
    BY <1>1, <1>3, <1>4, AppendedOnce
  <1>6. Passed' = Passed \cup {k}
    <2>1. Behind' = Behind /\ chains' = chains /\ bucket' = bucket
      BY <1>1 DEF Behind, Count, index
    <2>2. \A x : (\E i \in 1..(place' - 1) : x = chains[bucket][i])
                <=> (\E i \in 1..(place - 1) : x = chains[bucket][i]) \/ x = k
      <3>1. 1..(place' - 1) = 1..(place - 1) \cup {place}
        BY <1>1, <1>4
      <3>. QED  BY <3>1
    <2>. HIDE DEF k
    <2>. QED  BY <1>3, <2>1, <2>2 DEF Passed
  <1>7. WalkInv'
    <2>1. Index' = Index /\ chains' = chains /\ bucket' = bucket
      BY <1>1 DEF Index, index
    <2>2. Index # {} /\ Len(chains[bucket]) \in Nat
      BY <1>1, <1>2 DEF WalkInv, TypeOK
    <2>3. Len(sampled') <= SampleSize /\ place' <= Len(chains[bucket]) + 1
      BY <1>1, <1>4, <1>5, <2>2, ExpiryAssumption
    <2>. QED  BY <1>5, <1>6, <2>1, <2>2, <2>3 DEF WalkInv
  <1>8. TypeOK'
    <2>1. doomed' \in Seq(Keys)
      BY <1>1, <1>3, <1>4
    <2>2. place' \in Nat \ {0} /\ pc' = "walk" /\ round' \in 0..MaxRounds
      BY <1>1, <1>2, <1>4 DEF TypeOK
    <2>3. bucket' \in DOMAIN chains /\ scanned' \in 0..Count
      BY <1>1, <1>2 DEF TypeOK
    <2>. QED  BY <1>1, <1>2, <1>5, <2>1, <2>2, <2>3, SameTable
  <1>9. RoundInv'
    BY <1>1, <1>2 DEF RoundInv
  <1>. QED  BY <1>7, <1>8, <1>9 DEF IInv

LEMMA NextBucketInv ==
  ASSUME IInv, NextBucket
  PROVE  IInv'
  <1>. DEFINE n == Count
              s == chains[bucket]
  <1>1. /\ Walking /\ pc = "walk" /\ place > Len(s) /\ scanned < n
        /\ bucket' = (bucket + 1) % n /\ scanned' = scanned + 1 /\ place' = 1
        /\ UNCHANGED <<index, pc, round, sampled, doomed, then, began>>
    BY DEF NextBucket, Walking
  <1>2. TypeOK /\ WalkInv /\ RoundInv
    BY DEF IInv
  <1>3. /\ n \in Nat \ {0} /\ bucket \in 0..(n - 1) /\ scanned \in 0..n /\ DOMAIN chains = 0..(n - 1)
        /\ place \in Nat /\ Len(s) \in Nat /\ DOMAIN s = 1..Len(s)
    <2>1. n \in Nat \ {0}
      BY <1>2, TableOK
    <2>2. /\ DOMAIN chains = 0..(n - 1) /\ bucket \in DOMAIN chains /\ scanned \in 0..n
          /\ place \in Nat
      BY <1>1, <1>2 DEF TypeOK
    <2>3. Len(s) \in Nat /\ DOMAIN s = 1..Len(s)
      BY <1>2, <2>2 DEF TypeOK
    <2>. QED  BY <2>1, <2>2, <2>3
  <1>4. bucket' = IF bucket + 1 = n THEN 0 ELSE bucket + 1
    BY <1>1, <1>3, Wraps
  <1>5. chains' = chains /\ due' = due /\ n' = n /\ Index' = Index
    BY <1>1 DEF index, Count, Index
  <1>6. Behind' = Behind \cup {bucket}
    <2>. HIDE DEF n
    <2>1. \A b \in 0..(n - 1) :
            (b \in (bucket' - scanned')..(bucket' - 1) \/ b - n >= bucket' - scanned')
            <=> (b \in (bucket - scanned)..(bucket - 1) \/ b - n >= bucket - scanned) \/ b = bucket
      BY <1>1, <1>3, <1>4
    <2>2. Behind' \subseteq Behind \cup {bucket}
      BY <1>3, <1>5, <2>1 DEF Behind, n
    <2>3. Behind \cup {bucket} \subseteq Behind'
      BY <1>3, <1>5, <2>1 DEF Behind, n
    <2>. QED  BY <2>2, <2>3, Zenon
  <1>7. Passed' = Passed
    <2>1. place = Len(s) + 1
      BY <1>1, <1>2, <1>3 DEF WalkInv
    <2>2. \A x : (\E i \in 1..(place - 1) : x = chains[bucket][i]) <=> x \in Range(s)
      BY <1>3, <2>1 DEF Range
    <2>3. 1..(place' - 1) = {}
      BY <1>1
    <2>. QED  BY <1>5, <1>6, <2>2, <2>3 DEF Passed
  <1>8. TypeOK'
    <2>1. bucket' \in 0..(n - 1) /\ scanned' \in 0..n
      BY <1>1, <1>3, <1>4
    <2>2. pc' = "walk" /\ round' \in 0..MaxRounds /\ sampled' \in Seq(Keys) /\ doomed' \in Seq(Keys)
      BY <1>1, <1>2 DEF TypeOK
    <2>. QED  BY <1>1, <1>2, <1>3, <2>1, <2>2, SameTable
  <1>9. WalkInv'
    <2>1. Len(chains'[bucket']) \in Nat
      BY <1>1, <1>8 DEF TypeOK
    <2>. QED  BY <1>1, <1>2, <1>5, <1>7, <2>1 DEF WalkInv
  <1>10. RoundInv'
    BY <1>1, <1>2 DEF RoundInv
  <1>. QED  BY <1>8, <1>9, <1>10 DEF IInv

LEMMA StartRoundInv ==
  ASSUME IInv, NEW b, StartRound(b)
  PROVE  IInv'
  <1>1. /\ pc' = "walk" /\ round < MaxRounds /\ Index # {} /\ b \in DOMAIN chains
        /\ bucket' = b /\ scanned' = 0 /\ place' = 1 /\ sampled' = <<>> /\ doomed' = <<>>
        /\ UNCHANGED <<index, round, began>>
    BY DEF StartRound
  <1>2. TypeOK
    BY DEF IInv
  <1>3. chains' = chains /\ Index' = Index /\ Count' = Count
    BY <1>1 DEF index, Index, Count
  <1>4. TypeOK'
    <2>1. scanned' \in 0..Count
      BY <1>1, <1>2, TableOK
    <2>2. round' \in 0..MaxRounds /\ sampled' \in Seq(Keys) /\ doomed' \in Seq(Keys) /\ place' \in Nat \ {0}
      BY <1>1, <1>2 DEF TypeOK
    <2>. QED  BY <1>1, <1>2, <2>1, <2>2, SameTable
  <1>5. Passed' = {}
    <2>1. Behind' = {}
      BY <1>1, <1>2, <1>3, TableOK DEF Behind, TypeOK
    <2>2. 1..(place' - 1) = {}
      BY <1>1
    <2>. QED  BY <2>1, <2>2 DEF Passed
  <1>6. Range(sampled') = {} /\ IsInjective(sampled') /\ Len(sampled') = 0
    BY <1>1 DEF Range, IsInjective
  <1>7. Len(chains'[bucket']) \in Nat
    BY <1>1, <1>4 DEF TypeOK
  <1>8. WalkInv'
    BY <1>1, <1>3, <1>5, <1>6, <1>7, ExpiryAssumption DEF WalkInv
  <1>. QED  BY <1>1, <1>4, <1>8 DEF IInv, RoundInv

\* Commands run between cycles.
LEMMA CommandInv ==
  ASSUME IInv, NEW k, Clear \/ (k \in Keys /\ (Renew(k) \/ Lose(k)))
  PROVE  IInv'
  <1>1. pc = "idle" /\ UNCHANGED <<pc, round, walk, began>>
    BY DEF Clear, Renew, Lose, Command
  <1>2. TypeOK /\ RoundInv
    BY DEF IInv
  <1>3. Table(chains, Count) /\ Count \in 1..(2 * MaxBuckets) /\ Count <= 2 * MaxBuckets
    BY <1>2, TableOK DEF TypeOK
  <1>4. due \subseteq Index
    BY <1>2 DEF TypeOK
  <1>5. (\E m \in 1..(2 * MaxBuckets) : Table(chains', m)) /\ due' \subseteq Index'
    <2>1. CASE Clear
      <3>1. Table(chains', Count) /\ due' = {}
        BY <1>3, <2>1, ClearTable DEF Clear
      <3>. QED  BY <1>3, <3>1
    <2>2. CASE k \in Keys /\ Renew(k)
      <3>1. Insert(k) /\ due' = due \ {k}
        BY <2>2 DEF Renew
      <3>2. (\E m \in 1..(2 * MaxBuckets) : Table(chains', m)) /\ Index' = Index \cup {k}
        BY <1>3, <2>2, <3>1, InsertAdds
      <3>3. due' \subseteq Index'
        BY <1>4, <3>1, <3>2
      <3>. QED  BY <3>2, <3>3
    <2>3. CASE k \in Keys /\ Lose(k)
      <3>1. Erase(k) /\ due' = due \ {k}
        BY <2>3 DEF Lose
      <3>2. Table(chains', Count) /\ Index' = Index \ {k}
        BY <1>3, <3>1, EraseTakes
      <3>3. due' \subseteq Index'
        BY <1>4, <3>1, <3>2
      <3>. QED  BY <1>3, <3>2, <3>3
    <2>. QED  BY <2>1, <2>2, <2>3
  <1>6. TypeOK'
    <2>1. /\ round' \in 0..MaxRounds /\ place' \in Nat \ {0}
          /\ sampled' \in Seq(Keys) /\ doomed' \in Seq(Keys) /\ pc' \in {"idle", "round", "reclaim"}
      BY <1>1, <1>2 DEF TypeOK, walk
    <2>. QED  BY <1>2, <1>5, <2>1, TableStep
  <1>. QED  BY <1>1, <1>2, <1>6 DEF IInv, WalkInv, RoundInv

LEMMA FallDueInv ==
  ASSUME IInv, NEW k, FallDue(k)
  PROVE  IInv'
  <1>1. /\ k \in Index /\ due' = due \cup {k} /\ UNCHANGED <<chains, pc, round, began>>
        /\ UNCHANGED <<bucket, scanned, place, sampled, doomed, then>>
    BY DEF FallDue, walk
  <1>2. Index' = Index /\ Count' = Count
    BY <1>1 DEF Index, Count
  <1>3. TypeOK /\ WalkInv /\ RoundInv
    BY DEF IInv
  <1>4. TypeOK'
    <2>1. due' \subseteq Index'
      BY <1>1, <1>2, <1>3 DEF TypeOK
    <2>. QED  BY <1>1, <1>2, <1>3, <2>1 DEF TypeOK
  <1>5. Passed' = Passed
    BY <1>1, <1>2 DEF Passed, Behind
  <1>. QED  BY <1>1, <1>2, <1>3, <1>4, <1>5 DEF IInv, WalkInv, RoundInv

\* What the cycle does between the walks.
LEMMA BetweenInv ==
  ASSUME IInv, StartCycle \/ EndCycle \/ EndWalk \/ Reclaim \/ EndRound
  PROVE  IInv'
  <1>1. TypeOK /\ RoundInv /\ MaxRounds \in Nat \ {0}
    BY ExpiryAssumption DEF IInv
  <1>2. /\ place \in Nat \ {0} /\ sampled \in Seq(Keys) /\ doomed \in Seq(Keys)
        /\ round \in 0..MaxRounds
    BY <1>1 DEF TypeOK
  <1>3. CASE StartCycle \/ EndCycle \/ EndWalk \/ EndRound
    <2>1. UNCHANGED index
      BY <1>3 DEF StartCycle, EndCycle, EndWalk, EndRound
    <2>2. /\ pc' \in {"idle", "round", "reclaim"} /\ round' \in 0..MaxRounds
          /\ (pc' = "idle" => round' = 0) /\ (pc' = "reclaim" => round' < MaxRounds)
      <3>1. CASE StartCycle \/ EndWalk
        BY <1>1, <1>2, <3>1 DEF StartCycle, EndWalk, RoundInv
      <3>2. CASE EndCycle
        BY <1>1, <3>2 DEF EndCycle
      <3>3. CASE EndRound
        <4>1. /\ pc = "reclaim"
              /\ \/ pc' = "idle" /\ round' = 0
                 \/ pc' = "round" /\ round' = round + 1
          BY <3>3 DEF EndRound
        <4>. QED  BY <1>1, <1>2, <4>1 DEF RoundInv
      <3>. QED  BY <1>3, <3>1, <3>2, <3>3
    <2>3. place' \in Nat \ {0} /\ sampled' \in Seq(Keys) /\ doomed' \in Seq(Keys)
      <3>1. place' \in {place, 1} /\ sampled' \in {sampled, <<>>} /\ doomed' \in {doomed, <<>>}
        BY <1>3 DEF StartCycle, EndCycle, EndWalk, EndRound, walk
      <3>2. <<>> \in Seq(Keys) /\ 1 \in Nat \ {0}
        OBVIOUS
      <3>. QED  BY <1>2, <3>1, <3>2, Zenon
    <2>4. TypeOK'
      BY <1>1, <2>1, <2>2, <2>3, SameTable
    <2>. QED  BY <2>2, <2>4 DEF IInv, WalkInv, RoundInv
  <1>4. CASE Reclaim
    <2>1. /\ pc' = "reclaim" /\ pc = "reclaim" /\ Erase(doomed[place]) /\ due' = due \ {doomed[place]}
          /\ place' = place + 1 /\ UNCHANGED <<round, sampled, doomed>>
      BY <1>4 DEF Reclaim
    <2>2. Table(chains, Count) /\ Count \in 1..(2 * MaxBuckets) /\ due \subseteq Index
      BY <1>1, TableOK DEF TypeOK
    <2>3. Table(chains', Count) /\ Index' = Index \ {doomed[place]}
      BY <2>1, <2>2, EraseTakes
    <2>4. due' \subseteq Index'
      BY <2>1, <2>2, <2>3
    <2>5. TypeOK'
      BY <1>1, <1>2, <2>1, <2>2, <2>3, <2>4, TableStep
    <2>. QED  BY <1>1, <2>1, <2>5 DEF IInv, WalkInv, RoundInv
  <1>. QED  BY <1>3, <1>4

LEMMA NextInv ==
  ASSUME IInv, [Next]_vars
  PROVE  IInv'
  <1>1. CASE Traffic
    <2>1. CASE Clear
      BY <2>1, CommandInv
    <2>2. CASE \E k \in Keys : Renew(k) \/ Lose(k) \/ FallDue(k)
      BY <2>2, CommandInv, FallDueInv
    <2>. QED  BY <1>1, <2>1, <2>2 DEF Traffic
  <1>2. CASE StartCycle \/ EndCycle \/ EndWalk \/ Reclaim \/ EndRound
    BY <1>2, BetweenInv
  <1>3. CASE \E b \in DOMAIN chains : StartRound(b)
    BY <1>3, StartRoundInv
  <1>4. CASE Look
    BY <1>4, LookInv
  <1>5. CASE NextBucket
    BY <1>5, NextBucketInv
  <1>6. CASE UNCHANGED vars
    <2>1. /\ UNCHANGED <<chains, due, pc, round, bucket, scanned, place, sampled, doomed>>
          /\ Index' = Index /\ Count' = Count
      BY <1>6 DEF vars, index, walk, Index, Count
    <2>2. Passed' = Passed
      BY <2>1 DEF Passed, Behind
    <2>. QED  BY <2>1, <2>2 DEF IInv, TypeOK, WalkInv, RoundInv
  <1>. QED  BY <1>1, <1>2, <1>3, <1>4, <1>5, <1>6 DEF Next, Round

THEOREM IsInvariant == Spec => []IInv
  <1>1. Init => IInv
    BY InitInv
  <1>2. IInv /\ [Next]_vars => IInv'
    BY NextInv
  <1>. QED  BY <1>1, <1>2, PTL DEF Spec

\* The index stays a hash table whatever commands and cycles do to it, through growth and
\* rehashing, and the cursor of a walk stays in it.
THEOREM TypeCorrect == Spec => []TypeOK
  <1>1. IInv => TypeOK
    BY DEF IInv
  <1>. QED  BY <1>1, IsInvariant, PTL

LEMMA PassedIndex ==
  ASSUME TypeOK, pc = "walk", place <= Len(chains[bucket]) + 1
  PROVE  Passed \subseteq Index /\ (scanned = Count => Passed = Index)
  <1>1. /\ Count \in Nat /\ DOMAIN chains = 0..(Count - 1) /\ bucket \in 0..(Count - 1)
        /\ scanned \in 0..Count /\ place \in Nat \ {0}
    BY TableOK DEF TypeOK
  <1>2. Len(chains[bucket]) \in Nat /\ DOMAIN chains[bucket] = 1..Len(chains[bucket])
    BY <1>1 DEF TypeOK
  <1>3. ASSUME NEW k \in Passed PROVE k \in Index
    <2>1. CASE \E b \in Behind : k \in Range(chains[b])
      BY <2>1 DEF Behind, Index, Chained
    <2>2. CASE \E i \in 1..(place - 1) : k = chains[bucket][i]
      <3>1. k \in Range(chains[bucket])
        BY <1>1, <1>2, <2>2 DEF Range
      <3>. QED  BY <1>1, <3>1 DEF Index, Chained
    <2>. QED  BY <2>1, <2>2 DEF Passed
  <1>4. ASSUME scanned = Count, NEW k \in Index PROVE k \in Passed
    <2>1. PICK b \in 0..(Count - 1) : k \in Range(chains[b])
      BY <1>1 DEF Index, Chained
    <2>2. b \in Behind
      BY <1>1, <1>4 DEF Behind
    <2>3. k \in Keys
      BY TableOK, InChains DEF Index
    <2>. QED  BY <2>1, <2>2, <2>3 DEF Passed
  <1>. QED  BY <1>3, <1>4

LEMMA WalkEnds ==
  ASSUME IInv, pc = "walk", ~Walking
  PROVE  IsInjective(sampled) /\ (Len(sampled) = SampleSize \/ Range(sampled) = Index)
  <1>1. /\ TypeOK /\ IsInjective(sampled) /\ Range(sampled) = Passed
        /\ place <= Len(chains[bucket]) + 1 /\ Len(sampled) <= SampleSize
    BY DEF IInv, WalkInv
  <1>2. Count \in Nat /\ scanned \in 0..Count /\ Len(sampled) \in Nat /\ SampleSize \in Nat
    BY <1>1, TableOK, ExpiryAssumption DEF TypeOK
  <1>3. scanned = Count \/ Len(sampled) = SampleSize
    BY <1>1, <1>2 DEF Walking
  <1>. QED  BY <1>1, <1>3, PassedIndex

\* However the keys are spread over however many buckets, and wherever the walk starts,
\* active_expire_cycle samples no key twice and stops short of sample_size only when it
\* has seen every volatile key: what Keyspace takes a sample to be.
THEOREM WalkSamples == Spec => []WalkIsASample
  <1>1. IInv => WalkIsASample
    BY WalkEnds DEF WalkIsASample
  <1>. QED  BY <1>1, IsInvariant, PTL

-----------------------------------------------------------------------------
(* A cycle that began with everything due.                                 *)

\* What it has left after r rounds.
Left(r) == Max({0, Cardinality(began.keys) - r * SampleSize})

\* Everything stays due, a sample is doomed as a whole, and every round takes one.
MassInv ==
  pc # "idle" /\ began.due = began.keys =>
    /\ began.keys \subseteq Keys /\ due = Index
    /\ pc \in {"round", "walk"} => Cardinality(Index) = Left(round)
    /\ pc = "walk" => then = Index /\ doomed = sampled
    /\ pc = "reclaim" =>
         /\ doomed = sampled /\ IsInjective(doomed) /\ doomed # <<>>
         /\ place <= Len(doomed) + 1
         /\ \A i \in place..Len(doomed) : doomed[i] \in Index
         /\ Cardinality(Index) = Left(round) - (place - 1)
         /\ Len(doomed) = SampleSize \/ (Len(doomed) = Left(round) /\ Len(doomed) <= SampleSize)

LEMMA AtLeastNone ==
  ASSUME NEW x \in Int
  PROVE  Max({0, x}) = IF x >= 0 THEN x ELSE 0
  <1>. DEFINE m == IF x >= 0 THEN x ELSE 0
  <1>1. m \in {0, x} /\ \A y \in {0, x} : m >= y
    OBVIOUS
  <1>2. \A z \in {0, x} : (\A y \in {0, x} : z >= y) => z = m
    OBVIOUS
  <1>. QED  BY <1>1, <1>2 DEF Max

LEMMA AsManyAsSampled ==
  ASSUME NEW s \in Seq(Keys), IsInjective(s)
  PROVE  Cardinality(Range(s)) = Len(s)
  <1>1. Len(s) \in Nat /\ DOMAIN s = 1..Len(s)
    OBVIOUS
  <1>2. s \in Surjection(1..Len(s), Range(s)) /\ s \in Injection(1..Len(s), Range(s))
    BY <1>1 DEF Range, IsInjective, Surjection, Injection
  <1>3. IsFiniteSet(1..Len(s)) /\ Cardinality(1..Len(s)) = Len(s)
    <2>1. IsFiniteSet(1..Len(s)) /\ Cardinality(1..Len(s)) = IF 1 > Len(s) THEN 0 ELSE Len(s) - 1 + 1
      BY <1>1, FS_Interval
    <2>. QED  BY <1>1, <2>1
  <1>. QED  BY <1>2, <1>3, FS_Surjection

LEMMA LeftIs ==
  ASSUME began.keys \subseteq Keys, NEW r \in Nat
  PROVE  LET n == Cardinality(began.keys)
         IN  /\ n \in Nat /\ SampleSize \in Nat \ {0} /\ r * SampleSize \in Nat
             /\ Left(r) = IF n - r * SampleSize >= 0 THEN n - r * SampleSize ELSE 0
  <1>. DEFINE n == Cardinality(began.keys)
              x == n - r * SampleSize
  <1>1. n \in Nat
    BY FS_Subset, FS_CardinalityType, ExpiryAssumption
  <1>2. SampleSize \in Nat \ {0}
    BY ExpiryAssumption
  <1>3. r * SampleSize \in Nat
    BY <1>2
  <1>4. x \in Int
    BY <1>1, <1>3
  <1>5. Left(r) = Max({0, x})
    BY DEF Left
  <1>. HIDE DEF x
  <1>6. Left(r) = IF x >= 0 THEN x ELSE 0
    BY <1>4, <1>5, AtLeastNone
  <1>. QED  BY <1>1, <1>2, <1>3, <1>6 DEF x

LEMMA IndexFinite ==
  ASSUME TypeOK
  PROVE  Index \subseteq Keys /\ IsFiniteSet(Index) /\ Cardinality(Index) \in Nat
  BY TableOK, InChains, FS_CardinalityType DEF Index

LEMMA MassStart ==
  ASSUME IInv, StartCycle
  PROVE  MassInv'
  <1>1. /\ pc = "idle" /\ pc' = "round" /\ began' = [keys |-> Index, due |-> due]
        /\ round' = round /\ chains' = chains /\ due' = due
    BY DEF StartCycle, index
  <1>2. Index \subseteq Keys /\ Cardinality(Index) \in Nat /\ Index' = Index
    BY <1>1, IndexFinite DEF IInv, Index
  <1>3. round' = 0
    BY <1>1 DEF IInv, RoundInv
  <1>4. Left(round)' = Cardinality(Index)
    <2>1. began'.keys = Index
      BY <1>1
    <2>2. Cardinality(Index) - 0 * SampleSize = Cardinality(Index)
      BY <1>2, ExpiryAssumption
    <2>3. Left(round)' = Max({0, Cardinality(Index)})
      BY <1>3, <2>1, <2>2 DEF Left
    <2>. QED  BY <1>2, <2>3, AtLeastNone
  <1>. QED  BY <1>1, <1>2, <1>4 DEF MassInv

\* While everything is due, a cycle is somewhere, and began is what it was.
LEMMA MassStays ==
  ASSUME began' = began, round' = round, chains' = chains
  PROVE  Left(round)' = Left(round) /\ Index' = Index
  BY DEF Left, Index

LEMMA MassStartRound ==
  ASSUME MassInv, NEW b, StartRound(b)
  PROVE  MassInv'
  <1>1. /\ pc = "round" /\ pc' = "walk" /\ sampled' = <<>> /\ doomed' = <<>> /\ then' = due
        /\ began' = began /\ round' = round /\ chains' = chains /\ due' = due
    BY DEF StartRound, index
  <1>2. Left(round)' = Left(round) /\ Index' = Index
    BY <1>1, MassStays
  <1>. QED  BY <1>1, <1>2 DEF MassInv

LEMMA MassLook ==
  ASSUME IInv, MassInv, Look \/ NextBucket
  PROVE  MassInv'
  <1>1. /\ pc = "walk" /\ pc' = "walk" /\ then' = then
        /\ began' = began /\ round' = round /\ chains' = chains /\ due' = due
    BY DEF Look, NextBucket, Walking, index
  <1>2. Left(round)' = Left(round) /\ Index' = Index
    BY <1>1, MassStays
  <1>. SUFFICES ASSUME began.due = began.keys
                PROVE  MassInv'
    BY <1>1 DEF MassInv
  <1>3. /\ began.keys \subseteq Keys /\ due = Index /\ Cardinality(Index) = Left(round)
        /\ then = Index /\ doomed = sampled
    BY <1>1 DEF MassInv
  <1>4. doomed' = sampled'
    <2>1. CASE Look
      <3>. DEFINE k == chains[bucket][place]
      <3>1. /\ place <= Len(chains[bucket]) /\ sampled' = Append(sampled, k)
            /\ doomed' = IF k \in then THEN Append(doomed, k) ELSE doomed
        BY <2>1 DEF Look
      <3>2. bucket \in DOMAIN chains /\ place \in 1..Len(chains[bucket]) /\ place \in DOMAIN chains[bucket]
        BY <1>1, <3>1 DEF IInv, TypeOK
      <3>3. k \in Index
        BY <3>2 DEF Index, Chained, Range
      <3>. QED  BY <1>3, <3>1, <3>3
    <2>2. CASE NextBucket
      BY <1>3, <2>2 DEF NextBucket
    <2>. QED  BY <2>1, <2>2
  <1>. QED  BY <1>1, <1>2, <1>3, <1>4 DEF MassInv

LEMMA MassEndWalk ==
  ASSUME IInv, MassInv, EndWalk
  PROVE  MassInv'
  <1>1. /\ pc = "walk" /\ ~Walking /\ pc' = "reclaim" /\ place' = 1 /\ sampled' = sampled
        /\ doomed' = doomed /\ began' = began /\ round' = round /\ chains' = chains /\ due' = due
    BY DEF EndWalk, index
  <1>2. Left(round)' = Left(round) /\ Index' = Index
    BY <1>1, MassStays
  <1>. SUFFICES ASSUME began.due = began.keys
                PROVE  MassInv'
    BY <1>1 DEF MassInv
  <1>3. /\ began.keys \subseteq Keys /\ due = Index /\ Cardinality(Index) = Left(round)
        /\ doomed = sampled
    BY <1>1 DEF MassInv
  <1>4. IsInjective(sampled) /\ (Len(sampled) = SampleSize \/ Range(sampled) = Index)
    BY <1>1, WalkEnds
  <1>5. /\ Index # {} /\ Range(sampled) \subseteq Index /\ Len(sampled) <= SampleSize
        /\ sampled \in Seq(Keys)
    <2>1. /\ TypeOK /\ place <= Len(chains[bucket]) + 1 /\ Index # {}
          /\ Range(sampled) = Passed /\ Len(sampled) <= SampleSize
      BY <1>1 DEF IInv, WalkInv
    <2>2. sampled \in Seq(Keys)
      BY <2>1 DEF TypeOK
    <2>. QED  BY <1>1, <2>1, <2>2, PassedIndex
  <1>6. /\ Cardinality(Range(sampled)) = Len(sampled) /\ Len(sampled) \in Nat
        /\ DOMAIN sampled = 1..Len(sampled)
    BY <1>4, <1>5, AsManyAsSampled
  <1>7. sampled # <<>>
    <2>1. CASE Len(sampled) = SampleSize
      BY <2>1, <1>5, ExpiryAssumption
    <2>2. CASE Range(sampled) = Index
      BY <2>2, <1>5 DEF Range
    <2>. QED  BY <1>4, <2>1, <2>2
  <1>8. \A i \in 1..Len(sampled) : sampled[i] \in Index
    BY <1>5, <1>6 DEF Range
  <1>9. Len(sampled) = SampleSize \/ (Len(sampled) = Left(round) /\ Len(sampled) <= SampleSize)
    BY <1>3, <1>4, <1>5, <1>6
  <1>10. Left(round) \in Nat
    BY <1>3, IndexFinite DEF IInv
  <1>. QED  BY <1>1, <1>2, <1>3, <1>4, <1>6, <1>7, <1>8, <1>9, <1>10 DEF MassInv

LEMMA MassReclaim ==
  ASSUME IInv, MassInv, Reclaim
  PROVE  MassInv'
  <1>. DEFINE k == doomed[place]
  <1>1. /\ pc = "reclaim" /\ pc' = "reclaim" /\ place <= Len(doomed) /\ Erase(k)
        /\ due' = due \ {k} /\ place' = place + 1 /\ round' = round /\ began' = began
        /\ sampled' = sampled /\ doomed' = doomed
    BY DEF Reclaim
  <1>2. Left(round)' = Left(round)
    BY <1>1 DEF Left
  <1>. SUFFICES ASSUME began.due = began.keys
                PROVE  MassInv'
    BY <1>1 DEF MassInv
  <1>3. /\ began.keys \subseteq Keys /\ due = Index
        /\ doomed = sampled /\ IsInjective(doomed) /\ doomed # <<>>
        /\ \A i \in place..Len(doomed) : doomed[i] \in Index
        /\ Cardinality(Index) = Left(round) - (place - 1)
        /\ Len(doomed) = SampleSize \/ (Len(doomed) = Left(round) /\ Len(doomed) <= SampleSize)
    <2>1. pc = "reclaim"
      BY <1>1
    <2>. QED  BY <2>1 DEF MassInv
  <1>4. TypeOK /\ round \in Nat
    <2>1. TypeOK
      BY DEF IInv
    <2>. QED  BY <2>1 DEF TypeOK
  <1>5. place \in Nat \ {0} /\ Len(doomed) \in Nat /\ DOMAIN doomed = 1..Len(doomed)
    BY <1>4 DEF TypeOK
  <1>6. Index' = Index \ {k}
    BY <1>1, <1>4, TableOK, EraseTakes
  <1>7. k \in Index
    BY <1>1, <1>3, <1>5
  <1>8. Cardinality(Index') = Cardinality(Index) - 1 /\ Cardinality(Index) \in Nat
    BY <1>4, <1>6, <1>7, IndexFinite, FS_RemoveElement
  <1>9. Left(round) \in Nat
    BY <1>3, <1>4, LeftIs
  <1>10. Cardinality(Index') = Left(round) - (place' - 1) /\ place' <= Len(doomed) + 1
    BY <1>1, <1>3, <1>5, <1>8, <1>9
  <1>11. \A i \in place'..Len(doomed) : doomed[i] \in Index'
    <2>. SUFFICES ASSUME NEW i \in place'..Len(doomed) PROVE doomed[i] \in Index'
      OBVIOUS
    <2>1. i \in place..Len(doomed) /\ i # place /\ i \in DOMAIN doomed /\ place \in DOMAIN doomed
      BY <1>1, <1>5
    <2>2. doomed[i] # k /\ doomed[i] \in Index
      BY <1>3, <2>1 DEF IsInjective
    <2>. QED  BY <1>6, <2>2
  <1>12. due' = Index'
    BY <1>1, <1>3, <1>6
  <1>. HIDE DEF k
  <1>. QED  BY <1>1, <1>2, <1>3, <1>10, <1>11, <1>12 DEF MassInv

\* A round has taken a whole sample, or all there was.
LEMMA RoundTakes ==
  ASSUME IInv, MassInv, pc = "reclaim", place > Len(doomed), began.due = began.keys
  PROVE  Cardinality(Index) = Left(round + 1) /\ ~Sparse
  <1>1. /\ began.keys \subseteq Keys /\ doomed = sampled /\ doomed # <<>>
        /\ place <= Len(doomed) + 1 /\ Cardinality(Index) = Left(round) - (place - 1)
        /\ Len(doomed) = SampleSize \/ (Len(doomed) = Left(round) /\ Len(doomed) <= SampleSize)
    BY DEF MassInv
  <1>2. /\ place \in Nat \ {0} /\ round \in Nat /\ Len(doomed) \in Nat /\ Cardinality(Index) \in Nat
        /\ doomed \in Seq(Keys)
    BY IndexFinite DEF IInv, TypeOK
  <1>3. place - 1 = Len(doomed) /\ Len(doomed) # 0
    BY <1>1, <1>2
  <1>. DEFINE n == Cardinality(began.keys)
              taken == round * SampleSize
  <1>4. /\ n \in Nat /\ SampleSize \in Nat \ {0} /\ taken \in Nat
        /\ Left(round) = IF n - taken >= 0 THEN n - taken ELSE 0
    BY <1>1, <1>2, LeftIs
  <1>5. (round + 1) * SampleSize = taken + SampleSize
    BY <1>2, <1>4
  <1>6. Left(round + 1) = IF n - (taken + SampleSize) >= 0 THEN n - (taken + SampleSize) ELSE 0
    <2>1. round + 1 \in Nat
      BY <1>2
    <2>. QED  BY <1>1, <1>5, <2>1, LeftIs
  <1>. HIDE DEF n, taken
  <1>7. Cardinality(Index) = Left(round + 1)
    BY <1>1, <1>2, <1>3, <1>4, <1>6
  <1>8. ~Sparse
    BY <1>1, <1>2, <1>3 DEF Sparse
  <1>. QED  BY <1>7, <1>8

LEMMA MassEndRound ==
  ASSUME IInv, MassInv, EndRound
  PROVE  MassInv' /\ (began.due = began.keys => pc' = "round")
  <1>1. /\ pc = "reclaim" /\ place > Len(doomed) /\ chains' = chains /\ due' = due
        /\ \/ Sparse /\ pc' = "idle"
           \/ ~Sparse /\ pc' = "round" /\ round' = round + 1 /\ began' = began
    BY DEF EndRound, index
  <1>. SUFFICES ASSUME began.due = began.keys
                PROVE  MassInv' /\ pc' = "round"
    BY <1>1 DEF MassInv
  <1>2. Cardinality(Index) = Left(round + 1) /\ ~Sparse
    BY <1>1, RoundTakes
  <1>3. pc' = "round" /\ round' = round + 1 /\ began' = began /\ Index' = Index
    BY <1>1, <1>2 DEF Index
  <1>4. Left(round)' = Left(round + 1)
    BY <1>3 DEF Left
  <1>5. began.keys \subseteq Keys /\ due = Index
    BY <1>1 DEF MassInv
  <1>. QED  BY <1>1, <1>2, <1>3, <1>4, <1>5 DEF MassInv

\* The clock finds nothing more to make due.
LEMMA MassFallDue ==
  ASSUME MassInv, NEW k, FallDue(k)
  PROVE  MassInv'
  <1>1. /\ k \in Index /\ k \notin due /\ pc' = pc /\ began' = began
    BY DEF FallDue
  <1>2. ~(pc # "idle" /\ began.due = began.keys)
    BY <1>1 DEF MassInv
  <1>. QED  BY <1>1, <1>2 DEF MassInv

LEMMA MassNext ==
  ASSUME IInv, MassInv, [Next]_vars
  PROVE  MassInv'
  <1>1. CASE Traffic
    <2>1. CASE Clear \/ \E k \in Keys : Renew(k) \/ Lose(k)
      <3>1. pc' = "idle"
        BY <2>1 DEF Clear, Renew, Lose, Command
      <3>. QED  BY <3>1 DEF MassInv
    <2>. QED  BY <1>1, <2>1, MassFallDue DEF Traffic
  <1>2. CASE StartCycle
    BY <1>2, MassStart
  <1>3. CASE EndCycle
    BY <1>3 DEF EndCycle, MassInv
  <1>4. CASE \E b \in DOMAIN chains : StartRound(b)
    BY <1>4, MassStartRound
  <1>5. CASE Look \/ NextBucket
    BY <1>5, MassLook
  <1>6. CASE EndWalk \/ Reclaim \/ EndRound
    BY <1>6, MassEndWalk, MassReclaim, MassEndRound
  <1>7. CASE UNCHANGED vars
    <2>1. UNCHANGED <<chains, due, pc, round, place, sampled, doomed, then, began>>
      BY <1>7 DEF vars, index, walk
    <2>2. Left(round)' = Left(round) /\ Index' = Index
      BY <2>1, MassStays
    <2>. QED  BY <2>1, <2>2 DEF MassInv
  <1>. QED  BY <1>1, <1>2, <1>3, <1>4, <1>5, <1>6, <1>7 DEF Next, Round

\* The cycle's end finds the index as many rounds down as there can be.
LEMMA MassEndCycle ==
  ASSUME IInv, MassInv, EndCycle, began.due = began.keys
  PROVE  Cardinality(Index) = Left(MaxRounds)
  <1>1. pc = "round" /\ (round = MaxRounds \/ Index = {})
    BY DEF EndCycle
  <1>2. began.keys \subseteq Keys /\ Cardinality(Index) = Left(round)
    BY <1>1 DEF MassInv
  <1>3. round \in Nat /\ MaxRounds \in Nat /\ round <= MaxRounds
    BY ExpiryAssumption DEF IInv, TypeOK
  <1>4. CASE Index = {}
    <2>. DEFINE n == Cardinality(began.keys)
                taken == round * SampleSize
                most == MaxRounds * SampleSize
    <2>1. Cardinality(Index) = 0
      BY <1>4, FS_EmptySet
    <2>2. /\ n \in Nat /\ SampleSize \in Nat \ {0} /\ taken \in Nat
          /\ Left(round) = IF n - taken >= 0 THEN n - taken ELSE 0
      BY <1>2, <1>3, LeftIs
    <2>3. most \in Nat /\ Left(MaxRounds) = IF n - most >= 0 THEN n - most ELSE 0
      BY <1>2, <1>3, LeftIs
    <2>4. taken <= most
      <3>. DEFINE rest == (MaxRounds - round) * SampleSize
      <3>1. MaxRounds - round \in Nat
        BY <1>3
      <3>2. rest \in Nat
        BY <2>2, <3>1
      <3>3. most = taken + rest
        BY <1>3, <2>2
      <3>. HIDE DEF most, taken, rest
      <3>. QED  BY <2>2, <2>3, <3>2, <3>3
    <2>. HIDE DEF n, taken, most
    <2>5. n <= taken
      <3>1. n \in Nat /\ taken \in Nat /\ (n - taken >= 0 => n - taken = 0)
        <4>1. Left(round) = 0
          BY <1>2, <2>1
        <4>. QED  BY <2>2, <4>1
      <3>. QED  BY <3>1
    <2>6. n - most <= 0
      <3>1. n \in Nat /\ taken \in Nat /\ most \in Nat
        BY <2>2, <2>3
      <3>. QED  BY <3>1, <2>4, <2>5
    <2>. QED  BY <2>1, <2>2, <2>3, <2>6
  <1>. QED  BY <1>1, <1>2, <1>4

\* db.h:50: when everything with a deadline was due as a cycle began, the cycle ends with
\* MaxRounds samples of it gone, or all of it.
THEOREM MassExpiry == Spec => MassExpiryDrains
  <1>1. Init => MassInv
    BY DEF Init, MassInv
  <1>2. IInv /\ MassInv /\ [Next]_vars => MassInv'
    BY MassNext
  <1>3. IInv /\ MassInv /\ [Next]_vars =>
          [pc # "idle" /\ pc' = "idle" /\ began.due = began.keys =>
             Cardinality(Index') =
               Max({0, Cardinality(began.keys) - MaxRounds * SampleSize})]_vars
    <2>. SUFFICES ASSUME IInv, MassInv, Next, pc # "idle", pc' = "idle", began.due = began.keys
                  PROVE  Cardinality(Index') =
                           Max({0, Cardinality(began.keys) - MaxRounds * SampleSize})
      OBVIOUS
    <2>1. EndCycle \/ EndRound
      BY DEF Next, Traffic, Round, Clear, Renew, Lose, FallDue, Command, StartCycle, StartRound,
             Look, NextBucket, EndWalk, Reclaim, Walking
    <2>2. EndCycle
      BY <2>1, MassEndRound
    <2>3. Index' = Index
      BY <2>2 DEF EndCycle, index, Index
    <2>. QED  BY <2>2, <2>3, MassEndCycle DEF Left
  <1>. QED  BY <1>1, <1>2, <1>3, IsInvariant, PTL DEF Spec, MassExpiryDrains
=============================================================================
