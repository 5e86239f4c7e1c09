--------------------------- MODULE KeyspaceProofs ---------------------------
(***************************************************************************)
(* Proofs about Keyspace, for every set of keys and strings, every integer *)
(* width, sample size and round limit.                                     *)
(*                                                                         *)
(* The tables are correct when DbInv holds of them: they are well typed and*)
(* the volatile index is exact.  Each operation of class Db preserves DbInv*)
(* (one lemma each), every command is a composition of those operations,   *)
(* and so is every round of the expiry cycle; the clock may be set back.   *)
(*                                                                         *)
(* The rest assumes that it is not, as everything about deadlines must: an *)
(* entry that one reading finds dead is dead for the later ones.  Then the *)
(* operations are read twice: for what they do to an entry, from which the *)
(* two action properties follow, and for what they leave visible, from     *)
(* which each command is what LiveStore promises of it (the last section,  *)
(* and KeyspaceRefinement).                                                *)
(***************************************************************************)
EXTENDS Keyspace, NaturalsInduction, WellFoundedInduction, TLAPS

DbInv(d) == d \in DbType /\ IndexExact(d)

\* reclaim, erase and clear: dropping any keys from both tables keeps them correct.
LEMMA DropInv ==
  ASSUME NEW d, DbInv(d), NEW S
  PROVE  DbInv(Drop(d, S))
  BY DEF DbInv, Drop, DbType, IndexExact, HasExpiry

LEMMA LookupInv ==
  ASSUME NEW d, DbInv(d), NEW k \in Keys, NEW t
  PROVE  DbInv(Lookup(d, k, t))
  BY DropInv DEF Lookup

\* set_string keeps the tables correct whichever way the TTL changes.
LEMMA SetStringInv ==
  ASSUME NEW d, DbInv(d), NEW k \in Keys, NEW data \in Data, NEW e \in 0..IntMax
  PROVE  DbInv(SetString(d, k, data, e))
  <1>. DEFINE v == [data |-> data, expire_at_ms |-> e]
  <1>1. v \in Value /\ v # Missing
    BY KeyspaceAssumption DEF Value
  <1>2. v.expire_at_ms = e
    OBVIOUS
  <1>. HIDE DEF v
  <1>3. CASE e = NoExpiry
    <2>1. SetString(d, k, data, e) = [map |-> [d.map EXCEPT ![k] = v],
                                      volatile_keys |-> d.volatile_keys \ {k}]
      BY <1>3 DEF SetString, v
    <2>. QED  BY <2>1, <1>1, <1>2, <1>3 DEF DbInv, DbType, IndexExact, HasExpiry
  <1>4. CASE e # NoExpiry
    <2>1. SetString(d, k, data, e) = [map |-> [d.map EXCEPT ![k] = v],
                                      volatile_keys |-> d.volatile_keys \cup {k}]
      BY <1>4 DEF SetString, v
    <2>. QED  BY <2>1, <1>1, <1>2, <1>4 DEF DbInv, DbType, IndexExact, HasExpiry
  <1>. QED  BY <1>3, <1>4

LEMMA EraseInv ==
  ASSUME NEW d, DbInv(d), NEW k \in Keys, NEW t
  PROVE  DbInv(Erase(d, k, t))
  BY DropInv, LookupInv DEF Erase

\* set_expire_at inserts into the index without looking at the deadline: that is
\* correct because a deadline is never kNoExpiry.
LEMMA SetExpireAtInv ==
  ASSUME NEW d, DbInv(d), NEW k \in Keys, NEW e \in 1..IntMax, NEW t
  PROVE  DbInv(SetExpireAt(d, k, e, t))
  <1>1. CASE Live(d, k, t)
    <2>. DEFINE v == [d.map[k] EXCEPT !.expire_at_ms = e]
    <2>1. d.map[k] \in Value
      BY <1>1 DEF Live, DbInv, DbType
    <2>2. v \in Value /\ v # Missing /\ v.expire_at_ms = e /\ e \in 0..IntMax
      BY <2>1, KeyspaceAssumption DEF Value
    <2>. HIDE DEF v
    <2>3. SetExpireAt(d, k, e, t) = [map |-> [d.map EXCEPT ![k] = v],
                                     volatile_keys |-> d.volatile_keys \cup {k}]
      BY <1>1, <2>1 DEF SetExpireAt, v, DbInv, DbType
    <2>. QED  BY <2>2, <2>3 DEF DbInv, DbType, IndexExact, HasExpiry, NoExpiry
  <1>2. CASE ~Live(d, k, t)
    BY <1>2, LookupInv DEF SetExpireAt
  <1>. QED  BY <1>1, <1>2

LEMMA PersistInv ==
  ASSUME NEW d, DbInv(d), NEW k \in Keys, NEW t
  PROVE  DbInv(PersistDb(d, k, t))
  <1>1. CASE Persists(d, k, t)
    <2>. DEFINE v == [d.map[k] EXCEPT !.expire_at_ms = NoExpiry]
    <2>1. d.map[k] \in Value
      BY <1>1 DEF Persists, Live, DbInv, DbType
    <2>2. v \in Value /\ v # Missing /\ v.expire_at_ms = NoExpiry
      BY <2>1, KeyspaceAssumption DEF Value, NoExpiry
    <2>. HIDE DEF v
    <2>3. PersistDb(d, k, t) = [map |-> [d.map EXCEPT ![k] = v],
                                volatile_keys |-> d.volatile_keys \ {k}]
      BY <1>1, <2>1 DEF PersistDb, v, DbInv, DbType
    <2>. QED  BY <2>2, <2>3 DEF DbInv, DbType, IndexExact, HasExpiry
  <1>2. CASE ~Persists(d, k, t)
    BY <1>2, LookupInv DEF PersistDb
  <1>. QED  BY <1>1, <1>2

\* Rewriting a counter in place touches neither its deadline nor the index.
LEMMA BumpInv ==
  ASSUME NEW d, DbInv(d), NEW k \in Keys, d.map[k] # Missing, NEW n \in Numbers
  PROVE  DbInv(Bump(d, k, n))
  <1>. DEFINE v == [d.map[k] EXCEPT !.data = n]
  <1>1. d.map[k] \in Value
    BY DEF DbInv, DbType
  <1>2. v \in Value /\ v # Missing /\ v.expire_at_ms = d.map[k].expire_at_ms
    BY <1>1, KeyspaceAssumption DEF Value, Data
  <1>. HIDE DEF v
  <1>3. Bump(d, k, n) = [map |-> [d.map EXCEPT ![k] = v], volatile_keys |-> d.volatile_keys]
    BY <1>1 DEF Bump, v, DbInv, DbType
  <1>. QED  BY <1>2, <1>3 DEF DbInv, DbType, IndexExact, HasExpiry

-----------------------------------------------------------------------------
\* ttl_to_deadline: a positive TTL that passes the overflow tests gives a deadline
\* that is positive (so never kNoExpiry), after now, and within the integer range.
LEMMA DeadlineRange ==
  ASSUME NEW a \in Int, a > 0, NEW u \in Nat \ {0}, NEW now \in Times, TtlFits(a, u, now)
  PROVE  /\ TtlToDeadline(a, u, now) \in 1..IntMax
         /\ TtlToDeadline(a, u, now) > now
  <1>. DEFINE delta == a * u
  <1>1. delta \in Int /\ delta > 0
    OBVIOUS
  <1>2. now <= IntMax - delta
    BY <1>1 DEF TtlFits
  <1>3. TtlToDeadline(a, u, now) = now + delta
    BY DEF TtlToDeadline
  <1>. HIDE DEF delta
  <1>. QED  BY <1>1, <1>2, <1>3, KeyspaceAssumption DEF Times

LEMMA ReadingsAreTimes ==
  ASSUME NEW t PROVE Readings(t) \subseteq Times
  BY DEF Readings

\* The inductive invariant: the clock and the counter have their types and the
\* tables are correct.  The index is exact only because no deadline is kNoExpiry,
\* and that rests on the clock being positive.
IInv == DbInv(db) /\ clock \in Times /\ round \in 0..MaxRounds

LEMMA InitInv == Init => IInv
  BY KeyspaceAssumption
     DEF Init, IInv, DbInv, EmptyDb, DbType, IndexExact

\* SET: both the refused and the accepted forms.
LEMMA SetStep ==
  ASSUME IInv, NEW cmd, NEW k \in Keys, NEW data \in Data, NEW unit \in Nat, NEW amount \in Int,
         unit # 0 => amount > 0, Set(cmd, k, data, unit, amount)
  PROVE  IInv'
  <1>1. PICK t1 \in Times, t2 \in Times :
          /\ clock' = t2
          /\ round' = round
          /\ \/ db' = Lookup(db, k, t1)
             \/ /\ unit # 0 => TtlFits(amount, unit, t2)
                /\ db' = SetString(Lookup(db, k, t1), k, data,
                           IF unit = 0 THEN NoExpiry ELSE TtlToDeadline(amount, unit, t2))
    BY ReadingsAreTimes DEF Set, Answer
  <1>3. DbInv(Lookup(db, k, t1))
    BY LookupInv DEF IInv
  <1>4. ASSUME unit # 0 => TtlFits(amount, unit, t2)
        PROVE  (IF unit = 0 THEN NoExpiry ELSE TtlToDeadline(amount, unit, t2)) \in 0..IntMax
    <2>1. CASE unit = 0
      BY <2>1, KeyspaceAssumption DEF NoExpiry
    <2>2. CASE unit # 0
      BY <2>2, <1>4, DeadlineRange, KeyspaceAssumption
    <2>. QED  BY <2>1, <2>2
  <1>5. DbInv(db')
    BY <1>1, <1>3, <1>4, SetStringInv
  <1>. QED  BY <1>1, <1>5 DEF IInv, DbInv, IndexExact

\* EXPIRE: every one of its four outcomes.
LEMMA ExpireStep ==
  ASSUME IInv, NEW k \in Keys, NEW seconds \in Int, Expire(k, seconds)
  PROVE  IInv'
  <1>1. PICK t1 \in Times, t2 \in Times, t3 \in Times :
          /\ round' = round
          /\ clock' \in {t1, t2, t3}
          /\ \/ db' = Lookup(db, k, t1)
             \/ db' = Erase(Lookup(db, k, t1), k, t2)
             \/ /\ seconds > 0 /\ TtlFits(seconds, UnitMs, t2)
                /\ db' = SetExpireAt(Lookup(db, k, t1), k,
                                     TtlToDeadline(seconds, UnitMs, t2), t3)
    BY ReadingsAreTimes DEF Expire, Answer
  <1>3. DbInv(Lookup(db, k, t1))
    BY LookupInv DEF IInv
  <1>4. seconds > 0 /\ TtlFits(seconds, UnitMs, t2) =>
          TtlToDeadline(seconds, UnitMs, t2) \in 1..IntMax
    BY DeadlineRange, KeyspaceAssumption
  <1>5. DbInv(db')
    BY <1>1, <1>3, <1>4, EraseInv, SetExpireAtInv
  <1>. QED  BY <1>1, <1>5 DEF IInv, DbInv, IndexExact

\* INCR and DECR.
LEMMA IncrStep ==
  ASSUME IInv, NEW cmd, NEW k \in Keys, NEW delta \in {-1, 1}, IncrBy(cmd, k, delta)
  PROVE  IInv'
  <1>1. PICK t \in Times :
          /\ round' = round
          /\ clock' = t
          /\ \/ db' = SetString(Lookup(db, k, t), k, delta, NoExpiry)
             \/ db' = db
             \/ /\ db.map[k] # Missing
                /\ db.map[k].data + delta \in Numbers
                /\ db' = Bump(db, k, db.map[k].data + delta)
    BY ReadingsAreTimes DEF IncrBy, Answer, Live
  <1>3. DbInv(Lookup(db, k, t)) /\ DbInv(db)
    BY LookupInv DEF IInv
  <1>4. delta \in Data /\ NoExpiry \in 0..IntMax
    BY KeyspaceAssumption DEF Data, NoExpiry
  <1>5. DbInv(db')
    BY <1>1, <1>3, <1>4, SetStringInv, BumpInv
  <1>. QED  BY <1>1, <1>5 DEF IInv, DbInv, IndexExact

\* A round of active_expire_cycle, the last one or not.
LEMMA RoundStep ==
  ASSUME IInv, ExpireRound
  PROVE  IInv'
  <1>1. CASE db.volatile_keys = {}
    BY <1>1, KeyspaceAssumption DEF ExpireRound, IInv, DbInv, IndexExact
  <1>2. CASE db.volatile_keys # {}
    <2>1. PICK now \in Times, S \in Samples(db) :
            /\ clock' = now
            /\ db' = Drop(db, Doomed(db, S, now))
            /\ round' \in {0, round + 1} /\ (round = MaxRounds => round' = 0)
      BY <1>2, ReadingsAreTimes DEF ExpireRound
    <2>3. DbInv(db')
      BY <2>1, DropInv DEF IInv
    <2>4. round' \in 0..MaxRounds
      BY <2>1, KeyspaceAssumption DEF IInv
    <2>. QED  BY <2>1, <2>3, <2>4 DEF IInv, DbInv, IndexExact
  <1>. QED  BY <1>1, <1>2

\* DEL and EXISTS, whatever their arguments and the readings of the clock.
LEMMA ManyKeysStep ==
  ASSUME IInv, NEW ks \in KeySeqs, Del(ks) \/ Exists(ks)
  PROVE  IInv'
  <1>1. PICK n \in 1..MaxArgs : ks \in [1..n -> Keys]
    BY DEF KeySeqs
  <1>2. Len(ks) = n /\ n \in 1..n
    BY <1>1, KeyspaceAssumption
  <1>3. PICK ts \in ReadingSeqs(Len(ks), clock), S \in SUBSET Keys :
          clock' = ts[Len(ks)] /\ round' = round /\ db' = Drop(db, S)
    <2>1. CASE Del(ks)
      <3>1. KeysOf(ks) \in SUBSET Keys
        BY <1>1 DEF KeysOf
      <3>. QED  BY <2>1, <3>1 DEF Del, Answer
    <2>2. CASE Exists(ks)
      <3>1. \A ts : ReclaimedBy(db, ks, ts, Len(ks)) \in SUBSET Keys
        BY <1>1, <1>2 DEF ReclaimedBy
      <3>. QED  BY <2>2, <3>1 DEF Exists, Answer
    <2>. QED  BY <2>1, <2>2
  <1>4. clock' \in Times
    BY <1>2, <1>3 DEF ReadingSeqs
  <1>5. DbInv(db')
    BY <1>3, DropInv DEF IInv
  <1>. QED  BY <1>3, <1>4, <1>5 DEF IInv, DbInv, IndexExact

\* Every step, of a command or of the expiry cycle, preserves the invariant.
LEMMA NextInv == IInv /\ [Next]_vars => IInv'
  <1>. SUFFICES ASSUME IInv, [Next]_vars PROVE IInv'
    OBVIOUS
  <1>. USE DEF Answer
  <1>1. CASE Refuse \/ DbSize
    BY <1>1 DEF Refuse, DbSize, IInv, DbInv, IndexExact
  <1>2. CASE FlushAll
    <2>1. DbInv(EmptyDb)
      BY DEF DbInv, EmptyDb, DbType, IndexExact
    <2>. QED  BY <1>2, <2>1 DEF FlushAll, IInv, DbInv, IndexExact
  <1>3. ASSUME NEW k \in Keys, Get(k) \/ Type(k) \/ Ttl(k)
        PROVE  IInv'
    <2>1. PICK t1 \in Times, t2 \in Times :
            clock' = t2 /\ round' = round /\ db' = Lookup(db, k, t1)
      BY <1>3, ReadingsAreTimes DEF Get, Type, Ttl
    <2>2. DbInv(db')
      BY <2>1, LookupInv DEF IInv
    <2>. QED  BY <2>1, <2>2 DEF IInv, DbInv, IndexExact
  <1>4. ASSUME NEW k \in Keys, Persist(k)
        PROVE  IInv'
    <2>1. PICK t \in Times : clock' = t /\ round' = round /\ db' = PersistDb(db, k, t)
      BY <1>4, ReadingsAreTimes DEF Persist
    <2>2. DbInv(db')
      BY <2>1, PersistInv DEF IInv
    <2>. QED  BY <2>1, <2>2 DEF IInv, DbInv, IndexExact
  <1>5. ASSUME NEW k \in Keys, IncrBy("incr", k, 1) \/ IncrBy("decr", k, -1)
        PROVE  IInv'
    BY <1>5, IncrStep
  <1>6. ASSUME NEW k \in Keys, NEW seconds \in Amounts, Expire(k, seconds)
        PROVE  IInv'
    <2>1. seconds \in Int
      BY KeyspaceAssumption DEF IntMin
    <2>. QED  BY <1>6, <2>1, ExpireStep
  <1>7. ASSUME NEW k \in Keys, NEW cmd \in {"set", "setnx", "setxx"}, NEW data \in Data,
               \/ Set(cmd, k, data, 0, 0)
               \/ \E unit \in {1, UnitMs}, amount \in Amounts :
                    amount > 0 /\ Set(cmd, k, data, unit, amount)
        PROVE  IInv'
    <2>1. CASE Set(cmd, k, data, 0, 0)
      BY <2>1, SetStep
    <2>2. ASSUME NEW unit \in {1, UnitMs}, NEW amount \in Amounts, amount > 0,
                 Set(cmd, k, data, unit, amount)
          PROVE  IInv'
      <3>1. amount \in Int /\ unit \in Nat
        BY KeyspaceAssumption DEF IntMin
      <3>. QED  BY <2>2, <3>1, SetStep
    <2>. QED  BY <1>7, <2>1, <2>2
  <1>8. ASSUME NEW ks \in KeySeqs, Del(ks) \/ Exists(ks)
        PROVE  IInv'
    BY <1>8, ManyKeysStep
  <1>9. CASE StartCycle
    BY <1>9, KeyspaceAssumption DEF StartCycle, IInv, DbInv, IndexExact
  <1>10. CASE ExpireRound
    BY <1>10, RoundStep
  <1>11. CASE UNCHANGED vars
    BY <1>11 DEF vars, IInv, DbInv, IndexExact
  <1>. QED
    BY <1>1, <1>2, <1>3, <1>4, <1>5, <1>6, <1>7, <1>8, <1>9, <1>10, <1>11 DEF Next, Command

LEMMA InvAlways == Spec => []IInv
  BY InitInv, NextInv, PTL DEF Spec

\* Type correctness of the keyspace for every instance: in particular no deadline is
\* ever stored that is zero by accident, negative, or past the integer range.
THEOREM TypeCorrect == Spec => []TypeOK
  <1>1. IInv => TypeOK
    BY DEF IInv, DbInv, TypeOK
  <1>. QED  BY <1>1, InvAlways, PTL

\* The volatile index holds exactly the keys with a deadline, after every command and
\* every round of the expiry cycle, in every instance, even if the clock is set back.
THEOREM IndexCorrect == Spec => []VolatileIndexExact
  <1>1. IInv => VolatileIndexExact
    BY DEF IInv, DbInv, VolatileIndexExact
  <1>. QED  BY <1>1, InvAlways, PTL

-----------------------------------------------------------------------------
(* The clock, when nobody sets it back.                                    *)

ClockForward == StepBack = FALSE

LEMMA LaterReadings ==
  ASSUME ClockForward, NEW t \in Times, NEW u \in Readings(t)
  PROVE  u \in Times /\ t <= u
  BY DEF ClockForward, Readings

LEMMA TimesAreNat == Times \subseteq Nat /\ Times \subseteq Int
  BY KeyspaceAssumption DEF Times

LEMMA TwoReadings ==
  ASSUME ClockForward, IInv, NEW t1 \in Readings(clock), NEW t2 \in Readings(t1)
  PROVE  /\ clock \in Times /\ t1 \in Times /\ t2 \in Times
         /\ clock <= t1 /\ t1 <= t2 /\ clock <= t2 /\ t2 <= t2
  <1>1. clock \in Times
    BY DEF IInv
  <1>2. t1 \in Times /\ clock <= t1
    BY <1>1, LaterReadings
  <1>3. t2 \in Times /\ t1 <= t2
    BY <1>2, LaterReadings
  <1>. QED  BY <1>1, <1>2, <1>3, TimesAreNat

LEMMA OneReading ==
  ASSUME ClockForward, IInv, NEW t \in Readings(clock), clock' = t
  PROVE  /\ clock \in Times /\ t \in Times /\ clock' \in Times
         /\ clock <= t /\ t <= clock' /\ clock <= clock'
  <1>1. clock \in Times
    BY DEF IInv
  <1>2. t \in Times /\ clock <= t
    BY <1>1, LaterReadings
  <1>3. t <= t
    BY <1>2, TimesAreNat
  <1>. QED  BY <1>1, <1>2, <1>3

LEMMA EntryType ==
  ASSUME NEW d, DbInv(d), NEW k \in Keys, d.map[k] # Missing
  PROVE  /\ d.map[k] \in Value
         /\ d.map[k].expire_at_ms \in Nat /\ d.map[k].data \in Data
         /\ d.map[k] = [data |-> d.map[k].data, expire_at_ms |-> d.map[k].expire_at_ms]
  BY KeyspaceAssumption DEF DbInv, DbType, Value

\* An entry that is dead stays dead, one that is alive was alive before.
LEMMA DeathIsFinal ==
  ASSUME NEW d, DbInv(d), NEW k \in Keys, NEW t \in Times, NEW u \in Times, t <= u
  PROVE  /\ Expired(d, k, t) => Expired(d, k, u)
         /\ Live(d, k, u) => Live(d, k, t)
  <1>1. CASE d.map[k] = Missing
    BY <1>1 DEF Expired, Live
  <1>2. CASE d.map[k] # Missing
    <2>1. d.map[k].expire_at_ms \in Nat
      BY <1>2, EntryType
    <2>. QED  BY <2>1, TimesAreNat DEF Expired, Live, IsExpired
  <1>. QED  BY <1>1, <1>2

-----------------------------------------------------------------------------
(* Commands with several keys read the clock once for each.              *)

LEMMA LeastExists ==
  ASSUME NEW S, S \subseteq Nat, S # {}
  PROVE  \E x \in S : \A y \in S : x <= y
  <1>. DEFINE Less == {ss \in Nat \X Nat : ss[1] < ss[2]}
  <1>1. IsWellFoundedOn(Less, Nat)
    BY NatLessThanWellFounded DEF OpToRel
  <1>2. \E x \in S : \A y \in S : <<y, x>> \notin Less
    <2>. HIDE DEF Less
    <2>. QED  BY <1>1, WFMin, Zenon
  <1>3. PICK x \in S : \A y \in S : <<y, x>> \notin Less
    BY <1>2
  <1>4. ASSUME NEW y \in S PROVE x <= y
    <2>1. x \in Nat /\ y \in Nat /\ <<y, x>> \notin Less
      BY <1>3
    <2>2. ~(y < x)
      BY <2>1
    <2>. QED  BY <2>1, <2>2
  <1>. QED  BY <1>4

\* The readings of a command with several arguments lie between its start and its end.
LEMMA ReadingsInOrder ==
  ASSUME ClockForward, NEW t \in Times, NEW n \in Nat \ {0}, NEW ts \in ReadingSeqs(n, t)
  PROVE  \A i \in 1..n : ts[i] \in Times /\ t <= ts[i] /\ ts[i] <= ts[n]
  <1>1. \A i \in 1..n : ts[i] \in Times
    BY DEF ReadingSeqs
  <1>2. t <= ts[1]
    BY <1>1 DEF ReadingSeqs, Readings, ClockForward
  <1>3. ASSUME NEW i \in 2..n PROVE ts[i - 1] <= ts[i]
    <2>1. i \in 1..n /\ i # 1
      OBVIOUS
    <2>. QED  BY <2>1 DEF ReadingSeqs, Readings, ClockForward
  <1>4. \A i \in 1..n : t <= ts[i]
    <2>. DEFINE Early == {i \in 1..n : ~(t <= ts[i])}
    <2>1. SUFFICES ASSUME Early # {} PROVE FALSE
      OBVIOUS
    <2>2. Early \subseteq Nat
      OBVIOUS
    <2>3. PICK i \in Early : \A j \in Early : i <= j
      <3>. HIDE DEF Early
      <3>. QED  BY <2>1, <2>2, LeastExists
    <2>4. i \in 2..n
      BY <1>2
    <2>5. i - 1 \notin Early /\ i - 1 \in 1..n
      BY <2>3, <2>4
    <2>6. t <= ts[i - 1] /\ ts[i - 1] <= ts[i] /\ ~(t <= ts[i])
      BY <2>3, <2>4, <2>5, <1>3
    <2>7. t \in Nat /\ ts[i] \in Nat /\ ts[i - 1] \in Nat
      BY <2>4, <2>5, <1>1, TimesAreNat
    <2>. QED  BY <2>6, <2>7
  <1>5. \A i \in 1..n : ts[i] <= ts[n]
    <2>. DEFINE Late == {m \in 0..(n - 1) : ~(ts[n - m] <= ts[n])}
    <2>1. SUFFICES ASSUME Late # {} PROVE FALSE
      <3>1. ASSUME NEW i \in 1..n, ~(ts[i] <= ts[n]) PROVE n - i \in Late
        <4>1. n - i \in 0..(n - 1) /\ n - (n - i) = i
          OBVIOUS
        <4>. QED  BY <4>1, <3>1
      <3>. QED  BY <3>1
    <2>2. Late \subseteq Nat
      OBVIOUS
    <2>3. PICK m \in Late : \A j \in Late : m <= j
      <3>. HIDE DEF Late
      <3>. QED  BY <2>1, <2>2, LeastExists
    <2>4. m # 0
      <3>1. n \in 1..n /\ n - 0 = n
        OBVIOUS
      <3>2. ts[n] \in Nat
        BY <3>1, <1>1, TimesAreNat
      <3>. QED  BY <3>1, <3>2, <2>3
    <2>5. m - 1 \notin Late /\ m - 1 \in 0..(n - 1)
      BY <2>3, <2>4
    <2>6. n - m + 1 \in 2..n /\ (n - m + 1) - 1 = n - m /\ n - (m - 1) = n - m + 1
      BY <2>4
    <2>7. ts[n - (m - 1)] <= ts[n]
      BY <2>5
    <2>8. ts[n - m] <= ts[n - m + 1]
      BY <2>6, <1>3
    <2>9. ts[n - m] \in Nat /\ ts[n - m + 1] \in Nat /\ ts[n] \in Nat
      <3>1. n - m \in 1..n /\ n - m + 1 \in 1..n /\ n \in 1..n
        BY <2>4
      <3>. QED  BY <3>1, <1>1, TimesAreNat
    <2>10. ~(ts[n - m] <= ts[n]) /\ ts[n - m + 1] <= ts[n]
      BY <2>3, <2>6, <2>7
    <2>. QED  BY <2>8, <2>9, <2>10
  <1>. QED  BY <1>1, <1>4, <1>5

LEMMA Arguments ==
  ASSUME NEW ks \in KeySeqs
  PROVE  /\ Len(ks) \in Nat \ {0} /\ ks \in [1..Len(ks) -> Keys] /\ DOMAIN ks = 1..Len(ks)
         /\ KeysOf(ks) \subseteq Keys
  <1>1. PICK n \in 1..MaxArgs : ks \in [1..n -> Keys]
    BY DEF KeySeqs
  <1>2. Len(ks) = n /\ n \in Nat \ {0}
    BY <1>1, KeyspaceAssumption
  <1>. QED  BY <1>1, <1>2 DEF KeysOf

\* The keys that the readings of EXISTS reclaim are dead when it ends, and the others
\* it found were alive when it began.
LEMMA Reclaimed ==
  ASSUME ClockForward, IInv, NEW ks \in KeySeqs, NEW ts \in ReadingSeqs(Len(ks), clock),
         clock' = ts[Len(ks)]
  PROVE  /\ clock' \in Times /\ clock <= clock'
         /\ \A i \in 1..Len(ks) : ts[i] \in Times /\ clock <= ts[i] /\ ts[i] <= clock'
         /\ \A i \in 1..Len(ks) : \A k \in ReclaimedBy(db, ks, ts, i) :
              k \in Keys /\ Expired(db, k, clock')
  <1>1. Len(ks) \in Nat \ {0} /\ ks \in [1..Len(ks) -> Keys] /\ Len(ks) \in 1..Len(ks)
    BY Arguments
  <1>2. clock \in Times /\ DbInv(db)
    BY DEF IInv
  <1>3. \A i \in 1..Len(ks) : ts[i] \in Times /\ clock <= ts[i] /\ ts[i] <= clock'
    BY <1>1, <1>2, ReadingsInOrder
  <1>4. clock' \in Times /\ clock <= clock'
    BY <1>1, <1>3
  <1>5. ASSUME NEW i \in 1..Len(ks), NEW k \in ReclaimedBy(db, ks, ts, i)
        PROVE  k \in Keys /\ Expired(db, k, clock')
    <2>1. PICK j \in 1..i : k = ks[j] /\ Expired(db, ks[j], ts[j])
      BY DEF ReclaimedBy
    <2>2. j \in 1..Len(ks)
      BY <1>1
    <2>3. ks[j] \in Keys /\ ts[j] \in Times /\ ts[j] <= clock'
      BY <1>1, <1>3, <2>2
    <2>. QED  BY <1>2, <1>4, <2>1, <2>3, DeathIsFinal
  <1>. QED  BY <1>3, <1>4, <1>5

-----------------------------------------------------------------------------
(* What the operations of class Db do to what is seen.                     *)

\* What the tables d look like at the instant u.
Seen(d, u) == [k \in Keys |-> IF Live(d, k, u) THEN d.map[k] ELSE Missing]

LEMMA SeenDrop ==
  ASSUME NEW d, NEW S, NEW u
  PROVE  Seen(Drop(d, S), u) = [k \in Keys |-> IF k \in S THEN Missing ELSE Seen(d, u)[k]]
  BY DEF Seen, Drop, Live

\* Collecting entries that are dead does not show.
LEMMA SeenCollect ==
  ASSUME NEW d, NEW S, NEW u, \A k \in Keys \cap S : ~Live(d, k, u)
  PROVE  Seen(Drop(d, S), u) = Seen(d, u)
  BY DEF Seen, Drop, Live

LEMMA SeenLookup ==
  ASSUME NEW d, DbInv(d), NEW k \in Keys, NEW t \in Times, NEW u \in Times, t <= u
  PROVE  /\ Seen(Lookup(d, k, t), u) = Seen(d, u)
         /\ Live(d, k, t) => Lookup(d, k, t) = d
  <1>1. CASE Expired(d, k, t)
    <2>1. ~Live(d, k, u) /\ ~Live(d, k, t)
      BY <1>1, DeathIsFinal DEF Expired, Live
    <2>. QED  BY <1>1, <2>1, SeenCollect DEF Lookup
  <1>2. CASE ~Expired(d, k, t)
    BY <1>2 DEF Lookup
  <1>. QED  BY <1>1, <1>2

\* An entry written by set_string and still alive is what is seen of its key.
LEMMA SeenSetString ==
  ASSUME NEW d, DbInv(d), NEW k \in Keys, NEW data \in Data, NEW e \in 0..IntMax, NEW u \in Times,
         e = NoExpiry \/ e > u
  PROVE  Seen(SetString(d, k, data, e), u) =
           [Seen(d, u) EXCEPT ![k] = [data |-> data, expire_at_ms |-> e]]
  <1>. DEFINE v == [data |-> data, expire_at_ms |-> e]  d2 == SetString(d, k, data, e)
  <1>1. v # Missing /\ v.expire_at_ms = e
    BY KeyspaceAssumption DEF Value
  <1>2. d2.map = [d.map EXCEPT ![k] = v] /\ DOMAIN d.map = Keys
    BY DEF SetString, DbInv, DbType
  <1>3. e \in Int /\ u \in Int
    BY KeyspaceAssumption, TimesAreNat
  <1>. HIDE DEF v, d2
  <1>4. Live(d2, k, u) /\ d2.map[k] = v
    BY <1>1, <1>2, <1>3 DEF Live, IsExpired, HasExpiry
  <1>5. \A j \in Keys : j # k => d2.map[j] = d.map[j] /\ Live(d2, j, u) = Live(d, j, u)
    BY <1>2 DEF Live
  <1>6. Seen(d2, u) = [Seen(d, u) EXCEPT ![k] = v]
    BY <1>4, <1>5 DEF Seen
  <1>. QED  BY <1>6 DEF v, d2

\* Changing one half of a live entry in place, as EXPIRE, PERSIST and INCR do.
LEMMA SeenRewrite ==
  ASSUME NEW d, DbInv(d), NEW d2, NEW k \in Keys, NEW v \in Value, NEW u,
         d2.map = [d.map EXCEPT ![k] = v]
  PROVE  Seen(d2, u) = [Seen(d, u) EXCEPT ![k] = IF IsExpired(v, u) THEN Missing ELSE v]
  <1>1. v # Missing /\ DOMAIN d.map = Keys
    BY KeyspaceAssumption DEF DbInv, DbType
  <1>2. d2.map[k] = v /\ Live(d2, k, u) = ~IsExpired(v, u)
    BY <1>1 DEF Live, IsExpired, HasExpiry
  <1>3. \A j \in Keys : j # k => d2.map[j] = d.map[j] /\ Live(d2, j, u) = Live(d, j, u)
    BY <1>1 DEF Live
  <1>. QED  BY <1>2, <1>3 DEF Seen

-----------------------------------------------------------------------------
(* The promise, read on the visible store.                                 *)

LEMMA LivesAtIsLive ==
  ASSUME IInv, NEW k \in Keys, NEW u \in Times, clock <= u
  PROVE  /\ Promise!LivesAt(Visible[k], u) <=> Live(db, k, u)
         /\ Live(db, k, u) => Visible[k] = db.map[k]
  <1>1. CASE db.map[k] = Missing
    BY <1>1 DEF Visible, Live, Promise!LivesAt
  <1>2. CASE db.map[k] # Missing
    <2>1. db.map[k].expire_at_ms \in Nat /\ clock \in Nat /\ u \in Nat
      BY <1>2, EntryType, TimesAreNat DEF IInv
    <2>2. Visible[k] = IF Live(db, k, clock) THEN db.map[k] ELSE Missing
      BY DEF Visible
    <2>. QED  BY <1>2, <2>1, <2>2 DEF Live, IsExpired, HasExpiry, NoExpiry, Promise!LivesAt
  <1>. QED  BY <1>1, <1>2

LEMMA PruneVisible ==
  ASSUME IInv, NEW u \in Times, clock <= u
  PROVE  Promise!Prune(Visible, u) = Seen(db, u)
  BY LivesAtIsLive DEF Promise!Prune, Seen

LEMMA PruneWithout ==
  ASSUME IInv, NEW u \in Times, clock <= u, NEW S
  PROVE  Promise!Prune(Promise!Without(S), u) = Seen(Drop(db, S), u)
  <1>1. ASSUME NEW k \in Keys
        PROVE  Promise!Without(S)[k] = IF k \in S THEN Missing ELSE Visible[k]
    BY DEF Promise!Without
  <1>2. ~Promise!LivesAt(Missing, u)
    BY DEF Promise!LivesAt
  <1>3. ASSUME NEW k \in Keys
        PROVE  (IF Promise!LivesAt(Promise!Without(S)[k], u) THEN Promise!Without(S)[k] ELSE Missing)
                 = IF k \in S THEN Missing ELSE Seen(db, u)[k]
    BY <1>1, <1>2, LivesAtIsLive DEF Seen
  <1>. QED  BY <1>3, SeenDrop DEF Promise!Prune

LEMMA PruneExcept ==
  ASSUME IInv, NEW u \in Times, clock <= u, NEW k \in Keys, NEW v \in Value
  PROVE  Promise!Prune([Visible EXCEPT ![k] = v], u) =
           [Seen(db, u) EXCEPT ![k] = IF IsExpired(v, u) THEN Missing ELSE v]
  <1>. DEFINE s == [Visible EXCEPT ![k] = v]
  <1>1. s[k] = v /\ \A j \in Keys : j # k => s[j] = Visible[j]
    BY DEF Visible
  <1>2. Promise!LivesAt(v, u) <=> ~IsExpired(v, u)
    BY KeyspaceAssumption, TimesAreNat DEF Promise!LivesAt, IsExpired, HasExpiry, NoExpiry, Value
  <1>. HIDE DEF s
  <1>3. Promise!Prune(s, u) = [Seen(db, u) EXCEPT ![k] = IF IsExpired(v, u) THEN Missing ELSE v]
    BY <1>1, <1>2, LivesAtIsLive DEF Promise!Prune, Seen
  <1>. QED  BY <1>3 DEF s

LEMMA RewriteKeeps ==
  ASSUME IInv, clock' \in Times, clock <= clock', NEW k \in Keys, NEW v \in Value,
         db'.map = [db.map EXCEPT ![k] = v]
  PROVE  Promise!Prune([Visible EXCEPT ![k] = v], clock') = Seen(db', clock')
  <1>1. DbInv(db)
    BY DEF IInv
  <1>2. Seen(db', clock') = [Seen(db, clock') EXCEPT ![k] = IF IsExpired(v, clock') THEN Missing ELSE v]
    BY <1>1, SeenRewrite
  <1>3. Promise!Prune([Visible EXCEPT ![k] = v], clock') =
          [Seen(db, clock') EXCEPT ![k] = IF IsExpired(v, clock') THEN Missing ELSE v]
    BY PruneExcept
  <1>. QED  BY <1>2, <1>3, Zenon

LEMMA VisibleThen == Visible' = Seen(db', clock')
  BY DEF Visible, Seen, Live

\* A step that leaves the tables, at its end, looking as they did keeps its promise to
\* leave the store alone but for what has died.
LEMMA LeavesAlone ==
  ASSUME IInv, clock' \in Times, clock <= clock', Seen(db', clock') = Seen(db, clock')
  PROVE  Promise!Leaves(Visible)
  BY PruneVisible, VisibleThen DEF Promise!Leaves

LEMMA LeavesLookup ==
  ASSUME IInv, NEW k \in Keys, NEW t \in Times, clock <= t, t <= clock', clock' \in Times,
         db' = Lookup(db, k, t)
  PROVE  Promise!Leaves(Visible)
  <1>1. clock <= clock'
    BY TimesAreNat DEF IInv
  <1>. QED  BY <1>1, SeenLookup, LeavesAlone DEF IInv

LEMMA Replies ==
  ASSUME NEW cmd, NEW ks, NEW reply, Answer(cmd, ks, reply)
  PROVE  Promise!Says(cmd, ks, reply) /\ Promise!Ran(cmd, ks) /\ last'.keys = ks /\ last'.cmd = cmd
  BY DEF Answer, Promise!Says, Promise!Ran

LEMMA InstantsAre ==
  ASSUME IInv, NEW t \in Times, clock <= t, t <= clock', clock' \in Times
  PROVE  t \in Promise!Instants
  BY TimesAreNat DEF IInv, Promise!Instants

-----------------------------------------------------------------------------
(* What a step does to an entry.                                           *)

Kept(k) ==
  \/ db'.map[k] = db.map[k]
  \/ db'.map[k] = Missing /\ Expired(db, k, clock')

Vanishes(k) ==
  db.map[k] # Missing /\ db'.map[k] = Missing =>
    \/ IsExpired(db.map[k], clock')
    \/ last'.cmd \in {"del", "expire_past"} /\ k \in KeysOf(last'.keys)
    \/ last'.cmd = "flushall"

Changes(k) ==
  Live(db, k, clock') /\ db'.map[k] # Missing =>
    LET named(cmds) == last'.cmd \in cmds /\ k \in KeysOf(last'.keys) IN
    /\ \/ db'.map[k].expire_at_ms = db.map[k].expire_at_ms
       \/ named({"set", "setnx", "setxx", "expire", "persist"})
    /\ \/ db'.map[k].data = db.map[k].data
       \/ named({"set", "setnx", "setxx", "incr", "decr"})

LEMMA KeptIsKept ==
  ASSUME NEW k, Kept(k)
  PROVE  Vanishes(k) /\ Changes(k)
  BY DEF Kept, Vanishes, Changes, Expired

LEMMA LookupKept ==
  ASSUME IInv, NEW k \in Keys, NEW t \in Times, clock' \in Times, t <= clock', NEW j \in Keys
  PROVE  /\ \/ Lookup(db, k, t).map[j] = db.map[j]
            \/ Lookup(db, k, t).map[j] = Missing /\ Expired(db, j, clock')
         /\ j # k => Lookup(db, k, t).map[j] = db.map[j]
  <1>1. Expired(db, k, t) => Expired(db, k, clock')
    BY DeathIsFinal DEF IInv
  <1>. QED  BY <1>1 DEF Lookup, Drop

LEMMA OneKey ==
  ASSUME NEW cmd, NEW k, NEW reply, Answer(cmd, <<k>>, reply)
  PROVE  last'.cmd = cmd /\ k \in KeysOf(last'.keys)
  <1>1. last'.cmd = cmd /\ last'.keys = <<k>>
    BY DEF Answer
  <1>2. 1 \in DOMAIN <<k>> /\ <<k>>[1] = k
    OBVIOUS
  <1>. QED  BY <1>1, <1>2 DEF KeysOf

\* Whatever set_string is given, the key it names is there afterwards.
LEMMA SetStringKept ==
  ASSUME IInv, NEW k \in Keys, NEW t \in Times, clock' \in Times, t <= clock',
         NEW data \in Data, NEW e \in 0..IntMax,
         db' = SetString(Lookup(db, k, t), k, data, e), NEW j \in Keys
  PROVE  /\ j # k => Kept(j)
         /\ db'.map[k] # Missing
  <1>1. DbInv(Lookup(db, k, t)) /\ DbInv(db')
    BY LookupInv, SetStringInv DEF IInv
  <1>2. [data |-> data, expire_at_ms |-> e] # Missing
    BY KeyspaceAssumption DEF Value
  <1>3. db'.map = [Lookup(db, k, t).map EXCEPT ![k] = [data |-> data, expire_at_ms |-> e]]
    BY DEF SetString
  <1>4. DOMAIN Lookup(db, k, t).map = Keys
    BY <1>1 DEF DbInv, DbType
  <1>5. /\ db'.map[k] = [data |-> data, expire_at_ms |-> e]
        /\ j # k => db'.map[j] = Lookup(db, k, t).map[j]
    BY <1>3, <1>4, Zenon
  <1>. QED  BY <1>2, <1>5, LookupKept, Zenon DEF Kept

LEMMA SetFate ==
  ASSUME ClockForward, IInv, NEW cmd \in {"set", "setnx", "setxx"}, NEW k \in Keys, NEW data \in Data,
         NEW unit, NEW amount,
         unit # 0 => unit \in Nat \ {0} /\ amount \in Int /\ amount > 0,
         Set(cmd, k, data, unit, amount), NEW j \in Keys
  PROVE  Vanishes(j) /\ Changes(j)
  <1>. DEFINE Ends(t1, t2) ==
                /\ clock' = t2
                /\ \E reply : Answer(cmd, <<k>>, reply)
                /\ \/ db' = Lookup(db, k, t1)
                   \/ /\ unit # 0 => TtlFits(amount, unit, t2)
                      /\ db' = SetString(Lookup(db, k, t1), k, data,
                                 IF unit = 0 THEN NoExpiry ELSE TtlToDeadline(amount, unit, t2))
  <1>0. PICK t1 \in Readings(clock) : \E t2 \in Readings(t1) : Ends(t1, t2)
    <2>1. \A t1 \in Readings(clock) : t1 \in Readings(t1)
      BY ReadingsAreTimes, TimesAreNat DEF Readings
    <2>. QED  BY <2>1 DEF Set
  <1>1. PICK t2 \in Readings(t1) : Ends(t1, t2)
    BY <1>0
  <1>2. t1 \in Times /\ clock' \in Times /\ t1 <= clock' /\ t2 \in Times
    BY <1>1, TwoReadings
  <1>3. last'.cmd = cmd /\ k \in KeysOf(last'.keys)
    BY <1>1, OneKey
  <1>4. CASE db' = Lookup(db, k, t1)
    BY <1>2, <1>4, LookupKept, KeptIsKept DEF Kept
  <1>5. ASSUME unit # 0 => TtlFits(amount, unit, t2),
               db' = SetString(Lookup(db, k, t1), k, data,
                       IF unit = 0 THEN NoExpiry ELSE TtlToDeadline(amount, unit, t2))
        PROVE  Vanishes(j) /\ Changes(j)
    <2>. DEFINE e == IF unit = 0 THEN NoExpiry ELSE TtlToDeadline(amount, unit, t2)
    <2>1. e \in 0..IntMax
      <3>1. CASE unit = 0
        BY <3>1, KeyspaceAssumption DEF NoExpiry
      <3>2. CASE unit # 0
        <4>1. TtlToDeadline(amount, unit, t2) \in 1..IntMax
          BY <1>2, <1>5, <3>2, DeadlineRange
        <4>. QED  BY <3>2, <4>1
      <3>. QED  BY <3>1, <3>2
    <2>2. db' = SetString(Lookup(db, k, t1), k, data, e)
      BY <1>5
    <2>. HIDE DEF e
    <2>3. (j # k => Kept(j)) /\ db'.map[k] # Missing
      BY <1>2, <2>1, <2>2, SetStringKept
    <2>4. CASE j # k
      BY <2>3, <2>4, KeptIsKept
    <2>5. CASE j = k
      BY <1>3, <2>3, <2>5 DEF Vanishes, Changes
    <2>. QED  BY <2>4, <2>5
  <1>. QED  BY <1>1, <1>4, <1>5

LEMMA IncrFate ==
  ASSUME ClockForward, IInv, NEW cmd \in {"incr", "decr"}, NEW k \in Keys, NEW delta \in {-1, 1},
         IncrBy(cmd, k, delta), NEW j \in Keys
  PROVE  Vanishes(j) /\ Changes(j)
  <1>. DEFINE n == db.map[k].data + delta
  <1>1. PICK t \in Readings(clock) :
          /\ clock' = t
          /\ \E reply : Answer(cmd, <<k>>, reply)
          /\ \/ ~Live(db, k, t) /\ db' = SetString(Lookup(db, k, t), k, delta, NoExpiry)
             \/ db' = db
             \/ Live(db, k, t) /\ n \in Numbers /\ db' = Bump(db, k, n)
    BY DEF IncrBy
  <1>2. t \in Times /\ clock' \in Times /\ t <= clock'
    BY <1>1, OneReading
  <1>3. last'.cmd = cmd /\ k \in KeysOf(last'.keys)
    BY <1>1, OneKey
  <1>4. CASE ~Live(db, k, t) /\ db' = SetString(Lookup(db, k, t), k, delta, NoExpiry)
    <2>1. delta \in Data /\ NoExpiry \in 0..IntMax
      BY KeyspaceAssumption DEF Data, NoExpiry
    <2>2. (j # k => Kept(j)) /\ db'.map[k] # Missing
      BY <1>2, <1>4, <2>1, SetStringKept
    <2>3. CASE j # k
      BY <2>2, <2>3, KeptIsKept
    <2>4. CASE j = k
      BY <1>1, <1>4, <2>2, <2>4 DEF Vanishes, Changes
    <2>. QED  BY <2>3, <2>4
  <1>5. CASE db' = db
    BY <1>5, KeptIsKept DEF Kept
  <1>6. CASE Live(db, k, t) /\ n \in Numbers /\ db' = Bump(db, k, n)
    <2>1. db.map[k] \in Value /\ DOMAIN db.map = Keys /\ db \in DbType
      BY <1>6, EntryType DEF IInv, DbInv, DbType, Live
    <2>. DEFINE v == [db.map[k] EXCEPT !.data = n]
    <2>2. v.expire_at_ms = db.map[k].expire_at_ms /\ v # Missing
      <3>1. v \in Value /\ v.expire_at_ms = db.map[k].expire_at_ms
        BY <1>6, <2>1 DEF Value, Data
      <3>. QED  BY <3>1, KeyspaceAssumption
    <2>. HIDE DEF n
    <2>3. db'.map = [db.map EXCEPT ![k] = v]
      BY <1>6, <2>1 DEF Bump, DbType
    <2>. HIDE DEF v
    <2>4. CASE j # k
      BY <2>1, <2>3, <2>4, KeptIsKept DEF Kept
    <2>5. CASE j = k
      <3>1. db'.map[j] = v
        BY <2>1, <2>3, <2>5
      <3>2. Changes(j)
        BY <1>3, <2>2, <2>5, <3>1 DEF Changes
      <3>3. db'.map[j] # Missing
        BY <2>2, <3>1
      <3>. QED  BY <3>2, <3>3 DEF Vanishes
    <2>. QED  BY <2>4, <2>5
  <1>. QED  BY <1>1, <1>4, <1>5, <1>6

LEMMA ExpireFate ==
  ASSUME ClockForward, IInv, NEW k \in Keys, NEW seconds \in Int, Expire(k, seconds), NEW j \in Keys
  PROVE  Vanishes(j) /\ Changes(j)
  <1>. DEFINE cmd == IF seconds <= 0 THEN "expire_past" ELSE "expire"
              Ends(t1, t2, t3) ==
                /\ clock' \in {t1, t2, t3}
                /\ \E reply : Answer(cmd, <<k>>, reply)
                /\ \/ db' = Lookup(db, k, t1)
                   \/ /\ Live(db, k, t1) /\ seconds <= 0
                      /\ db' = Erase(Lookup(db, k, t1), k, t2)
                   \/ /\ Live(db, k, t1) /\ seconds > 0 /\ TtlFits(seconds, UnitMs, t2)
                      /\ db' = SetExpireAt(Lookup(db, k, t1), k,
                                           TtlToDeadline(seconds, UnitMs, t2), t3)
                      /\ clock' = t3
  <1>1. PICK t1 \in Readings(clock) :
          \E t2 \in Readings(t1) : \E t3 \in Readings(t2) : Ends(t1, t2, t3)
    <2>1. \A t1 \in Readings(clock) : t1 \in Readings(t1)
      BY ReadingsAreTimes, TimesAreNat DEF Readings
    <2>2. \A t1 \in Readings(clock) : \A t2 \in Readings(t1) : t2 \in Readings(t2)
      BY ReadingsAreTimes, TimesAreNat DEF Readings
    <2>. QED  BY <2>1, <2>2 DEF Expire
  <1>2. PICK t2 \in Readings(t1) : \E t3 \in Readings(t2) : Ends(t1, t2, t3)
    BY <1>1
  <1>3. PICK t3 \in Readings(t2) : Ends(t1, t2, t3)
    BY <1>2
  <1>4. /\ t1 \in Times /\ t2 \in Times /\ t3 \in Times /\ t1 <= t2 /\ t2 <= t3
        /\ clock' \in Times /\ t1 <= clock'
    <2>1. t1 \in Times /\ t2 \in Times /\ t1 <= t2
      BY TwoReadings
    <2>2. t3 \in Times /\ t2 <= t3
      BY <2>1, LaterReadings
    <2>. QED  BY <1>3, <2>1, <2>2, TimesAreNat
  <1>5. last'.cmd = cmd /\ k \in KeysOf(last'.keys)
    BY <1>3, OneKey
  <1>6. CASE db' = Lookup(db, k, t1)
    BY <1>4, <1>6, LookupKept, KeptIsKept DEF Kept
  <1>7. ASSUME Live(db, k, t1) PROVE Lookup(db, k, t1) = db
    BY <1>7 DEF Lookup, Live, Expired
  <1>8. CASE Live(db, k, t1) /\ seconds <= 0 /\ db' = Erase(Lookup(db, k, t1), k, t2)
    <2>1. db' = Drop(db, {k}) /\ last'.cmd = "expire_past"
      BY <1>5, <1>7, <1>8 DEF Erase, Lookup, Live, Expired
    <2>2. CASE j # k
      BY <2>1, <2>2, KeptIsKept DEF Kept, Drop
    <2>3. CASE j = k
      BY <1>5, <2>1, <2>3 DEF Vanishes, Changes, Drop
    <2>. QED  BY <2>2, <2>3
  <1>9. CASE /\ Live(db, k, t1) /\ seconds > 0 /\ TtlFits(seconds, UnitMs, t2)
             /\ db' = SetExpireAt(Lookup(db, k, t1), k, TtlToDeadline(seconds, UnitMs, t2), t3)
             /\ clock' = t3
    <2>. DEFINE e == TtlToDeadline(seconds, UnitMs, t2)
    <2>1. last'.cmd = "expire" /\ e \in 1..IntMax /\ db' = SetExpireAt(db, k, e, t3)
      BY <1>4, <1>5, <1>7, <1>9, DeadlineRange, KeyspaceAssumption
    <2>. HIDE DEF e
    <2>2. CASE ~Live(db, k, t3)
      <3>1. db' = Lookup(db, k, t3) /\ t3 <= clock'
        BY <1>4, <1>9, <2>1, <2>2, TimesAreNat DEF SetExpireAt
      <3>. QED  BY <1>4, <3>1, LookupKept, KeptIsKept DEF Kept
    <2>3. CASE Live(db, k, t3)
      <3>. DEFINE v == [db.map[k] EXCEPT !.expire_at_ms = e]
      <3>1. db.map[k] \in Value /\ DOMAIN db.map = Keys
        BY <2>3, EntryType DEF IInv, DbInv, DbType, Live
      <3>2. v.data = db.map[k].data /\ v # Missing
        <4>1. v \in Value /\ v.data = db.map[k].data
          BY <2>1, <3>1, KeyspaceAssumption DEF Value
        <4>. QED  BY <4>1, KeyspaceAssumption
      <3>3. db'.map = [db.map EXCEPT ![k] = v]
        BY <2>1, <2>3, <3>1 DEF SetExpireAt
      <3>. HIDE DEF v
      <3>4. CASE j # k
        BY <3>1, <3>3, <3>4, KeptIsKept DEF Kept
      <3>5. CASE j = k
        <4>1. db'.map[j] = v
          BY <3>1, <3>3, <3>5
        <4>. QED  BY <1>5, <2>1, <3>2, <3>5, <4>1 DEF Vanishes, Changes
      <3>. QED  BY <3>4, <3>5
    <2>. QED  BY <2>2, <2>3
  <1>. QED  BY <1>3, <1>6, <1>8, <1>9

LEMMA PersistFate ==
  ASSUME ClockForward, IInv, NEW k \in Keys, Persist(k), NEW j \in Keys
  PROVE  Vanishes(j) /\ Changes(j)
  <1>1. PICK t \in Readings(clock) :
          /\ clock' = t /\ db' = PersistDb(db, k, t)
          /\ \E reply : Answer("persist", <<k>>, reply)
    BY DEF Persist
  <1>2. t \in Times /\ clock' \in Times /\ t <= clock'
    BY <1>1, OneReading
  <1>3. last'.cmd = "persist" /\ k \in KeysOf(last'.keys)
    BY <1>1, OneKey
  <1>4. CASE ~Persists(db, k, t)
    <2>1. db' = Lookup(db, k, t)
      BY <1>1, <1>4 DEF PersistDb
    <2>. QED  BY <1>2, <2>1, LookupKept, KeptIsKept DEF Kept
  <1>5. CASE Persists(db, k, t)
    <2>. DEFINE v == [db.map[k] EXCEPT !.expire_at_ms = NoExpiry]
    <2>1. db.map[k] \in Value /\ DOMAIN db.map = Keys
      BY <1>5, EntryType DEF IInv, DbInv, DbType, Persists, Live
    <2>2. v.data = db.map[k].data /\ v # Missing
      <3>1. v \in Value /\ v.data = db.map[k].data
        BY <2>1, KeyspaceAssumption DEF Value, NoExpiry
      <3>. QED  BY <3>1, KeyspaceAssumption
    <2>3. db'.map = [db.map EXCEPT ![k] = v]
      BY <1>1, <1>5, <2>1 DEF PersistDb
    <2>. HIDE DEF v
    <2>4. CASE j # k
      BY <2>1, <2>3, <2>4, KeptIsKept DEF Kept
    <2>5. CASE j = k
      <3>1. db'.map[j] = v
        BY <2>1, <2>3, <2>5
      <3>. QED  BY <1>3, <2>2, <2>5, <3>1 DEF Vanishes, Changes
    <2>. QED  BY <2>4, <2>5
  <1>. QED  BY <1>4, <1>5

LEMMA ManyKeysFate ==
  ASSUME ClockForward, IInv, NEW ks \in KeySeqs, Del(ks) \/ Exists(ks), NEW j \in Keys
  PROVE  Vanishes(j) /\ Changes(j)
  <1>1. CASE Del(ks)
    <2>1. db' = Drop(db, KeysOf(ks)) /\ last'.cmd = "del" /\ last'.keys = ks
      <3>1. db' = Drop(db, KeysOf(ks)) /\ \E reply : Answer("del", ks, reply)
        BY <1>1 DEF Del
      <3>. QED  BY <3>1 DEF Answer
    <2>2. CASE j \in KeysOf(ks)
      BY <2>1, <2>2 DEF Vanishes, Changes, Drop
    <2>3. CASE j \notin KeysOf(ks)
      BY <2>1, <2>3, KeptIsKept DEF Kept, Drop
    <2>. QED  BY <2>2, <2>3
  <1>2. CASE Exists(ks)
    <2>1. PICK ts \in ReadingSeqs(Len(ks), clock) :
            clock' = ts[Len(ks)] /\ db' = Drop(db, ReclaimedBy(db, ks, ts, Len(ks)))
      BY <1>2 DEF Exists
    <2>2. Len(ks) \in 1..Len(ks)
      BY Arguments
    <2>3. \A k \in ReclaimedBy(db, ks, ts, Len(ks)) : Expired(db, k, clock')
      BY <2>1, <2>2, Reclaimed
    <2>. QED  BY <2>1, <2>3, KeptIsKept DEF Kept, Drop
  <1>. QED  BY <1>1, <1>2

\* A round of active_expire_cycle takes only what is past its deadline.
LEMMA RoundKept ==
  ASSUME ClockForward, IInv, ExpireRound, NEW j \in Keys
  PROVE  Kept(j)
  <1>1. CASE db.volatile_keys = {}
    BY <1>1 DEF ExpireRound, Kept
  <1>2. CASE db.volatile_keys # {}
    <2>1. PICK now \in Readings(clock), S \in Samples(db) :
            clock' = now /\ db' = Drop(db, Doomed(db, S, now))
      BY <1>2 DEF ExpireRound
    <2>2. S \subseteq Keys /\ DOMAIN db.map = Keys
      BY DEF Samples, IInv, DbInv, DbType
    <2>. QED  BY <2>1, <2>2 DEF Kept, Drop, Doomed, Expired
  <1>. QED  BY <1>1, <1>2

\* The fate of every entry in every step.
LEMMA EntryFate ==
  ASSUME ClockForward, IInv, Next, NEW j \in Keys
  PROVE  Vanishes(j) /\ Changes(j)
  <1>1. CASE Refuse \/ DbSize \/ StartCycle
    BY <1>1, KeptIsKept DEF Refuse, DbSize, StartCycle, Kept
  <1>2. CASE FlushAll
    BY <1>2 DEF FlushAll, Answer, EmptyDb, Vanishes, Changes
  <1>3. CASE ExpireRound
    BY <1>3, RoundKept, KeptIsKept
  <1>4. ASSUME NEW k \in Keys, Get(k) \/ Type(k) \/ Ttl(k)
        PROVE  Vanishes(j) /\ Changes(j)
    <2>. DEFINE Ends(t1, t2) == clock' = t2 /\ db' = Lookup(db, k, t1)
    <2>1. PICK t1 \in Readings(clock) : \E t2 \in Readings(t1) : Ends(t1, t2)
      <3>1. \A t1 \in Readings(clock) : t1 \in Readings(t1)
        BY ReadingsAreTimes, TimesAreNat DEF Readings
      <3>. QED  BY <1>4, <3>1 DEF Get, Type, Ttl
    <2>2. PICK t2 \in Readings(t1) : Ends(t1, t2)
      BY <2>1
    <2>3. t1 \in Times /\ clock' \in Times /\ t1 <= clock'
      BY <2>2, TwoReadings
    <2>. QED  BY <2>2, <2>3, LookupKept, KeptIsKept DEF Kept
  <1>5. ASSUME NEW k \in Keys, IncrBy("incr", k, 1) \/ IncrBy("decr", k, -1)
        PROVE  Vanishes(j) /\ Changes(j)
    BY <1>5, IncrFate
  <1>6. ASSUME NEW k \in Keys, NEW seconds \in Amounts, Expire(k, seconds)
        PROVE  Vanishes(j) /\ Changes(j)
    <2>1. seconds \in Int
      BY KeyspaceAssumption DEF IntMin
    <2>. QED  BY <1>6, <2>1, ExpireFate
  <1>7. ASSUME NEW k \in Keys, NEW cmd \in {"set", "setnx", "setxx"}, NEW data \in Data,
               \/ Set(cmd, k, data, 0, 0)
               \/ \E unit \in {1, UnitMs}, amount \in Amounts :
                    amount > 0 /\ Set(cmd, k, data, unit, amount)
        PROVE  Vanishes(j) /\ Changes(j)
    <2>1. CASE Set(cmd, k, data, 0, 0)
      BY <2>1, SetFate
    <2>2. ASSUME NEW unit \in {1, UnitMs}, NEW amount \in Amounts, amount > 0,
                 Set(cmd, k, data, unit, amount)
          PROVE  Vanishes(j) /\ Changes(j)
      <3>1. amount \in Int /\ unit \in Nat \ {0}
        BY KeyspaceAssumption DEF IntMin
      <3>. QED  BY <2>2, <3>1, SetFate
    <2>. QED  BY <1>7, <2>1, <2>2
  <1>. QED
    BY <1>1, <1>2, <1>3, <1>4, <1>5, <1>6, <1>7, PersistFate, ManyKeysFate DEF Next, Command

\* Expiry never takes a live key: what lookup, erase and active_expire_cycle remove was
\* past its deadline when they removed it, or a client asked for it.
THEOREM OnlyTheDeadVanish ==
  ASSUME StepBack = FALSE
  PROVE  Spec => OnlyExpiredVanish
  <1>1. IInv /\ [Next]_vars => [\A k \in Keys : Vanishes(k)]_vars
    BY EntryFate DEF ClockForward
  <1>. QED  BY <1>1, InvAlways, PTL DEF Spec, OnlyExpiredVanish, Vanishes

\* The value and the deadline of a live entry change only by the commands that are for
\* that: incr_by, in particular, leaves the deadline alone, and expire the value.
THEOREM DeadlinesStick ==
  ASSUME StepBack = FALSE
  PROVE  Spec => DeadlineSticks
  <1>1. IInv /\ [Next]_vars => [\A k \in Keys : Changes(k)]_vars
    BY EntryFate DEF ClockForward
  <1>. QED  BY <1>1, InvAlways, PTL DEF Spec, DeadlineSticks, Changes

-----------------------------------------------------------------------------
(* What the commands that read or store one entry promise.                 *)

LEMMA GetKeeps ==
  ASSUME ClockForward, IInv, NEW k \in Keys, Get(k)
  PROVE  Promise!Get(k)
  <1>1. PICK t \in Readings(clock) :
          /\ clock' = t /\ db' = Lookup(db, k, t)
          /\ Answer("get", <<k>>, IF Live(db, k, t) THEN Bulk(db.map[k].data) ELSE Nil)
    BY DEF Get
  <1>2. t \in Times /\ clock <= t /\ clock' \in Times /\ t <= clock'
    BY <1>1, OneReading
  <1>3. Promise!Leaves(Visible)
    BY <1>1, <1>2, LeavesLookup
  <1>4. Promise!Says("get", <<k>>,
          IF Promise!LivesAt(Visible[k], t) THEN <<"bulk", Visible[k].data>> ELSE Promise!Nil)
    <2>1. CASE Live(db, k, t)
      BY <1>1, <1>2, <2>1, LivesAtIsLive DEF Answer, Promise!Says, Promise!Ran, Bulk
    <2>2. CASE ~Live(db, k, t)
      BY <1>1, <1>2, <2>2, LivesAtIsLive DEF Answer, Promise!Says, Promise!Ran, Nil, Promise!Nil
    <2>. QED  BY <2>1, <2>2
  <1>. QED  BY <1>1, <1>2, <1>3, <1>4, InstantsAre, Replies DEF Promise!Get

LEMMA TypeKeeps ==
  ASSUME ClockForward, IInv, NEW k \in Keys, Type(k)
  PROVE  Promise!Type(k)
  <1>1. PICK t \in Readings(clock) :
          /\ clock' = t /\ db' = Lookup(db, k, t)
          /\ Answer("type", <<k>>, IF Live(db, k, t) THEN <<"string">> ELSE <<"none">>)
    BY DEF Type
  <1>2. t \in Times /\ clock <= t /\ clock' \in Times /\ t <= clock'
    BY <1>1, OneReading
  <1>3. Promise!Leaves(Visible)
    BY <1>1, <1>2, LeavesLookup
  <1>4. Promise!Says("type", <<k>>,
          IF Promise!LivesAt(Visible[k], t) THEN <<"string">> ELSE <<"none">>)
    <2>1. CASE Live(db, k, t)
      BY <1>1, <1>2, <2>1, LivesAtIsLive DEF Answer, Promise!Says, Promise!Ran
    <2>2. CASE ~Live(db, k, t)
      BY <1>1, <1>2, <2>2, LivesAtIsLive DEF Answer, Promise!Says, Promise!Ran
    <2>. QED  BY <2>1, <2>2
  <1>. QED  BY <1>1, <1>2, <1>3, <1>4, InstantsAre, Replies DEF Promise!Type

\* TTL rounds one millisecond, like none, down to no second at all.
LEMMA RoundsDown ==
  ASSUME NEW unit \in Nat, unit > 2
  PROVE  (0 + unit \div 2) \div unit = 0 /\ (1 + unit \div 2) \div unit = 0
  <1>. DEFINE h == unit \div 2
  <1>1. h \in Nat /\ 2 * h <= unit
    OBVIOUS
  <1>. HIDE DEF h
  <1>2. h + 1 < unit
    BY <1>1
  <1>3. \A x \in Nat : x < unit => x \div unit = 0
    OBVIOUS
  <1>4. 0 + h \in Nat /\ 0 + h < unit /\ 1 + h \in Nat /\ 1 + h < unit
    BY <1>1, <1>2
  <1>5. (0 + h) \div unit = 0 /\ (1 + h) \div unit = 0
    BY <1>3, <1>4
  <1>. QED  BY <1>5 DEF h

LEMMA PttlIs ==
  ASSUME NEW k, NEW t1, NEW t2 \in Nat, NEW e \in Nat, Live(db, k, t1),
         e = db.map[k].expire_at_ms
  PROVE  /\ e = 0 => Pttl(db, k, t1, t2) = -1
         /\ e # 0 /\ e > t2 => Pttl(db, k, t1, t2) = e - t2 /\ e - t2 > 0
         /\ e # 0 /\ ~(e > t2) => Pttl(db, k, t1, t2) = 0
  <1>1. Pttl(db, k, t1, t2) = IF e = 0 THEN -1 ELSE IF e - t2 > 0 THEN e - t2 ELSE 0
    BY Zenon DEF Pttl, HasExpiry, NoExpiry
  <1>2. e - t2 > 0 <=> e > t2
    OBVIOUS
  <1>. QED  BY <1>1, <1>2, Zenon

\* pttl reads the clock twice, and the key may die in between.  What it then says is
\* what was true in the last millisecond of the key's life.
LEMMA TtlKeeps ==
  ASSUME ClockForward, UnitMs > 2, IInv, NEW k \in Keys, Ttl(k)
  PROVE  Promise!Ttl(k)
  <1>. DEFINE X(t) == IF ~Promise!LivesAt(Visible[k], t) THEN -2
                      ELSE IF Visible[k].expire_at_ms = 0 THEN -1
                      ELSE (Visible[k].expire_at_ms - t + UnitMs \div 2) \div UnitMs
              R(ms) == IF ms < 0 THEN ms ELSE (ms + UnitMs \div 2) \div UnitMs
  <1>1. PICK t1 \in Readings(clock) : \E t2 \in Readings(t1) :
          /\ clock' = t2 /\ db' = Lookup(db, k, t1)
          /\ Answer("ttl", <<k>>, Number(R(Pttl(db, k, t1, t2))))
    BY DEF Ttl
  <1>2. PICK t2 \in Readings(t1) :
          /\ clock' = t2 /\ db' = Lookup(db, k, t1)
          /\ Answer("ttl", <<k>>, Number(R(Pttl(db, k, t1, t2))))
    BY <1>1
  <1>3. /\ t1 \in Times /\ t2 \in Times /\ clock' \in Times
        /\ clock <= t1 /\ t1 <= t2 /\ clock <= t2 /\ t2 <= t2
    BY <1>2, TwoReadings
  <1>4. Promise!Leaves(Visible)
    BY <1>2, <1>3, LeavesLookup
  <1>5. \E t \in Times : clock <= t /\ t <= t2 /\ X(t) = R(Pttl(db, k, t1, t2))
    <2>1. CASE ~Live(db, k, t1)
      <3>1. X(t1) = -2
        BY <2>1, <1>3, LivesAtIsLive
      <3>2. R(Pttl(db, k, t1, t2)) = -2
        BY <2>1 DEF Pttl
      <3>. QED  BY <3>1, <3>2, <1>3
    <2>2. CASE Live(db, k, t1)
      <3>. DEFINE e == db.map[k].expire_at_ms
      <3>1. /\ Visible[k] = db.map[k] /\ Promise!LivesAt(Visible[k], t1)
            /\ e \in Nat /\ t1 \in Nat /\ t2 \in Nat
        <4>1. Visible[k] = db.map[k] /\ Promise!LivesAt(Visible[k], t1)
          BY <2>2, <1>3, LivesAtIsLive, Zenon
        <4>2. e \in Nat
          BY <2>2, EntryType, Zenon DEF IInv, Live
        <4>3. t1 \in Nat /\ t2 \in Nat
          BY <1>3, TimesAreNat
        <4>. HIDE DEF e
        <4>. QED  BY <4>1, <4>2, <4>3, Zenon
      <3>2. CASE e = 0
        <4>1. X(t1) = -1
          BY <3>1, <3>2
        <4>2. R(Pttl(db, k, t1, t2)) = -1
          BY <2>2, <3>2 DEF Pttl, HasExpiry, NoExpiry
        <4>. QED  BY <4>1, <4>2, <1>3
      <3>3. CASE e # 0 /\ e > t2
        <4>1. Promise!LivesAt(Visible[k], t2)
          BY <3>1, <3>3, <2>2 DEF Promise!LivesAt, Live
        <4>2. X(t2) = (e - t2 + UnitMs \div 2) \div UnitMs
          BY <3>1, <3>3, <4>1
        <4>3. Pttl(db, k, t1, t2) = e - t2 /\ e - t2 > 0
          BY <2>2, <3>1, <3>3, PttlIs, Zenon
        <4>4. R(Pttl(db, k, t1, t2)) = (e - t2 + UnitMs \div 2) \div UnitMs
          <5>1. e - t2 \in Int
            BY <3>1
          <5>2. ~(e - t2 < 0)
            BY ONLY <4>3, <5>1
          <5>. QED  BY <4>3, <5>2, Zenon
        <4>. QED  BY <4>2, <4>4, <1>3
      <3>4. CASE e # 0 /\ ~(e > t2)
        <4>. DEFINE t == e - 1
        <4>1. e > t1
          BY <2>2, <3>1, <3>4 DEF Live, IsExpired, HasExpiry, NoExpiry
        <4>2. t \in Times /\ clock <= t /\ t <= t2 /\ e > t
          <5>1. clock \in Times
            BY DEF IInv
          <5>2. clock \in Nat /\ 1 <= clock /\ t2 <= MaxTime /\ MaxTime \in Nat
            BY <5>1, <1>3, KeyspaceAssumption DEF Times
          <5>3. t \in Nat /\ t2 \in Nat /\ clock <= t /\ t <= t2 /\ e > t
            BY <5>2, <1>3, <3>1, <3>4, <4>1
          <5>. HIDE DEF t, e
          <5>4. t \in 1..MaxTime
            BY ONLY <5>2, <5>3
          <5>. QED  BY <5>3, <5>4, Zenon DEF Times
        <4>3. Promise!LivesAt(Visible[k], t)
          BY <3>1, <4>2, <2>2 DEF Promise!LivesAt, Live
        <4>4. e - t = 1
          BY <3>1
        <4>5. X(t) = (1 + UnitMs \div 2) \div UnitMs
          BY <3>1, <3>4, <4>3, <4>4
        <4>6. Pttl(db, k, t1, t2) = 0
          BY <2>2, <3>1, <3>4, PttlIs, Zenon
        <4>7. X(t) = R(Pttl(db, k, t1, t2))
          <5>1. /\ (0 + UnitMs \div 2) \div UnitMs = 0
                /\ (1 + UnitMs \div 2) \div UnitMs = 0
            BY RoundsDown, KeyspaceAssumption
          <5>2. R(0) = 0
            BY <5>1
          <5>. QED  BY <4>5, <4>6, <5>1, <5>2
        <4>. QED  BY <4>2, <4>7
      <3>. QED  BY <3>2, <3>3, <3>4
    <2>. QED  BY <2>1, <2>2
  <1>6. PICK t \in Times : clock <= t /\ t <= t2 /\ X(t) = R(Pttl(db, k, t1, t2))
    BY <1>5
  <1>. HIDE DEF R
  <1>7. Promise!Says("ttl", <<k>>, <<"int", X(t)>>)
    <2>. HIDE DEF X
    <2>. QED  BY <1>2, <1>6 DEF Answer, Promise!Says, Promise!Ran, Number
  <1>8. t \in Promise!Instants
    BY <1>2, <1>3, <1>6, InstantsAre
  <1>. QED  BY <1>2, <1>4, <1>7, <1>8, Replies DEF Promise!Ttl

LEMMA PersistKeeps ==
  ASSUME ClockForward, IInv, NEW k \in Keys, Persist(k)
  PROVE  Promise!Persist(k)
  <1>1. PICK t \in Readings(clock) :
          /\ clock' = t /\ db' = PersistDb(db, k, t)
          /\ Answer("persist", <<k>>, Number(IF Persists(db, k, t) THEN 1 ELSE 0))
    BY DEF Persist
  <1>2. t \in Times /\ clock <= t /\ clock' \in Times /\ t <= clock'
    BY <1>1, OneReading
  <1>. DEFINE clears == Promise!LivesAt(Visible[k], t) /\ Visible[k].expire_at_ms # 0
  <1>3. clears <=> Persists(db, k, t)
    BY <1>2, LivesAtIsLive DEF Persists, HasExpiry, NoExpiry
  <1>4. Promise!Leaves(IF clears THEN [Visible EXCEPT ![k].expire_at_ms = 0] ELSE Visible)
    <2>1. CASE ~Persists(db, k, t)
      <3>1. db' = Lookup(db, k, t)
        BY <2>1, <1>1 DEF PersistDb
      <3>. QED  BY <2>1, <3>1, <1>2, <1>3, LeavesLookup
    <2>2. CASE Persists(db, k, t)
      <3>. DEFINE v == [db.map[k] EXCEPT !.expire_at_ms = 0]
      <3>1. Visible[k] = db.map[k] /\ db.map[k] \in Value
        BY <2>2, <1>2, LivesAtIsLive, EntryType, Zenon DEF IInv, Persists, Live
      <3>2. v \in Value
        BY <3>1, KeyspaceAssumption DEF Value
      <3>3. [Visible EXCEPT ![k].expire_at_ms = 0] = [Visible EXCEPT ![k] = v]
        BY <3>1, Zenon
      <3>4. db'.map = [db.map EXCEPT ![k] = v]
        BY <2>2, <1>1, <3>1 DEF PersistDb, NoExpiry
      <3>. HIDE DEF v
      <3>5. Promise!Prune([Visible EXCEPT ![k] = v], clock') = Seen(db', clock')
        BY <1>1, <1>2, <3>2, <3>4, RewriteKeeps, Zenon
      <3>. QED  BY <2>2, <1>3, <3>3, <3>5, VisibleThen DEF Promise!Leaves
    <2>. QED  BY <2>1, <2>2
  <1>5. Promise!Says("persist", <<k>>, <<"int", IF clears THEN 1 ELSE 0>>)
    <2>. HIDE DEF clears
    <2>. QED  BY <1>1, <1>3 DEF Answer, Promise!Says, Promise!Ran, Number
  <1>. QED  BY <1>1, <1>2, <1>4, <1>5, InstantsAre, Replies DEF Promise!Persist

\* A TTL that ttl_to_deadline refuses is one whose deadline is out of range.
LEMMA TooFar ==
  ASSUME NEW a \in Int, a > 0, NEW u \in Nat \ {0}, NEW now \in Times, ~TtlFits(a, u, now)
  PROVE  TtlToDeadline(a, u, now) > IntMax
  <1>. DEFINE delta == a * u
  <1>1. delta \in Int /\ delta > 0 /\ now \in Nat /\ IntMax \in Nat /\ now >= 1
    BY KeyspaceAssumption DEF Times
  <1>2. (IntMax + 1) \div u \in Nat
    BY <1>1
  <1>3. a >= -((IntMax + 1) \div u)
    BY <1>2
  <1>4. CASE ~(a <= IntMax \div u)
    <2>. DEFINE q == IntMax \div u
    <2>1. q \in Nat /\ IntMax < u * (q + 1)
      BY <1>1
    <2>. HIDE DEF q
    <2>2. a >= q + 1
      BY <1>4, <2>1 DEF q
    <2>3. a * u >= (q + 1) * u
      BY <2>1, <2>2
    <2>4. delta > IntMax
      BY <2>1, <2>3, <1>1
    <2>. HIDE DEF delta
    <2>5. now + delta > IntMax
      BY <2>4, <1>1
    <2>. QED  BY <2>5 DEF TtlToDeadline, delta
  <1>5. CASE ~(now <= IntMax - delta)
    <2>1. TtlToDeadline(a, u, now) = now + delta
      BY DEF TtlToDeadline
    <2>. HIDE DEF delta
    <2>. QED  BY <1>1, <1>5, <2>1
  <1>. QED  BY <1>1, <1>3, <1>4, <1>5 DEF TtlFits

LEMMA DeadlineOf ==
  ASSUME NEW from \in Times, NEW t \in Times, from <= t, t <= clock', clock' \in Times,
         NEW a \in Amounts, a > 0, NEW units, NEW u \in units
  PROVE  TtlToDeadline(a, u, t) \in Promise!Deadlines(from, units)
  <1>1. t \in from..clock'
    BY TimesAreNat
  <1>2. a \in {n \in Amounts : n > 0}
    OBVIOUS
  <1>. QED  BY <1>1, <1>2 DEF TtlToDeadline, Promise!Deadlines

\* What SET stores at its last reading of the clock is seen when it ends.
LEMMA Stores ==
  ASSUME IInv, NEW k \in Keys, NEW data \in Data, NEW e \in 0..IntMax, NEW t \in Times,
         clock <= t, t <= clock', clock' \in Times, e = NoExpiry \/ e > clock',
         db' = SetString(Lookup(db, k, t), k, data, e)
  PROVE  /\ Visible'[k] = [data |-> data, expire_at_ms |-> e]
         /\ Promise!LivesAt(Visible'[k], clock')
         /\ Promise!Leaves([Visible EXCEPT ![k] = Visible'[k]])
  <1>. DEFINE v == [data |-> data, expire_at_ms |-> e]  d == Lookup(db, k, t)
  <1>1. DbInv(d) /\ DbInv(db)
    BY LookupInv DEF IInv
  <1>2. v \in Value
    BY DEF Value
  <1>3. Seen(db', clock') = [Seen(d, clock') EXCEPT ![k] = v]
    BY <1>1, SeenSetString
  <1>4. Seen(d, clock') = Seen(db, clock')
    BY <1>1, SeenLookup
  <1>5. clock <= clock' /\ clock' \in Nat /\ e \in Nat
    BY TimesAreNat, KeyspaceAssumption DEF IInv
  <1>6. ~IsExpired(v, clock')
    BY <1>5 DEF IsExpired, HasExpiry
  <1>. HIDE DEF d
  <1>7. Visible' = [Seen(db, clock') EXCEPT ![k] = v]
    BY <1>3, <1>4, VisibleThen
  <1>8. Visible'[k] = v
    BY <1>7 DEF Seen
  <1>9. Promise!Prune([Visible EXCEPT ![k] = v], clock') = [Seen(db, clock') EXCEPT ![k] = v]
    BY <1>2, <1>5, <1>6, PruneExcept
  <1>10. Promise!LivesAt(v, clock')
    BY <1>2, <1>5, KeyspaceAssumption DEF Promise!LivesAt, NoExpiry
  <1>. QED  BY <1>7, <1>8, <1>9, <1>10, Zenon DEF Promise!Leaves

LEMMA SetKeeps ==
  ASSUME ClockForward, IInv, NEW cmd, NEW k \in Keys, NEW data \in Data,
         NEW unit, NEW amount,
         unit # 0 => unit \in {1, UnitMs} /\ amount \in Amounts /\ amount > 0,
         Set(cmd, k, data, unit, amount)
  PROVE  Promise!Set(cmd, k)
  <1>. DEFINE refused(alive) == (cmd = "setnx" /\ alive) \/ (cmd = "setxx" /\ ~alive)
              seen(t) == Lookup(db, k, t)
  <1>1. PICK t1 \in Readings(clock) :
          \/ refused(Live(db, k, t1)) /\ db' = seen(t1) /\ clock' = t1 /\ Answer(cmd, <<k>>, Nil)
          \/ /\ ~refused(Live(db, k, t1)) /\ unit = 0
             /\ db' = SetString(seen(t1), k, data, NoExpiry) /\ clock' = t1
             /\ Answer(cmd, <<k>>, Ok)
          \/ /\ ~refused(Live(db, k, t1)) /\ unit # 0
             /\ \E t2 \in Readings(t1) :
                  /\ clock' = t2
                  /\ \/ ~TtlFits(amount, unit, t2) /\ db' = seen(t1) /\ Answer(cmd, <<k>>, Err)
                     \/ /\ TtlFits(amount, unit, t2)
                        /\ db' = SetString(seen(t1), k, data, TtlToDeadline(amount, unit, t2))
                        /\ Answer(cmd, <<k>>, Ok)
    BY DEF Set
  <1>2. clock \in Times /\ t1 \in Times /\ clock <= t1 /\ t1 <= t1
    <2>1. clock \in Times
      BY DEF IInv
    <2>2. t1 \in Times /\ clock <= t1
      BY <2>1, LaterReadings
    <2>. QED  BY <2>1, <2>2, TimesAreNat
  <1>3. Promise!LivesAt(Visible[k], t1) <=> Live(db, k, t1)
    BY <1>2, LivesAtIsLive
  <1>. HIDE DEF refused
  <1>4. Promise!Ran(cmd, <<k>>)
    <2>1. \E reply : Answer(cmd, <<k>>, reply)
      BY <1>1
    <2>. QED  BY <2>1 DEF Answer, Promise!Ran
  <1>5. CASE refused(Live(db, k, t1)) /\ db' = seen(t1) /\ clock' = t1 /\ Answer(cmd, <<k>>, Nil)
    <2>1. Promise!Leaves(Visible) /\ t1 \in Promise!Instants
      BY <1>2, <1>5, LeavesLookup, InstantsAre
    <2>2. Promise!Says(cmd, <<k>>, Promise!Nil)
      BY <1>5, Replies, Zenon DEF Nil, Promise!Nil
    <2>3. \/ cmd = "setnx" /\ Promise!LivesAt(Visible[k], t1)
          \/ cmd = "setxx" /\ ~Promise!LivesAt(Visible[k], t1)
      BY <1>3, <1>5, Zenon DEF refused
    <2>. QED  BY <1>4, <2>1, <2>2, <2>3, Zenon DEF Promise!Set
  <1>6. ASSUME t1 <= clock', clock' \in Times, Answer(cmd, <<k>>, Ok), ~refused(Live(db, k, t1)),
               NEW e \in 0..IntMax, e = NoExpiry \/ e > clock',
               db' = SetString(seen(t1), k, data, e),
               e \in {0} \cup Promise!Deadlines(t1, {1, UnitMs})
        PROVE  Promise!Set(cmd, k)
    <2>1. /\ Visible'[k] = [data |-> data, expire_at_ms |-> e]
          /\ Promise!LivesAt(Visible'[k], clock')
          /\ Promise!Leaves([Visible EXCEPT ![k] = Visible'[k]])
      BY <1>2, <1>6, Stores
    <2>2. t1 \in Promise!Instants
      BY <1>2, <1>6, InstantsAre, Zenon
    <2>3. Promise!Says(cmd, <<k>>, Promise!Ok)
      BY <1>6, Replies, Zenon DEF Ok, Promise!Ok
    <2>4. Visible'[k].data = data /\ Visible'[k].expire_at_ms = e
      <3>. DEFINE v == Visible'[k]
      <3>1. v = [data |-> data, expire_at_ms |-> e]
        BY <2>1, Zenon
      <3>. HIDE DEF v
      <3>2. v.data = data /\ v.expire_at_ms = e
        BY ONLY <3>1
      <3>. QED  BY <3>2 DEF v
    <2>5. Visible'[k].data \in Words \cup Numbers
      BY ONLY <2>4, data \in Data, Zenon DEF Data
    <2>6. Visible'[k].expire_at_ms \in {d \in {0} \cup Promise!Deadlines(t1, {1, UnitMs}) : d <= IntMax}
      <3>1. e <= IntMax
        BY ONLY e \in 0..IntMax, KeyspaceAssumption
      <3>. QED  BY <1>6, <2>4, <3>1, Zenon
    <2>7. ~(\/ cmd = "setnx" /\ Promise!LivesAt(Visible[k], t1)
            \/ cmd = "setxx" /\ ~Promise!LivesAt(Visible[k], t1))
      BY <1>3, <1>6, Zenon DEF refused
    <2>. QED  BY <1>4, <2>1, <2>2, <2>3, <2>5, <2>6, <2>7, Zenon DEF Promise!Set
  <1>7. CASE /\ ~refused(Live(db, k, t1)) /\ unit = 0
             /\ db' = SetString(seen(t1), k, data, NoExpiry) /\ clock' = t1
             /\ Answer(cmd, <<k>>, Ok)
    <2>1. NoExpiry \in 0..IntMax /\ NoExpiry \in {0} \cup Promise!Deadlines(t1, {1, UnitMs})
      BY KeyspaceAssumption DEF NoExpiry
    <2>. QED  BY <1>2, <1>6, <1>7, <2>1
  <1>8. ASSUME ~refused(Live(db, k, t1)), unit # 0, NEW t2 \in Readings(t1), clock' = t2,
               \/ ~TtlFits(amount, unit, t2) /\ db' = seen(t1) /\ Answer(cmd, <<k>>, Err)
               \/ /\ TtlFits(amount, unit, t2)
                  /\ db' = SetString(seen(t1), k, data, TtlToDeadline(amount, unit, t2))
                  /\ Answer(cmd, <<k>>, Ok)
        PROVE  Promise!Set(cmd, k)
    <2>1. t2 \in Times /\ t1 <= t2 /\ clock' \in Times /\ t1 <= clock' /\ t2 <= clock'
      BY <1>8, TwoReadings
    <2>2. unit \in {1, UnitMs} /\ amount \in Amounts /\ amount > 0 /\ amount \in Int /\ unit \in Nat \ {0}
      <3>1. unit \in {1, UnitMs} /\ amount \in Amounts /\ amount > 0
        BY <1>8
      <3>2. \A a \in Amounts : a \in Int
        BY KeyspaceAssumption DEF IntMin
      <3>3. 1 \in Nat \ {0} /\ UnitMs \in Nat \ {0}
        BY KeyspaceAssumption
      <3>. QED  BY <3>1, <3>2, <3>3
    <2>. DEFINE e == TtlToDeadline(amount, unit, t2)
    <2>3. e \in Promise!Deadlines(t1, {1, UnitMs})
      BY <1>2, <2>1, <2>2, DeadlineOf
    <2>4. CASE ~TtlFits(amount, unit, t2) /\ db' = seen(t1) /\ Answer(cmd, <<k>>, Err)
      <3>1. e > IntMax
        BY <2>1, <2>2, <2>4, TooFar
      <3>2. Promise!Leaves(Visible) /\ t1 \in Promise!Instants
        BY <1>2, <2>1, <2>4, LeavesLookup, InstantsAre
      <3>3. Promise!Says(cmd, <<k>>, Promise!Err)
        BY <2>4, Replies DEF Err, Promise!Err
      <3>. HIDE DEF e
      <3>4. ~(\/ cmd = "setnx" /\ Promise!LivesAt(Visible[k], t1)
              \/ cmd = "setxx" /\ ~Promise!LivesAt(Visible[k], t1))
        BY <1>3, <1>8, Zenon DEF refused
      <3>. QED  BY <1>4, <2>3, <3>1, <3>2, <3>3, <3>4, Zenon DEF Promise!Set
    <2>5. CASE /\ TtlFits(amount, unit, t2)
               /\ db' = SetString(seen(t1), k, data, TtlToDeadline(amount, unit, t2))
               /\ Answer(cmd, <<k>>, Ok)
      <3>1. e \in 1..IntMax /\ e > t2
        BY <2>1, <2>2, <2>5, DeadlineRange
      <3>2. e \in 0..IntMax
        BY <3>1
      <3>. HIDE DEF seen
      <3>3. db' = SetString(seen(t1), k, data, e)
        BY <2>5
      <3>. HIDE DEF e
      <3>. QED  BY <1>6, <1>8, <2>1, <2>3, <2>5, <3>1, <3>2, <3>3
    <2>. QED  BY <1>8, <2>4, <2>5
  <1>. QED  BY <1>1, <1>5, <1>7, <1>8

LEMMA IncrKeeps ==
  ASSUME ClockForward, IInv, NEW cmd, NEW k \in Keys, NEW delta \in {-1, 1}, IncrBy(cmd, k, delta)
  PROVE  Promise!Incr(cmd, k, delta)
  <1>. DEFINE data == db.map[k].data
              sums == /\ data \notin Words
                      /\ IF delta > 0 THEN data <= IntMax - delta ELSE data >= IntMin - delta
  <1>1. PICK t \in Readings(clock) :
          /\ clock' = t
          /\ \/ /\ ~Live(db, k, t)
                /\ db' = SetString(Lookup(db, k, t), k, delta, NoExpiry)
                /\ Answer(cmd, <<k>>, Number(delta))
             \/ Live(db, k, t) /\ ~sums /\ db' = db /\ Answer(cmd, <<k>>, Err)
             \/ /\ Live(db, k, t) /\ sums /\ data + delta \in Numbers
                /\ db' = Bump(db, k, data + delta)
                /\ Answer(cmd, <<k>>, Number(data + delta))
    BY Zenon DEF IncrBy
  <1>. HIDE DEF sums
  <1>2. /\ clock \in Times /\ t \in Times /\ clock' \in Times
        /\ clock <= t /\ t <= clock' /\ clock <= clock'
    BY <1>1, OneReading, Zenon
  <1>. DEFINE alive == Promise!LivesAt(Visible[k], t)
              value == IF alive THEN Visible[k].data ELSE 0
              fits == value \notin Words /\ value + delta \in (-IntMax - 1)..IntMax
              entry == [data |-> value + delta,
                        expire_at_ms |-> IF alive THEN Visible[k].expire_at_ms ELSE 0]
  <1>3. t \in Promise!Instants /\ Promise!Ran(cmd, <<k>>)
    <2>1. \E reply : Answer(cmd, <<k>>, reply)
      BY <1>1, Zenon
    <2>. QED  BY <2>1, <1>2, InstantsAre DEF Answer, Promise!Ran
  <1>4. SUFFICES \/ /\ fits /\ Promise!Says(cmd, <<k>>, <<"int", value + delta>>)
                    /\ Promise!Leaves([Visible EXCEPT ![k] = entry])
                 \/ ~fits /\ Promise!Says(cmd, <<k>>, Promise!Err) /\ Promise!Leaves(Visible)
    BY <1>3 DEF Promise!Incr
  <1>. HIDE DEF alive, value, fits, entry
  <1>5. IntMax \in Nat /\ IntMax >= 1 /\ delta \in Int /\ delta \in Data
    BY KeyspaceAssumption DEF Data
  <1>6. CASE /\ ~Live(db, k, t)
             /\ db' = SetString(Lookup(db, k, t), k, delta, NoExpiry)
             /\ Answer(cmd, <<k>>, Number(delta))
    <2>1. ~alive
      BY <1>2, <1>6, LivesAtIsLive DEF alive
    <2>2. value = 0 /\ value + delta = delta /\ entry = [data |-> delta, expire_at_ms |-> 0]
      BY <2>1, <1>5 DEF value, entry
    <2>3. fits
      BY <2>2, <1>5, KeyspaceAssumption DEF fits
    <2>4. NoExpiry \in 0..IntMax /\ NoExpiry = 0
      BY <1>5 DEF NoExpiry
    <2>5. /\ Visible'[k] = [data |-> delta, expire_at_ms |-> NoExpiry]
          /\ Promise!Leaves([Visible EXCEPT ![k] = Visible'[k]])
      BY <1>2, <1>5, <1>6, <2>4, Stores, Zenon
    <2>6. Promise!Leaves([Visible EXCEPT ![k] = entry])
      BY <2>2, <2>4, <2>5
    <2>7. Promise!Says(cmd, <<k>>, <<"int", value + delta>>)
      BY <1>6, <2>2, Replies, Zenon DEF Number
    <2>. QED  BY <2>3, <2>6, <2>7
  <1>7. ASSUME Live(db, k, t)
        PROVE  /\ alive /\ Visible[k] = db.map[k] /\ value = data
               /\ db.map[k] \in Value /\ data \in Data
               /\ sums <=> fits
    <2>1. alive /\ Visible[k] = db.map[k]
      BY <1>2, <1>7, LivesAtIsLive DEF alive
    <2>2. db.map[k] \in Value /\ data \in Data
      BY <1>7, EntryType, Zenon DEF IInv, Live
    <2>3. value = data
      BY <2>1 DEF value
    <2>. HIDE DEF data
    <2>4. data \notin Words =>
            ((IF delta > 0 THEN data <= IntMax - delta ELSE data >= IntMin - delta)
               <=> data + delta \in (-IntMax - 1)..IntMax)
      <3>. SUFFICES ASSUME data \notin Words
                    PROVE  (IF delta > 0 THEN data <= IntMax - delta ELSE data >= IntMin - delta)
                             <=> data + delta \in (-IntMax - 1)..IntMax
        OBVIOUS
      <3>1. data \in Numbers
        BY <2>2 DEF Data
      <3>2. data \in Int /\ data >= -IntMax - 1 /\ data <= IntMax
        BY <3>1, <1>5, KeyspaceAssumption DEF IntMin
      <3>3. CASE delta = 1
        BY <3>2, <3>3, <1>5
      <3>4. CASE delta = -1
        BY <3>2, <3>4, <1>5 DEF IntMin
      <3>. QED  BY <3>3, <3>4
    <2>5. sums <=> fits
      BY <2>3, <2>4, Zenon DEF sums, fits
    <2>. QED  BY <2>1, <2>2, <2>3, <2>5, Zenon
  <1>8. CASE Live(db, k, t) /\ ~sums /\ db' = db /\ Answer(cmd, <<k>>, Err)
    <2>1. ~fits
      BY <1>7, <1>8, Zenon
    <2>2. Promise!Leaves(Visible)
      BY <1>2, <1>8, LeavesAlone, Zenon
    <2>3. Promise!Says(cmd, <<k>>, Promise!Err)
      BY <1>8, Replies DEF Err, Promise!Err
    <2>. QED  BY <2>1, <2>2, <2>3
  <1>9. CASE /\ Live(db, k, t) /\ sums /\ data + delta \in Numbers
             /\ db' = Bump(db, k, data + delta)
             /\ Answer(cmd, <<k>>, Number(data + delta))
    <2>. DEFINE v == [db.map[k] EXCEPT !.data = data + delta]
    <2>1. fits /\ value = data /\ alive /\ Visible[k] = db.map[k] /\ db.map[k] \in Value
      BY <1>7, <1>9, Zenon
    <2>2. entry = v /\ v \in Value
      BY <2>1, <1>9 DEF Value, Data, entry
    <2>3. db'.map = [db.map EXCEPT ![k] = v]
      BY <1>9, <2>1 DEF Bump, IInv, DbInv, DbType
    <2>. HIDE DEF v
    <2>4. Promise!Prune([Visible EXCEPT ![k] = v], clock') = Seen(db', clock')
      BY <1>2, <2>2, <2>3, RewriteKeeps, Zenon
    <2>5. Promise!Leaves([Visible EXCEPT ![k] = entry])
      BY <2>2, <2>4, VisibleThen DEF Promise!Leaves
    <2>6. Promise!Says(cmd, <<k>>, <<"int", value + delta>>)
      BY <1>9, <2>1, Replies, Zenon DEF Number
    <2>. QED  BY <2>1, <2>5, <2>6
  <1>. QED  BY <1>1, <1>6, <1>8, <1>9, Zenon
=============================================================================
