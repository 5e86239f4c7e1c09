------------------------- MODULE KeyspaceRefinement -------------------------
(***************************************************************************)
(* Keyspace implements LiveStore, for every set of keys and strings, every *)
(* integer width, sample size and round limit, while the clock is not set  *)
(* back: no entry past its deadline, however late it is collected, shows   *)
(* in any reply.  What a command answers and leaves is what the command of *)
(* the same name in LiveStore may answer and leave; the expiry cycle must  *)
(* not show.                                                               *)
(*                                                                         *)
(* The store of LiveStore is Visible, what is seen of the tables now.  A   *)
(* lemma picks the readings that the handler took, and names the instant   *)
(* between its start and its end at which LiveStore's command happens.     *)
(***************************************************************************)
EXTENDS KeyspaceProofs, FiniteSetTheorems

-----------------------------------------------------------------------------
(* EXPIRE; KeyspaceProofs has the other commands with one key.             *)

LEMMA ExpireKeeps ==
  ASSUME ClockForward, IInv, NEW k \in Keys, NEW seconds \in Amounts, Expire(k, seconds)
  PROVE  Promise!Expire("expire", k) \/ Promise!Expire("expire_past", k)
  <1>. DEFINE cmd == IF seconds <= 0 THEN "expire_past" ELSE "expire"
              seen(t) == Lookup(db, k, t)
              e(t) == TtlToDeadline(seconds, UnitMs, t)
  <1>1. PICK t1 \in Readings(clock) :
          \/ ~Live(db, k, t1) /\ db' = seen(t1) /\ clock' = t1 /\ Answer(cmd, <<k>>, Number(0))
          \/ /\ Live(db, k, t1)
             /\ \E t2 \in Readings(t1) :
                  \/ /\ seconds <= 0
                     /\ db' = Erase(seen(t1), k, t2) /\ clock' = t2
                     /\ Answer(cmd, <<k>>, Number(1))
                  \/ /\ seconds > 0 /\ ~TtlFits(seconds, UnitMs, t2)
                     /\ db' = seen(t1) /\ clock' = t2
                     /\ Answer(cmd, <<k>>, Err)
                  \/ /\ seconds > 0 /\ TtlFits(seconds, UnitMs, t2)
                     /\ \E t3 \in Readings(t2) :
                          /\ db' = SetExpireAt(seen(t1), k, e(t2), t3)
                          /\ clock' = t3
                          /\ Answer(cmd, <<k>>, Number(1))
    BY DEF Expire
  <1>2. clock \in Times /\ t1 \in Times /\ clock <= t1 /\ t1 <= t1
    <2>1. clock \in Times
      BY DEF IInv
    <2>2. t1 \in Times /\ clock <= t1
      BY <2>1, LaterReadings
    <2>. QED  BY <2>1, <2>2, TimesAreNat
  <1>3. Promise!LivesAt(Visible[k], t1) <=> Live(db, k, t1)
    BY <1>2, LivesAtIsLive
  <1>4. seconds \in Int /\ UnitMs \in Nat \ {0} /\ UnitMs \in {UnitMs}
    BY KeyspaceAssumption DEF IntMin
  <1>5. cmd \in {"expire", "expire_past"}
    OBVIOUS
  <1>. SUFFICES Promise!Expire(cmd, k)
    BY <1>5
  <1>6. Promise!Ran(cmd, <<k>>)
    <2>1. \E reply : Answer(cmd, <<k>>, reply)
      BY <1>1
    <2>. HIDE DEF cmd
    <2>. QED  BY <2>1 DEF Answer, Promise!Ran
  <1>7. CASE ~Live(db, k, t1) /\ db' = seen(t1) /\ clock' = t1 /\ Answer(cmd, <<k>>, Number(0))
    <2>1. Promise!Leaves(Visible) /\ t1 \in Promise!Instants
      BY <1>2, <1>7, LeavesLookup, InstantsAre
    <2>2. Promise!Says(cmd, <<k>>, <<"int", 0>>)
      BY <1>7, Replies DEF Number
    <2>. HIDE DEF cmd
    <2>. QED  BY <1>3, <1>6, <1>7, <2>1, <2>2 DEF Promise!Expire
  <1>8. ASSUME Live(db, k, t1) PROVE seen(t1) = db
    BY <1>2, <1>8, SeenLookup DEF IInv
  <1>9. ASSUME Live(db, k, t1), NEW t2 \in Readings(t1), seconds <= 0,
               db' = Erase(seen(t1), k, t2), clock' = t2, Answer(cmd, <<k>>, Number(1))
        PROVE  Promise!Expire(cmd, k)
    <2>1. t2 \in Times /\ t1 <= t2 /\ clock' \in Times /\ t1 <= clock' /\ clock <= clock'
      BY <1>9, TwoReadings
    <2>2. db' = Drop(db, {k})
      BY <1>8, <1>9 DEF Erase, Lookup, Live, Expired
    <2>3. Promise!Leaves(Promise!Without({k})) /\ t1 \in Promise!Instants
      BY <1>2, <2>1, <2>2, PruneWithout, VisibleThen, InstantsAre DEF Promise!Leaves
    <2>4. Promise!Says("expire_past", <<k>>, <<"int", 1>>) /\ cmd = "expire_past"
      BY <1>9, Replies DEF Number
    <2>. QED  BY <1>3, <1>6, <1>9, <2>3, <2>4 DEF Promise!Expire
  <1>10. ASSUME Live(db, k, t1), NEW t2 \in Readings(t1),
                seconds > 0, ~TtlFits(seconds, UnitMs, t2),
                db' = seen(t1), clock' = t2, Answer(cmd, <<k>>, Err)
         PROVE  Promise!Expire(cmd, k)
    <2>1. t2 \in Times /\ t1 <= t2 /\ clock' \in Times /\ t1 <= clock' /\ t2 <= clock'
      BY <1>10, TwoReadings
    <2>2. e(t2) \in Promise!Deadlines(t1, {UnitMs}) /\ e(t2) > IntMax
      BY <1>2, <1>4, <1>10, <2>1, DeadlineOf, TooFar
    <2>3. Promise!Leaves(Visible) /\ t1 \in Promise!Instants
      BY <1>2, <1>10, <2>1, LeavesLookup, InstantsAre
    <2>4. cmd = "expire"
      BY <1>4, <1>10
    <2>5. Promise!Says("expire", <<k>>, Promise!Err)
      BY <1>10, <2>4, Replies DEF Err, Promise!Err
    <2>. HIDE DEF e, cmd
    <2>. QED  BY <1>3, <1>6, <1>10, <2>2, <2>3, <2>4, <2>5 DEF Promise!Expire
  <1>11. ASSUME Live(db, k, t1), NEW t2 \in Readings(t1), NEW t3 \in Readings(t2),
                seconds > 0, TtlFits(seconds, UnitMs, t2),
                db' = SetExpireAt(seen(t1), k, e(t2), t3), clock' = t3,
                Answer(cmd, <<k>>, Number(1))
         PROVE  Promise!Expire(cmd, k)
    <2>1. t2 \in Times /\ t1 <= t2
      BY <1>11, TwoReadings
    <2>2. t3 \in Times /\ t2 <= t3
      BY <2>1, LaterReadings
    <2>3. clock' \in Times /\ t1 <= clock' /\ t2 <= clock' /\ clock <= clock'
      BY <1>2, <1>11, <2>1, <2>2, TimesAreNat
    <2>4. e(t2) \in 1..IntMax /\ e(t2) \in Promise!Deadlines(t1, {UnitMs})
      BY <1>2, <1>4, <1>11, <2>1, <2>3, DeadlineRange, DeadlineOf
    <2>5. cmd = "expire"
      BY <1>4, <1>11
    <2>6. Promise!Says("expire", <<k>>, <<"int", 1>>) /\ t1 \in Promise!Instants
      BY <1>2, <1>11, <2>3, <2>5, Replies, InstantsAre DEF Number
    <2>. HIDE DEF e, cmd
    <2>7. CASE Live(db, k, t3)
      <3>. DEFINE v == [db.map[k] EXCEPT !.expire_at_ms = e(t2)]
      <3>1. Visible[k] = db.map[k] /\ db.map[k] \in Value
        BY <1>2, <1>11, LivesAtIsLive, EntryType DEF IInv, Live
      <3>2. v \in Value /\ e(t2) <= IntMax
        BY <2>4, <3>1, KeyspaceAssumption DEF Value
      <3>3. db'.map = [db.map EXCEPT ![k] = v]
        BY <1>8, <1>11, <2>7, <3>1 DEF SetExpireAt, IInv, DbInv, DbType
      <3>4. [Visible EXCEPT ![k].expire_at_ms = e(t2)] = [Visible EXCEPT ![k] = v]
        BY <3>1 DEF Visible
      <3>. HIDE DEF v
      <3>5. Promise!Prune([Visible EXCEPT ![k] = v], clock') = Seen(db', clock')
        BY <2>3, <3>2, <3>3, PruneExcept, SeenRewrite DEF IInv
      <3>6. Promise!Leaves([Visible EXCEPT ![k].expire_at_ms = e(t2)])
        BY <3>4, <3>5, VisibleThen DEF Promise!Leaves
      <3>. QED  BY <1>3, <1>6, <1>11, <2>4, <2>5, <2>6, <3>2, <3>6 DEF Promise!Expire
    <2>8. CASE ~Live(db, k, t3)
      <3>1. db' = Lookup(db, k, t3) /\ t3 = clock'
        BY <1>8, <1>11, <2>8 DEF SetExpireAt
      <3>2. t3 <= clock' /\ clock <= t3
        BY <2>2, <2>3, <3>1, TimesAreNat
      <3>3. Promise!Leaves(Visible)
        BY <2>2, <2>3, <3>1, <3>2, LeavesLookup
      <3>4. ~Promise!LivesAt(Visible[k], clock')
        BY <2>3, <2>8, <3>1, LivesAtIsLive
      <3>. QED  BY <1>3, <1>6, <1>11, <2>5, <2>6, <3>3, <3>4 DEF Promise!Expire
    <2>. QED  BY <2>7, <2>8
  <1>. HIDE DEF cmd, seen, e
  <1>. QED  BY <1>1, <1>7, <1>9, <1>10, <1>11


-----------------------------------------------------------------------------
(* Commands with several keys.                                             *)

\* LiveStore counts as Keyspace does.
LEMMA SameCardinality ==
  ASSUME NEW S
  PROVE  Promise!Cardinality(S) = Cardinality(S)
  BY Zenon DEF Promise!Cardinality, Cardinality

LEMMA ExistsKeeps ==
  ASSUME ClockForward, IInv, NEW ks \in KeySeqs, Exists(ks)
  PROVE  Promise!Exists(ks)
  <1>. DEFINE found(ts) == {i \in DOMAIN ks : /\ db.map[ks[i]] # Missing
                                              /\ ks[i] \notin ReclaimedBy(db, ks, ts, i)}
              alive(t) == {i \in DOMAIN ks : ks[i] \in Promise!AliveAt(Visible, t)}
  <1>1. PICK ts \in ReadingSeqs(Len(ks), clock) :
          /\ clock' = ts[Len(ks)]
          /\ db' = Drop(db, ReclaimedBy(db, ks, ts, Len(ks)))
          /\ Answer("exists", ks, Number(Cardinality(found(ts))))
    BY DEF Exists
  <1>2. /\ Len(ks) \in Nat \ {0} /\ DOMAIN ks = 1..Len(ks) /\ Len(ks) \in 1..Len(ks)
        /\ \A i \in 1..Len(ks) : ks[i] \in Keys
    BY Arguments
  <1>3. /\ clock' \in Times /\ clock <= clock' /\ clock \in Times /\ DbInv(db) /\ clock <= clock
        /\ \A i \in 1..Len(ks) : ts[i] \in Times /\ clock <= ts[i] /\ ts[i] <= clock'
        /\ \A i \in 1..Len(ks) : \A k \in ReclaimedBy(db, ks, ts, i) :
              k \in Keys /\ Expired(db, k, clock')
    BY <1>1, Reclaimed, TimesAreNat DEF IInv
  <1>4. \A k \in Keys : /\ k \in Promise!AliveAt(Visible, clock) <=> Live(db, k, clock)
                        /\ k \in Promise!AliveAt(Visible, clock') <=> Live(db, k, clock')
    BY <1>3, LivesAtIsLive DEF Promise!AliveAt
  <1>5. alive(clock') \subseteq found(ts)
    BY <1>2, <1>3, <1>4 DEF Live, Expired
  <1>6. found(ts) \subseteq alive(clock)
    <2>. SUFFICES ASSUME NEW i \in found(ts) PROVE i \in alive(clock)
      OBVIOUS
    <2>1. i \in 1..Len(ks) /\ ks[i] \in Keys /\ db.map[ks[i]] # Missing
      BY <1>2
    <2>2. ~Expired(db, ks[i], ts[i])
      BY <1>2, <2>1 DEF ReclaimedBy
    <2>3. Live(db, ks[i], clock)
      BY <1>3, <2>1, <2>2, DeathIsFinal DEF Live, Expired
    <2>. QED  BY <1>2, <1>4, <2>1, <2>3
  <1>7. Cardinality(found(ts)) \in Cardinality(alive(clock'))..Cardinality(alive(clock))
    <2>1. IsFiniteSet(1..Len(ks)) /\ alive(clock) \subseteq 1..Len(ks)
      BY <1>2, FS_Interval
    <2>. HIDE DEF found, alive
    <2>2. IsFiniteSet(alive(clock))
      BY <2>1, FS_Subset
    <2>3. /\ IsFiniteSet(found(ts))
          /\ Cardinality(found(ts)) <= Cardinality(alive(clock))
      BY <2>2, <1>6, FS_Subset
    <2>4. /\ IsFiniteSet(alive(clock'))
          /\ Cardinality(alive(clock')) <= Cardinality(found(ts))
      BY <2>3, <1>5, FS_Subset
    <2>5. /\ Cardinality(alive(clock)) \in Nat /\ Cardinality(alive(clock')) \in Nat
          /\ Cardinality(found(ts)) \in Nat
      BY <2>2, <2>3, <2>4, FS_CardinalityType
    <2>. QED  BY <2>3, <2>4, <2>5
  <1>8. Promise!Leaves(Visible)
    <2>1. \A k \in Keys \cap ReclaimedBy(db, ks, ts, Len(ks)) : ~Live(db, k, clock')
      BY <1>2, <1>3 DEF Live, Expired
    <2>. QED  BY <1>1, <1>3, <2>1, SeenCollect, LeavesAlone
  <1>9. Promise!Says("exists", ks, <<"int", Cardinality(found(ts))>>) /\ Promise!Ran("exists", ks)
    BY <1>1, Replies DEF Number
  <1>. HIDE DEF found
  <1>10. Cardinality(found(ts)) \in
           Promise!Cardinality(alive(clock'))..Promise!Cardinality(alive(clock))
    <2>. HIDE DEF alive
    <2>. QED  BY <1>7, SameCardinality
  <1>. QED  BY <1>8, <1>9, <1>10 DEF Promise!Exists, Promise!Between

\* The arguments that DEL counts, and where it counted them.
LEMMA DelKeeps ==
  ASSUME ClockForward, IInv, NEW ks \in KeySeqs, Del(ks)
  PROVE  Promise!Del(ks)
  <1>. DEFINE args == {ks[i] : i \in DOMAIN ks}
              alive(t) == args \cap Promise!AliveAt(Visible, t)
              deleted(ts) == {i \in DOMAIN ks : /\ Live(db, ks[i], ts[i])
                                                /\ ks[i] \notin KeysOf(SubSeq(ks, 1, i - 1))}
  <1>1. PICK ts \in ReadingSeqs(Len(ks), clock) :
          /\ clock' = ts[Len(ks)]
          /\ db' = Drop(db, KeysOf(ks))
          /\ Answer("del", ks, Number(Cardinality(deleted(ts))))
    BY DEF Del
  <1>2. /\ Len(ks) \in Nat \ {0} /\ DOMAIN ks = 1..Len(ks)
        /\ \A i \in 1..Len(ks) : ks[i] \in Keys
    BY Arguments
  <1>3. /\ clock' \in Times /\ clock <= clock' /\ clock \in Times /\ DbInv(db) /\ clock <= clock
        /\ \A i \in 1..Len(ks) : ts[i] \in Times /\ clock <= ts[i] /\ ts[i] <= clock'
    BY <1>1, Reclaimed, TimesAreNat DEF IInv
  <1>4. \A k \in Keys : /\ k \in Promise!AliveAt(Visible, clock) <=> Live(db, k, clock)
                        /\ k \in Promise!AliveAt(Visible, clock') <=> Live(db, k, clock')
    BY <1>3, LivesAtIsLive DEF Promise!AliveAt
  <1>5. ASSUME NEW i \in 1..Len(ks)
        PROVE  KeysOf(SubSeq(ks, 1, i - 1)) = {ks[j] : j \in 1..(i - 1)}
    <2>1. \A j \in 1..(i - 1) : ks[j] \in Keys
      BY <1>2
    <2>. DEFINE s == SubSeq(ks, 1, i - 1)
    <2>2. s \in Seq(Keys) /\ Len(s) = i - 1 /\ \A j \in 1..(i - 1) : s[j] = ks[j]
      BY <2>1, <1>2, Arguments
    <2>. HIDE DEF s
    <2>3. DOMAIN s = 1..(i - 1)
      BY <2>2
    <2>4. KeysOf(s) = {ks[j] : j \in 1..(i - 1)}
      BY <2>2, <2>3 DEF KeysOf
    <2>. QED  BY <2>4 DEF s
  <1>. DEFINE D == deleted(ts)
              named == {ks[i] : i \in D}
              f == [i \in D |-> ks[i]]
  <1>6. /\ D \subseteq 1..Len(ks)
        /\ \A i \in D : Live(db, ks[i], ts[i]) /\ \A j \in 1..(i - 1) : ks[i] # ks[j]
    BY <1>2, <1>5
  <1>7. \A i \in 1..Len(ks) :
          Live(db, ks[i], ts[i]) /\ (\A j \in 1..(i - 1) : ks[i] # ks[j]) => i \in D
    BY <1>2, <1>5
  <1>. HIDE DEF D
  <1>8. named \subseteq alive(clock)
    <2>. SUFFICES ASSUME NEW i \in D PROVE ks[i] \in alive(clock)
      OBVIOUS
    <2>1. i \in 1..Len(ks) /\ ks[i] \in Keys /\ Live(db, ks[i], ts[i])
      BY <1>2, <1>6
    <2>2. Live(db, ks[i], clock)
      BY <1>3, <2>1, DeathIsFinal
    <2>. QED  BY <1>2, <1>4, <2>1, <2>2
  <1>9. alive(clock') \subseteq named
    <2>. SUFFICES ASSUME NEW k \in alive(clock') PROVE k \in named
      OBVIOUS
    <2>. DEFINE I == {i \in 1..Len(ks) : ks[i] = k}
    <2>1. I # {} /\ I \subseteq Nat /\ k \in Keys /\ Live(db, k, clock')
      BY <1>2, <1>4
    <2>. HIDE DEF I
    <2>2. PICK i \in I : \A j \in I : i <= j
      BY <2>1, LeastExists
    <2>3. i \in 1..Len(ks) /\ ks[i] = k
      BY <2>2 DEF I
    <2>4. \A j \in 1..(i - 1) : ks[i] # ks[j]
      BY <2>2, <2>3, <1>2 DEF I
    <2>5. Live(db, ks[i], ts[i])
      BY <1>3, <2>1, <2>3, DeathIsFinal
    <2>. QED  BY <1>7, <2>3, <2>4, <2>5
  <1>10. IsFiniteSet(D) /\ IsFiniteSet(alive(clock))
    <2>1. IsFiniteSet(1..Len(ks))
      BY <1>2, FS_Interval
    <2>2. IsFiniteSet(D)
      BY <2>1, <1>6, FS_Subset
    <2>3. alive(clock) \subseteq Keys /\ IsFiniteSet(Keys)
      BY <1>2, KeyspaceAssumption
    <2>. HIDE DEF alive
    <2>. QED  BY <2>2, <2>3, FS_Subset
  <1>11. IsFiniteSet(named) /\ Cardinality(named) = Cardinality(D)
    <2>1. f \in [D -> named] /\ \A y \in named : \E i \in D : f[i] = y
      OBVIOUS
    <2>2. ASSUME NEW i \in D, NEW j \in D, f[i] = f[j] PROVE i = j
      <3>1. i \in 1..Len(ks) /\ j \in 1..Len(ks) /\ ks[i] = ks[j]
        BY <1>6, <2>2
      <3>2. ~(i < j) /\ ~(j < i)
        BY <1>2, <1>6, <3>1
      <3>. QED  BY <1>2, <3>1, <3>2
    <2>. HIDE DEF f, named
    <2>3. f \in Bijection(D, named)
      BY <2>1, <2>2 DEF Bijection, Injection, Surjection, IsInjective
    <2>4. ExistsBijection(D, named)
      BY <2>3 DEF ExistsBijection
    <2>. QED  BY <2>4, <1>10, FS_Bijection
  <1>12. Cardinality(D) \in Cardinality(alive(clock'))..Cardinality(alive(clock))
    <2>. HIDE DEF named, alive
    <2>1. Cardinality(named) <= Cardinality(alive(clock))
      BY <1>8, <1>10, FS_Subset
    <2>2. /\ IsFiniteSet(alive(clock'))
          /\ Cardinality(alive(clock')) <= Cardinality(named)
      BY <1>9, <1>11, FS_Subset
    <2>3. /\ Cardinality(alive(clock)) \in Nat /\ Cardinality(alive(clock')) \in Nat
          /\ Cardinality(named) \in Nat
      BY <1>10, <1>11, <2>2, FS_CardinalityType
    <2>. QED  BY <1>11, <2>1, <2>2, <2>3
  <1>13. Promise!Leaves(Promise!Without(args))
    <2>1. args = KeysOf(ks)
      BY DEF KeysOf
    <2>. QED  BY <1>1, <1>3, <2>1, PruneWithout, VisibleThen DEF Promise!Leaves
  <1>14. Promise!Says("del", ks, <<"int", Cardinality(D)>>) /\ Promise!Ran("del", ks)
    BY <1>1, Replies DEF Number, D
  <1>15. Cardinality(D) \in Promise!Cardinality(alive(clock'))..Promise!Cardinality(alive(clock))
    <2>. HIDE DEF alive
    <2>. QED  BY <1>12, SameCardinality
  <1>. QED  BY <1>13, <1>14, <1>15 DEF Promise!Del, Promise!Between

-----------------------------------------------------------------------------
(* Commands without a key, and the expiry cycle.                           *)

LEMMA StandsStill ==
  ASSUME IInv, UNCHANGED <<db, clock>>
  PROVE  Promise!Leaves(Visible) /\ clock \in Times /\ clock <= clock /\ clock' = clock
  <1>1. clock \in Times /\ clock' = clock /\ db' = db
    BY DEF IInv
  <1>2. clock <= clock
    BY <1>1, TimesAreNat
  <1>. QED  BY <1>1, <1>2, LeavesAlone

LEMMA DbSizeKeeps ==
  ASSUME IInv, DbSize
  PROVE  Promise!DbSize
  <1>. DEFINE held == {k \in Keys : db.map[k] # Missing}
              alive == Promise!AliveAt(Visible, clock)
  <1>1. Promise!Leaves(Visible) /\ clock \in Times /\ clock <= clock
    BY StandsStill DEF DbSize
  <1>2. alive \subseteq held /\ held \subseteq Keys /\ IsFiniteSet(Keys)
    BY <1>1, LivesAtIsLive, KeyspaceAssumption DEF Promise!AliveAt, Live
  <1>3. Promise!Says("dbsize", <<>>, <<"int", Cardinality(held)>>) /\ Promise!Ran("dbsize", <<>>)
    BY Replies DEF DbSize, Number
  <1>. HIDE DEF held, alive
  <1>4. IsFiniteSet(held) /\ Cardinality(held) <= Cardinality(Keys)
    BY <1>2, FS_Subset
  <1>5. IsFiniteSet(alive) /\ Cardinality(alive) <= Cardinality(held)
    BY <1>2, <1>4, FS_Subset
  <1>6. Cardinality(held) \in Nat /\ Cardinality(alive) \in Nat /\ Cardinality(Keys) \in Nat
    BY <1>2, <1>4, <1>5, FS_CardinalityType
  <1>7. Cardinality(held) \in Promise!Cardinality(alive)..Promise!Cardinality(Keys)
    BY <1>4, <1>5, <1>6, SameCardinality
  <1>. QED  BY <1>1, <1>3, <1>7 DEF Promise!DbSize, alive

LEMMA FlushAllKeeps ==
  ASSUME IInv, FlushAll
  PROVE  Promise!FlushAll
  <1>1. clock \in Times /\ clock' = clock /\ db' = EmptyDb
    BY DEF IInv, FlushAll
  <1>2. clock <= clock'
    BY <1>1, TimesAreNat
  <1>3. Seen(EmptyDb, clock) = Seen(Drop(db, Keys), clock)
    BY DEF Seen, EmptyDb, Drop, Live
  <1>4. Promise!Leaves(Promise!Without(Keys))
    BY <1>1, <1>2, <1>3, PruneWithout, VisibleThen DEF Promise!Leaves
  <1>. QED  BY <1>4, Replies DEF FlushAll, Ok, Promise!Ok, Promise!FlushAll

\* A round of active_expire_cycle collects only what no client can see any more.
LEMMA RoundKeeps ==
  ASSUME ClockForward, IInv, ExpireRound
  PROVE  /\ Promise!Idle
         /\ clock' \in Times /\ clock <= clock' /\ last' = last
  <1>1. CASE db.volatile_keys = {}
    <2>1. UNCHANGED <<db, clock>> /\ last' = last
      BY <1>1 DEF ExpireRound
    <2>2. Promise!Leaves(Visible) /\ clock \in Times /\ clock <= clock /\ clock' = clock
      BY <2>1, StandsStill
    <2>. QED  BY <2>1, <2>2 DEF Promise!Idle
  <1>2. CASE db.volatile_keys # {}
    <2>1. PICK now \in Readings(clock), S \in Samples(db) :
            clock' = now /\ db' = Drop(db, Doomed(db, S, now)) /\ last' = last
      BY <1>2 DEF ExpireRound
    <2>2. clock' \in Times /\ clock <= clock' /\ clock' = now
      BY <2>1, OneReading
    <2>3. S \subseteq Keys /\ DOMAIN db.map = Keys
      BY DEF Samples, IInv, DbInv, DbType
    <2>4. \A k \in Doomed(db, S, now) : ~Live(db, k, clock')
      BY <2>2 DEF Doomed, Live
    <2>5. Seen(db', clock') = Seen(db, clock')
      BY <2>1, <2>4, SeenCollect
    <2>6. Promise!Leaves(Visible)
      BY <2>2, <2>5, LeavesAlone
    <2>. QED  BY <2>1, <2>2, <2>6 DEF Promise!Idle
  <1>. QED  BY <1>1, <1>2

-----------------------------------------------------------------------------
(* Every step is one of LiveStore's.                                       *)

\* A command of one key, once it keeps its promise, is a step of LiveStore.
LEMMA ClockAdvances ==
  ASSUME ClockForward, IInv, NEW k \in Keys,
         \/ Get(k) \/ Type(k) \/ Ttl(k) \/ Persist(k)
         \/ \E cmd, delta : IncrBy(cmd, k, delta)
         \/ \E seconds : Expire(k, seconds)
         \/ \E cmd, data, unit, amount : Set(cmd, k, data, unit, amount)
  PROVE  clock' \in clock..MaxTime /\ last'.keys = <<k>>
  <1>1. \A t1 \in Readings(clock) : \A t2 \in Readings(t1) : \A t3 \in Readings(t2) :
          t1 \in clock..MaxTime /\ t2 \in clock..MaxTime /\ t3 \in clock..MaxTime
    <2>. TAKE t1 \in Readings(clock)
    <2>. TAKE t2 \in Readings(t1)
    <2>. TAKE t3 \in Readings(t2)
    <2>1. /\ clock \in Times /\ t1 \in Times /\ t2 \in Times
          /\ clock <= t1 /\ t1 <= t2
      BY TwoReadings
    <2>2. t3 \in Times /\ t2 <= t3
      BY <2>1, LaterReadings
    <2>. QED  BY <2>1, <2>2, KeyspaceAssumption DEF Times
  <1>2. \A t \in Times : t \in Readings(t)
    BY TimesAreNat DEF Readings
  <1>3. \E t1 \in Readings(clock) : \E t2 \in Readings(t1) : \E t3 \in Readings(t2) :
          clock' \in {t1, t2, t3}
    <2>1. \A t1 \in Readings(clock) : t1 \in Readings(t1)
      BY <1>2, ReadingsAreTimes
    <2>2. \A t1 \in Readings(clock) : \A t2 \in Readings(t1) : t2 \in Readings(t2)
      BY <1>2, ReadingsAreTimes
    <2>3. CASE Get(k) \/ Type(k) \/ Persist(k)
      BY <2>1, <2>3 DEF Get, Type, Persist
    <2>7. CASE \E cmd, delta : IncrBy(cmd, k, delta)
      <3>1. PICK cmd, delta : IncrBy(cmd, k, delta)
        BY <2>7
      <3>2. clock' \in Readings(clock)
        BY <3>1 DEF IncrBy
      <3>. QED  BY <2>1, <3>2
    <2>4. CASE Ttl(k)
      BY <2>2, <2>4 DEF Ttl
    <2>5. CASE \E seconds : Expire(k, seconds)
      <3>1. PICK seconds : Expire(k, seconds)
        BY <2>5
      <3>. QED  BY <2>1, <2>2, <3>1 DEF Expire
    <2>6. CASE \E cmd, data, unit, amount : Set(cmd, k, data, unit, amount)
      <3>1. PICK cmd, data, unit, amount : Set(cmd, k, data, unit, amount)
        BY <2>6
      <3>. QED  BY <2>1, <2>2, <3>1 DEF Set
    <2>. QED  BY <2>3, <2>4, <2>5, <2>6, <2>7
  <1>4. last'.keys = <<k>>
    <2>1. CASE Get(k) \/ Type(k) \/ Ttl(k) \/ Persist(k)
      <3>1. \E cmd, reply : Answer(cmd, <<k>>, reply)
        BY <2>1 DEF Get, Type, Persist, Ttl
      <3>. QED  BY <3>1 DEF Answer
    <2>2. CASE \E cmd, delta : IncrBy(cmd, k, delta)
      <3>1. PICK cmd, delta : IncrBy(cmd, k, delta)
        BY <2>2
      <3>2. \E reply : Answer(cmd, <<k>>, reply)
        BY <3>1 DEF IncrBy
      <3>. QED  BY <3>2 DEF Answer
    <2>3. CASE \E seconds : Expire(k, seconds)
      <3>1. PICK seconds : Expire(k, seconds)
        BY <2>3
      <3>2. \E cmd, reply : Answer(cmd, <<k>>, reply)
        BY <3>1 DEF Expire
      <3>. QED  BY <3>2 DEF Answer
    <2>4. CASE \E cmd, data, unit, amount : Set(cmd, k, data, unit, amount)
      <3>1. PICK cmd, data, unit, amount : Set(cmd, k, data, unit, amount)
        BY <2>4
      <3>2. \E reply : Answer(cmd, <<k>>, reply)
        BY <3>1 DEF Set
      <3>. QED  BY <3>2 DEF Answer
    <2>. QED  BY <2>1, <2>2, <2>3, <2>4
  <1>. QED  BY <1>1, <1>3, <1>4

LEMMA OneKeyStep ==
  ASSUME NEW k \in Keys, clock' \in clock..MaxTime, last'.keys = <<k>>,
         \/ Promise!Get(k) \/ Promise!Type(k) \/ Promise!Ttl(k) \/ Promise!Persist(k)
         \/ Promise!Set("set", k) \/ Promise!Set("setnx", k) \/ Promise!Set("setxx", k)
         \/ Promise!Expire("expire", k) \/ Promise!Expire("expire_past", k)
         \/ Promise!Incr("incr", k, 1) \/ Promise!Incr("decr", k, -1)
  PROVE  Promise!Next
  BY DEF Promise!Next, Promise!Step

LEMMA NextKeeps ==
  ASSUME ClockForward, UnitMs > 2, IInv, Next
  PROVE  Promise!Next
  <1>1. clock \in Times /\ clock \in clock..MaxTime
    BY KeyspaceAssumption DEF IInv, Times
  <1>2. CASE Refuse \/ StartCycle
    <2>1. UNCHANGED <<db, clock>>
      BY <1>2 DEF Refuse, StartCycle
    <2>2. Promise!Leaves(Visible) /\ clock' = clock
      BY <2>1, StandsStill
    <2>3. Promise!Refuse \/ Promise!Idle
      BY <1>2, <2>2, Replies DEF Refuse, StartCycle, Tick, Err, Promise!Err,
                                 Promise!Refuse, Promise!Idle, Promise!Says, Promise!Ran
    <2>. QED  BY <1>1, <2>2, <2>3 DEF Promise!Next, Promise!Step
  <1>3. CASE DbSize
    BY <1>1, <1>3, DbSizeKeeps DEF DbSize, Promise!Next, Promise!Step
  <1>4. CASE FlushAll
    BY <1>1, <1>4, FlushAllKeeps DEF FlushAll, Promise!Next, Promise!Step
  <1>5. CASE ExpireRound
    <2>1. clock' \in Times /\ clock <= clock' /\ Promise!Idle
      BY <1>5, RoundKeeps
    <2>2. clock' \in clock..MaxTime
      BY <1>1, <2>1, KeyspaceAssumption DEF Times
    <2>. QED  BY <2>1, <2>2 DEF Promise!Next, Promise!Step
  <1>6. ASSUME NEW k \in Keys, Get(k) \/ Type(k) \/ Ttl(k) \/ Persist(k)
        PROVE  Promise!Next
    BY <1>6, GetKeeps, TypeKeeps, TtlKeeps, PersistKeeps, ClockAdvances, OneKeyStep
  <1>7. ASSUME NEW k \in Keys, IncrBy("incr", k, 1) \/ IncrBy("decr", k, -1)
        PROVE  Promise!Next
    BY <1>7, IncrKeeps, ClockAdvances, OneKeyStep
  <1>8. ASSUME NEW k \in Keys, NEW seconds \in Amounts, Expire(k, seconds)
        PROVE  Promise!Next
    BY <1>8, ExpireKeeps, ClockAdvances, OneKeyStep
  <1>9. ASSUME NEW k \in Keys, NEW cmd \in {"set", "setnx", "setxx"}, NEW data \in Data,
               \/ Set(cmd, k, data, 0, 0)
               \/ \E unit \in {1, UnitMs}, amount \in Amounts :
                    amount > 0 /\ Set(cmd, k, data, unit, amount)
        PROVE  Promise!Next
    <2>1. clock' \in clock..MaxTime /\ last'.keys = <<k>>
      BY <1>9, ClockAdvances
    <2>2. Promise!Set(cmd, k)
      <3>1. CASE Set(cmd, k, data, 0, 0)
        BY <3>1, SetKeeps
      <3>2. ASSUME NEW unit \in {1, UnitMs}, NEW amount \in Amounts, amount > 0,
                   Set(cmd, k, data, unit, amount)
            PROVE  Promise!Set(cmd, k)
        BY <3>2, SetKeeps
      <3>. QED  BY <1>9, <3>1, <3>2
    <2>3. Promise!Set("set", k) \/ Promise!Set("setnx", k) \/ Promise!Set("setxx", k)
      BY <2>2
    <2>. QED  BY <2>1, <2>3, OneKeyStep
  <1>10. ASSUME NEW ks \in KeySeqs, Del(ks) \/ Exists(ks)
         PROVE  Promise!Next
    <2>1. Promise!Del(ks) \/ Promise!Exists(ks)
      BY <1>10, DelKeeps, ExistsKeeps
    <2>2. last'.cmd \in {"del", "exists"}
      BY <2>1 DEF Promise!Del, Promise!Exists, Promise!Ran
    <2>3. \E ts \in ReadingSeqs(Len(ks), clock) : clock' = ts[Len(ks)]
      BY <1>10 DEF Del, Exists
    <2>4. clock' \in Times /\ clock <= clock'
      BY <2>3, Reclaimed
    <2>5. clock' \in clock..MaxTime
      BY <1>1, <2>4, KeyspaceAssumption DEF Times
    <2>. QED  BY <2>1, <2>2, <2>5 DEF KeySeqs, Promise!Next, Promise!Step
  <1>. QED
    BY <1>2, <1>3, <1>4, <1>5, <1>6, <1>7, <1>8, <1>9, <1>10 DEF Next, Command

\* "No dead key is ever observable" (db.h): lazy reclaim in lookup and sampled reclaim in
\* active_expire_cycle are together the same, to every client, as a store from which each
\* key vanishes at its deadline.  A second must have more than two milliseconds: TTL
\* rounds to the nearest, and must round the last millisecond of a key's life down.
THEOREM DeadKeysNeverShow ==
  ASSUME StepBack = FALSE, UnitMs > 2
  PROVE  Spec => ImplementsLiveStore
  <1>1. Init => Promise!Init
    BY DEF Init, Tick, EmptyDb, Promise!Init, Promise!Times, Times, Visible, Live
  <1>2. IInv /\ [Next]_vars => [Promise!Next]_<<Visible, clock, last>>
    <2>1. ClockForward
      BY DEF ClockForward
    <2>2. CASE UNCHANGED vars
      BY <2>2 DEF vars, Visible, Live
    <2>. QED  BY <2>1, <2>2, NextKeeps
  <1>. QED  BY <1>1, <1>2, InvAlways, PTL DEF Spec, ImplementsLiveStore, Promise!Spec, Promise!vars
=============================================================================
