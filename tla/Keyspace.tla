------------------------------ MODULE Keyspace ------------------------------
(***************************************************************************)
(* The keyspace of kvsd (src/db) and the commands that act on it (src/cmd).*)
(*                                                                         *)
(* One thread runs one command at a time, so a command is one action.  What*)
(* a command cannot stop is the clock: every now_ms() call in a handler is *)
(* a reading of its own, and a later call may return a later instant (or,  *)
(* the clock being wall time, an earlier one).  Each action therefore      *)
(* chooses one reading per now_ms() call of its handler, in call order.    *)
(*                                                                         *)
(* Abstractions.  A string is a member of Words (not a decimal integer) or *)
(* the integer whose decimal form it is.  String is the only value type,   *)
(* so type tags and the WRONGTYPE branches, which nothing can reach, are   *)
(* left out, and so is the expired_count statistic.  Every error reply is  *)
(* Err.  kContinueIfExpired* are the literals 1 and 4.                     *)
(***************************************************************************)
EXTENDS Integers, FiniteSets, Sequences

CONSTANTS
  Keys,        \* the keys clients use
  Words,       \* strings that string_to_int64 refuses
  Numbers,     \* the integers whose decimal forms the instance stores
  IntMax,      \* INT64_MAX, scaled down
  MaxTime,     \* the last instant an instance explores
  UnitMs,      \* milliseconds in a second (1000 in the code)
  Amounts,     \* the TTL amounts clients send
  MaxArgs,     \* the most keys one DEL or EXISTS names
  SampleSize,  \* --expire-samples
  MaxRounds,   \* kMaxRounds
  StepBack,    \* whether the wall clock may be set back
  Missing      \* "no entry": what map_.find(key) == end() says

IntMin == -IntMax - 1
Times == 1..MaxTime
Data == Words \cup Numbers
NoExpiry == 0
Value == [data : Data, expire_at_ms : 0..IntMax]

ASSUME KeyspaceAssumption ==
  /\ IsFiniteSet(Keys)
  /\ MaxTime \in Nat \ {0}
  /\ IntMax \in Nat /\ IntMax >= MaxTime
  /\ UnitMs \in Nat \ {0}
  /\ Amounts \subseteq IntMin..IntMax
  /\ Numbers \subseteq IntMin..IntMax
  /\ Words \cap Int = {}
  /\ {-1, 1} \subseteq Numbers
  /\ MaxArgs \in Nat \ {0}
  /\ SampleSize \in Nat
  /\ MaxRounds \in Nat \ {0}
  /\ StepBack \in BOOLEAN
  /\ Missing \notin Value

VARIABLES
  db,      \* [map, volatile_keys]: the two tables of class Db
  clock,   \* what now_ms() returned last
  round,   \* round of active_expire_cycle about to run, 0 outside a cycle
  last     \* the last command, the keys it named, and the reply it wrote

vars == <<db, clock, round, last>>

-----------------------------------------------------------------------------
(* The clock.                                                              *)

\* What now_ms() may return once it has returned t.
Readings(t) == IF StepBack THEN Times ELSE {u \in Times : t <= u}

\* What n successive calls may return once the clock has shown t.
ReadingSeqs(n, t) ==
  {ts \in [1..n -> Times] :
     \A i \in 1..n : ts[i] \in Readings(IF i = 1 THEN t ELSE ts[i - 1])}

\* Mutant: the product is tested, the sum is not.
TtlFitsProductOnly(amount, unit, now) ==
  amount <= IntMax \div unit /\ amount >= -((IntMax + 1) \div unit)
\* ttl_to_deadline: the overflow tests, then the sum.
TtlFits(amount, unit, now) ==
  LET delta == amount * unit IN
  /\ amount <= IntMax \div unit
  /\ amount >= -((IntMax + 1) \div unit)
  /\ delta > 0 => now <= IntMax - delta
  /\ delta < 0 => now >= IntMin - delta
TtlToDeadline(amount, unit, now) == now + amount * unit

-----------------------------------------------------------------------------
(* Class Db: each operation as the tables it leaves.                       *)

HasExpiry(v) == v.expire_at_ms # NoExpiry

\* Mutant: a key whose deadline is this very millisecond still counts as live.
IsExpiredLate(v, now) == HasExpiry(v) /\ v.expire_at_ms < now
IsExpired(v, now) == HasExpiry(v) /\ v.expire_at_ms <= now

EmptyDb == [map |-> [k \in Keys |-> Missing], volatile_keys |-> {}]

\* map_.erase and volatile_keys_.erase of every key of S.
Drop(d, S) ==
  [map |-> [k \in Keys |-> IF k \in S THEN Missing ELSE d.map[k]],
   volatile_keys |-> d.volatile_keys \ S]

Expired(d, k, now) == d.map[k] # Missing /\ IsExpired(d.map[k], now)

\* Whether lookup(key) returns a value, and the tables it leaves behind.
Live(d, k, now) == d.map[k] # Missing /\ ~IsExpired(d.map[k], now)
Lookup(d, k, now) == IF Expired(d, k, now) THEN Drop(d, {k}) ELSE d

\* Mutant: "used to have a TTL, now does not" is forgotten by the index.
SetStringKeepIndex(d, k, data, deadline) ==
  [map |-> [d.map EXCEPT ![k] = [data |-> data, expire_at_ms |-> deadline]],
   volatile_keys |-> IF deadline = NoExpiry THEN d.volatile_keys
                     ELSE d.volatile_keys \cup {k}]
SetString(d, k, data, deadline) ==
  [map |-> [d.map EXCEPT ![k] = [data |-> data, expire_at_ms |-> deadline]],
   volatile_keys |-> IF deadline = NoExpiry THEN d.volatile_keys \ {k}
                     ELSE d.volatile_keys \cup {k}]

\* erase: whatever lookup said, the key is gone from both tables.
Erase(d, k, now) == IF Live(d, k, now) THEN Drop(d, {k}) ELSE Lookup(d, k, now)

SetExpireAt(d, k, deadline, now) ==
  IF Live(d, k, now)
  THEN [map |-> [d.map EXCEPT ![k].expire_at_ms = deadline],
        volatile_keys |-> d.volatile_keys \cup {k}]
  ELSE Lookup(d, k, now)

\* persist: its result, and the tables it leaves.
Persists(d, k, now) == Live(d, k, now) /\ HasExpiry(d.map[k])
PersistDb(d, k, now) ==
  IF Persists(d, k, now)
  THEN [map |-> [d.map EXCEPT ![k].expire_at_ms = NoExpiry],
        volatile_keys |-> d.volatile_keys \ {k}]
  ELSE Lookup(d, k, now)

\* pttl: lookup reads the clock once, the subtraction reads it again.
Pttl(d, k, t1, t2) ==
  IF ~Live(d, k, t1) THEN -2
  ELSE IF ~HasExpiry(d.map[k]) THEN -1
  ELSE LET remaining == d.map[k].expire_at_ms - t2
       IN  IF remaining > 0 THEN remaining ELSE 0

-----------------------------------------------------------------------------
(* Commands.  A command runs only outside an expiry cycle: both run on the *)
(* event loop thread, the cycle from the tick.                             *)

Ok == <<"ok">>
Nil == <<"nil">>
Err == <<"err">>
Bulk(d) == <<"bulk", d>>
Number(n) == <<"int", n>>

Answer(cmd, keys, reply) ==
  /\ round = 0
  /\ last' = [cmd |-> cmd, keys |-> keys, reply |-> reply]
  /\ UNCHANGED round

\* Anything refused before a table is touched: an unknown command, a wrong
\* number of arguments, bad options, an amount that is no integer (or, for SET,
\* not positive).  COMMAND, PING and ECHO do not touch the tables either.
Refuse == Answer("refused", <<>>, Err) /\ UNCHANGED <<db, clock>>

\* SET k data [NX | XX] [EX n | PX n]: cmd is "set", "setnx" or "setxx", and unit
\* is 0 when no TTL was given.  Only a TTL makes it read the clock again.
Set(cmd, k, data, unit, amount) ==
  \E t1 \in Readings(clock) :
    LET seen    == Lookup(db, k, t1)
        exists  == Live(db, k, t1)
        refused == (cmd = "setnx" /\ exists) \/ (cmd = "setxx" /\ ~exists)
    IN  \/ /\ refused
           /\ db' = seen /\ clock' = t1
           /\ Answer(cmd, <<k>>, Nil)
        \/ /\ ~refused /\ unit = 0
           /\ db' = SetString(seen, k, data, NoExpiry) /\ clock' = t1
           /\ Answer(cmd, <<k>>, Ok)
        \/ /\ ~refused /\ unit # 0
           /\ \E t2 \in Readings(t1) :
                /\ clock' = t2
                /\ \/ /\ ~TtlFits(amount, unit, t2)
                      /\ db' = seen /\ Answer(cmd, <<k>>, Err)
                   \/ /\ TtlFits(amount, unit, t2)
                      /\ db' = SetString(seen, k, data, TtlToDeadline(amount, unit, t2))
                      /\ Answer(cmd, <<k>>, Ok)

Get(k) ==
  \E t \in Readings(clock) :
    /\ clock' = t
    /\ db' = Lookup(db, k, t)
    /\ Answer("get", <<k>>, IF Live(db, k, t) THEN Bulk(db.map[k].data) ELSE Nil)

\* Mutant: the counter is rewritten through set_string, which clears its TTL.
BumpThroughSet(d, k, n) == SetString(d, k, n, NoExpiry)
\* v->data = std::to_string(cur): in place, the deadline stays.
Bump(d, k, n) == [d EXCEPT !.map[k].data = n]

\* incr_by.  Numbers bounds which counters an instance follows.
IncrBy(cmd, k, delta) ==
  \E t \in Readings(clock) :
    LET data == db.map[k].data
        sums == /\ data \notin Words
                /\ IF delta > 0 THEN data <= IntMax - delta ELSE data >= IntMin - delta
    IN  /\ clock' = t
        /\ \/ /\ ~Live(db, k, t)
              /\ db' = SetString(Lookup(db, k, t), k, delta, NoExpiry)
              /\ Answer(cmd, <<k>>, Number(delta))
           \/ /\ Live(db, k, t) /\ ~sums
              /\ db' = db
              /\ Answer(cmd, <<k>>, Err)
           \/ /\ Live(db, k, t) /\ sums
              /\ data + delta \in Numbers
              /\ db' = Bump(db, k, data + delta)
              /\ Answer(cmd, <<k>>, Number(data + delta))

KeySeqs == UNION {[1..n -> Keys] : n \in 1..MaxArgs}
KeysOf(ks) == {ks[i] : i \in DOMAIN ks}
\* The keys that the i-th and earlier lookups of a multi-key command reclaimed.
ReclaimedBy(d, ks, ts, i) == {ks[j] : j \in {h \in 1..i : Expired(d, ks[h], ts[h])}}

\* DEL: one erase, with its own reading, per argument; a repeated key counts once.
Del(ks) ==
  \E ts \in ReadingSeqs(Len(ks), clock) :
    LET deleted == {i \in DOMAIN ks : /\ Live(db, ks[i], ts[i])
                                      /\ ks[i] \notin KeysOf(SubSeq(ks, 1, i - 1))}
    IN  /\ clock' = ts[Len(ks)]
        /\ db' = Drop(db, KeysOf(ks))
        /\ Answer("del", ks, Number(Cardinality(deleted)))

\* EXISTS: one lookup, with its own reading, per argument.
Exists(ks) ==
  \E ts \in ReadingSeqs(Len(ks), clock) :
    LET found == {i \in DOMAIN ks : /\ db.map[ks[i]] # Missing
                                    /\ ks[i] \notin ReclaimedBy(db, ks, ts, i)}
    IN  /\ clock' = ts[Len(ks)]
        /\ db' = Drop(db, ReclaimedBy(db, ks, ts, Len(ks)))
        /\ Answer("exists", ks, Number(Cardinality(found)))

Type(k) ==
  \E t \in Readings(clock) :
    /\ clock' = t
    /\ db' = Lookup(db, k, t)
    /\ Answer("type", <<k>>, IF Live(db, k, t) THEN <<"string">> ELSE <<"none">>)

\* EXPIRE k seconds: a reading for the lookup, one for the deadline, and one for
\* the lookup inside erase or set_expire_at, whose result is not looked at.
Expire(k, seconds) ==
  \E t1 \in Readings(clock) :
    LET seen == Lookup(db, k, t1)
        cmd  == IF seconds <= 0 THEN "expire_past" ELSE "expire"
    IN  \/ /\ ~Live(db, k, t1)
           /\ db' = seen /\ clock' = t1
           /\ Answer(cmd, <<k>>, Number(0))
        \/ /\ Live(db, k, t1)
           /\ \E t2 \in Readings(t1) :
                \/ /\ seconds <= 0
                   /\ db' = Erase(seen, k, t2) /\ clock' = t2
                   /\ Answer(cmd, <<k>>, Number(1))
                \/ /\ seconds > 0 /\ ~TtlFits(seconds, UnitMs, t2)
                   /\ db' = seen /\ clock' = t2
                   /\ Answer(cmd, <<k>>, Err)
                \/ /\ seconds > 0 /\ TtlFits(seconds, UnitMs, t2)
                   /\ \E t3 \in Readings(t2) :
                        /\ db' = SetExpireAt(seen, k, TtlToDeadline(seconds, UnitMs, t2), t3)
                        /\ clock' = t3
                        /\ Answer(cmd, <<k>>, Number(1))

\* TTL rounds pttl's milliseconds to the nearest second.
Ttl(k) ==
  \E t1 \in Readings(clock) : \E t2 \in Readings(t1) :
    LET ms == Pttl(db, k, t1, t2)
    IN  /\ clock' = t2
        /\ db' = Lookup(db, k, t1)
        /\ Answer("ttl", <<k>>, Number(IF ms < 0 THEN ms ELSE (ms + UnitMs \div 2) \div UnitMs))

Persist(k) ==
  \E t \in Readings(clock) :
    /\ clock' = t
    /\ db' = PersistDb(db, k, t)
    /\ Answer("persist", <<k>>, Number(IF Persists(db, k, t) THEN 1 ELSE 0))

\* DBSIZE counts entries; an entry past its deadline is still one.
DbSize ==
  /\ Answer("dbsize", <<>>, Number(Cardinality({k \in Keys : db.map[k] # Missing})))
  /\ UNCHANGED <<db, clock>>

FlushAll ==
  /\ db' = EmptyDb
  /\ Answer("flushall", <<>>, Ok)
  /\ UNCHANGED clock

-----------------------------------------------------------------------------
(* active_expire_cycle, called from Server::on_tick.  A round is a step;   *)
(* no command runs between two rounds of a cycle.                          *)

Tick == [cmd |-> "tick", keys |-> <<>>, reply |-> <<"none">>]

StartCycle ==
  /\ round = 0 /\ SampleSize > 0
  /\ round' = 1 /\ last' = Tick
  /\ UNCHANGED <<db, clock>>

\* The walk from a random bucket stops after sample_size keys, or after all of
\* them.  Which keys those are is the hash table's business: here, any.
Samples(d) ==
  {S \in SUBSET d.volatile_keys :
     \/ Cardinality(S) = SampleSize
     \/ Cardinality(S) < SampleSize /\ S = d.volatile_keys}

\* Mutant: a sampled key is collected whether or not its deadline has passed.
DoomedAll(d, S, now) == S
Doomed(d, S, now) == {k \in S : d.map[k] = Missing \/ IsExpired(d.map[k], now)}

ExpireRound ==
  /\ round > 0
  /\ \/ /\ db.volatile_keys = {}
        /\ round' = 0
        /\ UNCHANGED <<db, clock, last>>
     \/ /\ db.volatile_keys # {}
        /\ \E now \in Readings(clock), S \in Samples(db) :
             LET doomed == Doomed(db, S, now)
             IN  /\ clock' = now
                 /\ db' = Drop(db, doomed)
                 /\ round' = IF \/ round = MaxRounds
                                \/ Cardinality(doomed) * 4 <= Cardinality(S)
                             THEN 0 ELSE round + 1
        /\ UNCHANGED last

-----------------------------------------------------------------------------
Init ==
  /\ db = EmptyDb
  /\ clock \in Times
  /\ round = 0
  /\ last = Tick

Command ==
  \/ Refuse \/ DbSize \/ FlushAll
  \/ \E k \in Keys :
       \/ Get(k) \/ Type(k) \/ Ttl(k) \/ Persist(k)
       \/ IncrBy("incr", k, 1) \/ IncrBy("decr", k, -1)
       \/ \E seconds \in Amounts : Expire(k, seconds)
       \/ \E cmd \in {"set", "setnx", "setxx"}, data \in Data :
            \/ Set(cmd, k, data, 0, 0)
            \/ \E unit \in {1, UnitMs}, amount \in Amounts :
                 amount > 0 /\ Set(cmd, k, data, unit, amount)
  \/ \E ks \in KeySeqs : Del(ks) \/ Exists(ks)

Next == Command \/ StartCycle \/ ExpireRound

Spec == Init /\ [][Next]_vars

-----------------------------------------------------------------------------
(* Properties.                                                             *)

DbType == [map : [Keys -> Value \cup {Missing}], volatile_keys : SUBSET Keys]

\* The tables, the clock and the round counter hold values of their types; in
\* particular no stored deadline overflows, is negative, or collides with kNoExpiry.
TypeOK ==
  /\ db \in DbType
  /\ clock \in Times
  /\ round \in 0..MaxRounds

\* db.h: volatile_keys_ is "the keys in map_ that have a deadline", in both
\* directions: a volatile key that is not indexed would never be collected, and an
\* index entry for a persistent or deleted key would be sampled for ever.
IndexExact(d) == d.volatile_keys = {k \in Keys : d.map[k] # Missing /\ HasExpiry(d.map[k])}
VolatileIndexExact == IndexExact(db)

\* Expiry never takes a live key: an entry that a step removes was past its deadline
\* on the clock of that step, or was named by DEL or a past EXPIRE, or flushed.
OnlyExpiredVanish ==
  [][\A k \in Keys :
       db.map[k] # Missing /\ db'.map[k] = Missing =>
         \/ IsExpired(db.map[k], clock')
         \/ last'.cmd \in {"del", "expire_past"} /\ k \in KeysOf(last'.keys)
         \/ last'.cmd = "flushall"]_vars

\* The two halves of an entry move apart: a key that survives a step keeps its
\* deadline unless SET, EXPIRE or PERSIST named it, and its data unless SET or
\* INCR/DECR did.  (incr_by writes in place so that a counter keeps its lifetime.)
DeadlineSticks ==
  [][\A k \in Keys :
       Live(db, k, clock') /\ db'.map[k] # Missing =>
         LET named(cmds) == last'.cmd \in cmds /\ k \in KeysOf(last'.keys) IN
         /\ \/ db'.map[k].expire_at_ms = db.map[k].expire_at_ms
            \/ named({"set", "setnx", "setxx", "expire", "persist"})
         /\ \/ db'.map[k].data = db.map[k].data
            \/ named({"set", "setnx", "setxx", "incr", "decr"})]_vars

\* What a client can see of the tables now.
Visible == [k \in Keys |-> IF Live(db, k, clock) THEN db.map[k] ELSE Missing]
Promise == INSTANCE LiveStore WITH store <- Visible, now <- clock

\* "No dead key is ever observable" (db.h): with lazy and sampled collection, every
\* reply is one that a store whose keys vanish at their deadlines would have given.
\* Holds while the wall clock is not set back.
ImplementsLiveStore == Promise!Spec
=============================================================================
