----------------------------- MODULE LiveStore ------------------------------
(***************************************************************************)
(* What the keyspace promises its clients, with no word about how: a store *)
(* from which every key vanishes at the very instant of its deadline.      *)
(* There are no dead entries, no volatile index and no collection; a       *)
(* command takes effect, and is answered, at one instant between its start *)
(* and its end.  Keyspace is shown to implement this.                      *)
(*                                                                         *)
(* The promise is weaker than one instant per command in three places, and *)
(* says so there: DEL and EXISTS of several arguments look at each argument*)
(* at its own instant, a positive EXPIRE may be answered 1 although the key*)
(* died while the command ran, and DBSIZE may overcount.                   *)
(***************************************************************************)
EXTENDS Integers, FiniteSets, Sequences

CONSTANTS Keys, Words, Numbers, IntMax, MaxTime, UnitMs, Amounts, MaxArgs, Missing

VARIABLES store, now, last

vars == <<store, now, last>>

Times == 1..MaxTime

LivesAt(v, t) == v # Missing /\ (v.expire_at_ms = 0 \/ v.expire_at_ms > t)
AliveAt(s, t) == {k \in Keys : LivesAt(s[k], t)}
Prune(s, t) == [k \in Keys |-> LET v == s[k] IN IF LivesAt(v, t) THEN v ELSE Missing]

Ok == <<"ok">>
Nil == <<"nil">>
Err == <<"err">>

\* The command that ran, and the reply it wrote.
Ran(cmd, ks) == last'.cmd = cmd /\ last'.keys = ks
Says(cmd, ks, reply) == Ran(cmd, ks) /\ last' = [cmd |-> cmd, keys |-> ks, reply |-> reply]

\* The instants at which a command may do its work, from its start to its end.
Instants == now..now'

\* It leaves s, without what has died by its end.
Leaves(s) == store' = Prune(s, now')

Without(S) == [k \in Keys |-> IF k \in S THEN Missing ELSE store[k]]

Idle ==
  /\ Says("tick", <<>>, <<"none">>) \/ UNCHANGED last
  /\ Leaves(store)

Refuse == Says("refused", <<>>, Err) /\ Leaves(store)

\* A deadline is amount units after an instant of the command.
Deadlines(from, units) ==
  {b + a * u : b \in from..now', a \in {n \in Amounts : n > 0}, u \in units}

\* cmd is "set", "setnx" or "setxx".  What was stored outlives the command.
Set(cmd, k) ==
  /\ Ran(cmd, <<k>>)
  /\ \E t \in Instants :
       LET alive   == LivesAt(store[k], t)
           refused == (cmd = "setnx" /\ alive) \/ (cmd = "setxx" /\ ~alive)
       IN  \/ refused /\ Says(cmd, <<k>>, Nil) /\ Leaves(store)
           \/ /\ ~refused /\ Says(cmd, <<k>>, Err)
              /\ \E d \in Deadlines(t, {1, UnitMs}) : d > IntMax
              /\ Leaves(store)
           \/ /\ ~refused /\ Says(cmd, <<k>>, Ok)
              /\ LivesAt(store'[k], now')
              /\ store'[k].data \in Words \cup Numbers
              /\ store'[k].expire_at_ms \in
                   {d \in {0} \cup Deadlines(t, {1, UnitMs}) : d <= IntMax}
              /\ Leaves([store EXCEPT ![k] = store'[k]])

Get(k) ==
  /\ Ran("get", <<k>>)
  /\ \E t \in Instants :
       Says("get", <<k>>, IF LivesAt(store[k], t) THEN <<"bulk", store[k].data>> ELSE Nil)
  /\ Leaves(store)

Type(k) ==
  /\ Ran("type", <<k>>)
  /\ \E t \in Instants :
       Says("type", <<k>>, IF LivesAt(store[k], t) THEN <<"string">> ELSE <<"none">>)
  /\ Leaves(store)

\* A counter that exists keeps its deadline; one that does not starts from 0.
Incr(cmd, k, delta) ==
  /\ Ran(cmd, <<k>>)
  /\ \E t \in Instants :
       LET alive == LivesAt(store[k], t)
           value == IF alive THEN store[k].data ELSE 0
           sums  == value \notin Words /\ value + delta \in (-IntMax - 1)..IntMax
       IN  \/ /\ sums /\ Says(cmd, <<k>>, <<"int", value + delta>>)
              /\ Leaves([store EXCEPT ![k] =
                           [data |-> value + delta,
                            expire_at_ms |-> IF alive THEN store[k].expire_at_ms ELSE 0]])
           \/ ~sums /\ Says(cmd, <<k>>, Err) /\ Leaves(store)

\* Each argument is looked at somewhere between the command's start and its end.
Between(L(_)) == Cardinality(L(now'))..Cardinality(L(now))

Del(ks) ==
  LET args == {ks[i] : i \in DOMAIN ks}
      alive(t) == args \cap AliveAt(store, t)
  IN  /\ Ran("del", ks)
      /\ \E n \in Between(alive) : Says("del", ks, <<"int", n>>)
      /\ Leaves(Without(args))

Exists(ks) ==
  LET alive(t) == {i \in DOMAIN ks : ks[i] \in AliveAt(store, t)}
  IN  /\ Ran("exists", ks)
      /\ \E n \in Between(alive) : Says("exists", ks, <<"int", n>>)
      /\ Leaves(store)

\* cmd is "expire", or "expire_past" when the seconds asked for are not positive.
Expire(cmd, k) ==
  /\ Ran(cmd, <<k>>)
  /\ \E t \in Instants :
       LET alive == LivesAt(store[k], t) IN
       \/ ~alive /\ Says(cmd, <<k>>, <<"int", 0>>) /\ Leaves(store)
       \/ /\ alive /\ cmd = "expire_past"
          /\ Says(cmd, <<k>>, <<"int", 1>>) /\ Leaves(Without({k}))
       \/ /\ alive /\ cmd = "expire" /\ Says(cmd, <<k>>, Err)
          /\ \E d \in Deadlines(t, {UnitMs}) : d > IntMax
          /\ Leaves(store)
       \/ /\ alive /\ cmd = "expire" /\ Says(cmd, <<k>>, <<"int", 1>>)
          /\ \/ \E d \in Deadlines(t, {UnitMs}) :
                  d <= IntMax /\ Leaves([store EXCEPT ![k].expire_at_ms = d])
             \/ ~LivesAt(store[k], now') /\ Leaves(store)

Ttl(k) ==
  /\ Ran("ttl", <<k>>)
  /\ \E t \in Instants :
       Says("ttl", <<k>>,
            <<"int", IF ~LivesAt(store[k], t) THEN -2
                     ELSE IF store[k].expire_at_ms = 0 THEN -1
                     ELSE (store[k].expire_at_ms - t + UnitMs \div 2) \div UnitMs>>)
  /\ Leaves(store)

Persist(k) ==
  /\ Ran("persist", <<k>>)
  /\ \E t \in Instants :
       LET clears == LivesAt(store[k], t) /\ store[k].expire_at_ms # 0
       IN  /\ Says("persist", <<k>>, <<"int", IF clears THEN 1 ELSE 0>>)
           /\ Leaves(IF clears THEN [store EXCEPT ![k].expire_at_ms = 0] ELSE store)

\* DBSIZE never misses a live key, and may count keys that have died.
DbSize ==
  /\ Ran("dbsize", <<>>)
  /\ \E n \in Cardinality(AliveAt(store, now))..Cardinality(Keys) :
       Says("dbsize", <<>>, <<"int", n>>)
  /\ Leaves(store)

FlushAll == Says("flushall", <<>>, Ok) /\ Leaves(Without(Keys))

Init ==
  /\ store = [k \in Keys |-> Missing]
  /\ now \in Times
  /\ last = [cmd |-> "tick", keys |-> <<>>, reply |-> <<"none">>]

Step ==
  \/ Idle \/ Refuse \/ DbSize \/ FlushAll
  \/ \E k \in {j \in Keys : last'.keys = <<j>>} :
       \/ Get(k) \/ Type(k) \/ Ttl(k) \/ Persist(k)
       \/ Set("set", k) \/ Set("setnx", k) \/ Set("setxx", k)
       \/ Expire("expire", k) \/ Expire("expire_past", k)
       \/ Incr("incr", k, 1) \/ Incr("decr", k, -1)
  \/ /\ last'.cmd \in {"del", "exists"}
     /\ \E ks \in UNION {[1..n -> Keys] : n \in 1..MaxArgs} : Del(ks) \/ Exists(ks)

Next == now' \in now..MaxTime /\ Step

Spec == Init /\ [][Next]_vars
=============================================================================
