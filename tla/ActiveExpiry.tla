---------------------------- MODULE ActiveExpiry ----------------------------
(***************************************************************************)
(* Db::active_expire_cycle bucket by bucket.  Keyspace takes a sample to be*)
(* any set of volatile keys of the right size; here it is the walk over the*)
(* buckets of volatile_keys_ that makes it.                                *)
(*                                                                         *)
(* Abstractions.  Of a key only this matters: whether it has a deadline (it*)
(* is in a chain) and whether the deadline has passed (it is in due); what *)
(* commands do to that, between cycles, is Keyspace's business.            *)
(***************************************************************************)
EXTENDS Integers, SequencesExt, FiniteSetsExt

CONSTANTS
  Keys,
  Hash,        \* key -> its hash
  SampleSize,  \* --expire-samples
  MaxRounds,   \* kMaxRounds
  MaxBuckets,  \* the most buckets an instance reaches
  WorkPerKey   \* buckets and keys visited per sampled key, at most, as claimed

ASSUME ExpiryAssumption ==
  /\ IsFiniteSet(Keys)
  /\ Hash \in [Keys -> Nat]
  /\ SampleSize \in Nat \ {0}
  /\ MaxRounds \in Nat \ {0}
  /\ MaxBuckets \in Nat \ {0} /\ MaxBuckets >= Cardinality(Keys)
  /\ WorkPerKey \in Nat

VARIABLES
  chains,   \* volatile_keys_: bucket -> its keys, in order
  due,      \* the keys of the index whose deadline has passed
  pc,       \* "idle": no cycle; "round": at the top of the loop; "walk"; "reclaim"
  round, bucket, scanned,
  place,    \* it, as a position in the chain; then the position in doomed_
  sampled,  \* the keys looked at in this round; the code keeps their number
  doomed,   \* doomed_
  then,     \* the keys that were due at the round's now
  began     \* the keys, and the due ones, that the cycle began with

index == <<chains, due>>
walk == <<bucket, scanned, place, sampled, doomed, then>>
vars == <<index, pc, round, walk, began>>

Count == Cardinality(DOMAIN chains)
Chained(c) == UNION {Range(c[b]) : b \in DOMAIN c}
Index == Chained(chains)
BucketOf(k, n) == Hash[k] % n

-----------------------------------------------------------------------------
(* The hash table, as unordered_set promises: a key goes anywhere in its   *)
(* chain, an insertion that would exceed the load factor rehashes, and     *)
(* nothing ever takes buckets away.                                        *)

Arrangements(S, n) ==
  LET buckets == 0..(n - 1)
      orders(b) == SetToSeqs({k \in S : BucketOf(k, n) = b})
  IN  {c \in [buckets -> UNION {orders(b) : b \in buckets}] :
         \A b \in buckets : c[b] \in orders(b)}

Insert(k) ==
  \/ k \in Index /\ UNCHANGED chains
  \/ /\ k \notin Index /\ Cardinality(Index) < Count
     /\ LET b == BucketOf(k, Count)
        IN  \E i \in 1..(Len(chains[b]) + 1) :
              chains' = [chains EXCEPT ![b] = InsertAt(@, i, k)]
  \/ /\ k \notin Index /\ Cardinality(Index) = Count
     /\ chains' \in Arrangements(Index \cup {k}, 2 * Count)

\* The others keep their order.
Erase(k) ==
  \/ k \notin Index /\ UNCHANGED chains
  \/ \E b \in DOMAIN chains : \E i \in DOMAIN chains[b] :
       chains[b][i] = k /\ chains' = [chains EXCEPT ![b] = RemoveAt(@, i)]

-----------------------------------------------------------------------------
(* What happens to keys: commands, between cycles, and the clock, always.  *)

Command == pc = "idle" /\ UNCHANGED <<pc, round, walk, began>>

\* SET with a TTL, or EXPIRE: the deadline is in the future.
Renew(k) ==
  /\ Command
  /\ Insert(k)
  /\ due' = due \ {k}

\* DEL, PERSIST, SET without a TTL, and any lookup that finds the key expired.
Lose(k) ==
  /\ Command
  /\ k \in Index
  /\ Erase(k)
  /\ due' = due \ {k}

Clear ==
  /\ Command
  /\ chains' = [b \in DOMAIN chains |-> <<>>]
  /\ due' = {}

FallDue(k) ==
  /\ k \in Index \ due
  /\ due' = due \cup {k}
  /\ UNCHANGED <<chains, pc, round, walk, began>>

-----------------------------------------------------------------------------
(* The cycle.                                                              *)

Nothing == [keys |-> {}, due |-> {}]

StartCycle ==
  /\ pc = "idle"
  /\ pc' = "round"
  /\ began' = [keys |-> Index, due |-> due]
  /\ UNCHANGED <<index, round, walk>>

EndCycle ==
  /\ pc = "round"
  /\ round = MaxRounds \/ Index = {}
  /\ pc' = "idle" /\ round' = 0 /\ began' = Nothing
  /\ UNCHANGED <<index, walk>>

\* Mutant: every walk starts at the first bucket.
StartRoundFirst(b) ==
  /\ pc = "round" /\ round < MaxRounds /\ Index # {}
  /\ pc' = "walk"
  /\ b = 0 /\ bucket' = 0 /\ scanned' = 0 /\ place' = 1
  /\ sampled' = <<>> /\ doomed' = <<>> /\ then' = due
  /\ UNCHANGED <<index, round, began>>
\* The round reads the clock and starts from a random bucket.
StartRound(b) ==
  /\ pc = "round" /\ round < MaxRounds /\ Index # {}
  /\ pc' = "walk"
  /\ b \in DOMAIN chains /\ bucket' = b /\ scanned' = 0 /\ place' = 1
  /\ sampled' = <<>> /\ doomed' = <<>> /\ then' = due
  /\ UNCHANGED <<index, round, began>>

Walking == pc = "walk" /\ scanned < Count /\ Len(sampled) < SampleSize

Look ==
  /\ Walking /\ place <= Len(chains[bucket])
  /\ LET k == chains[bucket][place]
     IN  /\ sampled' = Append(sampled, k)
         /\ doomed' = IF k \in then THEN Append(doomed, k) ELSE doomed
  /\ place' = place + 1
  /\ UNCHANGED <<index, pc, round, bucket, scanned, then, began>>

\* Mutant: behind the last bucket comes no other.
NextBucketPastEnd ==
  /\ Walking /\ place > Len(chains[bucket])
  /\ bucket' = bucket + 1
  /\ scanned' = scanned + 1
  /\ place' = 1
  /\ UNCHANGED <<index, pc, round, sampled, doomed, then, began>>
\* Mutant: the walk ends with the last bucket instead of going on at the first.
NextBucketNoWrap ==
  /\ Walking /\ place > Len(chains[bucket])
  /\ bucket' = (bucket + 1) % Count
  /\ scanned' = IF bucket + 1 = Count THEN Count ELSE scanned + 1
  /\ place' = 1
  /\ UNCHANGED <<index, pc, round, sampled, doomed, then, began>>
NextBucket ==
  /\ Walking /\ place > Len(chains[bucket])
  /\ bucket' = (bucket + 1) % Count
  /\ scanned' = scanned + 1
  /\ place' = 1
  /\ UNCHANGED <<index, pc, round, sampled, doomed, then, began>>

\* Mutant: a sample that is all dead ends the cycle too.
SparseOrAll == Len(doomed) * 4 <= Len(sampled) \/ Len(doomed) = Len(sampled)
\* Under a quarter of the sample: not worth another round.
Sparse == sampled = <<>> \/ Len(doomed) * 4 <= Len(sampled)

EndWalk ==
  /\ pc = "walk" /\ ~Walking
  /\ pc' = "reclaim" /\ place' = 1
  /\ UNCHANGED <<index, round, bucket, scanned, sampled, doomed, then, began>>

\* The doomed keys go, one by one,
Reclaim ==
  /\ pc = "reclaim" /\ place <= Len(doomed)
  /\ Erase(doomed[place])
  /\ due' = due \ {doomed[place]}
  /\ place' = place + 1
  /\ UNCHANGED <<pc, round, bucket, scanned, sampled, doomed, then, began>>

\* and the cycle goes on while the sample was mostly dead.
EndRound ==
  /\ pc = "reclaim" /\ place > Len(doomed)
  /\ bucket' = 0 /\ scanned' = 0 /\ place' = 1
  /\ sampled' = <<>> /\ doomed' = <<>> /\ then' = {}
  /\ \/ Sparse /\ pc' = "idle" /\ round' = 0 /\ began' = Nothing
     \/ ~Sparse /\ pc' = "round" /\ round' = round + 1 /\ UNCHANGED began
  /\ UNCHANGED index

-----------------------------------------------------------------------------
Init ==
  /\ chains = [b \in {0} |-> <<>>] /\ due = {}
  /\ pc = "idle" /\ round = 0
  /\ bucket = 0 /\ scanned = 0 /\ place = 1
  /\ sampled = <<>> /\ doomed = <<>> /\ then = {}
  /\ began = Nothing

Traffic == Clear \/ \E k \in Keys : Renew(k) \/ Lose(k) \/ FallDue(k)
Round ==
  \/ EndCycle \/ \E b \in DOMAIN chains : StartRound(b)
  \/ Look \/ NextBucket \/ EndWalk \/ Reclaim \/ EndRound
Next == Traffic \/ StartCycle \/ Round

Spec == Init /\ [][Next]_vars

\* There is always another tick, a cycle runs to its end, and the generator, whose
\* period is full, starts rounds from every bucket again and again.
FairSpec ==
  /\ Spec /\ WF_vars(StartCycle) /\ WF_vars(Round)
  /\ \A b \in 0..(MaxBuckets - 1) : SF_vars(StartRound(b))

-----------------------------------------------------------------------------
(* Properties.                                                             *)

\* The chains hold each key at most once, in the bucket of its hash, and the cursor of a
\* walk is in the table.
TypeOK ==
  /\ Count \in 1..(2 * MaxBuckets) /\ DOMAIN chains = 0..(Count - 1)
  /\ \A b \in DOMAIN chains :
       /\ chains[b] \in Seq({k \in Keys : BucketOf(k, Count) = b})
       /\ IsInjective(chains[b])
  /\ due \subseteq Index
  /\ pc \in {"idle", "round", "walk", "reclaim"} /\ round \in 0..MaxRounds
  /\ pc = "walk" => bucket \in DOMAIN chains /\ scanned \in 0..Count
  /\ place \in Nat \ {0} /\ sampled \in Seq(Keys) /\ doomed \in Seq(Keys)

\* What Keyspace takes a sample to be: wherever the walk starts and however the keys are
\* spread, it meets no key twice, and ends with sample_size keys or with all of them.
WalkIsASample ==
  pc = "walk" /\ ~Walking =>
    /\ IsInjective(sampled)
    /\ Len(sampled) = SampleSize \/ Range(sampled) = Index

\* db.h:50: the cycle "repeats while the sample keeps coming back mostly-expired, so a
\* mass expiry event is cleared in a few ticks".  When everything was due as a cycle
\* began, each of its rounds takes a whole sample away.
MassExpiryDrains ==
  [][pc # "idle" /\ pc' = "idle" /\ began.due = began.keys =>
       Cardinality(Index') =
         Max({0, Cardinality(began.keys) - MaxRounds * SampleSize})]_vars

\* A key that is due does not stay so for ever while fewer than sample_size keys are in
\* front of it in its bucket: some walk starts there and takes it.  (Behind more keys
\* than that, none of them due, no walk ever gets to it.)
Ahead(k) ==
  LET chain == chains[BucketOf(k, Count)]
  IN  Cardinality({i \in DOMAIN chain : \E j \in DOMAIN chain : i < j /\ chain[j] = k})
DueIsCollected == \A k \in Keys : []<>~(k \in due /\ Ahead(k) < SampleSize)

\* DESIGN.md:481: "Sampling's cost is a constant the operator chooses
\* (`--expire-samples`), independent of how many keys have TTLs."
CostIsChosen == pc = "walk" => scanned + Len(sampled) <= WorkPerKey * SampleSize
=============================================================================
