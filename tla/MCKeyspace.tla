----------------------------- MODULE MCKeyspace -----------------------------
(***************************************************************************)
(* Keyspace for TLC.  A second is four milliseconds and INT64_MAX is a     *)
(* little above the last instant, so that deadlines, the rounding of TTL   *)
(* and overflow all meet within a few instants.                            *)
(***************************************************************************)
EXTENDS Keyspace, TLC

PastAndFuture == {-1, 1}
TopCounters == {-1, 0, 1, IntMax}
KeySymmetry == Permutations(Keys)
=============================================================================
