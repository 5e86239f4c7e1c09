----------------------------- MODULE ByteQueue ------------------------------
(***************************************************************************)
(* What a Buffer is to the code that uses it: a first-in first-out queue of *)
(* bytes.  There is no storage, no cursor and no capacity.                 *)
(***************************************************************************)
EXTENDS Integers, Sequences

CONSTANT Bytes

VARIABLES
  queue,  \* the readable bytes
  done    \* the last operation and its argument

Init == queue = <<>> /\ done = <<"new", <<>>>>

\* The bytes of an append, or of a read from a socket, go to the back.
Put ==
  /\ done'[1] = "put" /\ done'[2] \in Seq(Bytes)
  /\ queue' = queue \o done'[2]

\* A consume takes from the front; asking for more than there is takes everything.
Take ==
  /\ done'[1] = "take" /\ done'[2] \in Nat
  /\ queue' = SubSeq(queue, done'[2] + 1, Len(queue))

Next == Put \/ Take

Spec == Init /\ [][Next]_<<queue, done>>
=============================================================================
