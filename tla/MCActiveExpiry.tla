--------------------------- MODULE MCActiveExpiry ---------------------------
(***************************************************************************)
(* ActiveExpiry for TLC.  The table grows from one bucket to two and four; *)
(* three of the keys share a bucket throughout, one more than a sample.    *)
(***************************************************************************)
EXTENDS ActiveExpiry, TLC

CONSTANTS k1, k2, k3, k4

Hashes == (k1 :> 0) @@ (k2 :> 4) @@ (k3 :> 8) @@ (k4 :> 5)
\* A perfect hash: no two keys share a bucket of four.
SpreadHashes == (k1 :> 0) @@ (k2 :> 1) @@ (k3 :> 2) @@ (k4 :> 3)
=============================================================================
