---------------------------- MODULE MCByteBuffer ----------------------------
(***************************************************************************)
(* ByteBuffer for TLC: two kinds of byte, so that an exchange shows, and   *)
(* storage of 1, 2, 4 and 6, so that both regimes of growth occur.         *)
(***************************************************************************)
EXTENDS ByteBuffer
=============================================================================
