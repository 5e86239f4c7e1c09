---------------------------- MODULE ParserReads ----------------------------
(***************************************************************************)
(* RespParser, which gets its input read by read, implements WholeInput,   *)
(* which has it from the start.                                            *)
(***************************************************************************)
EXTENDS RespParser

\* The same parser, given at once what has arrived and what is still on its way.
AtOnce == INSTANCE WholeInput WITH
  ahead <- <<>>, in <- in \o ahead, pc <- IF pc = "failed" THEN "failed" ELSE "parse"

\* Where reads end does not show: waiting for more bytes, the parser takes the decisions,
\* one by one, that it would take with the whole input before it.
CutsDoNotShow == AtOnce!WholeSpec
=============================================================================
