----------------------------- MODULE WholeInput -----------------------------
(***************************************************************************)
(* What parse() promises to a caller that feeds it read by read: the       *)
(* decisions of a parser that has its whole input from the start, and so   *)
(* never waits.                                                            *)
(***************************************************************************)
EXTENDS RespParser

WholeInit ==
  /\ in \in Seq(0..255) /\ ahead = <<>> /\ pc = "parse"
  /\ state_ = "Start" /\ args_remaining_ = 0 /\ arg_len_ = -1 /\ argv_ = <<>>
  /\ commands = <<>>

\* The one decision that a cut can change: a line of max_inline_len bytes is refused when
\* its '\r' comes without its '\n', and counts as a byte of the line.
RefuseAtLimit ==
  /\ Inline /\ Newlines # {}
  /\ LineEnd = MaxInline + 2 /\ in[LineEnd - 1] = CR
  /\ Fail(in)

Decide ==
  \/ InlineTooBig \/ RefuseAtLimit \/ InlineUnbalanced \/ InlineCommand
  \/ HeaderTooBig \/ CountInvalid \/ CountEmpty \/ CountArgs
  \/ LengthInvalid \/ Length \/ DataUnframed \/ DataNext \/ DataLast

WholeSpec == WholeInit /\ [][Decide]_vars
=============================================================================
