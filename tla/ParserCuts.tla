----------------------------- MODULE ParserCuts -----------------------------
(***************************************************************************)
(* The same bytes through two parsers: RespParser gets them in reads of any*)
(* length, and a second one, Once, gets all of them in a single read.  The *)
(* second runs after the first has read everything or failed.              *)
(*                                                                         *)
(* sent is what the client sends, with what it means by it: a list of      *)
(* commands, or an array header for a count, or nothing in particular.     *)
(***************************************************************************)
EXTENDS ParserReads, SequencesExt

CONSTANT Sent  \* records of bytes, kind, argvs and count

VARIABLES
  sent,
  once_in, once_pc, once_state, once_remaining, once_len, once_argv, once_commands

once == <<once_in, once_pc, once_state, once_remaining, once_len, once_argv, once_commands>>

Once == INSTANCE RespParser WITH
  ahead <- <<>>, in <- once_in, pc <- once_pc, state_ <- once_state,
  args_remaining_ <- once_remaining, arg_len_ <- once_len, argv_ <- once_argv,
  commands <- once_commands

CutsInit ==
  /\ sent \in Sent /\ ahead = sent.bytes /\ Init
  /\ once_in = <<>> /\ once_pc = "unread" /\ once_state = "Start" /\ once_remaining = 0
  /\ once_len = -1 /\ once_argv = <<>> /\ once_commands = <<>>

Done == pc = "failed" \/ (pc = "rest" /\ ahead = <<>>)

\* One read returns everything.
ReadAll ==
  /\ Done /\ once_pc = "unread"
  /\ once_in' = sent.bytes /\ once_pc' = "parse"
  /\ UNCHANGED <<vars, sent, once_state, once_remaining, once_len, once_argv, once_commands>>

CutsNext ==
  \/ Next /\ UNCHANGED <<sent, once>>
  \/ ReadAll
  \/ Once!Turn /\ UNCHANGED <<vars, sent>>

CutsSpec == CutsInit /\ [][CutsNext]_<<vars, sent, once>>

-----------------------------------------------------------------------------
(* Properties.                                                             *)

BothDone == Done /\ once_pc \in {"rest", "failed"}
Agree ==
  /\ (pc = "failed") = (once_pc = "failed")
  /\ commands = once_commands
  /\ pc = "rest" =>
       in = once_in /\ parser = <<once_state, once_remaining, once_len, once_argv>>

\* A read that ends between the '\r' and the '\n' of a line of exactly max_inline_len.
CutAtLimit ==
  /\ pc = "failed" /\ Len(in) = MaxInline + 1 /\ in[Len(in)] = CR
  /\ ahead # <<>> /\ ahead[1] = LF

\* However the input is cut into reads, the parser completes the same commands, fails or
\* not, and is left in the same state with the same bytes, as if it had read everything at
\* once (test_resp.cpp:74 tries "every possible two-chunk split of the same command"); the
\* only exception is a line at the inline limit, and then it refuses the line.
CutsAgree == BothDone => Agree \/ (CutAtLimit /\ IsPrefix(commands, once_commands))

\* What a text denotes, by the positions of its digits.
Denotes(p) ==
  LET negative == p # <<>> /\ p[1] = Minus
      body == IF negative THEN Tail(p) ELSE p
      value == MapThenSumSet(LAMBDA i : DigitValue(body[i]) * 10^(Len(body) - i), DOMAIN body)
  IN  IF body # <<>> /\ Range(body) \subseteq Digits /\ Len(p) <= MaxDigits
      THEN {IF negative THEN -value ELSE value} \cap (IntMin..IntMax)
      ELSE {}

\* string_to_int64 accepts exactly the decimal texts of the integers in range, both ends
\* included, and no accumulator overflow lets another text through.
IntegersExact ==
  Start /\ Crlfs(in) # {} => HeaderNumber = Denotes(SubSeq(in, 2, LineLen))

\* What was encoded is what is parsed: array headers and bulk strings as writer.cpp writes
\* them, and words however they are quoted, come back as the same commands, binary data
\* included, one by one while they arrive and with nothing left over at the end.
AsMeant ==
  /\ sent.kind = "commands" =>
       /\ pc # "failed" /\ IsPrefix(commands, sent.argvs)
       /\ Done => commands = sent.argvs /\ in = <<>> /\ state_ = "Start"
  /\ sent.kind = "count" /\ Done =>
       \/ sent.count > MaxArgs /\ pc = "failed"
       \/ sent.count \in 1..MaxArgs /\ state_ = "ArgLen" /\ args_remaining_ = sent.count
       \/ sent.count <= 0 /\ commands = <<<<>>>> /\ in = <<>>
=============================================================================
