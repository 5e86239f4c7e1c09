----------------------------- MODULE RespParser -----------------------------
(***************************************************************************)
(* The incremental parser of RESP2 requests (src/resp/parser.cpp) as the   *)
(* server uses it: bytes arrive in Conn::in in reads of any length, and    *)
(* after each read process_input calls parse() until it returns Incomplete *)
(* or Error.  A step is one turn of parse()'s loop, by its outcome.        *)
(*                                                                         *)
(* Abstractions.  Conn::in is a queue of bytes (module ByteBuffer shows    *)
(* that Buffer is one).  Error messages are left out, and after an error   *)
(* the parser is not called again.                                         *)
(***************************************************************************)
EXTENDS Resp, FiniteSetsExt

CONSTANTS
  MaxInline,  \* max_inline_len
  MaxHeader,  \* the 64 bytes a "*" or "$" line may take
  MaxArgs,    \* max_multibulk_args
  MaxBulk     \* max_bulk_len

ASSUME ParserAssumption ==
  /\ MaxInline \in Nat /\ MaxHeader \in Nat /\ MaxHeader > MaxDigits + 1
  /\ MaxArgs \in 1..IntMax /\ MaxBulk \in 0..IntMax

VARIABLES
  ahead,     \* bytes on their way: sent, and not yet returned by a read
  in,        \* Conn::in
  pc,        \* "rest": waiting for input; "read": has read; "parse"; "failed"
  state_, args_remaining_, arg_len_, argv_,
  commands   \* the commands parse() has completed so far

parser == <<state_, args_remaining_, arg_len_, argv_>>
vars == <<ahead, in, pc, parser, commands>>

\* A read returns any number of bytes: one per step, for as long as it lasts.
ReadByte ==
  /\ pc \in {"rest", "read"} /\ ahead # <<>>
  /\ in' = Append(in, Head(ahead))
  /\ ahead' = Tail(ahead)
  /\ pc' = "read"
  /\ UNCHANGED <<parser, commands>>

ProcessInput ==
  /\ pc = "read" /\ pc' = "parse"
  /\ UNCHANGED <<ahead, in, parser, commands>>

-----------------------------------------------------------------------------
(* The outcomes of a turn.                                                 *)

Reset == state_' = "Start" /\ args_remaining_' = 0 /\ arg_len_' = -1 /\ argv_' = <<>>

Incomplete == pc' = "rest" /\ UNCHANGED <<ahead, in, parser, commands>>

\* fail: the parser is reset; most errors leave the offending bytes where they are.
Fail(rest) ==
  /\ pc' = "failed" /\ in' = rest
  /\ Reset
  /\ UNCHANGED <<ahead, commands>>

\* Complete: the caller takes the command and calls again.
Complete(args, rest) ==
  /\ commands' = Append(commands, args)
  /\ in' = rest
  /\ Reset
  /\ UNCHANGED <<ahead, pc>>

After(n) == SubSeq(in, n + 1, Len(in))

-----------------------------------------------------------------------------
(* State::Start, an inline command: anything that does not begin with '*'. *)

Parsing(s) == pc = "parse" /\ state_ = s
Inline == Parsing("Start") /\ in # <<>> /\ in[1] # Star

Newlines == {i \in DOMAIN in : in[i] = LF}
LineEnd == Min(Newlines)
\* The line without its '\n' and without a '\r' before that.
InlineText == LET n == IF LineEnd > 1 /\ in[LineEnd - 1] = CR THEN LineEnd - 2 ELSE LineEnd - 1
              IN  SubSeq(in, 1, n)
\* Mutant: a line that has reached the limit is refused before its end is seen.
InlineFitsBelow == IF Newlines = {} THEN Len(in) < MaxInline ELSE Len(InlineText) <= MaxInline
InlineFits == IF Newlines = {} THEN Len(in) <= MaxInline ELSE Len(InlineText) <= MaxInline

InlineIncomplete == Inline /\ Newlines = {} /\ InlineFits /\ Incomplete
InlineTooBig == Inline /\ ~InlineFits /\ Fail(in)
InlineUnbalanced ==
  /\ Inline /\ Newlines # {} /\ InlineFits
  /\ SplitInline(InlineText) = {}
  /\ Fail(After(LineEnd))
InlineCommand ==
  /\ Inline /\ Newlines # {} /\ InlineFits
  /\ \E args \in SplitInline(InlineText) : Complete(args, After(LineEnd))

-----------------------------------------------------------------------------
(* State::Start, a multibulk header.                                       *)

\* find_crlf: the first of these.
Crlfs(s) == {i \in 1..(Len(s) - 1) : s[i] = CR /\ s[i + 1] = LF}
LineLen == Min(Crlfs(in)) - 1
HeaderNumber == StringToInt64(SubSeq(in, 2, LineLen))

Start == Parsing("Start") /\ in # <<>> /\ in[1] = Star
Counts == {n \in HeaderNumber : n <= MaxArgs}

StartEmpty == Parsing("Start") /\ in = <<>> /\ Incomplete

\* Mutant: a "$" line that does not end is waited for, however long it gets.
HeaderFitsUnbounded == state_ = "ArgLen" \/ Len(in) <= MaxHeader
\* A header line this long is not a slow client.
HeaderFits == Len(in) <= MaxHeader

HeaderIncomplete ==
  /\ Start \/ Parsing("ArgLen")
  /\ Crlfs(in) = {} /\ HeaderFits
  /\ Incomplete
HeaderTooBig ==
  /\ Start \/ Parsing("ArgLen")
  /\ Crlfs(in) = {} /\ ~HeaderFits
  /\ Fail(in)

CountInvalid == Start /\ Crlfs(in) # {} /\ Counts = {} /\ Fail(in)

\* "*0" and "*-1" carry no command.
CountEmpty ==
  /\ Start /\ Crlfs(in) # {}
  /\ \E count \in Counts : count <= 0
  /\ Complete(<<>>, After(LineLen + 2))

CountArgs ==
  /\ Start /\ Crlfs(in) # {}
  /\ \E count \in Counts : count > 0 /\ args_remaining_' = count
  /\ in' = After(LineLen + 2)
  /\ argv_' = <<>> /\ state_' = "ArgLen"
  /\ UNCHANGED <<ahead, pc, arg_len_, commands>>

-----------------------------------------------------------------------------
(* State::ArgLen and State::ArgData.                                       *)

\* Mutant: a negative length is let through.
LengthsSigned ==
  {n \in IF LineLen > 0 /\ in[1] = Dollar THEN HeaderNumber ELSE {} : n <= MaxBulk}
\* A line that does not begin with '$', an empty one included, has no length.
Lengths ==
  {n \in IF LineLen > 0 /\ in[1] = Dollar THEN HeaderNumber ELSE {} : n \in 0..MaxBulk}

LengthInvalid == Parsing("ArgLen") /\ Crlfs(in) # {} /\ Lengths = {} /\ Fail(in)

Length ==
  /\ Parsing("ArgLen") /\ Crlfs(in) # {}
  /\ arg_len_' \in Lengths
  /\ in' = After(LineLen + 2)
  /\ state_' = "ArgData"
  /\ UNCHANGED <<ahead, pc, args_remaining_, argv_, commands>>

Whole == Len(in) >= arg_len_ + 2
Framed == SubSeq(in, arg_len_ + 1, arg_len_ + 2) = Crlf
Arg == SubSeq(in, 1, arg_len_)

DataIncomplete == Parsing("ArgData") /\ ~Whole /\ Incomplete
DataUnframed == Parsing("ArgData") /\ Whole /\ ~Framed /\ Fail(in)

DataNext ==
  /\ Parsing("ArgData") /\ Whole /\ Framed /\ args_remaining_ > 1
  /\ argv_' = Append(argv_, Arg)
  /\ in' = After(arg_len_ + 2)
  /\ arg_len_' = -1
  /\ args_remaining_' = args_remaining_ - 1
  /\ state_' = "ArgLen"
  /\ UNCHANGED <<ahead, pc, commands>>

\* Mutant: the CRLF behind the last argument is left for the next command.
DataLastNoCrlf ==
  /\ Parsing("ArgData") /\ Whole /\ Framed /\ args_remaining_ = 1
  /\ Complete(Append(argv_, Arg), After(arg_len_))
DataLast ==
  /\ Parsing("ArgData") /\ Whole /\ Framed /\ args_remaining_ = 1
  /\ Complete(Append(argv_, Arg), After(arg_len_ + 2))

-----------------------------------------------------------------------------
Init ==
  /\ ahead \in Seq(0..255)
  /\ in = <<>> /\ pc = "rest"
  /\ state_ = "Start" /\ args_remaining_ = 0 /\ arg_len_ = -1 /\ argv_ = <<>>
  /\ commands = <<>>

Turn ==
  \/ StartEmpty \/ InlineIncomplete \/ InlineTooBig \/ InlineUnbalanced \/ InlineCommand
  \/ HeaderIncomplete \/ HeaderTooBig \/ CountInvalid \/ CountEmpty \/ CountArgs
  \/ LengthInvalid \/ Length \/ DataIncomplete \/ DataUnframed \/ DataNext \/ DataLast

Next == ReadByte \/ ProcessInput \/ Turn

Spec == Init /\ [][Next]_vars

-----------------------------------------------------------------------------
(* Properties.                                                             *)

\* What the states of the parser need to resume.
Members ==
  /\ argv_ \in Seq(Seq(0..255))
  /\ \/ state_ = "Start" /\ args_remaining_ = 0 /\ arg_len_ = -1 /\ argv_ = <<>>
     \/ state_ = "ArgLen" /\ args_remaining_ \in 1..MaxArgs /\ arg_len_ = -1
     \/ state_ = "ArgData" /\ args_remaining_ \in 1..MaxArgs /\ arg_len_ \in 0..MaxBulk

\* The bytes, the commands and the members of the parser are what they should be.
TypeOK ==
  /\ ahead \in Seq(0..255) /\ in \in Seq(0..255)
  /\ pc \in {"rest", "read", "parse", "failed"}
  /\ commands \in Seq(Seq(Seq(0..255)))
  /\ Members

\* parser.h:33: the ceilings bound what a client can make the server hold.  While the
\* parser waits, the buffer holds no more than one line or one argument, and the command
\* in flight will not have more than MaxArgs arguments.  (Up to the first error: what a
\* client sends between that and the close of its connection is read and kept besides.)
HeldBounded ==
  /\ pc = "rest" => Len(in) <= Max({MaxInline, MaxHeader, MaxBulk + 1})
  /\ Len(argv_) + args_remaining_ <= MaxArgs
=============================================================================
