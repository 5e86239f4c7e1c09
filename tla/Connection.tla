----------------------------- MODULE Connection -----------------------------
(***************************************************************************)
(* One client connection of kvsd (Server::on_conn_event and what it calls, *)
(* src/net/server.cpp), its client, and the two kernel socket buffers      *)
(* between them.  The server thread runs the handler in the steps that the *)
(* client and the kernel can come between: poll, read, one parse/dispatch  *)
(* per step, one send per step.                                            *)
(*                                                                         *)
(* Abstractions.  A request is two units on the wire, <<n, "head">> and    *)
(* <<n, "tail">>, so that a read can end in the middle of one; n is its    *)
(* place in what the client sent and sent[n] its kind: "cmd" and "big" are *)
(* commands with replies of one and two units, "noop" carries no command   *)
(* (as *0 does), "quit" is QUIT and "bad" breaks the framing.  A unit of a *)
(* reply is the number of the request it answers.                          *)
(***************************************************************************)
EXTENDS Integers, Sequences, FiniteSets, Functions

CONSTANTS
  Kinds,        \* the kinds of request the client may send
  MaxRequests,  \* how many it sends at most
  ReadChunk,    \* kReadChunk, in units
  SendSpace,    \* units the kernel's send buffer holds
  MaxOutput,    \* max_output_buffer, in units
  Closings,     \* how the client may end: a subset of {"shut", "gone"}
  MayStop       \* whether the server may be told to shut down

AllKinds == {"cmd", "big", "noop", "quit", "bad"}

ASSUME ConnectionAssumption ==
  /\ Kinds \subseteq AllKinds
  /\ MaxRequests \in Nat
  /\ ReadChunk \in Nat \ {0}
  /\ SendSpace \in Nat \ {0}
  /\ MaxOutput \in Nat
  /\ Closings \subseteq {"shut", "gone"}
  /\ MayStop \in BOOLEAN

VARIABLES
  \* the client and the kernel
  sent,    \* the kinds of the requests begun so far
  whole,   \* how many of them have been sent to the end
  wire,    \* units sent and not yet read by the server
  client,  \* "open"; "shut": sends no more, still reads; "gone": closed
  queued,  \* reply units in the kernel, on their way to the client
  got,     \* reply units the client has received
  \* the server
  pc,      \* where the loop thread is in on_conn_event; "closed" for good
  event,   \* the PollEvent being handled
  in,      \* Conn::in
  held,    \* Conn::parser: the request whose head it has consumed, or 0
  out,     \* Conn::out
  close_after_write, write_armed

peer == <<sent, whole, wire, client, queued, got>>
conn == <<in, held, out, close_after_write, write_armed>>
vars == <<peer, pc, event, conn>>

-----------------------------------------------------------------------------
(* The client, and the kernel's delivery in both directions.               *)

\* The client sends a unit: the end of the request it has begun, or a new head.
Send ==
  /\ client = "open" /\ pc # "closed"
  /\ \/ /\ whole < Len(sent)
        /\ wire' = Append(wire, <<Len(sent), "tail">>)
        /\ whole' = Len(sent)
        /\ UNCHANGED sent
     \/ /\ whole = Len(sent) /\ Len(sent) < MaxRequests
        /\ \E kind \in Kinds : sent' = Append(sent, kind)
        /\ wire' = Append(wire, <<Len(sent) + 1, "head">>)
        /\ UNCHANGED whole
  /\ UNCHANGED <<client, queued, got, pc, event, conn>>

\* A client that has not closed takes the next unit, even after the server closed.
Receive ==
  /\ client # "gone" /\ queued # <<>>
  /\ got' = Append(got, Head(queued))
  /\ queued' = Tail(queued)
  /\ UNCHANGED <<sent, whole, wire, client, pc, event, conn>>

Leave ==
  /\ client = "open"
  /\ client' \in Closings
  /\ UNCHANGED <<sent, whole, wire, queued, got, pc, event, conn>>

\* close(2) by the server with input still unread makes the kernel send a reset,
\* which may destroy replies that were on their way.
KernelClose ==
  /\ queued' \in IF wire = <<>> THEN {queued} ELSE {queued, <<>>}
  /\ wire' = <<>>

-----------------------------------------------------------------------------
(* The server thread.                                                      *)

Goto(l) == pc' = l

\* close_conn: unregister, close, and destroy the Conn with whatever it holds.
CloseConn ==
  /\ KernelClose
  /\ Goto("closed")
  /\ in' = <<>> /\ held' = 0 /\ out' = <<>>
  /\ close_after_write' = FALSE /\ write_armed' = FALSE
  /\ UNCHANGED <<sent, whole, client, got, event>>

\* Poller::wait and the dispatch of this descriptor's event.  Level-triggered; read
\* interest is always on; a hangup counts as readable; readability may be spurious.
Poll ==
  LET readable == wire # <<>> \/ client # "open"
      writable == write_armed /\ (Len(queued) < SendSpace \/ client = "gone")
  IN  /\ pc = "wait"
      /\ event' \in [readable : {readable, TRUE}, writable : {writable}]
      /\ Goto(IF event'.readable THEN "read" ELSE "write")
      /\ event'.readable \/ event'.writable
      /\ UNCHANGED <<peer, conn>>

\* handle_read: one read of at most kReadChunk.
ReadData ==
  LET n == IF Len(wire) < ReadChunk THEN Len(wire) ELSE ReadChunk
  IN  /\ pc = "read" /\ wire # <<>>
      /\ in' = in \o SubSeq(wire, 1, n)
      /\ wire' = SubSeq(wire, n + 1, Len(wire))
      /\ Goto("parse")
      /\ UNCHANGED <<sent, whole, client, queued, got, event, held, out,
                     close_after_write, write_armed>>

\* Mutant: the failed read is committed like any other, and a byte nobody sent with it.
ReadNothingCommits ==
  /\ pc = "read"
  /\ (wire = <<>> /\ client = "open") \/ MayStop
  /\ in' = Append(in, <<0, "tail">>)
  /\ Goto("parse")
  /\ UNCHANGED <<peer, event, held, out, close_after_write, write_armed>>
\* EAGAIN, or EINTR where there are signals: nothing read, the event's writable half
\* is still served.
ReadNothing ==
  /\ pc = "read"
  /\ (wire = <<>> /\ client = "open") \/ MayStop
  /\ Goto("write")
  /\ UNCHANGED <<peer, event, conn>>

\* End of file, or a reset from a client that has gone.
ReadEnd ==
  /\ pc = "read" /\ client # "open"
  /\ wire = <<>> \/ client = "gone"
  /\ CloseConn

\* One turn of process_input's loop, by what parser.parse() returns.
ParseIncomplete ==
  /\ pc = "parse" /\ in = <<>>
  /\ Goto("flush")
  /\ UNCHANGED <<peer, event, conn>>

\* The parser consumes a token and keeps its place (still inside one parse call).
ParseToken ==
  /\ pc = "parse" /\ in # <<>> /\ Head(in)[2] = "head"
  /\ held' = Head(in)[1]
  /\ in' = Tail(in)
  /\ UNCHANGED <<peer, pc, event, out, close_after_write, write_armed>>

Reply(n, kind) == [i \in 1..(CASE kind = "noop" -> 0 [] kind = "big" -> 2 [] OTHER -> 1) |-> n]

Parsed(kinds) ==
  /\ pc = "parse" /\ in # <<>> /\ Head(in)[2] = "tail"
  /\ sent[Head(in)[1]] \in kinds

\* Error: the parser forgets its place.  Most errors leave the offending bytes in
\* the buffer, some (an unbalanced quote) have consumed them.
ParseError ==
  /\ Parsed({"bad"})
  /\ out' = Append(out, Head(in)[1])
  /\ close_after_write' = TRUE
  /\ held' = 0
  /\ in' \in {in, Tail(in)}
  /\ Goto("flush")
  /\ UNCHANGED <<peer, event, write_armed>>

\* Bytes left over from an error, read from the start, may look like a command.
Garbled == Parsed({"bad"}) /\ held = 0

Request == Head(in)[1]
RequestKind == IF sent[Request] = "bad" THEN "cmd" ELSE sent[Request]

\* The handler has written its reply; the loop goes on at pc = next.
Answered(next) ==
  /\ out' = out \o Reply(Request, RequestKind)
  /\ in' = Tail(in)
  /\ held' = 0
  /\ close_after_write' = (close_after_write \/ RequestKind = "quit")
  /\ Goto(next)
  /\ UNCHANGED <<peer, event, write_armed>>

Commanded == Parsed({"cmd", "big", "noop", "quit"}) \/ Garbled
OverLimit == Len(out) + Len(Reply(Request, RequestKind)) > MaxOutput
\* "*0" goes on at the top of the loop and QUIT leaves it: neither meets the check.
Unchecked == RequestKind \in {"noop", "quit"}

\* Mutant: one command per readable event.
DispatchOne ==
  /\ Commanded
  /\ \/ (Unchecked \/ ~OverLimit) /\ Answered("flush")
     \/ ~Unchecked /\ OverLimit /\ CloseConn
\* Mutant: the loop never looks at the limit.
DispatchUnlimited ==
  /\ Commanded
  /\ Answered(IF RequestKind = "quit" THEN "flush" ELSE "parse")
\* A command: dispatch it, then QUIT stops the loop, then the limit is checked.
Dispatch ==
  /\ Commanded
  /\ \/ /\ Unchecked \/ ~OverLimit
        /\ Answered(IF RequestKind = "quit" THEN "flush" ELSE "parse")
     \/ ~Unchecked /\ OverLimit /\ CloseConn

\* flush_output, called from process_input (pc = "flush") and then, if the event
\* was writable and output is left, from on_conn_event (pc = "drain").
Flushing == pc \in {"flush", "drain"}
AfterFlush == IF pc = "flush" THEN "write" ELSE "finish"

\* Mutant: one unit too few is consumed after a send, and goes out twice.
FlushSomeTwice ==
  LET space == SendSpace - Len(queued)
      n == IF Len(out) < space THEN Len(out) ELSE space
  IN  /\ Flushing /\ out # <<>> /\ space > 0
      /\ queued' = IF client = "gone" THEN queued ELSE queued \o SubSeq(out, 1, n)
      /\ out' = SubSeq(out, n, Len(out))
      /\ UNCHANGED <<sent, whole, wire, client, got, pc, event, in, held,
                     close_after_write, write_armed>>
\* send() takes what fits.
FlushSome ==
  LET space == SendSpace - Len(queued)
      n == IF Len(out) < space THEN Len(out) ELSE space
  IN  /\ Flushing /\ out # <<>> /\ space > 0
      /\ queued' = IF client = "gone" THEN queued ELSE queued \o SubSeq(out, 1, n)
      /\ out' = SubSeq(out, n + 1, Len(out))
      /\ UNCHANGED <<sent, whole, wire, client, got, pc, event, in, held,
                     close_after_write, write_armed>>

FlushError ==
  /\ Flushing /\ out # <<>> /\ client = "gone"
  /\ CloseConn

\* Mutant: nobody asks to be told when the socket has room again.
FlushBlockedUnarmed ==
  /\ Flushing /\ out # <<>> /\ Len(queued) >= SendSpace /\ client # "gone"
  /\ Goto(AfterFlush)
  /\ UNCHANGED <<peer, event, conn>>
\* EAGAIN: the rest waits for the socket.
FlushBlocked ==
  /\ Flushing /\ out # <<>> /\ Len(queued) >= SendSpace /\ client # "gone"
  /\ write_armed' = TRUE
  /\ Goto(AfterFlush)
  /\ UNCHANGED <<peer, event, in, held, out, close_after_write>>

\* Mutant: write interest stays on after the output has drained.
FlushDoneArmed ==
  /\ Flushing /\ out = <<>>
  /\ \/ close_after_write /\ CloseConn
     \/ /\ ~close_after_write
        /\ Goto(AfterFlush)
        /\ UNCHANGED <<peer, event, conn>>
\* Everything is out: close if that was the last reply, else stop asking.
FlushDone ==
  /\ Flushing /\ out = <<>>
  /\ \/ close_after_write /\ CloseConn
     \/ /\ ~close_after_write
        /\ write_armed' = FALSE
        /\ Goto(AfterFlush)
        /\ UNCHANGED <<peer, event, in, held, out, close_after_write>>

WriteReady ==
  /\ pc = "write"
  /\ Goto(IF event.writable /\ out # <<>> THEN "drain" ELSE "finish")
  /\ UNCHANGED <<peer, event, conn>>

Finish ==
  /\ pc = "finish"
  /\ IF close_after_write /\ out = <<>> THEN CloseConn
     ELSE Goto("wait") /\ UNCHANGED <<peer, event, conn>>

\* on_tick finds the shutdown flag, the loop ends, ~Server closes every socket.
Stop == MayStop /\ pc = "wait" /\ CloseConn

-----------------------------------------------------------------------------
Init ==
  /\ sent = <<>> /\ whole = 0 /\ wire = <<>> /\ client = "open"
  /\ queued = <<>> /\ got = <<>>
  /\ pc = "wait" /\ event = [readable |-> FALSE, writable |-> FALSE]
  /\ in = <<>> /\ held = 0 /\ out = <<>>
  /\ close_after_write = FALSE /\ write_armed = FALSE

Client == Send \/ Receive \/ Leave

Serve ==
  \/ Poll \/ ReadData \/ ReadNothing \/ ReadEnd
  \/ ParseIncomplete \/ ParseToken \/ ParseError \/ Dispatch
  \/ FlushSome \/ FlushError \/ FlushBlocked \/ FlushDone
  \/ WriteReady \/ Finish

Next == Client \/ Serve \/ Stop

\* The loop thread never stops serving, and this client keeps reading; it need neither
\* send anything, nor ever stop sending, nor ever leave.
Fairness == WF_vars(Serve) /\ WF_vars(Receive)

Spec == Init /\ [][Next]_vars
FairSpec == Spec /\ Fairness

-----------------------------------------------------------------------------
(* Properties.                                                             *)

Ids == 1..MaxRequests
Units == Ids \X {"head", "tail"}

PeerType ==
  /\ sent \in Seq(Kinds) /\ Len(sent) <= MaxRequests /\ whole \in 0..Len(sent)
  /\ wire \in Seq(Units)
  /\ client \in {"open", "shut", "gone"}
  /\ queued \in Seq(Ids) /\ got \in Seq(Ids)

ThreadType ==
  /\ pc \in {"wait", "read", "parse", "flush", "write", "drain", "finish", "closed"}
  /\ event \in [readable : BOOLEAN, writable : BOOLEAN]

ConnType ==
  /\ in \in Seq(Units) /\ out \in Seq(Ids)
  /\ held \in 0..MaxRequests

FlagType == close_after_write \in BOOLEAN /\ write_armed \in BOOLEAN

\* Every variable of the client, the kernel and the Conn holds a value of its type; Conn::in
\* holds nothing but units of requests, though a read may fail with no data.
TypeOK == PeerType /\ ThreadType /\ ConnType /\ FlagType

\* The requests the server has taken, to their end, off the wire and out of its buffer.
Waits(n) == <<n, "tail">> \in Range(in) \cup Range(wire)
Consumed == Cardinality({n \in 1..whole : ~Waits(n)})
\* The replies to the first c requests, one after the other.
Replies(kinds, c) ==
  LET upTo[n \in 0..c] == IF n = 0 THEN <<>> ELSE upTo[n - 1] \o Reply(n, kinds[n])
  IN  upTo[c]

\* Pipelining: however the input is cut up and however often the socket fills, what
\* the client has received, what the kernel holds and what Conn::out holds are,
\* together, the replies to the requests consumed so far: each once, in order.
RepliesInOrder ==
  pc # "closed" /\ ~close_after_write /\ client # "gone" =>
    got \o queued \o out = Replies(sent, Consumed)

\* A whole command is never left in Conn::in while the loop waits for more input:
\* nothing would ever wake it for bytes it has already read.
NoStrandedInput == pc \notin {"parse", "closed"} /\ ~close_after_write => in = <<>>

\* While the loop waits, write interest is on exactly if there is output to write:
\* otherwise output would never be sent, or an idle socket would spin the loop.
WriteInterestExact == pc = "wait" => (write_armed <=> out # <<>>)

\* Until its last reply is queued, a connection never holds more than the limit.
OutputBounded == ~close_after_write => Len(out) <= MaxOutput

\* conn.h: after QUIT or a protocol error the connection does come to its close, however
\* full the socket was when the last reply was queued, if the client reads and does not
\* send for ever.  (handle_read still reads and process_input still executes what comes
\* while output is pending: a client that never stops can keep `out` from draining.)
LastReplyCloses == (close_after_write ~> pc = "closed") \/ []<><<Send>>_vars

\* A client that reads gets a reply to every command it finished, unless it closed,
\* or itself sent a QUIT or broken framing before that command or talked on after it.
Ending == {n \in 1..Len(sent) : sent[n] \in {"quit", "bad"}}
EveryCommandAnswered ==
  \A n \in 1..MaxRequests :
    (n <= whole /\ sent[n] # "noop")
      ~> \/ \E i \in 1..Len(got) : got[i] = n
         \/ client # "open"
         \/ \E m \in Ending : m < Len(sent)

\* conn.h:27: "The reply now queued is the last one this connection will get."
LastReplyIsLast == [][close_after_write /\ pc' # "closed" => Len(out') <= Len(out)]_vars

\* conn.h:28: "The socket closes once `out` has drained, never before" (for a client
\* that can still read).
DrainsBeforeClosing ==
  [][close_after_write /\ client # "gone" /\ pc' = "closed" => out = <<>>]_vars

=============================================================================
