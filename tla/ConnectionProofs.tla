-------------------------- MODULE ConnectionProofs --------------------------
(***************************************************************************)
(* Proofs about Connection, for every number of requests, read size, send  *)
(* buffer, output limit and way of leaving.                                *)
(*                                                                         *)
(* NoStrandedInput and OutputBounded are inductive given the types.        *)
(* WriteInterestExact speaks of the waiting loop only; ArmedInv says what  *)
(* write_armed means at every point of the handler.  RepliesInOrder counts *)
(* the requests taken; OrderInv says which ones are left: the last ones    *)
(* sent, with their ends in order in Conn::in and on the wire.             *)
(***************************************************************************)
EXTENDS Connection, SequenceTheorems, FiniteSetTheorems, NaturalsInduction,
        WellFoundedInduction, TLAPS

\* Outside parsing and flushing, write_armed says exactly whether output is pending;
\* while parsing, output can only have been added to; while flushing, it says nothing.
ArmedInv ==
  /\ pc \in {"wait", "read", "write", "finish", "closed"} => (write_armed <=> out # <<>>)
  /\ pc = "parse" => (write_armed => out # <<>>)

IInv == TypeOK /\ NoStrandedInput /\ OutputBounded /\ ArmedInv

-----------------------------------------------------------------------------
(* Sequences.                                                              *)

LEMMA Empty ==
  <<>> \in Seq(Ids) /\ <<>> \in Seq(Units) /\ <<>> \in Seq(Kinds) /\ Len(<<>>) = 0
  BY EmptySeq

LEMMA UnitFields ==
  ASSUME NEW u \in Units
  PROVE  u[1] \in Ids /\ u[2] \in {"head", "tail"}
  BY DEF Units, Ids

LEMMA ReplyType ==
  ASSUME NEW n \in Ids, NEW kind
  PROVE  Reply(n, kind) \in Seq(Ids)
  <1>1. PICK c \in {0, 1, 2} : Reply(n, kind) = [i \in 1..c |-> n]
    BY DEF Reply
  <1>. QED  BY <1>1

\* What a send or a read takes off the front of a sequence, and what it leaves.
LEMMA SplitType ==
  ASSUME NEW S, NEW s \in Seq(S), NEW n \in 0..Len(s)
  PROVE  /\ SubSeq(s, 1, n) \in Seq(S)
         /\ SubSeq(s, n + 1, Len(s)) \in Seq(S)
         /\ Len(SubSeq(s, n + 1, Len(s))) = Len(s) - n
  <1>1. \A i \in 1..n : s[i] \in S
    BY ElementOfSeq
  <1>2. \A i \in (n + 1)..Len(s) : s[i] \in S
    BY ElementOfSeq
  <1>3. Len(s) \in Nat
    OBVIOUS
  <1>4. SubSeq(s, 1, n) \in Seq(S)
    BY <1>1, <1>3, SubSeqProperties
  <1>5. /\ SubSeq(s, n + 1, Len(s)) \in Seq(S)
        /\ Len(SubSeq(s, n + 1, Len(s))) = IF n + 1 <= Len(s) THEN Len(s) - (n + 1) + 1 ELSE 0
    BY <1>2, <1>3, SubSeqProperties
  <1>. QED  BY <1>3, <1>4, <1>5

-----------------------------------------------------------------------------
LEMMA InitInv == Init => IInv
  <1>. SUFFICES ASSUME Init PROVE IInv
    OBVIOUS
  <1>1. PeerType
    BY Empty, ConnectionAssumption DEF Init, PeerType
  <1>2. ThreadType /\ FlagType
    BY Zenon DEF Init, ThreadType, FlagType
  <1>3. ConnType
    BY Empty, ConnectionAssumption DEF Init, ConnType
  <1>4. NoStrandedInput /\ OutputBounded
    BY Empty, ConnectionAssumption DEF Init, NoStrandedInput, OutputBounded
  <1>5. ArmedInv
    BY DEF Init, ArmedInv
  <1>. QED  BY <1>1, <1>2, <1>3, <1>4, <1>5 DEF IInv, TypeOK

\* close_conn, from wherever it is called.
LEMMA CloseInv ==
  ASSUME IInv, CloseConn
  PROVE  IInv'
  <1>. USE DEF CloseConn, Goto
  <1>1. PeerType'
    BY Empty, Zenon DEF KernelClose, PeerType, IInv, TypeOK
  <1>2. ThreadType'
    BY DEF ThreadType, IInv, TypeOK
  <1>3. ConnType'
    BY Empty, ConnectionAssumption DEF ConnType
  <1>4. FlagType'
    BY Zenon DEF FlagType
  <1>5. NoStrandedInput' /\ OutputBounded'
    BY Empty, ConnectionAssumption DEF NoStrandedInput, OutputBounded
  <1>6. ArmedInv'
    BY DEF ArmedInv
  <1>. QED  BY <1>1, <1>2, <1>3, <1>4, <1>5, <1>6 DEF IInv, TypeOK

\* A step that leaves the Conn and the thread alone, and keeps the types of the rest.
LEMMA PeerStep ==
  ASSUME IInv, UNCHANGED <<pc, event, conn>>, PeerType'
  PROVE  IInv'
  <1>. USE DEF conn, IInv, TypeOK
  <1>1. ThreadType' /\ ConnType' /\ FlagType'
    BY DEF ThreadType, ConnType, FlagType
  <1>2. NoStrandedInput' /\ OutputBounded' /\ ArmedInv'
    BY DEF NoStrandedInput, OutputBounded, ArmedInv
  <1>. QED  BY <1>1, <1>2

LEMMA ClientInv ==
  ASSUME IInv, Client
  PROVE  IInv'
  <1>. USE DEF IInv, TypeOK
  <1>1. CASE Send
    <2>1. CASE whole < Len(sent)
      <3>1. <<Len(sent), "tail">> \in Units
        BY <2>1 DEF PeerType, Units, Ids
      <3>2. Append(wire, <<Len(sent), "tail">>) \in Seq(Units)
        BY <3>1, AppendProperties DEF PeerType
      <3>3. /\ wire' = Append(wire, <<Len(sent), "tail">>) /\ whole' = Len(sent)
            /\ UNCHANGED <<sent, client, queued, got>>
        BY <1>1, <2>1 DEF Send, PeerType
      <3>4. PeerType'
        BY <3>2, <3>3 DEF PeerType
      <3>. QED  BY <1>1, <3>4, PeerStep DEF Send
    <2>2. CASE ~(whole < Len(sent))
      <3>1. <<Len(sent) + 1, "head">> \in Units
        BY <1>1, <2>2, ConnectionAssumption DEF Send, PeerType, Units, Ids
      <3>2. Append(wire, <<Len(sent) + 1, "head">>) \in Seq(Units)
        BY <3>1, AppendProperties DEF PeerType
      <3>3. PICK kind \in Kinds : sent' = Append(sent, kind)
        BY <1>1, <2>2 DEF Send
      <3>4. sent' \in Seq(Kinds) /\ Len(sent') = Len(sent) + 1
        BY <3>3, AppendProperties DEF PeerType
      <3>5. /\ wire' = Append(wire, <<Len(sent) + 1, "head">>)
            /\ Len(sent) < MaxRequests
            /\ UNCHANGED <<whole, client, queued, got>>
        BY <1>1, <2>2 DEF Send
      <3>6. PeerType'
        BY <3>2, <3>4, <3>5, ConnectionAssumption DEF PeerType
      <3>. QED  BY <1>1, <3>6, PeerStep DEF Send
    <2>. QED  BY <2>1, <2>2
  <1>2. CASE Receive
    <2>1. Append(got, Head(queued)) \in Seq(Ids) /\ Tail(queued) \in Seq(Ids)
      BY <1>2, HeadTailProperties, AppendProperties DEF Receive, PeerType
    <2>2. PeerType'
      BY <1>2, <2>1 DEF Receive, PeerType
    <2>. QED  BY <1>2, <2>2, PeerStep DEF Receive
  <1>3. CASE Leave
    <2>1. PeerType'
      BY <1>3, ConnectionAssumption DEF Leave, PeerType
    <2>. QED  BY <1>3, <2>1, PeerStep DEF Leave
  <1>. QED  BY <1>1, <1>2, <1>3 DEF Client

-----------------------------------------------------------------------------
(* The steps of the server thread.                                         *)

\* A step that only moves the thread on.
LEMMA MoveStep ==
  ASSUME IInv, UNCHANGED <<peer, event, conn>>,
         pc' \in {"wait", "flush", "write", "drain", "finish"},
         pc = "parse" => in = <<>>,
         pc' \notin {"flush", "drain"} => (write_armed <=> out # <<>>), pc # "closed"
  PROVE  IInv'
  <1>. USE DEF IInv, TypeOK, peer, conn
  <1>1. PeerType' /\ ConnType' /\ FlagType' /\ ThreadType'
    BY DEF PeerType, ConnType, FlagType, ThreadType
  <1>2. NoStrandedInput' /\ OutputBounded'
    BY DEF NoStrandedInput, OutputBounded
  <1>3. ArmedInv'
    BY DEF ArmedInv
  <1>. QED  BY <1>1, <1>2, <1>3

LEMMA PollInv ==
  ASSUME IInv, Poll
  PROVE  IInv'
  <1>. USE DEF IInv, TypeOK
  <1>1. /\ pc = "wait" /\ pc' \in {"read", "write"}
        /\ UNCHANGED <<peer, conn>>
    BY DEF Poll, Goto
  <1>2. event' \in [readable : BOOLEAN, writable : BOOLEAN]
    BY Zenon DEF Poll, FlagType
  <1>3. PeerType' /\ ConnType' /\ FlagType' /\ ThreadType'
    BY <1>1, <1>2 DEF PeerType, ConnType, FlagType, ThreadType, peer, conn
  <1>4. NoStrandedInput' /\ OutputBounded' /\ ArmedInv'
    BY <1>1 DEF NoStrandedInput, OutputBounded, ArmedInv, conn
  <1>. QED  BY <1>3, <1>4

LEMMA ReadInv ==
  ASSUME IInv, ReadData \/ ReadNothing \/ ReadEnd
  PROVE  IInv'
  <1>1. CASE ReadData
    <2>. DEFINE n == IF Len(wire) < ReadChunk THEN Len(wire) ELSE ReadChunk
    <2>. USE DEF IInv, TypeOK
    <2>1. n \in 0..Len(wire)
      BY ConnectionAssumption DEF PeerType
    <2>. HIDE DEF n
    <2>2. /\ pc = "read" /\ pc' = "parse"
          /\ in' = in \o SubSeq(wire, 1, n)
          /\ wire' = SubSeq(wire, n + 1, Len(wire))
          /\ UNCHANGED <<sent, whole, client, queued, got, event, held, out,
                         close_after_write, write_armed>>
      BY <1>1 DEF ReadData, Goto, n
    <2>3. SubSeq(wire, 1, n) \in Seq(Units) /\ SubSeq(wire, n + 1, Len(wire)) \in Seq(Units)
      BY <2>1, SplitType DEF PeerType
    <2>4. in' \in Seq(Units)
      BY <2>2, <2>3, ConcatProperties DEF ConnType
    <2>5. PeerType'
      BY <2>2, <2>3 DEF PeerType
    <2>6. ConnType' /\ ThreadType'
      BY <2>2, <2>4 DEF ConnType, ThreadType
    <2>7. FlagType' /\ NoStrandedInput' /\ OutputBounded' /\ ArmedInv'
      BY <2>2 DEF FlagType, NoStrandedInput, OutputBounded, ArmedInv
    <2>. QED  BY <2>5, <2>6, <2>7
  <1>2. CASE ReadNothing
    BY <1>2, MoveStep DEF ReadNothing, Goto, IInv, ArmedInv
  <1>3. CASE ReadEnd
    BY <1>3, CloseInv DEF ReadEnd
  <1>. QED  BY <1>1, <1>2, <1>3

\* What parsing needs to know about the unit in front.
LEMMA FrontUnit ==
  ASSUME IInv, in # <<>>
  PROVE  /\ Head(in)[1] \in Ids
         /\ Tail(in) \in Seq(Units)
  BY UnitFields, HeadTailProperties DEF IInv, TypeOK, ConnType

LEMMA ParseInv ==
  ASSUME IInv, ParseIncomplete \/ ParseToken \/ ParseError
  PROVE  IInv'
  <1>1. CASE ParseIncomplete
    BY <1>1, MoveStep DEF ParseIncomplete, Goto
  <1>2. CASE ParseToken
    <2>. USE DEF IInv, TypeOK
    <2>1. Head(in)[1] \in Ids /\ Tail(in) \in Seq(Units)
      BY <1>2, FrontUnit DEF ParseToken
    <2>2. PeerType' /\ ThreadType' /\ FlagType'
      BY <1>2 DEF ParseToken, peer, PeerType, ThreadType, FlagType
    <2>3. ConnType'
      BY <1>2, <2>1, ConnectionAssumption DEF ParseToken, ConnType, Ids
    <2>4. NoStrandedInput' /\ OutputBounded' /\ ArmedInv'
      BY <1>2 DEF ParseToken, NoStrandedInput, OutputBounded, ArmedInv
    <2>. QED  BY <2>2, <2>3, <2>4
  <1>3. CASE ParseError
    <2>. USE DEF IInv, TypeOK
    <2>1. Head(in)[1] \in Ids /\ Tail(in) \in Seq(Units)
      BY <1>3, FrontUnit DEF ParseError, Parsed
    <2>2. Append(out, Head(in)[1]) \in Seq(Ids)
      BY <2>1, AppendProperties DEF ConnType
    <2>3. PeerType' /\ ThreadType' /\ FlagType'
      BY <1>3 DEF ParseError, Goto, peer, PeerType, ThreadType, FlagType
    <2>4. out' \in Seq(Ids) /\ held' = 0
      BY <1>3, <2>2 DEF ParseError
    <2>5. in' \in Seq(Units)
      BY <1>3, <2>1, Zenon DEF ParseError, ConnType
    <2>6. ConnType'
      BY <2>4, <2>5, ConnectionAssumption DEF ConnType
    <2>7. NoStrandedInput' /\ OutputBounded' /\ ArmedInv'
      BY <1>3 DEF ParseError, Goto, NoStrandedInput, OutputBounded, ArmedInv
    <2>. QED  BY <2>3, <2>6, <2>7
  <1>. QED  BY <1>1, <1>2, <1>3

LEMMA DispatchInv ==
  ASSUME IInv, Dispatch
  PROVE  IInv'
  <1>. USE DEF IInv, TypeOK
  <1>1. CASE ~Unchecked /\ OverLimit
    BY <1>1, CloseInv DEF Dispatch
  <1>2. CASE Unchecked \/ ~OverLimit
    <2>. DEFINE reply == Reply(Request, RequestKind)
    <2>1. Request \in Ids /\ Tail(in) \in Seq(Units) /\ pc = "parse"
      BY FrontUnit DEF Dispatch, Commanded, Garbled, Parsed, Request
    <2>2. reply \in Seq(Ids)
      BY <2>1, ReplyType
    <2>3. RequestKind = "noop" => reply = <<>>
      BY DEF Reply
    <2>4. /\ out' = out \o reply /\ in' = Tail(in) /\ held' = 0
          /\ close_after_write' = (close_after_write \/ RequestKind = "quit")
          /\ pc' = IF RequestKind = "quit" THEN "flush" ELSE "parse"
          /\ UNCHANGED <<peer, event, write_armed>>
      BY <1>2 DEF Dispatch, Answered, Goto
    <2>5. Unchecked \/ ~(Len(out) + Len(reply) > MaxOutput)
      BY <1>2 DEF OverLimit
    <2>. HIDE DEF reply
    <2>6. out' \in Seq(Ids) /\ Len(out') = Len(out) + Len(reply)
      BY <2>2, <2>4, ConcatProperties DEF ConnType
    <2>7. out # <<>> => out' # <<>>
      BY <2>2, <2>6 DEF ConnType
    <2>8. PeerType'
      BY <2>4 DEF peer, PeerType
    <2>9. ThreadType'
      BY <2>4 DEF ThreadType
    <2>10. FlagType'
      BY <2>4 DEF FlagType
    <2>11. ConnType'
      BY <2>1, <2>4, <2>6, ConnectionAssumption DEF ConnType
    <2>12. NoStrandedInput'
      BY <2>4, Zenon DEF NoStrandedInput
    <2>13. OutputBounded'
      <3>1. CASE RequestKind = "noop"
        <4>1. Len(out') = Len(out)
          BY <3>1, <2>3, <2>6, Empty DEF ConnType
        <4>. QED  BY <3>1, <4>1, <2>4, Zenon DEF OutputBounded
      <3>2. CASE RequestKind = "quit"
        BY <3>2, <2>4, Zenon DEF OutputBounded
      <3>3. CASE ~Unchecked
        <4>1. Len(out') <= MaxOutput
          BY <3>3, <2>2, <2>5, <2>6, ConnectionAssumption DEF ConnType
        <4>. QED  BY <4>1 DEF OutputBounded
      <3>. QED  BY <3>1, <3>2, <3>3 DEF Unchecked
    <2>14. ArmedInv'
      BY <2>1, <2>4, <2>7 DEF ArmedInv
    <2>. QED  BY <2>8, <2>9, <2>10, <2>11, <2>12, <2>13, <2>14
  <1>. QED  BY <1>1, <1>2

LEMMA FlushInv ==
  ASSUME IInv, FlushSome \/ FlushError \/ FlushBlocked \/ FlushDone
  PROVE  IInv'
  <1>1. CASE FlushSome
    <2>. DEFINE space == SendSpace - Len(queued)
                n == IF Len(out) < space THEN Len(out) ELSE space
    <2>. USE DEF IInv, TypeOK
    <2>1. n \in 0..Len(out)
      BY <1>1, ConnectionAssumption DEF FlushSome, PeerType, ConnType
    <2>. HIDE DEF n
    <2>2. /\ pc \in {"flush", "drain"}
          /\ queued' = queued \/ queued' = queued \o SubSeq(out, 1, n)
          /\ out' = SubSeq(out, n + 1, Len(out))
          /\ UNCHANGED <<sent, whole, wire, client, got, pc, event, in, held,
                         close_after_write, write_armed>>
      BY <1>1, Zenon DEF FlushSome, Flushing, n
    <2>3. /\ SubSeq(out, 1, n) \in Seq(Ids) /\ out' \in Seq(Ids)
          /\ Len(out') <= Len(out)
      BY <2>1, <2>2, SplitType DEF ConnType
    <2>4. queued' \in Seq(Ids)
      <3>1. queued \in Seq(Ids) /\ queued \o SubSeq(out, 1, n) \in Seq(Ids)
        BY <2>3, ConcatProperties DEF PeerType
      <3>. QED  BY <3>1, <2>2, Zenon
    <2>5. PeerType'
      BY <2>2, <2>4 DEF PeerType
    <2>6. ConnType' /\ ThreadType'
      BY <2>2, <2>3 DEF ConnType, ThreadType
    <2>7. FlagType' /\ NoStrandedInput' /\ ArmedInv'
      BY <2>2 DEF FlagType, NoStrandedInput, ArmedInv
    <2>8. OutputBounded'
      BY <2>2, <2>3, ConnectionAssumption DEF OutputBounded, ConnType
    <2>. QED  BY <2>5, <2>6, <2>7, <2>8
  <1>2. CASE FlushError
    BY <1>2, CloseInv DEF FlushError
  <1>3. CASE FlushBlocked
    <2>. USE DEF IInv, TypeOK
    <2>1. PeerType' /\ ConnType' /\ ThreadType' /\ FlagType'
      BY <1>3 DEF FlushBlocked, Goto, AfterFlush, peer,
                  PeerType, ConnType, ThreadType, FlagType
    <2>2. NoStrandedInput' /\ OutputBounded' /\ ArmedInv'
      BY <1>3 DEF FlushBlocked, Flushing, Goto, AfterFlush,
                  NoStrandedInput, OutputBounded, ArmedInv
    <2>. QED  BY <2>1, <2>2
  <1>4. CASE FlushDone /\ close_after_write
    BY <1>4, CloseInv DEF FlushDone
  <1>5. CASE FlushDone /\ ~close_after_write
    <2>. USE DEF IInv, TypeOK
    <2>1. PeerType' /\ ConnType' /\ ThreadType' /\ FlagType'
      BY <1>5, Zenon DEF FlushDone, Goto, AfterFlush, peer,
                  PeerType, ConnType, ThreadType, FlagType
    <2>2. NoStrandedInput' /\ OutputBounded' /\ ArmedInv'
      BY <1>5 DEF FlushDone, Flushing, Goto, AfterFlush,
                  NoStrandedInput, OutputBounded, ArmedInv
    <2>. QED  BY <2>1, <2>2
  <1>. QED  BY <1>1, <1>2, <1>3, <1>4, <1>5

LEMMA EndInv ==
  ASSUME IInv, WriteReady \/ Finish \/ Stop
  PROVE  IInv'
  <1>1. CASE WriteReady
    BY <1>1, MoveStep DEF WriteReady, Goto, IInv, ArmedInv
  <1>2. CASE Finish /\ pc' = "closed"
    BY <1>2, CloseInv DEF Finish, Goto
  <1>3. CASE Finish /\ pc' # "closed"
    BY <1>3, MoveStep DEF Finish, CloseConn, Goto, IInv, ArmedInv
  <1>4. CASE Stop
    BY <1>4, CloseInv DEF Stop
  <1>. QED  BY <1>1, <1>2, <1>3, <1>4

-----------------------------------------------------------------------------
LEMMA NextInv == IInv /\ [Next]_vars => IInv'
  <1>. SUFFICES ASSUME IInv, [Next]_vars PROVE IInv'
    OBVIOUS
  <1>1. CASE Client
    BY <1>1, ClientInv
  <1>2. CASE Serve
    BY <1>2, PollInv, ReadInv, ParseInv, DispatchInv, FlushInv, EndInv DEF Serve
  <1>3. CASE Stop
    BY <1>3, EndInv
  <1>4. CASE UNCHANGED vars
    BY <1>4, PeerStep DEF vars, peer, PeerType, IInv, TypeOK
  <1>. QED  BY <1>1, <1>2, <1>3, <1>4 DEF Next

\* The inductive invariant holds throughout.
THEOREM InvAlways == Spec => []IInv
  BY InitInv, NextInv, PTL DEF Spec

\* Every variable keeps its type, whatever the client sends and however it leaves.
THEOREM TypeCorrect == Spec => []TypeOK
  BY InvAlways, PTL DEF IInv

\* process_input never returns to the loop with a whole command left in Conn::in.
THEOREM InputNeverStranded == Spec => []NoStrandedInput
  BY InvAlways, PTL DEF IInv

\* Until the last reply is queued, Conn::out respects max_output_buffer.
THEOREM OutputAlwaysBounded == Spec => []OutputBounded
  BY InvAlways, PTL DEF IInv

\* In the waiting loop, a connection asks for writability exactly if it has output.
THEOREM WriteInterestCorrect == Spec => []WriteInterestExact
  <1>1. IInv => WriteInterestExact
    BY DEF IInv, ArmedInv, WriteInterestExact
  <1>. QED  BY <1>1, InvAlways, PTL


-----------------------------------------------------------------------------
(* What Replies computes.  Its recursive function exists, since one on     *)
(* 0..c extends to 0..(c + 1), and there is only one; what holds of no     *)
(* least number holds of none.                                             *)

LEMMA Least ==
  ASSUME NEW S, S \subseteq Nat, S # {}
  PROVE  \E x \in S : \A y \in S : x <= y
  <1>. DEFINE Less == {p \in Nat \X Nat : p[1] < p[2]}
  <1>1. IsWellFoundedOn(Less, Nat)
    BY NatLessThanWellFounded DEF OpToRel
  <1>2. \E x \in S : \A y \in S : <<y, x>> \notin Less
    <2>. HIDE DEF Less
    <2>. QED  BY <1>1, WFMin, Zenon
  <1>3. PICK x \in S : \A y \in S : <<y, x>> \notin Less
    BY <1>2
  <1>4. ASSUME NEW y \in S PROVE x <= y
    <2>1. x \in Nat /\ y \in Nat /\ <<y, x>> \notin Less
      BY <1>3
    <2>2. ~(y < x)
      BY <2>1
    <2>. QED  BY <2>1, <2>2
  <1>. QED  BY <1>4

\* g holds the replies to the first requests, for each number of them up to c.
IsReplies(g, kinds, c) ==
  g = [n \in 0..c |-> IF n = 0 THEN <<>> ELSE g[n - 1] \o Reply(n, kinds[n])]

LEMMA RepliesExist ==
  ASSUME NEW kinds, NEW c \in Nat
  PROVE  \E g : IsReplies(g, kinds, c)
  <1>. DEFINE bad == {m \in Nat : ~\E g : IsReplies(g, kinds, m)}
  <1>1. CASE bad = {}
    BY <1>1
  <1>2. CASE bad # {}
    <2>1. PICK m \in bad : \A y \in bad : m <= y
      BY <1>2, Least, Zenon
    <2>2. m \in Nat /\ ~\E g : IsReplies(g, kinds, m)
      BY <2>1
    <2>3. CASE m = 0
      <3>. DEFINE g == [n \in 0..0 |-> <<>>]
      <3>1. \A n \in 0..0 : n = 0
        OBVIOUS
      <3>2. g = [n \in 0..0 |-> IF n = 0 THEN <<>> ELSE g[n - 1] \o Reply(n, kinds[n])]
        BY <3>1
      <3>. QED  BY <2>2, <2>3, <3>2 DEF IsReplies
    <2>4. CASE m # 0
      <3>1. m - 1 \in Nat /\ m - 1 \notin bad
        BY <2>1, <2>2, <2>4
      <3>2. PICK g : IsReplies(g, kinds, m - 1)
        BY <3>1
      <3>. DEFINE r(n) == Reply(n, kinds[n])
                  h == [n \in 0..m |-> IF n = m THEN g[n - 1] \o r(n) ELSE g[n]]
      <3>. HIDE DEF r
      <3>3. ASSUME NEW n \in 0..m PROVE h[n] = IF n = 0 THEN <<>> ELSE h[n - 1] \o r(n)
        <4>1. n # 0 => n - 1 \in 0..m /\ n - 1 # m
          BY <2>2
        <4>2. n # 0 => h[n - 1] = g[n - 1]
          BY <4>1
        <4>3. CASE n = m
          BY <2>4, <4>2, <4>3
        <4>4. CASE n # m
          <5>1. n \in 0..(m - 1)
            BY <2>2, <4>4
          <5>2. h[n] = g[n] /\ g[n] = IF n = 0 THEN <<>> ELSE g[n - 1] \o r(n)
            BY <3>2, <4>4, <5>1, Zenon DEF IsReplies, r
          <5>. QED  BY <4>2, <5>2
        <4>. QED  BY <4>3, <4>4
      <3>4. h = [n \in 0..m |-> h[n]]
        OBVIOUS
      <3>. HIDE DEF h
      <3>5. IsReplies(h, kinds, m)
        BY <3>3, <3>4, Zenon DEF IsReplies, r
      <3>. QED  BY <2>2, <3>5
    <2>. QED  BY <2>3, <2>4
  <1>. QED  BY <1>1, <1>2

LEMMA RepliesUnique ==
  ASSUME NEW kinds, NEW c \in Nat, NEW d \in Nat, c <= d,
         NEW g, IsReplies(g, kinds, c), NEW h, IsReplies(h, kinds, d)
  PROVE  g[c] = h[c]
  <1>. DEFINE r(n) == Reply(n, kinds[n])
  <1>1. /\ \A n \in 0..c : g[n] = IF n = 0 THEN <<>> ELSE g[n - 1] \o r(n)
        /\ \A n \in 0..d : h[n] = IF n = 0 THEN <<>> ELSE h[n - 1] \o r(n)
    BY Zenon DEF IsReplies
  <1>. HIDE DEF r
  <1>. DEFINE bad == {n \in 0..c : g[n] # h[n]}
  <1>2. CASE bad # {}
    <2>1. bad \subseteq Nat
      OBVIOUS
    <2>2. PICK n \in bad : \A j \in bad : n <= j
      <3>. HIDE DEF bad
      <3>. QED  BY <1>2, <2>1, Least, Zenon
    <2>3. n \in 0..c /\ n \in 0..d /\ g[n] # h[n]
      BY <2>2
    <2>4. n # 0 => n - 1 \in 0..c /\ n - 1 \notin bad
      BY <2>2, <2>3
    <2>5. n # 0 => g[n - 1] = h[n - 1]
      BY <2>4
    <2>. QED  BY <1>1, <2>3, <2>5
  <1>. QED  BY <1>2

LEMMA RepliesAre ==
  ASSUME NEW kinds, NEW c \in Nat
  PROVE  \E g : IsReplies(g, kinds, c) /\ Replies(kinds, c) = g[c]
  <1>1. \E g : IsReplies(g, kinds, c)
    BY RepliesExist
  <1>2. IsReplies(CHOOSE g : IsReplies(g, kinds, c), kinds, c)
    BY <1>1
  <1>3. Replies(kinds, c) = (CHOOSE g : IsReplies(g, kinds, c))[c]
    BY DEF Replies, IsReplies
  <1>. QED  BY <1>2, <1>3, Zenon

LEMMA NoReplies ==
  ASSUME NEW kinds
  PROVE  Replies(kinds, 0) = <<>>
  <1>1. PICK g : IsReplies(g, kinds, 0) /\ Replies(kinds, 0) = g[0]
    BY RepliesAre
  <1>2. 0 \in 0..0
    OBVIOUS
  <1>. QED  BY <1>1, <1>2, Zenon DEF IsReplies

\* Replies depends on the requests replied to, not on the later ones.
LEMMA RepliesSame ==
  ASSUME NEW kinds, NEW more, NEW c \in Nat, \A n \in 1..c : more[n] = kinds[n]
  PROVE  Replies(more, c) = Replies(kinds, c)
  <1>1. PICK g : IsReplies(g, kinds, c) /\ Replies(kinds, c) = g[c]
    BY RepliesAre
  <1>2. PICK h : IsReplies(h, more, c) /\ Replies(more, c) = h[c]
    BY RepliesAre
  <1>3. ASSUME NEW n \in 0..c
        PROVE  (IF n = 0 THEN <<>> ELSE g[n - 1] \o Reply(n, kinds[n]))
                 = IF n = 0 THEN <<>> ELSE g[n - 1] \o Reply(n, more[n])
    <2>1. n # 0 => n \in 1..c
      OBVIOUS
    <2>2. n # 0 => more[n] = kinds[n]
      BY <2>1
    <2>. QED  BY <2>2, Zenon
  <1>4. IsReplies(g, more, c)
    BY <1>1, <1>3, Zenon DEF IsReplies
  <1>5. g[c] = h[c]
    BY <1>2, <1>4, RepliesUnique
  <1>. QED  BY <1>1, <1>2, <1>5

\* One reply more.
LEMMA RepliesMore ==
  ASSUME NEW kinds, NEW c \in Nat
  PROVE  Replies(kinds, c + 1) = Replies(kinds, c) \o Reply(c + 1, kinds[c + 1])
  <1>1. c + 1 \in Nat /\ c + 1 \in 0..(c + 1) /\ c + 1 # 0 /\ (c + 1) - 1 = c /\ c <= c + 1
    OBVIOUS
  <1>2. PICK g : IsReplies(g, kinds, c) /\ Replies(kinds, c) = g[c]
    BY RepliesAre
  <1>3. PICK h : IsReplies(h, kinds, c + 1) /\ Replies(kinds, c + 1) = h[c + 1]
    BY <1>1, RepliesAre
  <1>4. h[c + 1] = h[c] \o Reply(c + 1, kinds[c + 1])
    BY <1>1, <1>3, Zenon DEF IsReplies
  <1>5. g[c] = h[c]
    BY <1>1, <1>2, <1>3, RepliesUnique
  <1>. QED  BY <1>2, <1>3, <1>4, <1>5

-----------------------------------------------------------------------------
(* The requests on their way: the ends of the last ones sent, in order.    *)

Ordered(s) ==
  \A i, j \in 1..Len(s) : i < j /\ s[i][2] = "tail" /\ s[j][2] = "tail" => s[i][1] < s[j][1]

Waiting(s, n) == \E i \in 1..Len(s) : s[i] = <<n, "tail">>

\* Of the requests up to w, the ends of those after c are in s.
TailsFrom(s, c, w) == Ordered(s) /\ \A n \in Nat : Waiting(s, n) <=> n \in (c + 1)..w

LEMMA CountConsumed ==
  ASSUME NEW a \in Seq(Units), NEW b \in Seq(Units), NEW w \in Nat, NEW c \in 0..w,
         TailsFrom(a \o b, c, w)
  PROVE  Cardinality({n \in 1..w : ~(<<n, "tail">> \in Range(a) \cup Range(b))}) = c
  <1>. DEFINE s == a \o b
  <1>1. /\ Len(a) \in Nat /\ Len(b) \in Nat /\ Len(s) = Len(a) + Len(b)
        /\ DOMAIN a = 1..Len(a) /\ DOMAIN b = 1..Len(b)
        /\ \A i \in 1..Len(a) : s[i] = a[i]
        /\ \A i \in 1..Len(b) : s[i + Len(a)] = b[i]
    BY ConcatProperties
  <1>2. \A i \in 1..Len(s) : s[i] = IF i <= Len(a) THEN a[i] ELSE b[i - Len(a)]
    BY ConcatProperties
  <1>. HIDE DEF s
  <1>3. ASSUME NEW u, u \in Range(a) \cup Range(b) PROVE \E i \in 1..Len(s) : s[i] = u
    <2>1. CASE u \in Range(a)
      <3>1. PICK i \in 1..Len(a) : a[i] = u
        BY <1>1, <2>1 DEF Range
      <3>2. i \in 1..Len(s) /\ s[i] = u
        BY <1>1, <3>1
      <3>. QED  BY <3>2
    <2>2. CASE u \in Range(b)
      <3>1. PICK i \in 1..Len(b) : b[i] = u
        BY <1>1, <2>2 DEF Range
      <3>2. i + Len(a) \in 1..Len(s) /\ s[i + Len(a)] = u
        BY <1>1, <3>1
      <3>. QED  BY <3>2
    <2>. QED  BY <1>3, <2>1, <2>2
  <1>4. ASSUME NEW i \in 1..Len(s) PROVE s[i] \in Range(a) \cup Range(b)
    <2>1. CASE i <= Len(a)
      <3>1. i \in DOMAIN a /\ s[i] = a[i]
        BY <1>1, <2>1
      <3>. QED  BY <3>1 DEF Range
    <2>2. CASE ~(i <= Len(a))
      <3>1. i - Len(a) \in DOMAIN b /\ s[i] = b[i - Len(a)]
        BY <1>1, <1>2, <2>2
      <3>. QED  BY <3>1 DEF Range
    <2>. QED  BY <2>1, <2>2
  <1>5. \A n : <<n, "tail">> \in Range(a) \cup Range(b) <=> Waiting(s, n)
    BY <1>3, <1>4, Zenon DEF Waiting
  <1>6. \A n \in Nat : Waiting(s, n) <=> n \in (c + 1)..w
    BY DEF TailsFrom, s
  <1>7. {n \in 1..w : ~(<<n, "tail">> \in Range(a) \cup Range(b))} = 1..c
    <2>1. ASSUME NEW n \in 1..w PROVE ~(<<n, "tail">> \in Range(a) \cup Range(b)) <=> n \in 1..c
      BY <1>5, <1>6
    <2>2. 1..c \subseteq 1..w
      OBVIOUS
    <2>. QED  BY <2>1, <2>2
  <1>8. Cardinality(1..c) = IF 1 > c THEN 0 ELSE c - 1 + 1
    BY FS_Interval
  <1>9. Cardinality(1..c) = c
    BY <1>8
  <1>. QED  BY <1>7, <1>9, Zenon

\* The client sends a unit,
LEMMA SentTails ==
  ASSUME NEW s \in Seq(Units), NEW w \in Nat, NEW c \in 0..w, TailsFrom(s, c, w),
         NEW part \in {"head", "tail"}, <<w + 1, part>> \in Units
  PROVE  TailsFrom(Append(s, <<w + 1, part>>), c, IF part = "tail" THEN w + 1 ELSE w)
  <1>. DEFINE u == <<w + 1, part>>
              t == Append(s, u)
  <1>1. /\ Len(s) \in Nat /\ Len(t) = Len(s) + 1 /\ t[Len(s) + 1] = u
        /\ \A i \in 1..Len(s) : t[i] = s[i] /\ s[i] \in Units
    OBVIOUS
  <1>. HIDE DEF t
  <1>2. u[1] = w + 1 /\ u[2] = part
    OBVIOUS
  <1>3. \A i \in 1..Len(s) : s[i][2] = "tail" => s[i][1] \in Nat /\ s[i] = <<s[i][1], "tail">>
    BY <1>1 DEF Units, Ids
  <1>4. \A i \in 1..Len(s) : s[i][2] = "tail" => s[i][1] < w + 1
    BY <1>3 DEF TailsFrom, Waiting
  <1>5. Ordered(t)
    <2>. SUFFICES ASSUME NEW i \in 1..Len(t), NEW j \in 1..Len(t), i < j,
                         t[i][2] = "tail", t[j][2] = "tail"
                  PROVE  t[i][1] < t[j][1]
      BY DEF Ordered
    <2>1. i \in 1..Len(s) /\ t[i] = s[i]
      BY <1>1
    <2>2. CASE j \in 1..Len(s)
      <3>1. \A k, l \in 1..Len(s) : k < l /\ s[k][2] = "tail" /\ s[l][2] = "tail"
                                     => s[k][1] < s[l][1]
        BY Zenon DEF Ordered, TailsFrom
      <3>2. t[j] = s[j]
        BY <1>1, <2>2
      <3>. QED  BY <2>1, <2>2, <3>1, <3>2
    <2>3. CASE j = Len(s) + 1
      BY <1>1, <1>2, <1>4, <2>1, <2>3
    <2>. QED  BY <1>1, <2>2, <2>3
  <1>6. ASSUME NEW n \in Nat PROVE Waiting(t, n) <=> Waiting(s, n) \/ <<n, "tail">> = u
    <2>1. ASSUME Waiting(s, n) PROVE Waiting(t, n)
      BY <1>1, <2>1 DEF Waiting
    <2>2. ASSUME u = <<n, "tail">> PROVE Waiting(t, n)
      BY <1>1, <2>2 DEF Waiting
    <2>3. ASSUME Waiting(t, n), u # <<n, "tail">> PROVE Waiting(s, n)
      <3>1. PICK i \in 1..Len(t) : t[i] = <<n, "tail">>
        BY <2>3 DEF Waiting
      <3>2. i \in 1..Len(s) /\ s[i] = <<n, "tail">>
        BY <1>1, <2>3, <3>1
      <3>. QED  BY <3>2 DEF Waiting
    <2>. QED  BY <2>1, <2>2, <2>3
  <1>7. ASSUME NEW n \in Nat
        PROVE  Waiting(t, n) <=> n \in (c + 1)..(IF part = "tail" THEN w + 1 ELSE w)
    <2>1. Waiting(s, n) <=> n \in (c + 1)..w
      BY DEF TailsFrom
    <2>2. CASE part = "tail"
      <3>1. <<n, "tail">> = u <=> n = w + 1
        BY <2>2
      <3>. QED  BY <1>6, <2>1, <2>2, <3>1
    <2>3. CASE part = "head"
      <3>1. <<n, "tail">> # u
        BY <2>3
      <3>. QED  BY <1>6, <2>1, <2>3, <3>1
    <2>. QED  BY <2>2, <2>3
  <1>. QED  BY <1>5, <1>7 DEF TailsFrom, t

\* and the parser consumes one.
LEMMA TakenTails ==
  ASSUME NEW s \in Seq(Units), s # <<>>, NEW w \in Nat, NEW c \in 0..w, TailsFrom(s, c, w)
  PROVE  /\ s[1][2] = "head" => TailsFrom(Tail(s), c, w)
         /\ s[1][2] = "tail" => /\ s[1][1] = c + 1 /\ c + 1 \in 1..w
                                /\ TailsFrom(Tail(s), c + 1, w)
  <1>. DEFINE t == Tail(s)
  <1>1. /\ Len(s) \in Nat \ {0} /\ Len(t) = Len(s) - 1 /\ \A i \in 1..Len(s) : s[i] \in Units
        /\ \A i \in 1..Len(t) : t[i] = s[i + 1]
    OBVIOUS
  <1>. HIDE DEF t
  <1>2. \A i \in 1..Len(s) : s[i][2] = "tail" => s[i][1] \in Nat /\ s[i] = <<s[i][1], "tail">>
    BY <1>1 DEF Units, Ids
  <1>3. Ordered(t)
    <2>. SUFFICES ASSUME NEW i \in 1..Len(t), NEW j \in 1..Len(t), i < j,
                         t[i][2] = "tail", t[j][2] = "tail"
                  PROVE  t[i][1] < t[j][1]
      BY DEF Ordered
    <2>1. i + 1 \in 1..Len(s) /\ j + 1 \in 1..Len(s) /\ i + 1 < j + 1
      BY <1>1
    <2>2. t[i] = s[i + 1] /\ t[j] = s[j + 1]
      BY <1>1
    <2>3. s[i + 1][2] = "tail" /\ s[j + 1][2] = "tail"
      BY <2>2
    <2>4. s[i + 1][1] < s[j + 1][1]
      BY <2>1, <2>3, Zenon DEF TailsFrom, Ordered
    <2>. QED  BY <2>2, <2>4
  <1>4. ASSUME NEW n PROVE Waiting(s, n) <=> s[1] = <<n, "tail">> \/ Waiting(t, n)
    <2>1. ASSUME s[1] = <<n, "tail">> PROVE Waiting(s, n)
      BY <1>1, <2>1 DEF Waiting
    <2>2. ASSUME Waiting(t, n) PROVE Waiting(s, n)
      <3>1. PICK i \in 1..Len(t) : t[i] = <<n, "tail">>
        BY <2>2 DEF Waiting
      <3>2. i + 1 \in 1..Len(s) /\ s[i + 1] = <<n, "tail">>
        BY <1>1, <3>1
      <3>. QED  BY <3>2 DEF Waiting
    <2>3. ASSUME Waiting(s, n), s[1] # <<n, "tail">> PROVE Waiting(t, n)
      <3>1. PICK i \in 1..Len(s) : s[i] = <<n, "tail">>
        BY <2>3 DEF Waiting
      <3>2. i # 1
        BY <2>3, <3>1
      <3>3. i - 1 \in 1..Len(t) /\ t[i - 1] = s[(i - 1) + 1] /\ (i - 1) + 1 = i
        BY <1>1, <3>2
      <3>. QED  BY <3>1, <3>3 DEF Waiting
    <2>. QED  BY <2>1, <2>2, <2>3
  <1>5. \A n \in Nat : Waiting(s, n) <=> n \in (c + 1)..w
    BY DEF TailsFrom
  <1>6. ASSUME s[1][2] = "head" PROVE TailsFrom(t, c, w)
    <2>1. \A n : s[1] # <<n, "tail">>
      BY <1>6
    <2>. QED  BY <1>3, <1>4, <1>5, <2>1 DEF TailsFrom
  <1>7. ASSUME s[1][2] = "tail"
        PROVE  s[1][1] = c + 1 /\ c + 1 \in 1..w /\ TailsFrom(t, c + 1, w)
    <2>. DEFINE m == s[1][1]
    <2>1. m \in Nat /\ s[1] = <<m, "tail">>
      BY <1>1, <1>2, <1>7
    <2>2. m \in (c + 1)..w
      BY <1>1, <1>5, <2>1 DEF Waiting
    <2>3. Waiting(s, c + 1)
      BY <1>5, <2>2
    <2>4. ASSUME NEW n, Waiting(t, n) PROVE m < n
      <3>1. PICK i \in 1..Len(t) : t[i] = <<n, "tail">>
        BY <2>4 DEF Waiting
      <3>2. i + 1 \in 1..Len(s) /\ 1 \in 1..Len(s) /\ 1 < i + 1 /\ s[i + 1] = <<n, "tail">>
        BY <1>1, <3>1
      <3>3. s[i + 1][2] = "tail" /\ s[i + 1][1] = n
        BY <3>2
      <3>. QED  BY <1>7, <3>2, <3>3 DEF TailsFrom, Ordered
    <2>. HIDE DEF m
    <2>5. m = c + 1
      <3>1. CASE Waiting(t, c + 1)
        BY <2>1, <2>2, <2>4, <3>1
      <3>2. CASE s[1] = <<c + 1, "tail">>
        BY <2>1, <3>2
      <3>. QED  BY <1>4, <2>3, <3>1, <3>2
    <2>6. ASSUME NEW n \in Nat PROVE Waiting(t, n) <=> n \in (c + 2)..w
      <3>1. Waiting(t, n) => n \in (c + 1)..w /\ n # c + 1
        BY <1>4, <1>5, <2>2, <2>4, <2>5
      <3>2. n \in (c + 2)..w => Waiting(s, n) /\ s[1] # <<n, "tail">>
        BY <1>5, <2>1, <2>5
      <3>. QED  BY <1>4, <3>1, <3>2
    <2>7. (c + 1) + 1 = c + 2 /\ c + 1 \in 1..w
      BY <2>2
    <2>8. TailsFrom(t, c + 1, w)
      BY <1>3, <2>6, <2>7 DEF TailsFrom
    <2>. QED  BY <2>5, <2>7, <2>8 DEF m
  <1>. QED  BY <1>6, <1>7 DEF t

-----------------------------------------------------------------------------
(* Bytes that move from one buffer to the next stay in their order.        *)

\* Concatenation under a name of its own, so that regrouping is a matter of
\* rewriting and not of elements.
Joined(a, b) == a \o b

LEMMA Joining ==
  ASSUME NEW S, NEW a \in Seq(S), NEW b \in Seq(S)
  PROVE  Joined(a, b) \in Seq(S)
  BY DEF Joined

LEMMA Regroup ==
  ASSUME NEW S, NEW a \in Seq(S), NEW b \in Seq(S), NEW c \in Seq(S)
  PROVE  Joined(Joined(a, b), c) = Joined(a, Joined(b, c))
  <1>1. (a \o b) \o c = a \o (b \o c)
    BY ConcatAssociative
  <1>. QED  BY <1>1 DEF Joined

LEMMA MoveSome ==
  ASSUME NEW S, NEW a \in Seq(S), NEW b \in Seq(S), NEW n \in 0..Len(b)
  PROVE  (a \o SubSeq(b, 1, n)) \o SubSeq(b, n + 1, Len(b)) = a \o b
  <1>1. SubSeq(b, 1, n) \in Seq(S) /\ SubSeq(b, n + 1, Len(b)) \in Seq(S)
    BY SplitType
  <1>2. SubSeq(b, 1, n) \o SubSeq(b, n + 1, Len(b)) = b
    <2>1. Len(b) \in Nat
      OBVIOUS
    <2>2. 1 \in 1..(Len(b) + 1) /\ n \in (1 - 1)..Len(b) /\ Len(b) \in n..Len(b)
      BY <2>1
    <2>3. SubSeq(b, 1, n) \o SubSeq(b, n + 1, Len(b)) = SubSeq(b, 1, Len(b))
      BY <2>2, ConcatAdjacentSubSeq, Zenon
    <2>. QED  BY <2>3, SubSeqFull, Zenon
  <1>. DEFINE l == SubSeq(b, 1, n)
              r == SubSeq(b, n + 1, Len(b))
  <1>. HIDE DEF l, r
  <1>3. l \in Seq(S) /\ r \in Seq(S) /\ Joined(l, r) = b
    BY <1>1, <1>2 DEF l, r, Joined
  <1>4. Joined(Joined(a, l), r) = Joined(a, b)
    BY ONLY <1>3, Regroup, a \in Seq(S)
  <1>. QED  BY <1>4 DEF l, r, Joined

LEMMA MoveFront ==
  ASSUME NEW S, NEW a \in Seq(S), NEW b \in Seq(S), b # <<>>
  PROVE  Append(a, Head(b)) \o Tail(b) = a \o b
  <1>. DEFINE l == Append(a, Head(b))
              r == Tail(b)
              x == l \o r
              y == a \o b
  <1>1. /\ Len(a) \in Nat /\ Len(b) \in Nat \ {0} /\ Head(b) = b[1]
        /\ r \in Seq(S) /\ Len(r) = Len(b) - 1 /\ \A i \in 1..(Len(b) - 1) : r[i] = b[i + 1]
    OBVIOUS
  <1>2. /\ l \in Seq(S) /\ Len(l) = Len(a) + 1
        /\ \A i \in 1..(Len(a) + 1) : l[i] = IF i <= Len(a) THEN a[i] ELSE b[1]
    BY <1>1
  <1>. HIDE DEF l, r
  <1>3. /\ x \in Seq(S) /\ Len(x) = Len(l) + Len(r)
        /\ \A i \in 1..(Len(l) + Len(r)) : x[i] = IF i <= Len(l) THEN l[i] ELSE r[i - Len(l)]
    BY <1>1, <1>2, ConcatProperties, Zenon
  <1>4. /\ y \in Seq(S) /\ Len(y) = Len(a) + Len(b)
        /\ \A i \in 1..(Len(a) + Len(b)) : y[i] = IF i <= Len(a) THEN a[i] ELSE b[i - Len(a)]
    BY ConcatProperties
  <1>. HIDE DEF x, y
  <1>5. Len(x) = Len(y) /\ Len(x) = Len(a) + Len(b)
    BY <1>1, <1>2, <1>3, <1>4
  <1>6. ASSUME NEW i \in 1..Len(x) PROVE x[i] = y[i]
    <2>1. CASE i <= Len(a) + 1
      <3>1. i <= Len(l) /\ i \in 1..(Len(l) + Len(r)) /\ i \in 1..(Len(a) + Len(b))
        BY <1>1, <1>2, <1>5, <2>1
      <3>2. x[i] = l[i] /\ l[i] = IF i <= Len(a) THEN a[i] ELSE b[1]
        BY <1>2, <1>3, <2>1, <3>1
      <3>3. y[i] = IF i <= Len(a) THEN a[i] ELSE b[i - Len(a)]
        BY <1>4, <3>1
      <3>4. ~(i <= Len(a)) => i - Len(a) = 1
        BY <1>1, <2>1
      <3>. QED  BY <3>2, <3>3, <3>4
    <2>2. CASE i > Len(a) + 1
      <3>1. i - Len(l) \in 1..(Len(b) - 1) /\ (i - Len(l)) + 1 = i - Len(a)
        BY <1>1, <1>2, <1>5, <2>2
      <3>2. x[i] = r[i - Len(l)] /\ y[i] = b[i - Len(a)]
        BY <1>1, <1>2, <1>3, <1>4, <1>5, <2>2
      <3>. QED  BY <1>1, <3>1, <3>2, Zenon
    <2>. QED  BY <1>1, <1>5, <2>1, <2>2
  <1>7. x = y
    BY <1>3, <1>4, <1>5, <1>6, SeqEqual, Zenon
  <1>. QED  BY <1>7 DEF x, y, l, r

LEMMA TailConcat ==
  ASSUME NEW S, NEW a \in Seq(S), NEW b \in Seq(S), a # <<>>
  PROVE  /\ Tail(a) \o b = Tail(a \o b)
         /\ a \o b \in Seq(S) /\ a \o b # <<>> /\ (a \o b)[1] = Head(a)
  <1>. DEFINE r == Tail(a)
              x == r \o b
              joined == a \o b
              y == Tail(joined)
  <1>1. /\ Len(a) \in Nat \ {0} /\ Len(b) \in Nat /\ Head(a) = a[1]
        /\ r \in Seq(S) /\ Len(r) = Len(a) - 1 /\ \A i \in 1..(Len(a) - 1) : r[i] = a[i + 1]
    OBVIOUS
  <1>. HIDE DEF r
  <1>2. /\ joined \in Seq(S) /\ Len(joined) = Len(a) + Len(b)
        /\ \A i \in 1..(Len(a) + Len(b)) : joined[i] = IF i <= Len(a) THEN a[i] ELSE b[i - Len(a)]
    BY ConcatProperties
  <1>3. /\ x \in Seq(S) /\ Len(x) = Len(r) + Len(b)
        /\ \A i \in 1..(Len(r) + Len(b)) : x[i] = IF i <= Len(r) THEN r[i] ELSE b[i - Len(r)]
    BY <1>1, ConcatProperties
  <1>. HIDE DEF joined, x
  <1>4. joined # <<>> /\ joined[1] = a[1]
    BY <1>1, <1>2
  <1>5. y \in Seq(S) /\ Len(y) = Len(joined) - 1 /\ \A i \in 1..(Len(joined) - 1) : y[i] = joined[i + 1]
    BY <1>2, <1>4
  <1>. HIDE DEF y
  <1>6. Len(x) = Len(y) /\ Len(x) = Len(a) + Len(b) - 1
    BY <1>1, <1>2, <1>3, <1>5
  <1>7. ASSUME NEW i \in 1..Len(x) PROVE x[i] = y[i]
    <2>1. y[i] = joined[i + 1] /\ i + 1 \in 1..(Len(a) + Len(b))
      BY <1>1, <1>2, <1>5, <1>6
    <2>2. CASE i <= Len(r)
      <3>1. x[i] = r[i] /\ r[i] = a[i + 1] /\ joined[i + 1] = a[i + 1]
        BY <1>1, <1>2, <1>3, <1>6, <2>1, <2>2
      <3>. QED  BY <2>1, <3>1
    <2>3. CASE ~(i <= Len(r))
      <3>1. i - Len(r) = (i + 1) - Len(a) /\ ~(i + 1 <= Len(a))
        BY <1>1, <2>3
      <3>2. x[i] = b[i - Len(r)] /\ joined[i + 1] = b[(i + 1) - Len(a)]
        BY <1>1, <1>2, <1>3, <1>6, <2>1, <2>3, <3>1
      <3>. QED  BY <2>1, <3>1, <3>2
    <2>. QED  BY <2>2, <2>3
  <1>8. x = y
    BY <1>3, <1>5, <1>6, <1>7, SeqEqual
  <1>. QED  BY <1>1, <1>2, <1>4, <1>8 DEF x, y, r, joined

-----------------------------------------------------------------------------
(* Replies, in order.                                                      *)

\* The requests on their way are the last ones, in order, and all of them but one are
\* whole; what is in front of them has been consumed.
OrderInv ==
  /\ Len(sent) <= whole + 1
  /\ Consumed \in 0..whole
  /\ TailsFrom(in \o wire, Consumed, whole)

\* What RepliesInOrder speaks of.
Speaks == pc # "closed" /\ ~close_after_write /\ client # "gone"

LEMMA OrderFrom ==
  ASSUME PeerType', ConnType', NEW c, c \in 0..whole', Len(sent') <= whole' + 1,
         TailsFrom(in' \o wire', c, whole')
  PROVE  OrderInv' /\ Consumed' = c
  <1>1. in' \in Seq(Units) /\ wire' \in Seq(Units) /\ whole' \in Nat
    BY DEF PeerType, ConnType
  <1>2. Cardinality({n \in 1..whole' : ~(<<n, "tail">> \in Range(in') \cup Range(wire'))}) = c
    BY <1>1, CountConsumed
  <1>3. Consumed' = c
    BY <1>2 DEF Consumed, Waits
  <1>. QED  BY <1>3 DEF OrderInv

LEMMA OrderTypes ==
  ASSUME IInv
  PROVE  /\ sent \in Seq(Kinds) /\ Len(sent) \in Nat /\ whole \in Nat /\ whole <= Len(sent)
         /\ in \in Seq(Units) /\ wire \in Seq(Units) /\ in \o wire \in Seq(Units)
         /\ got \in Seq(Ids) /\ queued \in Seq(Ids) /\ out \in Seq(Ids)
  <1>1. /\ sent \in Seq(Kinds) /\ whole \in 0..Len(sent) /\ wire \in Seq(Units)
        /\ in \in Seq(Units) /\ got \in Seq(Ids) /\ queued \in Seq(Ids) /\ out \in Seq(Ids)
    BY DEF IInv, TypeOK, PeerType, ConnType
  <1>2. in \o wire \in Seq(Units)
    BY <1>1, ConcatProperties
  <1>. QED  BY <1>1, <1>2

\* Nothing is consumed, and the replies only move.
LEMMA OrderSame ==
  ASSUME IInv', OrderInv, RepliesInOrder, UNCHANGED <<sent, whole>>,
         in' \o wire' = in \o wire, Speaks' => Speaks,
         Speaks' => got' \o queued' \o out' = got \o queued \o out
  PROVE  OrderInv' /\ RepliesInOrder'
  <1>1. PeerType' /\ ConnType'
    BY DEF IInv, TypeOK
  <1>2. OrderInv' /\ Consumed' = Consumed
    BY <1>1, OrderFrom DEF OrderInv
  <1>3. RepliesInOrder'
    BY <1>2, Zenon DEF RepliesInOrder, Speaks
  <1>. QED  BY <1>2, <1>3

LEMMA OrderClosed ==
  ASSUME IInv', OrderInv, CloseConn, whole \in Nat
  PROVE  OrderInv' /\ RepliesInOrder'
  <1>1. /\ wire' = <<>> /\ in' = <<>> /\ pc' = "closed" /\ whole' = whole /\ sent' = sent
    BY DEF CloseConn, KernelClose, Goto
  <1>2. in' \o wire' = <<>>
    BY <1>1, ConcatEmptySeq, Empty
  <1>3. TailsFrom(<<>>, whole, whole)
    BY Empty DEF TailsFrom, Ordered, Waiting
  <1>4. PeerType' /\ ConnType'
    BY DEF IInv, TypeOK
  <1>5. OrderInv'
    BY <1>1, <1>2, <1>3, <1>4, OrderFrom DEF OrderInv
  <1>. QED  BY <1>1, <1>5 DEF RepliesInOrder

LEMMA OrderSend ==
  ASSUME IInv, IInv', OrderInv, RepliesInOrder, Send
  PROVE  OrderInv' /\ RepliesInOrder'
  <1>1. UNCHANGED <<client, queued, got, pc, in, out, close_after_write>>
    BY DEF Send, conn
  <1>2. /\ sent \in Seq(Kinds) /\ Len(sent) \in Nat /\ whole \in Nat /\ whole <= Len(sent)
        /\ in \in Seq(Units) /\ wire \in Seq(Units) /\ in \o wire \in Seq(Units)
    BY OrderTypes
  <1>3. /\ Len(sent) <= whole + 1 /\ Consumed \in 0..whole
        /\ TailsFrom(in \o wire, Consumed, whole)
    BY DEF OrderInv
  <1>4. PeerType' /\ ConnType'
    BY DEF IInv, TypeOK
  <1>5. PICK part \in {"head", "tail"} :
          /\ wire' = Append(wire, <<whole + 1, part>>)
          /\ part = "tail" => whole' = whole + 1 /\ Len(sent) = whole + 1 /\ sent' = sent
          /\ part = "head" => /\ whole' = whole /\ Len(sent) = whole
                              /\ \E kind \in Kinds : sent' = Append(sent, kind)
    <2>1. CASE whole < Len(sent)
      <3>1. Len(sent) = whole + 1
        BY <1>2, <1>3, <2>1
      <3>2. wire' = Append(wire, <<Len(sent), "tail">>) /\ whole' = Len(sent) /\ sent' = sent
        BY <1>2, <2>1 DEF Send
      <3>. QED  BY <3>1, <3>2
    <2>2. CASE ~(whole < Len(sent))
      <3>1. Len(sent) = whole
        BY <1>2, <2>2
      <3>2. /\ wire' = Append(wire, <<Len(sent) + 1, "head">>) /\ whole' = whole
            /\ \E kind \in Kinds : sent' = Append(sent, kind)
        BY <2>2 DEF Send
      <3>. QED  BY <3>1, <3>2
    <2>. QED  BY <2>1, <2>2
  <1>. DEFINE u == <<whole + 1, part>>
  <1>6. u \in Units
    <2>1. wire' \in Seq(Units)
      BY <1>4 DEF PeerType
    <2>2. Len(wire) + 1 \in 1..Len(wire') /\ wire'[Len(wire) + 1] = u
      BY <1>2, <1>5
    <2>. QED  BY <2>1, <2>2, ElementOfSeq
  <1>7. in' \o wire' = Append(in \o wire, u)
    <2>. HIDE DEF u
    <2>1. Append(wire, u) = wire \o <<u>> /\ Append(in \o wire, u) = (in \o wire) \o <<u>>
      BY <1>2, <1>6, AppendIsConcat
    <2>2. <<u>> \in Seq(Units)
      BY <1>6
    <2>3. in \o (wire \o <<u>>) = (in \o wire) \o <<u>>
      BY <1>2, <2>2, ConcatAssociative
    <2>4. in' = in /\ wire' = Append(wire, u)
      BY <1>1, <1>5 DEF u
    <2>. QED  BY <2>1, <2>3, <2>4
  <1>8. TailsFrom(Append(in \o wire, u), Consumed, IF part = "tail" THEN whole + 1 ELSE whole)
    BY <1>2, <1>3, <1>6, SentTails, Zenon
  <1>9. /\ Len(sent') <= whole' + 1 /\ whole' = IF part = "tail" THEN whole + 1 ELSE whole
        /\ Consumed \in 0..whole'
    BY <1>2, <1>3, <1>5
  <1>10. OrderInv' /\ Consumed' = Consumed
    BY <1>4, <1>7, <1>8, <1>9, OrderFrom, Zenon
  <1>11. \A n \in 1..Consumed : sent'[n] = sent[n]
    BY <1>2, <1>3, <1>5
  <1>12. RepliesInOrder'
    <2>1. Consumed \in Nat
      BY <1>2, <1>3
    <2>2. Replies(sent', Consumed') = Replies(sent, Consumed)
      BY <1>10, <1>11, <2>1, RepliesSame
    <2>. QED  BY <1>1, <2>2 DEF RepliesInOrder
  <1>. QED  BY <1>10, <1>12

LEMMA OrderReceive ==
  ASSUME IInv, IInv', OrderInv, RepliesInOrder, Receive
  PROVE  OrderInv' /\ RepliesInOrder'
  <1>1. /\ queued # <<>> /\ got' = Append(got, Head(queued)) /\ queued' = Tail(queued)
        /\ UNCHANGED <<sent, whole, wire, in, out, client, pc, close_after_write>>
    BY DEF Receive, conn
  <1>2. got \in Seq(Ids) /\ queued \in Seq(Ids)
    BY OrderTypes
  <1>3. got' \o queued' = got \o queued
    BY <1>1, <1>2, MoveFront
  <1>4. (Speaks' => Speaks) /\ in' \o wire' = in \o wire /\ got' \o queued' \o out' = got \o queued \o out
    BY <1>1, <1>3 DEF Speaks
  <1>. QED  BY <1>1, <1>4, OrderSame

LEMMA OrderRead ==
  ASSUME IInv, IInv', OrderInv, RepliesInOrder, ReadData
  PROVE  OrderInv' /\ RepliesInOrder'
  <1>. DEFINE n == IF Len(wire) < ReadChunk THEN Len(wire) ELSE ReadChunk
  <1>1. /\ in' = in \o SubSeq(wire, 1, n) /\ wire' = SubSeq(wire, n + 1, Len(wire)) /\ pc = "read"
        /\ UNCHANGED <<sent, whole, client, queued, got, out, close_after_write>>
    BY DEF ReadData
  <1>2. in \in Seq(Units) /\ wire \in Seq(Units)
    BY OrderTypes
  <1>3. n \in 0..Len(wire)
    BY <1>2, ConnectionAssumption
  <1>. HIDE DEF n
  <1>4. in' \o wire' = in \o wire
    BY <1>1, <1>2, <1>3, MoveSome, Zenon
  <1>5. (Speaks' => Speaks) /\ got' \o queued' \o out' = got \o queued \o out
    BY <1>1 DEF Speaks
  <1>. QED  BY <1>1, <1>4, <1>5, OrderSame, Zenon

\* A unit leaves Conn::in.
LEMMA OrderTaken ==
  ASSUME IInv, IInv', OrderInv, in # <<>>, in' = Tail(in), UNCHANGED <<sent, whole, wire>>
  PROVE  /\ OrderInv'
         /\ Head(in)[2] = "head" => Consumed' = Consumed
         /\ Head(in)[2] = "tail" => /\ Head(in)[1] = Consumed + 1 /\ Consumed' = Consumed + 1
                                    /\ Consumed + 1 \in 1..whole
  <1>1. /\ in \in Seq(Units) /\ wire \in Seq(Units) /\ whole \in Nat
        /\ Len(sent) <= whole + 1 /\ Consumed \in 0..whole
        /\ TailsFrom(in \o wire, Consumed, whole)
    BY OrderTypes DEF OrderInv
  <1>2. PeerType' /\ ConnType'
    BY DEF IInv, TypeOK
  <1>. DEFINE s == in \o wire
  <1>3. s \in Seq(Units) /\ s # <<>> /\ s[1] = Head(in) /\ in' \o wire' = Tail(s)
    BY <1>1, TailConcat, Zenon
  <1>. HIDE DEF s
  <1>4. TailsFrom(s, Consumed, whole)
    BY <1>1 DEF s
  <1>5. Head(in)[2] \in {"head", "tail"}
    BY <1>1, HeadTailProperties, UnitFields
  <1>6. CASE Head(in)[2] = "head"
    <2>1. TailsFrom(Tail(s), Consumed, whole)
      BY <1>1, <1>3, <1>4, <1>6, TakenTails
    <2>2. OrderInv' /\ Consumed' = Consumed
      BY <1>1, <1>2, <1>3, <2>1, OrderFrom, Zenon
    <2>. QED  BY <1>6, <2>2
  <1>7. CASE Head(in)[2] = "tail"
    <2>1. /\ Head(in)[1] = Consumed + 1 /\ Consumed + 1 \in 1..whole
          /\ TailsFrom(Tail(s), Consumed + 1, whole)
      BY <1>1, <1>3, <1>4, <1>7, TakenTails
    <2>2. Consumed + 1 \in 0..whole
      BY <2>1
    <2>3. OrderInv' /\ Consumed' = Consumed + 1
      BY <1>1, <1>2, <1>3, <2>1, <2>2, OrderFrom, Zenon
    <2>. QED  BY <1>7, <2>1, <2>3
  <1>. QED  BY <1>5, <1>6, <1>7

LEMMA OrderParse ==
  ASSUME IInv, IInv', OrderInv, RepliesInOrder, ParseToken \/ ParseError
  PROVE  OrderInv' /\ RepliesInOrder'
  <1>1. CASE ParseToken
    <2>1. /\ in # <<>> /\ Head(in)[2] = "head" /\ in' = Tail(in)
          /\ UNCHANGED <<sent, whole, wire, client, queued, got, pc, out, close_after_write>>
      BY <1>1 DEF ParseToken, peer
    <2>2. OrderInv' /\ Consumed' = Consumed
      BY <2>1, OrderTaken
    <2>. QED  BY <2>1, <2>2 DEF RepliesInOrder
  <1>2. CASE ParseError
    <2>1. /\ in # <<>> /\ in' \in {in, Tail(in)} /\ close_after_write' = TRUE
          /\ UNCHANGED <<sent, whole, wire>>
      BY <1>2 DEF ParseError, Parsed, peer
    <2>2. CASE in' = in
      BY <2>1, <2>2, OrderSame DEF Speaks
    <2>3. CASE in' = Tail(in)
      <3>1. OrderInv'
        BY <2>1, <2>3, OrderTaken
      <3>. QED  BY <2>1, <3>1 DEF RepliesInOrder
    <2>. QED  BY <2>1, <2>2, <2>3
  <1>. QED  BY <1>1, <1>2

\* Error replies, and what garbled bytes look like, have the length of a simple reply.
LEMMA SameReply ==
  ASSUME NEW n
  PROVE  Reply(n, "bad") = Reply(n, "cmd")
  BY DEF Reply

LEMMA OrderAnswered ==
  ASSUME IInv, IInv', OrderInv, RepliesInOrder, Commanded, NEW next, Answered(next)
  PROVE  OrderInv' /\ RepliesInOrder'
  <1>1. /\ in # <<>> /\ Head(in)[2] = "tail" /\ pc = "parse" /\ in' = Tail(in)
        /\ out' = out \o Reply(Request, RequestKind)
        /\ close_after_write' = (close_after_write \/ RequestKind = "quit")
        /\ UNCHANGED <<sent, whole, wire, client, queued, got>>
    BY DEF Commanded, Garbled, Parsed, Answered, peer
  <1>2. /\ OrderInv' /\ Request = Consumed + 1 /\ Consumed' = Consumed + 1
        /\ Consumed + 1 \in 1..whole
    BY <1>1, OrderTaken DEF Request
  <1>3. /\ sent \in Seq(Kinds) /\ Len(sent) \in Nat /\ whole <= Len(sent) /\ whole \in Nat
        /\ got \in Seq(Ids) /\ queued \in Seq(Ids) /\ out \in Seq(Ids) /\ Consumed \in Nat
    BY OrderTypes DEF OrderInv
  <1>4. RepliesInOrder'
    <2>. SUFFICES ASSUME Speaks'
                  PROVE  got' \o queued' \o out' = Replies(sent', Consumed')
      BY DEF RepliesInOrder, Speaks
    <2>. DEFINE c == Consumed
                r == Reply(c + 1, sent[c + 1])
    <2>1. Speaks
      BY <1>1 DEF Speaks, FlagType, IInv, TypeOK
    <2>2. got \o queued \o out = Replies(sent, c)
      BY <2>1 DEF RepliesInOrder, Speaks
    <2>3. Reply(Request, RequestKind) = r
      BY <1>2, SameReply DEF RequestKind
    <2>4. c + 1 \in Ids
      <3>1. MaxRequests \in Nat /\ Len(sent) <= MaxRequests
        BY ConnectionAssumption DEF IInv, TypeOK, PeerType
      <3>. QED  BY <1>2, <1>3, <3>1 DEF Ids
    <2>5. r \in Seq(Ids)
      BY <2>4, ReplyType
    <2>6. Replies(sent, c + 1) = Replies(sent, c) \o r
      BY <1>3, RepliesMore
    <2>. HIDE DEF r, c
    <2>7. (got \o queued) \o (out \o r) = ((got \o queued) \o out) \o r
      <3>1. /\ Joined(got, queued) \in Seq(Ids) /\ out \in Seq(Ids) /\ r \in Seq(Ids)
        BY <1>3, <2>5, Joining
      <3>2. Joined(Joined(Joined(got, queued), out), r)
              = Joined(Joined(got, queued), Joined(out, r))
        BY ONLY <3>1, Regroup
      <3>. QED  BY ONLY <3>2 DEF Joined
    <2>8. got' \o queued' \o out' = Replies(sent, c + 1)
      BY <1>1, <2>2, <2>3, <2>6, <2>7
    <2>. QED  BY <1>1, <1>2, <2>8 DEF c
  <1>. QED  BY <1>2, <1>4

LEMMA Shifted ==
  ASSUME NEW g \in Seq(Ids), NEW a \in Seq(Ids), NEW b \in Seq(Ids),
         NEW c \in Seq(Ids), NEW d \in Seq(Ids), Joined(a, b) = Joined(c, d)
  PROVE  Joined(Joined(g, a), b) = Joined(Joined(g, c), d)
  BY Regroup

LEMMA OrderFlush ==
  ASSUME IInv, IInv', OrderInv, RepliesInOrder, FlushSome
  PROVE  OrderInv' /\ RepliesInOrder'
  <1>. DEFINE space == SendSpace - Len(queued)
              n == IF Len(out) < space THEN Len(out) ELSE space
  <1>1. /\ space > 0
        /\ queued' = IF client = "gone" THEN queued ELSE queued \o SubSeq(out, 1, n)
        /\ out' = SubSeq(out, n + 1, Len(out))
        /\ UNCHANGED <<sent, whole, wire, client, got, pc, in, close_after_write>>
    BY DEF FlushSome
  <1>2. out \in Seq(Ids) /\ queued \in Seq(Ids) /\ got \in Seq(Ids)
    BY OrderTypes
  <1>3. n \in 0..Len(out)
    BY <1>1, <1>2, ConnectionAssumption
  <1>. HIDE DEF n, space
  <1>4. CASE client = "gone"
    BY <1>1, <1>4, OrderSame DEF Speaks
  <1>5. CASE client # "gone"
    <2>1. queued' \o out' = queued \o out
      BY <1>1, <1>2, <1>3, <1>5, MoveSome, Zenon
    <2>2. queued' \in Seq(Ids) /\ out' \in Seq(Ids)
      BY DEF IInv, TypeOK, PeerType, ConnType
    <2>3. (got \o queued') \o out' = (got \o queued) \o out
      <3>1. Joined(queued', out') = Joined(queued, out)
        BY <2>1 DEF Joined
      <3>2. Joined(Joined(got, queued'), out') = Joined(Joined(got, queued), out)
        BY ONLY <1>2, <2>2, <3>1, Shifted
      <3>. QED  BY ONLY <3>2 DEF Joined
    <2>4. got' \o queued' \o out' = got \o queued \o out
      BY <1>1, <2>3, Zenon
    <2>. QED  BY <1>1, <2>4, OrderSame, Zenon DEF Speaks
  <1>. QED  BY <1>4, <1>5

\* Steps that touch neither the streams nor what the property is conditional on.
LEMMA OrderQuiet ==
  ASSUME IInv, IInv', OrderInv, RepliesInOrder,
         UNCHANGED <<sent, whole, wire, in, queued, got, out, close_after_write>>,
         Speaks' => Speaks
  PROVE  OrderInv' /\ RepliesInOrder'
  BY OrderSame

\* CloseConn leaves nothing for the property to speak of.
LEMMA OrderClose ==
  ASSUME IInv, IInv', OrderInv, CloseConn
  PROVE  OrderInv' /\ RepliesInOrder'
  BY OrderTypes, OrderClosed

LEMMA OrderServe ==
  ASSUME IInv, IInv', OrderInv, RepliesInOrder, Serve
  PROVE  OrderInv' /\ RepliesInOrder'
  <1>1. CASE Poll
    BY <1>1, OrderQuiet DEF Poll, peer, conn, Speaks
  <1>2. CASE ReadNothing
    BY <1>2, OrderQuiet DEF ReadNothing, peer, conn, Speaks
  <1>3. CASE ReadEnd
    BY <1>3, OrderClose DEF ReadEnd
  <1>4. CASE ParseIncomplete
    BY <1>4, OrderQuiet DEF ParseIncomplete, peer, conn, Speaks
  <1>5. CASE Dispatch
    BY <1>5, OrderAnswered, OrderClose DEF Dispatch
  <1>6. CASE FlushError
    BY <1>6, OrderClose DEF FlushError
  <1>7. CASE FlushBlocked
    BY <1>7, OrderQuiet DEF FlushBlocked, Flushing, peer, Speaks
  <1>8. CASE FlushDone
    <2>1. CASE CloseConn
      BY <2>1, OrderClose
    <2>2. CASE ~CloseConn
      BY <1>8, <2>2, OrderQuiet DEF FlushDone, Flushing, peer, Speaks
    <2>. QED  BY <2>1, <2>2
  <1>9. CASE WriteReady
    BY <1>9, OrderQuiet DEF WriteReady, peer, conn, Speaks
  <1>10. CASE Finish
    <2>1. CASE CloseConn
      BY <2>1, OrderClose
    <2>2. CASE ~CloseConn
      BY <1>10, <2>2, OrderQuiet DEF Finish, peer, conn, Speaks
    <2>. QED  BY <2>1, <2>2
  <1>. QED
    BY <1>1, <1>2, <1>3, <1>4, <1>5, <1>6, <1>7, <1>8, <1>9, <1>10,
       OrderRead, OrderParse, OrderFlush DEF Serve

LEMMA OrderNext ==
  ASSUME IInv, IInv', OrderInv, RepliesInOrder, [Next]_vars
  PROVE  OrderInv' /\ RepliesInOrder'
  <1>1. CASE Leave
    BY <1>1, OrderQuiet DEF Leave, conn, Speaks
  <1>2. CASE Stop
    BY <1>2, OrderClose DEF Stop
  <1>3. CASE UNCHANGED vars
    BY <1>3, OrderQuiet DEF vars, peer, conn, Speaks
  <1>. QED
    BY <1>1, <1>2, <1>3, OrderSend, OrderReceive, OrderServe DEF Next, Client

LEMMA OrderInit == Init => OrderInv /\ RepliesInOrder
  <1>. SUFFICES ASSUME Init PROVE OrderInv /\ RepliesInOrder
    OBVIOUS
  <1>1. /\ sent = <<>> /\ whole = 0 /\ wire = <<>> /\ in = <<>>
        /\ queued = <<>> /\ got = <<>> /\ out = <<>>
    BY DEF Init
  <1>2. Consumed = 0
    <2>1. {n \in 1..whole : ~Waits(n)} = {}
      BY <1>1
    <2>. QED  BY <2>1, FS_EmptySet DEF Consumed
  <1>3. OrderInv
    BY <1>1, <1>2 DEF OrderInv, TailsFrom, Ordered, Waiting
  <1>4. Replies(sent, 0) = <<>>
    BY NoReplies
  <1>. QED  BY <1>1, <1>2, <1>3, <1>4 DEF RepliesInOrder

\* Replies go out in the order of the requests, whole and once each, for every
\* buffer size, read size and number of requests: whatever the client received, what
\* the kernel holds and Conn::out are, in this order, the replies of the requests
\* process_input has taken from Conn::in, until the connection is closing.
THEOREM RepliesOrdered == Spec => []RepliesInOrder
  <1>1. IInv /\ IInv' /\ OrderInv /\ RepliesInOrder /\ [Next]_vars
          => OrderInv' /\ RepliesInOrder'
    BY OrderNext
  <1>. QED  BY <1>1, OrderInit, InvAlways, PTL DEF Spec
=============================================================================
