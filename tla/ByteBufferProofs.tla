-------------------------- MODULE ByteBufferProofs --------------------------
(***************************************************************************)
(* Proofs about ByteBuffer, for every alphabet, initial size, doubling     *)
(* limit and length of call: the cursors stay inside the storage, growth   *)
(* is the last resort and bounded, a reservation is honoured, and the      *)
(* buffer is a queue of bytes.                                             *)
(*                                                                         *)
(* TypeOK is not inductive: the room that a call finds when it copies was  *)
(* made steps before.  CallInv says what the growth loop knows at each     *)
(* turn, CreditInv that what is left of a reservation is still there.      *)
(***************************************************************************)
EXTENDS ByteBuffer, SequenceTheorems, TLAPS

\* Between calls there is none; a reservation carries no bytes; and while the loop runs
\* the storage is compacted, too small, and next is at most one step beyond the need.
CallInv ==
  /\ pc = "idle" => call = NoCall
  /\ call.kind = "reserve" => call.bytes = <<>>
  /\ pc = "grow" => /\ read_pos = 0
                    /\ next >= Size
                    /\ write_pos + call.n > Size
                    /\ next < write_pos + call.n + DoublingLimit

\* Nothing takes away the room that an earlier reservation left unused.
CreditInv == credit <= Writable

IInv == TypeOK /\ CallInv /\ CreditInv

Cells == Bytes \cup {Zero}

-----------------------------------------------------------------------------
(* Sequences and their windows.                                            *)

LEMMA Rebuilt ==
  ASSUME NEW S, NEW n \in Nat, NEW f \in [1..n -> S]
  PROVE  f \in Seq(S) /\ Len(f) = n
  <1>1. f \in Seq(S)
    BY SeqDef
  <1>. QED  BY <1>1, LenProperties

LEMMA Window ==
  ASSUME NEW S, NEW s \in Seq(S), NEW a \in Nat, NEW b \in a..Len(s)
  PROVE  /\ SubSeq(s, a + 1, b) \in Seq(S)
         /\ Len(SubSeq(s, a + 1, b)) = b - a
         /\ \A i \in 1..(b - a) : SubSeq(s, a + 1, b)[i] = s[a + i]
  <1>1. \A i \in (a + 1)..b : s[i] \in S
    BY ElementOfSeq
  <1>2. a + 1 \in Int /\ b \in Int
    OBVIOUS
  <1>3. /\ SubSeq(s, a + 1, b) \in Seq(S)
        /\ Len(SubSeq(s, a + 1, b)) = IF a + 1 <= b THEN b - (a + 1) + 1 ELSE 0
        /\ \A i \in 1..(b - (a + 1) + 1) : SubSeq(s, a + 1, b)[i] = s[(a + 1) + i - 1]
    BY <1>1, <1>2, SubSeqProperties
  <1>. QED  BY <1>3

\* Two windows of the same length on the same elements are one sequence.
LEMMA SameWindow ==
  ASSUME NEW S, NEW s \in Seq(S), NEW t \in Seq(S),
         NEW a \in Nat, NEW b \in a..Len(s), NEW c \in Nat, NEW d \in c..Len(t),
         d - c = b - a,
         \A i \in 1..(b - a) : t[c + i] = s[a + i]
  PROVE  SubSeq(t, c + 1, d) = SubSeq(s, a + 1, b)
  <1>. DEFINE u == SubSeq(s, a + 1, b)
              v == SubSeq(t, c + 1, d)
  <1>1. u \in Seq(S) /\ Len(u) = b - a /\ \A i \in 1..(b - a) : u[i] = s[a + i]
    BY Window
  <1>2. v \in Seq(S) /\ Len(v) = d - c /\ \A i \in 1..(d - c) : v[i] = t[c + i]
    BY Window
  <1>3. Len(v) = Len(u) /\ \A i \in 1..Len(v) : v[i] = u[i]
    BY <1>1, <1>2
  <1>. HIDE DEF u, v
  <1>4. v = u
    BY <1>1, <1>2, <1>3, SeqEqual
  <1>. QED  BY <1>4 DEF u, v

LEMMA SamePlace ==
  ASSUME NEW s \in Seq(Cells), NEW t \in Seq(Cells),
         NEW a \in Nat, NEW b \in a..Len(s), b \in a..Len(t),
         \A i \in 1..(b - a) : t[a + i] = s[a + i]
  PROVE  SubSeq(t, a + 1, b) = SubSeq(s, a + 1, b)
  <1>. DEFINE u == SubSeq(s, a + 1, b)
              v == SubSeq(t, a + 1, b)
  <1>1. u \in Seq(Cells) /\ Len(u) = b - a /\ \A i \in 1..(b - a) : u[i] = s[a + i]
    BY Window
  <1>2. v \in Seq(Cells) /\ Len(v) = b - a /\ \A i \in 1..(b - a) : v[i] = t[a + i]
    BY Window
  <1>. HIDE DEF u, v
  <1>3. Len(v) = Len(u) /\ \A i \in 1..Len(v) : v[i] = u[i]
    BY <1>1, <1>2
  <1>4. v = u
    BY <1>1, <1>2, <1>3, SeqEqual
  <1>. QED  BY <1>4 DEF u, v

-----------------------------------------------------------------------------
(* The parts of a call.                                                    *)

LEMMA CompactStep ==
  ASSUME TypeOK, Compact
  PROVE  /\ data' \in Seq(Cells) /\ Len(data') = Size
         /\ read_pos' = 0 /\ write_pos' = Readable /\ Readable \in Nat
         /\ Contents' = Contents
  <1>1. /\ data \in Seq(Cells) /\ read_pos \in Nat
        /\ write_pos \in read_pos..Len(data) /\ Len(data) \in Nat
    BY DEF TypeOK, Cells
  <1>2. \A i \in 1..Size : data[i] \in Cells
    BY <1>1, ElementOfSeq DEF Size
  <1>3. data' \in [1..Size -> Cells]
    BY <1>1, <1>2 DEF Compact, Size, Readable
  <1>4. data' \in Seq(Cells) /\ Len(data') = Size
    BY <1>1, <1>3, Rebuilt DEF Size
  <1>5. read_pos' = 0 /\ write_pos' = Readable /\ Readable \in 0..Size
    BY <1>1 DEF Compact, Readable, Size
  <1>6. \A i \in 1..(write_pos - read_pos) : data'[0 + i] = data[read_pos + i]
    BY <1>1 DEF Compact, Readable, Size
  <1>7. SubSeq(data', 0 + 1, Readable) = SubSeq(data, read_pos + 1, write_pos)
    BY <1>1, <1>4, <1>5, <1>6, SameWindow DEF Readable, Size
  <1>8. Contents' = Contents
    BY <1>5, <1>7 DEF Contents
  <1>. QED  BY <1>1, <1>4, <1>5, <1>8 DEF Size

LEMMA ResizeStep ==
  ASSUME TypeOK, CallInv, Resize
  PROVE  /\ data' \in Seq(Cells) /\ Len(data') = next
         /\ Contents' = Contents
  <1>1. /\ data \in Seq(Cells) /\ read_pos \in Nat /\ next \in Nat
        /\ write_pos \in read_pos..Len(data) /\ Len(data) \in Nat
    BY DEF TypeOK, Cells
  <1>2. \A i \in 1..Size : data[i] \in Cells
    BY <1>1, ElementOfSeq DEF Size
  <1>3. data' \in [1..next -> Cells]
    BY <1>1, <1>2 DEF Resize, Size, Cells
  <1>4. data' \in Seq(Cells) /\ Len(data') = next
    BY <1>1, <1>3, Rebuilt
  <1>5. next >= Size /\ read_pos' = read_pos /\ write_pos' = write_pos
    BY DEF Resize, CallInv
  <1>6. \A i \in 1..(write_pos - read_pos) : data'[read_pos + i] = data[read_pos + i]
    BY <1>1, <1>5 DEF Resize, Size
  <1>7. write_pos \in read_pos..Len(data')
    BY <1>1, <1>4, <1>5 DEF Size
  <1>8. SubSeq(data', read_pos + 1, write_pos) = SubSeq(data, read_pos + 1, write_pos)
    BY <1>1, <1>4, <1>6, <1>7, SamePlace, Zenon
  <1>. QED  BY <1>4, <1>5, <1>8 DEF Contents

\* The copy goes behind the contents, and the contents are then the two together.
LEMMA FillStep ==
  ASSUME TypeOK, Fill
  PROVE  /\ data' \in Seq(Cells) /\ Len(data') = Size
         /\ write_pos' = write_pos + Len(call.bytes) /\ write_pos' \in read_pos..Size
         /\ Contents' = Contents \o call.bytes
  <1>. DEFINE n == Len(call.bytes)
  <1>1. /\ data \in Seq(Cells) /\ read_pos \in Nat
        /\ write_pos \in read_pos..Len(data) /\ Len(data) \in Nat
    BY DEF TypeOK, Cells
  <1>2. call.bytes \in Seq(Bytes) /\ call.bytes \in Seq(Cells) /\ call.n \in Nat
    <2>1. call.bytes \in Seq(Bytes) /\ call.n \in Nat
      BY DEF TypeOK, Calls
    <2>. QED  BY <2>1, SeqMonotonic DEF Cells
  <1>3. n \in Nat /\ write_pos + n <= Size
    BY <1>1, <1>2 DEF TypeOK, Fill, Writable, Size
  <1>4. /\ \A i \in 1..Size : data[i] \in Cells
        /\ \A i \in 1..n : call.bytes[i] \in Cells
    BY <1>1, <1>2, ElementOfSeq DEF Size
  <1>5. data' = [i \in 1..Size |-> IF i \in (write_pos + 1)..(write_pos + n)
                                   THEN call.bytes[i - write_pos] ELSE data[i]]
    BY DEF Fill
  <1>. HIDE DEF n
  <1>6. data' \in [1..Size -> Cells]
    BY <1>1, <1>3, <1>4, <1>5 DEF Size
  <1>7. data' \in Seq(Cells) /\ Len(data') = Size
    BY <1>1, <1>6, Rebuilt DEF Size
  <1>8. read_pos' = read_pos /\ write_pos' = write_pos + n /\ write_pos' \in read_pos..Size
    BY <1>1, <1>3 DEF Fill, Size, n
  <1>. DEFINE e == write_pos + n
              c == Contents
              w == SubSeq(data', read_pos + 1, e)
              cb == c \o call.bytes
  <1>9. c \in Seq(Cells) /\ Len(c) = write_pos - read_pos
        /\ \A i \in 1..(write_pos - read_pos) : c[i] = data[read_pos + i]
    BY <1>1, Window DEF Contents
  <1>10. e \in read_pos..Len(data') /\ e = write_pos + n
    BY <1>1, <1>3, <1>7 DEF Size
  <1>. HIDE DEF e
  <1>11. w \in Seq(Cells) /\ Len(w) = e - read_pos
         /\ \A i \in 1..(e - read_pos) : w[i] = data'[read_pos + i]
    BY <1>1, <1>7, <1>10, Window
  <1>. HIDE DEF c, w
  <1>12. cb \in Seq(Cells) /\ Len(cb) = Len(c) + n
         /\ \A i \in 1..(Len(c) + n) : cb[i] = IF i <= Len(c) THEN c[i] ELSE call.bytes[i - Len(c)]
    BY <1>2, <1>9, ConcatProperties DEF n
  <1>. HIDE DEF cb
  <1>13. ASSUME NEW i \in 1..Len(w) PROVE w[i] = cb[i]
    <2>1. w[i] = data'[read_pos + i] /\ read_pos + i \in 1..Size
      BY <1>1, <1>3, <1>10, <1>11 DEF Size
    <2>2. i \in 1..(Len(c) + n)
      BY <1>1, <1>3, <1>9, <1>10, <1>11
    <2>3. CASE i <= Len(c)
      <3>1. i \in 1..(write_pos - read_pos) /\ read_pos + i \notin (write_pos + 1)..(write_pos + n)
        BY <2>3, <1>1, <1>3, <1>9
      <3>. QED  BY <3>1, <2>1, <2>2, <2>3, <1>5, <1>9, <1>12
    <2>4. CASE ~(i <= Len(c))
      <3>1. /\ read_pos + i \in (write_pos + 1)..(write_pos + n)
            /\ (read_pos + i) - write_pos = i - Len(c)
        BY <2>2, <2>4, <1>1, <1>3, <1>9
      <3>2. w[i] = call.bytes[i - Len(c)]
        BY <3>1, <2>1, <1>5
      <3>3. cb[i] = call.bytes[i - Len(c)]
        BY <2>2, <2>4, <1>12
      <3>. QED  BY <3>2, <3>3
    <2>. QED  BY <2>3, <2>4
  <1>14. Len(w) = Len(cb)
    BY <1>1, <1>3, <1>9, <1>10, <1>11, <1>12
  <1>15. w = cb
    BY <1>11, <1>12, <1>13, <1>14, SeqEqual
  <1>16. Contents' = w
    BY <1>8, <1>10 DEF Contents, w
  <1>. QED  BY <1>7, <1>8, <1>15, <1>16 DEF cb, c, n

LEMMA EnsureWritableStep ==
  ASSUME IInv, NEW n \in Nat, EnsureWritable(n)
  PROVE  /\ data' \in Seq(Cells) /\ Len(data') = Size
         /\ read_pos' \in Nat /\ write_pos' \in read_pos'..Len(data')
         /\ pc' \in {"grow", "fill"} /\ next' \in Nat
         /\ Contents' = Contents
         /\ Writable' >= Writable
         /\ pc' = "fill" => n <= Writable'
         /\ pc' = "grow" => /\ read_pos' = 0
                            /\ next' >= Size'
                            /\ write_pos' + n > Size'
                            /\ next' < write_pos' + n + DoublingLimit
         /\ n <= Writable => pc' = "fill" /\ UNCHANGED storage
  <1>1. /\ data \in Seq(Cells) /\ read_pos \in Nat /\ next \in Nat
        /\ write_pos \in read_pos..Len(data) /\ Len(data) \in Nat
    BY DEF IInv, TypeOK, Cells
  <1>2. CASE Writable >= n /\ pc' = "fill" /\ UNCHANGED <<storage, next>>
    <2>1. /\ data' = data /\ read_pos' = read_pos /\ write_pos' = write_pos
          /\ next' = next /\ Writable' = Writable /\ Contents' = Contents
      BY <1>2 DEF storage, Writable, Contents, Size
    <2>. QED  BY <1>1, <1>2, <2>1 DEF Size, Writable, storage
  <1>3. ASSUME Writable < n, Compact
        PROVE  /\ data' \in Seq(Cells) /\ Len(data') = Size
               /\ read_pos' = 0 /\ write_pos' = write_pos - read_pos
               /\ Contents' = Contents
               /\ Writable \in Nat /\ Writable' = read_pos + Writable
    <2>1. /\ data' \in Seq(Cells) /\ Len(data') = Size
          /\ read_pos' = 0 /\ write_pos' = Readable /\ Contents' = Contents
      BY <1>3, CompactStep DEF IInv
    <2>. QED  BY <1>1, <2>1 DEF Readable, Writable, Size
  <1>4. CASE Writable < n /\ read_pos + Writable >= n /\ pc' = "fill" /\ Compact /\ UNCHANGED next
    BY <1>1, <1>3, <1>4 DEF Size, Writable
  <1>5. CASE /\ Writable < n /\ read_pos + Writable < n
             /\ pc' = "grow" /\ Compact /\ next' = Larger(Size, InitialSize)
    <2>1. /\ next' \in Nat /\ next' >= Size
          /\ next' = Size \/ next' <= DoublingLimit
          /\ DoublingLimit >= 1
      BY <1>1, <1>5, BufferAssumption DEF Larger, Size
    <2>2. Size' = Size
      BY <1>3, <1>5 DEF Size
    <2>3. write_pos' + n > Size
      BY <1>1, <1>3, <1>5 DEF Writable, Size
    <2>4. next' < write_pos' + n + DoublingLimit
      BY <1>1, <1>3, <1>5, <2>1, <2>3, BufferAssumption DEF Size
    <2>. QED  BY <1>1, <1>3, <1>5, <2>1, <2>2, <2>3, <2>4 DEF Size
  <1>. QED  BY <1>2, <1>4, <1>5 DEF EnsureWritable

-----------------------------------------------------------------------------
(* The inductive invariant.                                                *)

LEMMA InitInv == Init => IInv
  <1>. SUFFICES ASSUME Init PROVE IInv
    OBVIOUS
  <1>1. <<>> \in Seq(Bytes) /\ <<>> \in Seq(Bytes \cup {Zero}) /\ Len(<<>>) = 0
    BY EmptySeq
  <1>2. NoCall \in Calls /\ Len(NoCall.bytes) <= NoCall.n /\ NoCall.kind = "none"
    BY <1>1 DEF NoCall, Calls
  <1>. QED  BY <1>1, <1>2 DEF Init, IInv, TypeOK, CallInv, CreditInv, Writable, Size

\* What Append1, Read and Reserve have in common.
ACall(kind, bytes, n) ==
  /\ kind \in {"append", "read", "reserve"} /\ bytes \in Seq(Bytes) /\ n \in Nat
  /\ Len(bytes) <= n
  /\ kind = "reserve" => bytes = <<>>
  /\ Call(kind, bytes, n)

LEMMA NextCases ==
  ASSUME Next
  PROVE  \/ GrowTurn \/ Resize \/ Fill
         \/ \E kind, bytes, n : ACall(kind, bytes, n)
         \/ \E n \in Nat : Consume(n)
  <1>1. CASE Work
    BY <1>1 DEF Work
  <1>2. ASSUME NEW bytes \in UNION {[1..n -> Bytes] : n \in 0..MaxCall},
               Append1(bytes) \/ Read(bytes, MaxCall)
        PROVE  \E kind, b, n : ACall(kind, b, n)
    <2>1. bytes \in Seq(Bytes) /\ Len(bytes) \in Nat
      <3>1. PICK m \in 0..MaxCall : bytes \in [1..m -> Bytes]
        BY <1>2
      <3>2. m \in Nat
        BY BufferAssumption
      <3>. QED  BY <3>1, <3>2, Rebuilt
    <2>2. CASE Append1(bytes)
      <3>1. ACall("append", bytes, Len(bytes))
        BY <2>1, <2>2 DEF Append1, ACall
      <3>. QED  BY <3>1
    <2>3. CASE Read(bytes, MaxCall)
      <3>1. ACall("read", bytes, MaxCall)
        BY <2>1, <2>3, BufferAssumption DEF Read, ACall
      <3>. QED  BY <3>1
    <2>. QED  BY <1>2, <2>2, <2>3
  <1>3. ASSUME NEW n \in 1..MaxCall, Reserve(n)
        PROVE  \E kind, bytes, m : ACall(kind, bytes, m)
    <2>1. n \in Nat
      BY BufferAssumption
    <2>2. ACall("reserve", <<>>, n)
      BY <1>3, <2>1, EmptySeq DEF Reserve, ACall
    <2>. QED  BY <2>2
  <1>4. ASSUME NEW n \in 1..MaxCall, Consume(n)
        PROVE  \E m \in Nat : Consume(m)
    <2>1. n \in Nat
      BY BufferAssumption
    <2>. QED  BY <1>4, <2>1
  <1>. QED  BY <1>1, <1>2, <1>3, <1>4 DEF Next

LEMMA CallStep ==
  ASSUME IInv, NEW kind, NEW bytes, NEW n, ACall(kind, bytes, n)
  PROVE  /\ IInv'
         /\ Len(data') = Size /\ Contents' = Contents /\ done' = done
         /\ n <= credit => pc' = "fill" /\ UNCHANGED storage
         /\ call'.n = n
  <1>1. /\ kind \in {"append", "read", "reserve"} /\ bytes \in Seq(Bytes) /\ n \in Nat
        /\ Len(bytes) <= n
        /\ kind = "reserve" => bytes = <<>>
        /\ call' = [kind |-> kind, bytes |-> bytes, n |-> n]
        /\ EnsureWritable(n) /\ done' = done /\ credit' = credit
    BY DEF ACall, Call
  <1>2. /\ data' \in Seq(Cells) /\ Len(data') = Size
        /\ read_pos' \in Nat /\ write_pos' \in read_pos'..Len(data')
        /\ pc' \in {"grow", "fill"} /\ next' \in Nat
        /\ Contents' = Contents
        /\ Writable' >= Writable
        /\ pc' = "fill" => n <= Writable'
        /\ pc' = "grow" => /\ read_pos' = 0
                           /\ next' >= Size'
                           /\ write_pos' + n > Size'
                           /\ next' < write_pos' + n + DoublingLimit
        /\ n <= Writable => pc' = "fill" /\ UNCHANGED storage
    BY <1>1, EnsureWritableStep
  <1>3. call' \in Calls /\ call'.kind = kind /\ call'.bytes = bytes /\ call'.n = n
    BY <1>1 DEF Calls
  <1>4. credit \in Nat /\ credit <= Writable /\ Writable \in Int /\ Writable' \in Int
    BY <1>2 DEF IInv, TypeOK, CreditInv, Writable, Size
  <1>5. TypeOK'
    <2>1. /\ data' \in Seq(Bytes \cup {Zero})
          /\ read_pos' \in Nat /\ write_pos' \in read_pos'..Len(data')
          /\ next' \in Nat /\ credit' \in Nat
      BY <1>1, <1>2, <1>4 DEF Cells
    <2>2. /\ pc' \in {"idle", "grow", "fill"}
          /\ call' \in Calls /\ Len(call'.bytes) <= call'.n
          /\ pc' = "fill" => call'.n <= Writable'
      BY <1>1, <1>2, <1>3
    <2>. QED  BY <2>1, <2>2 DEF TypeOK
  <1>6. CallInv'
    <2>1. pc' # "idle"
      BY <1>2
    <2>2. call'.kind = "reserve" => call'.bytes = <<>>
      BY <1>1, <1>3
    <2>3. pc' = "grow" => /\ read_pos' = 0
                          /\ next' >= Size'
                          /\ write_pos' + call'.n > Size'
                          /\ next' < write_pos' + call'.n + DoublingLimit
      BY <1>2, <1>3
    <2>. QED  BY <2>1, <2>2, <2>3 DEF CallInv
  <1>7. CreditInv'
    BY <1>1, <1>2, <1>4 DEF CreditInv
  <1>8. n <= credit => n <= Writable
    BY <1>1, <1>4
  <1>. QED  BY <1>1, <1>2, <1>3, <1>5, <1>6, <1>7, <1>8 DEF IInv

LEMMA GrowTurnInv ==
  ASSUME IInv, GrowTurn
  PROVE  IInv' /\ UNCHANGED <<data, Contents, done>>
  <1>1. /\ data' = data /\ read_pos' = read_pos /\ write_pos' = write_pos
        /\ pc' = pc /\ call' = call /\ done' = done /\ credit' = credit
    BY DEF GrowTurn, storage
  <1>2. /\ next \in Nat /\ call.n \in Nat /\ write_pos \in Nat /\ Size \in Nat
        /\ DoublingLimit \in Nat
    BY BufferAssumption DEF IInv, TypeOK, Calls, Size
  <1>3. pc = "grow" /\ next >= Size
    BY DEF IInv, CallInv, GrowTurn
  <1>4. next' \in Nat /\ next' >= next /\ next' < write_pos + call.n + DoublingLimit
    BY <1>2 DEF GrowTurn
  <1>5. Size' = Size /\ Writable' = Writable /\ Contents' = Contents
    BY <1>1 DEF Size, Writable, Contents
  <1>6. TypeOK'
    BY <1>1, <1>4, <1>5 DEF IInv, TypeOK
  <1>7. next' >= Size
    BY <1>2, <1>3, <1>4
  <1>8. CallInv'
    BY <1>1, <1>3, <1>4, <1>5, <1>7 DEF IInv, CallInv
  <1>. QED  BY <1>1, <1>5, <1>6, <1>8 DEF IInv, CreditInv

LEMMA ResizeInv ==
  ASSUME IInv, Resize
  PROVE  IInv'
  <1>1. data' \in Seq(Cells) /\ Len(data') = next
    BY ResizeStep DEF IInv
  <1>2. /\ read_pos' = read_pos /\ write_pos' = write_pos /\ next' = next
        /\ pc' = "fill" /\ call' = call /\ credit' = credit
    BY DEF Resize
  <1>3. /\ next \in Nat /\ call.n \in Nat /\ credit \in Nat /\ Size \in Nat
        /\ read_pos \in Nat /\ write_pos \in read_pos..Size
    BY DEF IInv, TypeOK, Calls, Size
  <1>4. next >= Size /\ next >= write_pos + call.n /\ credit <= Size - write_pos
    BY DEF IInv, CallInv, CreditInv, Resize, Writable
  <1>5. write_pos' \in read_pos'..Len(data') /\ call.n <= Writable' /\ credit <= Writable'
    BY <1>1, <1>2, <1>3, <1>4 DEF Writable, Size
  <1>6. TypeOK'
    BY <1>1, <1>2, <1>3, <1>5 DEF IInv, TypeOK, Cells
  <1>. QED  BY <1>2, <1>5, <1>6 DEF IInv, CallInv, CreditInv

LEMMA FillInv ==
  ASSUME IInv, Fill
  PROVE  IInv'
  <1>1. /\ data' \in Seq(Cells) /\ Len(data') = Size
        /\ write_pos' = write_pos + Len(call.bytes) /\ write_pos' \in read_pos..Size
    BY FillStep DEF IInv
  <1>2. /\ read_pos' = read_pos /\ pc' = "idle" /\ call' = NoCall /\ next' = 0
        /\ credit' = Larger(credit, call.n) - Len(call.bytes)
    BY DEF Fill
  <1>3. /\ read_pos \in Nat /\ write_pos \in Nat /\ Size \in Nat /\ credit \in Nat
        /\ call.n \in Nat /\ Len(call.bytes) \in Nat /\ Len(call.bytes) <= call.n
    BY DEF IInv, TypeOK, Calls, Size
  <1>4. call.n <= Size - write_pos /\ credit <= Size - write_pos
    BY DEF IInv, TypeOK, CreditInv, Fill, Writable
  <1>5. credit' \in Nat /\ credit' <= Writable'
    <2>1. Writable' = Size - (write_pos + Len(call.bytes))
      BY <1>1 DEF Writable, Size
    <2>. DEFINE b == Len(call.bytes)
    <2>2. b \in Nat /\ b <= call.n /\ credit' = Larger(credit, call.n) - b
      BY <1>2, <1>3
    <2>. HIDE DEF b
    <2>3. credit' \in Nat /\ credit' <= Size - (write_pos + b)
      BY <2>2, <1>3, <1>4 DEF Larger
    <2>. QED  BY <2>1, <2>3 DEF b
  <1>6. call' \in Calls /\ Len(call'.bytes) <= call'.n /\ call'.kind = "none"
    BY <1>2, EmptySeq DEF NoCall, Calls
  <1>7. TypeOK'
    <2>1. write_pos' \in read_pos'..Len(data') /\ read_pos' \in Nat
      BY <1>1, <1>2, <1>3
    <2>2. pc' \in {"idle", "grow", "fill"} /\ pc' # "fill" /\ next' \in Nat
      BY <1>2
    <2>. QED  BY <2>1, <2>2, <1>1, <1>5, <1>6 DEF TypeOK, Cells
  <1>. QED  BY <1>2, <1>5, <1>6, <1>7 DEF IInv, CallInv, CreditInv

LEMMA ConsumeInv ==
  ASSUME IInv, NEW n \in Nat, Consume(n)
  PROVE  IInv'
  <1>1. /\ data' = data /\ pc' = pc /\ call' = call /\ next' = next /\ credit' = credit
        /\ pc = "idle"
    BY DEF Consume
  <1>2. /\ read_pos \in Nat /\ write_pos \in read_pos..Size /\ Size \in Nat
        /\ credit \in Nat /\ credit <= Size - write_pos
    BY DEF IInv, TypeOK, CreditInv, Writable, Size
  <1>3. /\ read_pos' \in Nat /\ write_pos' \in read_pos'..Size /\ write_pos' <= write_pos
    BY <1>2 DEF Consume, Readable
  <1>4. write_pos' \in read_pos'..Len(data') /\ credit' <= Writable'
    BY <1>1, <1>2, <1>3 DEF Writable, Size
  <1>5. TypeOK'
    BY <1>1, <1>3, <1>4 DEF IInv, TypeOK
  <1>. QED  BY <1>1, <1>4, <1>5 DEF IInv, CallInv, CreditInv

LEMMA Invariance == Spec => []IInv
  <1>1. IInv /\ [Next]_vars => IInv'
    <2>. SUFFICES ASSUME IInv, [Next]_vars PROVE IInv'
      OBVIOUS
    <2>1. CASE UNCHANGED vars
      BY <2>1 DEF vars, storage, IInv, TypeOK, CallInv, CreditInv, Writable, Size
    <2>2. CASE Next
      BY <2>2, NextCases, GrowTurnInv, ResizeInv, FillInv, CallStep, ConsumeInv
    <2>. QED  BY <2>1, <2>2
  <1>. QED  BY <1>1, InitInv, PTL DEF Spec

-----------------------------------------------------------------------------
(* The theorems.                                                           *)

\* read_pos_ <= write_pos_ <= data_.size() at every point of every call, and the copy of
\* append or readv finds the room that ensure_writable promised it (buffer.cpp).
THEOREM TypeCorrect == Spec => []TypeOK
  BY Invariance, PTL DEF IInv

\* ensure_writable grows the storage only when the live bytes and the request do not fit
\* in it, and then to less than one linear step above what is needed (buffer.cpp).
THEOREM GrowthIsTheLastResort == Spec => GrowsOnlyWhenFull
  <1>. DEFINE A == /\ Len(data') >= Size
                   /\ Len(data') > Size =>
                        /\ Readable + call.n > Size
                        /\ Len(data') < Readable + call.n + DoublingLimit
  <1>1. IInv /\ [Next]_vars => [A]_vars
    <2>. SUFFICES ASSUME IInv, Next PROVE A
      OBVIOUS
    <2>1. Size \in Nat
      BY DEF IInv, TypeOK, Size
    <2>2. ASSUME Len(data') = Size PROVE A
      BY <2>1, <2>2
    <2>3. CASE GrowTurn
      BY <2>2, <2>3, GrowTurnInv DEF Size
    <2>4. CASE Resize
      <3>1. Len(data') = next
        BY <2>4, ResizeStep DEF IInv
      <3>2. /\ read_pos = 0 /\ next >= Size /\ write_pos + call.n > Size
            /\ next < write_pos + call.n + DoublingLimit
        BY <2>4 DEF IInv, CallInv, Resize
      <3>3. Readable = write_pos
        BY <3>2 DEF IInv, TypeOK, Readable
      <3>. QED  BY <3>1, <3>2, <3>3
    <2>5. CASE Fill
      BY <2>2, <2>5, FillStep DEF IInv
    <2>6. ASSUME NEW kind, NEW bytes, NEW n, ACall(kind, bytes, n) PROVE A
      BY <2>2, <2>6, CallStep
    <2>7. ASSUME NEW n \in Nat, Consume(n) PROVE A
      BY <2>2, <2>7 DEF Consume, Size
    <2>. QED  BY <2>3, <2>4, <2>5, <2>6, <2>7, NextCases
  <1>. QED  BY <1>1, Invariance, PTL DEF Spec, GrowsOnlyWhenFull

\* Appends within an earlier reserve() neither move nor grow the storage, whatever is
\* appended and consumed between the two (writer.cpp's one reservation per reply).
THEOREM ReservationHonoured == Spec => ReservationCovers
  <1>. DEFINE A == pc = "idle" /\ call'.kind = "append" /\ call'.n <= credit =>
                     pc' = "fill" /\ UNCHANGED storage
  <1>1. IInv /\ [Next]_vars => [A]_vars
    <2>. SUFFICES ASSUME IInv, Next, pc = "idle", call'.kind = "append", call'.n <= credit
                  PROVE  pc' = "fill" /\ UNCHANGED storage
      OBVIOUS
    <2>1. ~GrowTurn /\ ~Resize /\ ~Fill
      BY DEF GrowTurn, Resize, Fill
    <2>2. ASSUME NEW n \in Nat, Consume(n) PROVE FALSE
      BY <2>2 DEF IInv, CallInv, Consume, NoCall
    <2>3. ASSUME NEW kind, NEW bytes, NEW n, ACall(kind, bytes, n)
          PROVE  pc' = "fill" /\ UNCHANGED storage
      BY <2>3, CallStep
    <2>. QED  BY <2>1, <2>2, <2>3, NextCases
  <1>. QED  BY <1>1, Invariance, PTL DEF Spec, ReservationCovers

-----------------------------------------------------------------------------
(* The buffer is a queue.                                                  *)

LEMMA QueueInit == Init => Queue!Init
  BY SubSeqEmpty DEF Init, Queue!Init, Contents

LEMMA FillIsPut ==
  ASSUME IInv, Fill
  PROVE  [Queue!Next]_<<Contents, done>>
  <1>1. Contents' = Contents \o call.bytes
    BY FillStep DEF IInv
  <1>2. call.bytes \in Seq(Bytes)
    BY DEF IInv, TypeOK, Calls
  <1>3. CASE call.kind = "reserve"
    <2>1. call.bytes = <<>> /\ done' = done
      BY <1>3 DEF IInv, CallInv, Fill
    <2>2. Contents \in Seq(Cells)
      BY Window DEF IInv, TypeOK, Contents, Cells
    <2>3. Contents' = Contents
      BY <1>1, <2>1, <2>2, ConcatEmptySeq
    <2>. QED  BY <2>1, <2>3
  <1>4. CASE call.kind # "reserve"
    <2>1. done' = <<"put", call.bytes>>
      BY <1>4 DEF Fill
    <2>. QED  BY <1>1, <1>2, <2>1 DEF Queue!Next, Queue!Put
  <1>. QED  BY <1>3, <1>4

LEMMA ConsumeIsTake ==
  ASSUME IInv, NEW n \in Nat, Consume(n)
  PROVE  [Queue!Next]_<<Contents, done>>
  <1>1. /\ data \in Seq(Cells) /\ read_pos \in Nat /\ Len(data) \in Nat
        /\ write_pos \in read_pos..Len(data)
    BY DEF IInv, TypeOK, Cells
  <1>2. data' = data /\ done' = <<"take", n>>
    BY DEF Consume
  <1>. DEFINE c == Contents
  <1>3. c \in Seq(Cells) /\ Len(c) = write_pos - read_pos
        /\ \A i \in 1..(write_pos - read_pos) : c[i] = data[read_pos + i]
    BY <1>1, Window DEF Contents
  <1>. HIDE DEF c
  <1>4. Contents' = SubSeq(c, n + 1, Len(c))
    <2>1. CASE n >= Readable
      <3>1. read_pos' = 0 /\ write_pos' = 0
        BY <2>1 DEF Consume
      <3>2. SubSeq(data', 0 + 1, 0) = <<>>
        BY SubSeqEmpty
      <3>3. SubSeq(c, n + 1, Len(c)) = <<>>
        BY <2>1, <1>1, <1>3, SubSeqEmpty DEF Readable
      <3>. QED  BY <3>1, <3>2, <3>3 DEF Contents
    <2>2. CASE ~(n >= Readable)
      <3>. DEFINE a == read_pos + n
      <3>1. read_pos' = a /\ write_pos' = write_pos
        BY <2>2 DEF Consume
      <3>2. a \in Nat /\ write_pos \in a..Len(data) /\ Len(c) \in n..Len(c)
            /\ Len(c) - n = write_pos - a
        BY <2>2, <1>1, <1>3 DEF Readable
      <3>3. ASSUME NEW i \in 1..(write_pos - a) PROVE c[n + i] = data[a + i]
        <4>1. n + i \in 1..(write_pos - read_pos) /\ read_pos + (n + i) = a + i
          BY <2>2, <1>1 DEF Readable
        <4>. QED  BY <4>1, <1>3
      <3>. HIDE DEF a
      <3>4. SubSeq(c, n + 1, Len(c)) = SubSeq(data, a + 1, write_pos)
        BY <3>2, <3>3, <1>1, <1>3, SameWindow
      <3>. QED  BY <1>2, <3>1, <3>4 DEF Contents
    <2>. QED  BY <2>1, <2>2
  <1>. QED  BY <1>2, <1>4 DEF Queue!Next, Queue!Take, c

\* What a user of Buffer sees is a queue of bytes: every step of every call puts at the
\* back, takes from the front, or leaves the readable bytes exactly as they are, in
\* particular each memmove of compact and each resize of ensure_writable.
THEOREM BufferIsAQueue == Spec => ImplementsQueue
  <1>1. IInv /\ [Next]_vars => [Queue!Next]_<<Contents, done>>
    <2>. SUFFICES ASSUME IInv, [Next]_vars PROVE [Queue!Next]_<<Contents, done>>
      OBVIOUS
    <2>1. ASSUME Contents' = Contents, done' = done PROVE [Queue!Next]_<<Contents, done>>
      BY <2>1
    <2>2. CASE UNCHANGED vars
      BY <2>1, <2>2 DEF vars, storage, Contents
    <2>3. CASE GrowTurn
      BY <2>1, <2>3, GrowTurnInv
    <2>4. CASE Resize
      BY <2>1, <2>4, ResizeStep DEF IInv, Resize
    <2>5. ASSUME NEW kind, NEW bytes, NEW n, ACall(kind, bytes, n)
          PROVE  [Queue!Next]_<<Contents, done>>
      BY <2>1, <2>5, CallStep
    <2>6. CASE Next
      BY <2>3, <2>4, <2>5, <2>6, FillIsPut, ConsumeIsTake, NextCases
    <2>. QED  BY <2>2, <2>6
  <1>. QED  BY <1>1, QueueInit, Invariance, PTL DEF Spec, ImplementsQueue, Queue!Spec
=============================================================================
