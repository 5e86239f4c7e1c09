----------------------------- MODULE ByteBuffer -----------------------------
(***************************************************************************)
(* Buffer (src/net/buffer.cpp): a vector of bytes with a read and a write  *)
(* cursor, between a socket and the code that parses or produces bytes.    *)
(* Each call is cut where its loop turns: ensure_writable, every turn of   *)
(* its growth loop, and the copy that fills the space it made.             *)
(*                                                                         *)
(* Positions count from 0 as in the code, so data[i + 1] is data_[i].  A   *)
(* byte beyond write_pos keeps whatever was there; resize adds Zero.       *)
(***************************************************************************)
EXTENDS Integers, Sequences

CONSTANTS
  Bytes,          \* what users write
  Zero,           \* what resize fills with
  InitialSize,    \* kInitialSize
  DoublingLimit,  \* kDoublingLimit
  MaxCall,        \* the most bytes one call appends, reads or reserves
  MaxHeld         \* the most bytes an instance keeps unread

ASSUME BufferAssumption ==
  /\ Zero \notin Bytes
  /\ InitialSize \in Nat \ {0}
  /\ DoublingLimit \in Nat /\ DoublingLimit >= InitialSize
  /\ MaxCall \in Nat \ {0}
  /\ MaxHeld \in Nat \ {0}

VARIABLES
  data, read_pos, write_pos,
  pc,      \* "idle", or where the call is: "grow", "fill"
  call,    \* the call being run: its kind, its bytes, and the n it reserves
  next,    \* next, of the growth loop
  done,    \* the last operation and its argument
  credit   \* bytes of an earlier reservation that nobody has used yet

storage == <<data, read_pos, write_pos>>
vars == <<storage, pc, call, next, done, credit>>

Size == Len(data)
Readable == write_pos - read_pos
Writable == Size - write_pos
Contents == SubSeq(data, read_pos + 1, write_pos)

NoCall == [kind |-> "none", bytes |-> <<>>, n |-> 0]
Larger(a, b) == IF a < b THEN b ELSE a

-----------------------------------------------------------------------------
\* Mutant: the cursors move, the bytes do not.
CompactCursorsOnly ==
  /\ UNCHANGED data
  /\ read_pos' = 0 /\ write_pos' = Readable
\* compact: one memmove of the live bytes to the front; the rest stays as it was.
Compact ==
  /\ data' = [i \in 1..Size |-> IF i <= Readable THEN data[i + read_pos] ELSE data[i]]
  /\ read_pos' = 0 /\ write_pos' = Readable

\* Mutant: the loop starts from the size there is, even if that is 0.
EnsureWritableFromZero(n) ==
  \/ Writable >= n /\ pc' = "fill" /\ UNCHANGED <<storage, next>>
  \/ Writable < n /\ read_pos + Writable >= n /\ pc' = "fill" /\ Compact /\ UNCHANGED next
  \/ /\ Writable < n /\ read_pos + Writable < n
     /\ pc' = "grow" /\ Compact /\ next' = Size
\* Mutant: the consumed prefix is not reclaimed first.
EnsureWritableGrows(n) ==
  \/ Writable >= n /\ pc' = "fill" /\ UNCHANGED <<storage, next>>
  \/ Writable < n /\ pc' = "grow" /\ next' = Larger(Size, InitialSize) /\ UNCHANGED storage
\* Mutant: the live bytes are moved whether or not there is room behind them.
EnsureWritableMoves(n) ==
  \/ read_pos + Writable >= n /\ pc' = "fill" /\ Compact /\ UNCHANGED next
  \/ read_pos + Writable < n /\ pc' = "grow" /\ Compact /\ next' = Larger(Size, InitialSize)
\* ensure_writable(n), up to its loop: enough room, or room in the consumed prefix,
\* or else the storage must grow.
EnsureWritable(n) ==
  \/ Writable >= n /\ pc' = "fill" /\ UNCHANGED <<storage, next>>
  \/ Writable < n /\ read_pos + Writable >= n /\ pc' = "fill" /\ Compact /\ UNCHANGED next
  \/ /\ Writable < n /\ read_pos + Writable < n
     /\ pc' = "grow" /\ Compact /\ next' = Larger(Size, InitialSize)

\* A user calls append, reads from its socket (which reserves a whole chunk first),
\* or reserves room for a reply it is about to write.
Call(kind, bytes, n) ==
  /\ pc = "idle"
  /\ call' = [kind |-> kind, bytes |-> bytes, n |-> n]
  /\ EnsureWritable(n)
  /\ UNCHANGED <<done, credit>>

Append1(bytes) == bytes # <<>> /\ Call("append", bytes, Len(bytes))
Read(bytes, chunk) == Len(bytes) <= chunk /\ Call("read", bytes, chunk)
Reserve(n) == Call("reserve", <<>>, n)

\* Mutant: the loop looks only once.
GrowTurnOnce ==
  /\ pc = "grow" /\ next < write_pos + call.n
  /\ next' = next + (IF next < DoublingLimit THEN next ELSE DoublingLimit)
  /\ data' = [i \in 1..next' |-> IF i <= Size THEN data[i] ELSE Zero]
  /\ pc' = "fill"
  /\ UNCHANGED <<read_pos, write_pos, call, done, credit>>
\* A turn of the growth loop: doubling below the limit, linear above it.
GrowTurn ==
  /\ pc = "grow" /\ next < write_pos + call.n
  /\ next' = next + (IF next < DoublingLimit THEN next ELSE DoublingLimit)
  /\ UNCHANGED <<storage, pc, call, done, credit>>

Resize ==
  /\ pc = "grow" /\ next >= write_pos + call.n
  /\ data' = [i \in 1..next |-> IF i <= Size THEN data[i] ELSE Zero]
  /\ pc' = "fill"
  /\ UNCHANGED <<read_pos, write_pos, call, next, done, credit>>

\* The copy into write_ptr(), by memcpy or by the kernel, and commit.
Fill ==
  LET n == Len(call.bytes)
  IN  /\ pc = "fill"
      /\ data' = [i \in 1..Size |-> IF i \in (write_pos + 1)..(write_pos + n)
                                    THEN call.bytes[i - write_pos] ELSE data[i]]
      /\ write_pos' = write_pos + n
      /\ done' = IF call.kind = "reserve" THEN done ELSE <<"put", call.bytes>>
      /\ credit' = Larger(credit, call.n) - n
      /\ pc' = "idle" /\ call' = NoCall /\ next' = 0
      /\ UNCHANGED read_pos

\* Mutant: the readable bytes are all gone one byte early.
ConsumeOffByOne(n) ==
  /\ pc = "idle"
  /\ IF n + 1 >= Readable THEN read_pos' = 0 /\ write_pos' = 0
     ELSE read_pos' = read_pos + n /\ UNCHANGED write_pos
  /\ done' = <<"take", n>>
  /\ UNCHANGED <<data, pc, call, next, credit>>
\* consume, and consume_all where it says so.
Consume(n) ==
  /\ pc = "idle"
  /\ IF n >= Readable THEN read_pos' = 0 /\ write_pos' = 0
     ELSE read_pos' = read_pos + n /\ UNCHANGED write_pos
  /\ done' = <<"take", n>>
  /\ UNCHANGED <<data, pc, call, next, credit>>

-----------------------------------------------------------------------------
Init ==
  /\ data = <<>> /\ read_pos = 0 /\ write_pos = 0
  /\ pc = "idle" /\ call = NoCall /\ next = 0
  /\ done = <<"new", <<>>>> /\ credit = 0

Work == GrowTurn \/ Resize \/ Fill

Next ==
  \/ Work
  \/ \E bytes \in UNION {[1..n -> Bytes] : n \in 0..MaxCall} :
       /\ Readable + Len(bytes) <= MaxHeld
       /\ Append1(bytes) \/ Read(bytes, MaxCall)
  \/ \E n \in 1..MaxCall : Reserve(n) \/ Consume(n)

Spec == Init /\ [][Next]_vars
\* A call, once made, runs to its end.
FairSpec == Spec /\ WF_vars(Work)

-----------------------------------------------------------------------------
(* Properties.                                                             *)

Calls == [kind : {"none", "append", "read", "reserve"}, bytes : Seq(Bytes), n : Nat]

\* The cursors stay in order and inside the storage, and a call that is about to copy
\* has the room it asked for: nothing is ever read or written outside data_.
TypeOK ==
  /\ data \in Seq(Bytes \cup {Zero})
  /\ read_pos \in Nat /\ write_pos \in read_pos..Len(data)
  /\ pc \in {"idle", "grow", "fill"}
  /\ call \in Calls /\ Len(call.bytes) <= call.n
  /\ pc = "fill" => call.n <= Writable
  /\ next \in Nat /\ credit \in Nat

\* The bytes come out as they went in, each once and in order, whatever was moved,
\* grown, reused or left behind in the storage on the way.
Queue == INSTANCE ByteQueue WITH queue <- Contents
ImplementsQueue == Queue!Spec

\* buffer.h:28: "first by reclaiming the consumed prefix and only then by growing".  The
\* storage grows only for bytes that it could not have held, never shrinks, and after a
\* growth has less than one step of the linear regime to spare.
GrowsOnlyWhenFull ==
  [][/\ Len(data') >= Size
     /\ Len(data') > Size =>
          /\ Readable + call.n > Size
          /\ Len(data') < Readable + call.n + DoublingLimit]_vars

\* writer.cpp:72: "One reservation for the whole reply so a large value costs at most one
\* growth": appends within what is left of a reservation move and grow nothing, however
\* many they are and whatever is consumed between them.
ReservationCovers ==
  [][pc = "idle" /\ call'.kind = "append" /\ call'.n <= credit =>
       pc' = "fill" /\ UNCHANGED storage]_vars

\* Every call ends: the growth loop reaches the size it wants from any start, 0 included.
CallsEnd == pc # "idle" ~> pc = "idle"
=============================================================================
