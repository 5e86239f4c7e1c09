---------------------------- MODULE ServerProofs ----------------------------
(***************************************************************************)
(* Proofs about Server, for every number of clients, descriptor limit,     *)
(* share of the machine's open files, batch size and set of faults: the    *)
(* inductive invariant, that startup, EventLoop::run and the handlers      *)
(* preserve it, and what follows.                                          *)
(*                                                                         *)
(* None of the invariants is inductive alone.  That an event reaches its   *)
(* client rests on there being one event per descriptor in a batch and on  *)
(* a handler closing no descriptor but its own (BatchInv).  That the       *)
(* callback on the stack is alive rests on retired_ being cleared with an  *)
(* empty stack only (CallbackInv).  That a callback registered anew does   *)
(* not replace one rests on the tables agreeing (DescriptorsAccounted,     *)
(* PausedMeansUnwatched).  RoomInv counts the callbacks: it shows that the *)
(* 2 * Limit addresses of the model are never all in use.                  *)
(***************************************************************************)
EXTENDS Server, FiniteSetTheorems, TLAPS

\* A callback is on the stack; before it has removed any registration.
Handling == {"read", "write", "resume", "accept", "shed", "reopen", "pause"}
BeforeRemove == Handling \ {"resume"}

\* While events wait, their descriptors stay with whom the kernel reported on; there is
\* one event per descriptor, and none for the descriptor being handled.
BatchInv ==
  /\ \A e \in batch : fds[e.fd] = e.who
  /\ \A e, f \in batch : e.fd = f.fd => e = f
  /\ batch # {} => pc \in Handling \cup {"dispatch"}
  /\ pc \in Handling => at \in Fds /\ \A e \in batch : e.fd # at

CallbackInv ==
  /\ CallbackAlive
  /\ pc \notin Handling => running = NoCallback

\* Every event still to come retires at most one callback, and so does the one at hand.
RoomInv ==
  /\ IsFiniteSet(batch) /\ IsFiniteSet(retired)
  /\ pc \notin Handling \cup {"dispatch"} => retired = {}
  /\ Cardinality(retired) + Cardinality(batch)
       + (IF pc \in BeforeRemove THEN 1 ELSE 0) <= Limit

\* The listener exists from Listen to Exit; before Watch nothing is registered or paused.
StartInv ==
  /\ pc = "start" => listen_fd = NoFd
  /\ pc \in {"start", "reserve", "watch"} =>
       ~listener_paused /\ \A fd \in Fds : handlers[fd] = NoCallback
  /\ pc \notin {"start", "failed", "stopped"} => listen_fd \in Fds

IInv ==
  /\ TypeOK /\ DescriptorsAccounted /\ PausedMeansUnwatched
  /\ BatchInv /\ CallbackInv /\ RoomInv /\ StartInv

-----------------------------------------------------------------------------
(* Numbers, descriptors and callbacks.                                     *)

LEMMA MinExists ==
  ASSUME NEW S, S \subseteq Nat, S # {}
  PROVE  Min(S) \in S /\ \A y \in S : Min(S) <= y
  <1>. DEFINE Less == {ss \in Nat \X Nat : ss[1] < ss[2]}
  <1>1. IsWellFoundedOn(Less, Nat)
    BY NatLessThanWellFounded DEF OpToRel
  <1>2. \E x \in S : \A y \in S : <<y, x>> \notin Less
    <2>. HIDE DEF Less
    <2>. QED  BY <1>1, WFMin, Zenon
  <1>3. PICK x \in S : \A y \in S : <<y, x>> \notin Less
    BY <1>2
  <1>4. ASSUME NEW y \in S PROVE x <= y
    <2>1. x \in Nat /\ y \in Nat /\ <<y, x>> \notin Less
      BY <1>3
    <2>2. ~(y < x)
      BY <2>1
    <2>. QED  BY <2>1, <2>2
  <1>. QED  BY <1>4, Zenon DEF Min

\* A system call that makes a descriptor makes one that was free.
LEMMA LowestFreeIsFree ==
  ASSUME TypeOK, DescriptorsAccounted, ~NoDescriptor
  PROVE  /\ LowestFree \in Fds /\ LowestFree # NoFd
         /\ fds[LowestFree] = None /\ conns[LowestFree] = None
         /\ LowestFree # listen_fd /\ LowestFree # spare_fd
         /\ handlers[LowestFree] = NoCallback
  <1>1. Fds \ Owned \subseteq Nat /\ Fds \ Owned # {}
    BY DEF NoDescriptor, Owned, Fds
  <1>2. LowestFree \in Fds \ Owned
    BY <1>1, MinExists DEF LowestFree
  <1>3. LowestFree \in Fds /\ LowestFree # NoFd /\ fds[LowestFree] = None
    BY <1>2 DEF Owned, Fds, NoFd
  <1>. QED  BY <1>3, ServerAssumption DEF DescriptorsAccounted

\* There is an address for a callback registered where there was none: the other
\* descriptors have at most Limit - 1, and at most Limit are retired.
LEMMA NewCallbackIsNew ==
  ASSUME IInv, NEW fd \in Fds, handlers[fd] = NoCallback
  PROVE  NewCallback \in Callbacks \ InUse
  <1>. DEFINE Others == Fds \ {fd}
              Live == {handlers[g] : g \in Others}
              f == [g \in Others |-> handlers[g]]
  <1>1. IsFiniteSet(Fds) /\ Cardinality(Fds) = Limit
    BY ServerAssumption, FS_Interval DEF Fds
  <1>2. IsFiniteSet(Others) /\ Cardinality(Others) = Limit - 1
    BY <1>1, FS_RemoveElement
  <1>3. IsFiniteSet(Live) /\ Cardinality(Live) <= Limit - 1
    <2>1. f \in Surjection(Others, Live)
      BY DEF Surjection
    <2>. QED  BY <1>2, <2>1, FS_Surjection
  <1>4. IsFiniteSet(retired) /\ Cardinality(retired) <= Limit
    <2>1. IsFiniteSet(batch) /\ IsFiniteSet(retired)
      BY DEF IInv, RoomInv
    <2>2. Cardinality(batch) \in Nat /\ Cardinality(retired) \in Nat
      BY <2>1, FS_CardinalityType
    <2>. QED  BY <2>1, <2>2, ServerAssumption DEF IInv, RoomInv
  <1>5. IsFiniteSet(Live \cup retired) /\ Cardinality(Live \cup retired) < 2 * Limit
    <2>1. Cardinality(Live \cap retired) \in Nat
      BY <1>3, FS_Intersection, FS_CardinalityType
    <2>2. Cardinality(Live) \in Nat /\ Cardinality(retired) \in Nat
      BY <1>3, <1>4, FS_CardinalityType
    <2>3. /\ IsFiniteSet(Live \cup retired)
          /\ Cardinality(Live \cup retired)
               = Cardinality(Live) + Cardinality(retired) - Cardinality(Live \cap retired)
      BY <1>3, <1>4, FS_Union
    <2>. HIDE DEF Live
    <2>. QED  BY <1>3, <1>4, <2>1, <2>2, <2>3, ServerAssumption
  <1>6. Cardinality(Callbacks) = 2 * Limit
    BY ServerAssumption, FS_Interval DEF Callbacks
  <1>7. ~(Callbacks \subseteq Live \cup retired)
    BY <1>5, <1>6, FS_Subset, FS_CardinalityType, ServerAssumption
  <1>8. InUse \subseteq Live \cup retired \cup {NoCallback}
    BY DEF InUse, Range, IInv, TypeOK, TableType
  <1>9. Callbacks \ InUse # {}
    BY <1>7, <1>8 DEF Callbacks, NoCallback
  <1>. QED  BY <1>9, MinExists DEF NewCallback, Callbacks

-----------------------------------------------------------------------------
(* The initial state, the environment, and the way into run().             *)

LEMMA InitInv == Init => IInv
  <1>. SUFFICES ASSUME Init PROVE IInv
    OBVIOUS
  <1>. USE DEF Init
  <1>1. EnvType
    <2>1. others \in 0..SystemFiles /\ others \in 0..MaxTakes
      <3>1. Min({MaxTakes, SystemFiles}) \in {MaxTakes, SystemFiles}
        BY MinExists, ServerAssumption
      <3>2. /\ Min({MaxTakes, SystemFiles}) <= MaxTakes
            /\ Min({MaxTakes, SystemFiles}) <= SystemFiles
        BY MinExists, ServerAssumption
      <3>. QED  BY <3>1, <3>2, ServerAssumption
    <2>2. backlog \in Seq(Clients)
      OBVIOUS
    <2>3. status \in [Clients -> {"away", "queued", "left", "open", "done"}]
          /\ input \in [Clients -> {"none", "ask", "last", "bye"}]
      OBVIOUS
    <2>. QED  BY <2>1, <2>2, <2>3, Zenon DEF EnvType
  <1>2. TableType
    <2>1. capacity \in InitialEvents..(2 * MaxEvents)
      BY ServerAssumption
    <2>2. retired \subseteq Callbacks /\ listener_paused \in BOOLEAN
      BY Zenon
    <2>3. /\ fds \in [Fds -> Clients \cup {"listener", "spare", None}]
          /\ conns \in [Fds -> Clients \cup {None}]
          /\ handlers \in [Fds -> Callbacks \cup {NoCallback}]
          /\ {listen_fd, spare_fd} \subseteq Fds \cup {NoFd}
      OBVIOUS
    <2>. QED  BY <2>1, <2>2, <2>3 DEF TableType
  <1>3. ThreadType
    BY ServerAssumption DEF ThreadType
  <1>4. DescriptorsAccounted
    BY ServerAssumption DEF DescriptorsAccounted, Fds, NoFd
  <1>5. PausedMeansUnwatched /\ StartInv
    BY DEF PausedMeansUnwatched, StartInv
  <1>6. BatchInv /\ CallbackInv
    BY DEF BatchInv, CallbackInv, CallbackAlive, Handling
  <1>7. RoomInv
    BY FS_EmptySet, ServerAssumption DEF RoomInv, Handling, BeforeRemove
  <1>. QED  BY <1>1, <1>2, <1>3, <1>4, <1>5, <1>6, <1>7 DEF IInv, TypeOK

\* A step of the clients, the other processes or the operator.
LEMMA EnvironmentStep ==
  ASSUME IInv, UNCHANGED <<tables, pc, stack>>, EnvType'
  PROVE  IInv'
  <1>. USE DEF tables, setup, stack, IInv, TypeOK
  <1>1. TableType' /\ ThreadType'
    BY DEF TableType, ThreadType
  <1>2. DescriptorsAccounted' /\ PausedMeansUnwatched' /\ StartInv'
    BY DEF DescriptorsAccounted, PausedMeansUnwatched, StartInv
  <1>3. BatchInv' /\ CallbackInv' /\ RoomInv'
    BY DEF BatchInv, CallbackInv, CallbackAlive, InUse, RoomInv
  <1>. QED  BY <1>1, <1>2, <1>3

LEMMA EnvironmentInv ==
  ASSUME IInv, Environment
  PROVE  IInv'
  <1>. USE DEF IInv, TypeOK
  <1>1. UNCHANGED <<tables, pc, stack>>
    BY DEF Environment, Connect, GiveUp, Ask, Bye, OthersTake, OthersRelease, Signal
  <1>. SUFFICES EnvType'
    BY <1>1, EnvironmentStep
  <1>2. ASSUME NEW c \in Clients, Connect(c) PROVE EnvType'
    BY <1>2 DEF Connect, EnvType
  <1>3. ASSUME NEW c \in Clients, GiveUp(c) \/ Ask(c) \/ Bye(c) PROVE EnvType'
    BY <1>3 DEF GiveUp, Ask, Bye, EnvType
  <1>4. CASE OthersTake
    <2>1. IsFiniteSet(Fds) /\ Owned \in SUBSET Fds
      BY FS_Interval, ServerAssumption DEF Owned, Fds
    <2>2. Cardinality(Owned) \in Nat
      BY <2>1, FS_Subset, FS_CardinalityType
    <2>3. others' \in 0..SystemFiles /\ takes' \in 0..MaxTakes
      BY <1>4, <2>2, ServerAssumption DEF OthersTake, SystemFull, EnvType
    <2>4. UNCHANGED <<status, backlog, input, shutdown>>
      BY <1>4 DEF OthersTake
    <2>. QED  BY <2>3, <2>4 DEF EnvType
  <1>5. CASE OthersRelease
    <2>1. others' \in 0..SystemFiles
      BY <1>5, ServerAssumption DEF OthersRelease, EnvType
    <2>2. UNCHANGED <<status, backlog, input, takes, shutdown>>
      BY <1>5 DEF OthersRelease
    <2>. QED  BY <2>1, <2>2 DEF EnvType
  <1>6. CASE Signal
    <2>1. shutdown' \in BOOLEAN /\ UNCHANGED <<status, backlog, input, others, takes>>
      BY <1>6 DEF Signal
    <2>. QED  BY <2>1 DEF EnvType
  <1>. QED  BY <1>2, <1>3, <1>4, <1>5, <1>6 DEF Environment

\* The listener or the spare is taken: a free descriptor gets an owner and no callback.
LEMMA ReopenSpareInv ==
  ASSUME IInv, ReopenSpare, UNCHANGED <<conns, listen_fd, batch>>,
         \A fd \in Fds \ {listen_fd} : handlers'[fd] = handlers[fd]
  PROVE  /\ fds' \in [Fds -> Clients \cup {"listener", "spare", None}]
         /\ spare_fd' \in Fds
         /\ DescriptorsAccounted'
         /\ \A e \in batch : fds'[e.fd] = e.who
  <1>. USE DEF IInv, TypeOK
  <1>1. CASE HasSpare
    BY <1>1 DEF ReopenSpare, HasSpare, TableType, DescriptorsAccounted, BatchInv
  <1>2. CASE ~HasSpare
    <2>1. spare_fd = NoFd /\ spare_fd' = LowestFree /\ fds' = [fds EXCEPT ![LowestFree] = "spare"]
      BY <1>2 DEF ReopenSpare, HasSpare
    <2>2. /\ LowestFree \in Fds /\ LowestFree # NoFd
          /\ fds[LowestFree] = None /\ conns[LowestFree] = None
          /\ LowestFree # listen_fd
          /\ handlers[LowestFree] = NoCallback
      BY <1>2, LowestFreeIsFree DEF ReopenSpare
    <2>3. fds' \in [Fds -> Clients \cup {"listener", "spare", None}]
      BY <2>1, <2>2 DEF TableType
    <2>4. DescriptorsAccounted'
      BY <2>1, <2>2, ServerAssumption DEF TableType, DescriptorsAccounted, Fds, NoFd
    <2>5. \A e \in batch : fds'[e.fd] = e.who
      BY <2>1, <2>2, ServerAssumption DEF TableType, ThreadType, BatchInv
    <2>. QED  BY <2>1, <2>2, <2>3, <2>4, <2>5
  <1>. QED  BY <1>1, <1>2

LEMMA ListenInv ==
  ASSUME IInv, Listen
  PROVE  IInv'
  <1>. USE DEF IInv, TypeOK, env, stack
  <1>0. /\ pc = "start" /\ listen_fd = NoFd /\ ~listener_paused
        /\ UNCHANGED <<env, conns, handlers, retired, capacity, spare_fd, listener_paused, stack>>
    BY DEF Listen, StartInv
  <1>1. EnvType'
    BY <1>0 DEF EnvType
  <1>2. BatchInv' /\ CallbackInv' /\ RoomInv' /\ ThreadType' /\ pc' \in {"reserve", "failed"}
    <2>1. pc' \in {"reserve", "failed"}
      BY DEF Listen, Goto
    <2>2. ThreadType'
      BY <1>0, <2>1 DEF ThreadType
    <2>3. batch = {} /\ running = NoCallback /\ retired = {}
      BY <1>0 DEF BatchInv, CallbackInv, RoomInv, Handling
    <2>4. BatchInv' /\ CallbackInv'
      BY <1>0, <2>1, <2>3 DEF BatchInv, CallbackInv, CallbackAlive, Handling
    <2>5. RoomInv'
      BY <1>0, <2>1, <2>3, FS_EmptySet, ServerAssumption DEF RoomInv, Handling, BeforeRemove
    <2>. QED  BY <2>1, <2>2, <2>4, <2>5
  <1>3. CASE UNCHANGED <<listen_fd, fds>> /\ pc' = "failed"
    BY <1>0, <1>1, <1>2, <1>3
      DEF TableType, DescriptorsAccounted, PausedMeansUnwatched, StartInv
  <1>4. CASE ~NoDescriptor /\ listen_fd' = LowestFree /\ pc' = "reserve"
             /\ fds' = [fds EXCEPT ![LowestFree] = "listener"]
    <2>1. /\ LowestFree \in Fds /\ LowestFree # NoFd
          /\ fds[LowestFree] = None /\ conns[LowestFree] = None
          /\ LowestFree # spare_fd
          /\ handlers[LowestFree] = NoCallback
      BY <1>4, LowestFreeIsFree
    <2>2. TableType'
      BY <1>0, <1>4, <2>1 DEF TableType
    <2>3. DescriptorsAccounted'
      BY <1>0, <1>4, <2>1, ServerAssumption DEF TableType, DescriptorsAccounted, Fds, NoFd
    <2>4. PausedMeansUnwatched' /\ StartInv'
      BY <1>0, <1>4, <2>1 DEF PausedMeansUnwatched, StartInv
    <2>. QED  BY <1>1, <1>2, <2>2, <2>3, <2>4
  <1>. QED  BY <1>3, <1>4 DEF Listen, Goto

LEMMA ReserveInv ==
  ASSUME IInv, Reserve
  PROVE  IInv'
  <1>. USE DEF IInv, TypeOK, env, setup, stack
  <1>0. /\ pc = "reserve" /\ pc' = "watch"
        /\ UNCHANGED <<env, conns, handlers, retired, setup, listener_paused, stack>>
    BY DEF Reserve, Goto
  <1>1. EnvType' /\ ThreadType'
    BY <1>0 DEF EnvType, ThreadType
  <1>2. TableType' /\ DescriptorsAccounted' /\ \A e \in batch : fds'[e.fd] = e.who
    <2>1. CASE ReopenSpare
      BY <1>0, <2>1, ReopenSpareInv DEF TableType
    <2>2. CASE CannotReopen
      BY <1>0, <2>2 DEF CannotReopen, TableType, DescriptorsAccounted, BatchInv
    <2>. QED  BY <2>1, <2>2 DEF Reserve
  <1>3. PausedMeansUnwatched' /\ StartInv'
    BY <1>0 DEF PausedMeansUnwatched, StartInv
  <1>4. BatchInv' /\ CallbackInv' /\ RoomInv'
    BY <1>0, <1>2 DEF BatchInv, CallbackInv, CallbackAlive, InUse, RoomInv, Handling, BeforeRemove
  <1>. QED  BY <1>1, <1>2, <1>3, <1>4

\* EventLoop::add where nothing is registered: no callback is replaced.
LEMMA AddCallback ==
  ASSUME IInv, NEW fd \in Fds, handlers[fd] = NoCallback,
         handlers' = [handlers EXCEPT ![fd] = NewCallback],
         UNCHANGED retired, running' \in {running, NoCallback}
  PROVE  /\ handlers' \in [Fds -> Callbacks \cup {NoCallback}]
         /\ handlers'[fd] # NoCallback
         /\ \A g \in Fds \ {fd} : handlers'[g] = handlers[g]
         /\ CallbackAlive'
  <1>. USE DEF IInv, TypeOK
  <1>1. NewCallback \in Callbacks
    BY NewCallbackIsNew
  <1>2. /\ handlers' \in [Fds -> Callbacks \cup {NoCallback}]
        /\ handlers'[fd] = NewCallback
        /\ \A g \in Fds \ {fd} : handlers'[g] = handlers[g]
    BY <1>1 DEF TableType
  <1>3. NewCallback # NoCallback
    BY <1>1 DEF Callbacks, NoCallback
  <1>4. CallbackAlive'
    <2>. SUFFICES ASSUME running # NoCallback, running' = running
                  PROVE  running \in (Range(handlers) \cup retired)'
      BY DEF CallbackAlive, InUse
    <2>1. CASE running \in retired
      BY <2>1
    <2>2. CASE running \in Range(handlers)
      <3>1. PICK g \in Fds : running = handlers[g]
        BY <2>2 DEF Range, TableType
      <3>2. running = handlers'[g]
        BY <3>1, <1>2
      <3>. QED  BY <1>2, <3>2 DEF Range
    <2>. QED  BY <2>1, <2>2 DEF CallbackInv, CallbackAlive, InUse
  <1>. QED  BY <1>2, <1>3, <1>4

LEMMA WatchInv ==
  ASSUME IInv, Watch
  PROVE  IInv'
  <1>. USE DEF IInv, TypeOK, env, setup, stack
  <1>0. /\ pc = "watch" /\ listen_fd \in Fds /\ ~listener_paused
        /\ handlers[listen_fd] = NoCallback
        /\ UNCHANGED <<env, fds, conns, retired, setup, spare_fd, listener_paused, stack>>
    BY DEF Watch, StartInv
  <1>1. pc' \in {"run", "failed"}
    BY DEF Watch, Goto
  <1>2. EnvType' /\ ThreadType'
    BY <1>0, <1>1 DEF EnvType, ThreadType
  <1>3. batch = {} /\ running = NoCallback /\ retired = {}
    BY <1>0 DEF BatchInv, CallbackInv, RoomInv, Handling
  <1>4. BatchInv' /\ CallbackInv'
    BY <1>0, <1>1, <1>3 DEF BatchInv, CallbackInv, CallbackAlive, Handling
  <1>5. RoomInv'
    BY <1>0, <1>1, <1>3, FS_EmptySet, ServerAssumption DEF RoomInv, Handling, BeforeRemove
  <1>6. StartInv'
    BY <1>0, <1>1 DEF StartInv
  <1>7. TableType' /\ DescriptorsAccounted' /\ PausedMeansUnwatched'
    <2>1. CASE UNCHANGED handlers /\ pc' = "failed"
      BY <1>0, <2>1 DEF TableType, DescriptorsAccounted, PausedMeansUnwatched
    <2>2. CASE handlers' = [handlers EXCEPT ![listen_fd] = NewCallback]
      <3>1. /\ handlers' \in [Fds -> Callbacks \cup {NoCallback}]
            /\ handlers'[listen_fd] # NoCallback
            /\ \A g \in Fds \ {listen_fd} : handlers'[g] = handlers[g]
        BY <1>0, <2>2, AddCallback, Zenon
      <3>2. TableType'
        BY <1>0, <3>1 DEF TableType
      <3>3. DescriptorsAccounted' /\ PausedMeansUnwatched'
        BY <1>0, <3>1 DEF DescriptorsAccounted, PausedMeansUnwatched
      <3>. QED  BY <3>2, <3>3
    <2>. QED  BY <2>1, <2>2 DEF Watch, Goto
  <1>. QED  BY <1>2, <1>4, <1>5, <1>6, <1>7

LEMMA RunInv ==
  ASSUME IInv, Run
  PROVE  IInv'
  <1>. USE DEF IInv, TypeOK, env, tables, setup, stack
  <1>0. pc = "run" /\ pc' = "wait" /\ UNCHANGED <<env, tables, stack>>
    BY DEF Run, Goto
  <1>1. EnvType' /\ TableType' /\ ThreadType'
    BY <1>0 DEF EnvType, TableType, ThreadType
  <1>2. DescriptorsAccounted' /\ PausedMeansUnwatched' /\ StartInv'
    BY <1>0 DEF DescriptorsAccounted, PausedMeansUnwatched, StartInv
  <1>3. BatchInv' /\ CallbackInv' /\ RoomInv'
    BY <1>0 DEF BatchInv, CallbackInv, CallbackAlive, InUse, RoomInv, Handling, BeforeRemove
  <1>. QED  BY <1>1, <1>2, <1>3

-----------------------------------------------------------------------------
(* EventLoop::run.                                                         *)

\* As many events as descriptors, at most.
LEMMA BatchSize ==
  ASSUME NEW B, \A e \in B : e.fd \in Fds, \A e, f \in B : e.fd = f.fd => e = f
  PROVE  IsFiniteSet(B) /\ Cardinality(B) <= Limit
  <1>. DEFINE g == [e \in B |-> e.fd]
  <1>1. g \in Injection(B, Fds)
    BY DEF Injection, IsInjective
  <1>2. IsFiniteSet(Fds) /\ Cardinality(Fds) = Limit
    BY ServerAssumption, FS_Interval DEF Fds
  <1>. QED  BY <1>1, <1>2, FS_Injection

\* What Poller::wait makes of the kernel's reports.
LEMMA MergedEvents ==
  ASSUME IInv, NEW writing \in SUBSET Writable, NEW reports \in Reports(writing), NEW hung
  PROVE  /\ \A e \in Merged(reports, hung) : /\ e.fd \in Fds /\ e.who = fds[e.fd]
                                             /\ e.who \in Clients \cup {"listener"}
         /\ \A e, f \in Merged(reports, hung) : e.fd = f.fd => e = f
  <1>. USE DEF IInv, TypeOK
  <1>1. ASSUME NEW r \in reports
        PROVE  r[1] \in Readable \cup Writable
    BY DEF Reports, kSubset
  <1>2. ASSUME NEW fd \in Readable \cup Writable
        PROVE  fd \in Fds /\ fds[fd] \in Clients \cup {"listener"}
    BY DEF Readable, Writable, Watched, DescriptorsAccounted, TableType
  <1>. DEFINE E(fd) == Event(fd, <<fd, "read">> \in reports \/ fd \in hung)
  <1>3. ASSUME NEW e \in Merged(reports, hung)
        PROVE  \E r \in reports : e = E(r[1])
    BY DEF Merged
  <1>4. ASSUME NEW fd
        PROVE  E(fd).fd = fd /\ E(fd).who = fds[fd]
    BY DEF Event
  <1>. HIDE DEF E
  <1>. QED  BY <1>1, <1>2, <1>3, <1>4

LEMMA WaitInv ==
  ASSUME IInv, Wait
  PROVE  IInv'
  <1>. USE DEF IInv, TypeOK, env
  <1>0. /\ pc = "wait" /\ pc' = "dispatch"
        /\ UNCHANGED <<env, fds, conns, handlers, retired, listen_fd, spare_fd,
                       listener_paused, running, at, accepts>>
    BY DEF Wait, Goto
  <1>. DEFINE Sound(B) ==
         /\ \A e \in B : e.fd \in Fds /\ e.who = fds[e.fd] /\ e.who \in Clients \cup {"listener"}
         /\ \A e, f \in B : e.fd = f.fd => e = f
  <1>1. Sound(batch') /\ capacity' \in InitialEvents..(2 * MaxEvents)
    <2>1. ASSUME NEW writing \in SUBSET Writable, NEW reports \in Reports(writing), NEW hung,
                 batch' = Merged(reports, hung), capacity' = Grown(Cardinality(reports))
          PROVE  Sound(batch') /\ capacity' \in InitialEvents..(2 * MaxEvents)
      <3>1. capacity' \in InitialEvents..(2 * MaxEvents)
        BY <2>1, ServerAssumption DEF Grown, TableType
      <3>. QED  BY <2>1, <3>1, MergedEvents
    <2>2. CASE batch' = {} /\ UNCHANGED capacity
      BY <2>2 DEF TableType
    <2>. QED  BY <2>1, <2>2 DEF Wait
  <1>2. EnvType' /\ TableType' /\ ThreadType'
    BY <1>0, <1>1 DEF EnvType, TableType, ThreadType
  <1>3. DescriptorsAccounted' /\ PausedMeansUnwatched' /\ StartInv'
    BY <1>0 DEF DescriptorsAccounted, PausedMeansUnwatched, StartInv
  <1>4. BatchInv' /\ CallbackInv'
    BY <1>0, <1>1 DEF BatchInv, CallbackInv, CallbackAlive, InUse, Handling
  <1>5. RoomInv'
    <2>1. IsFiniteSet(batch') /\ Cardinality(batch') <= Limit
      BY <1>1, BatchSize
    <2>2. retired' = {} /\ IsFiniteSet(retired') /\ Cardinality(retired') = 0
      BY <1>0, FS_EmptySet DEF RoomInv, Handling
    <2>3. Cardinality(batch') \in Nat
      BY <2>1, FS_CardinalityType
    <2>. QED  BY <1>0, <2>1, <2>2, <2>3, ServerAssumption DEF RoomInv, Handling, BeforeRemove
  <1>. QED  BY <1>2, <1>3, <1>4, <1>5

LEMMA WaitFailsInv ==
  ASSUME IInv, WaitFails
  PROVE  IInv'
  <1>. USE DEF IInv, TypeOK, env, tables, setup, stack
  <1>0. pc = "wait" /\ pc' = "exit" /\ UNCHANGED <<env, tables, stack>>
    BY DEF WaitFails, Goto
  <1>1. EnvType' /\ TableType' /\ ThreadType'
    BY <1>0 DEF EnvType, TableType, ThreadType
  <1>2. DescriptorsAccounted' /\ PausedMeansUnwatched' /\ StartInv'
    BY <1>0 DEF DescriptorsAccounted, PausedMeansUnwatched, StartInv
  <1>3. BatchInv' /\ CallbackInv' /\ RoomInv'
    BY <1>0 DEF BatchInv, CallbackInv, CallbackAlive, InUse, RoomInv, Handling, BeforeRemove
  <1>. QED  BY <1>1, <1>2, <1>3

LEMMA DispatchInv ==
  ASSUME IInv, Dispatch
  PROVE  IInv'
  <1>. USE DEF IInv, TypeOK, env, tables, setup
  <1>1. PICK e \in batch :
          /\ batch' = batch \ {e} /\ at' = e.fd /\ accepts' = 0
          /\ running' = handlers[e.fd]
          /\ pc' = IF handlers[e.fd] = NoCallback THEN "dispatch"
                   ELSE IF e.fd = listen_fd THEN "accept"
                   ELSE IF e.readable THEN "read" ELSE "write"
    BY DEF Dispatch, Goto
  <1>2. pc = "dispatch" /\ UNCHANGED <<env, tables>>
    BY DEF Dispatch
  <1>3. e.fd \in Fds /\ handlers[e.fd] \in Callbacks \cup {NoCallback}
    BY DEF ThreadType, TableType
  <1>4. /\ pc' \in {"dispatch", "accept", "read", "write"}
        /\ pc' \in Handling <=> running' # NoCallback
    BY <1>1 DEF Handling
  <1>5. EnvType' /\ TableType'
    BY <1>2 DEF EnvType, TableType
  <1>6. ThreadType'
    BY <1>1, <1>3, <1>4, ServerAssumption DEF ThreadType
  <1>7. DescriptorsAccounted' /\ PausedMeansUnwatched' /\ StartInv'
    BY <1>2, <1>4 DEF DescriptorsAccounted, PausedMeansUnwatched, StartInv
  <1>8. BatchInv'
    BY <1>1, <1>2, <1>3, <1>4 DEF BatchInv, Handling
  <1>9. CallbackInv'
    BY <1>1, <1>2, <1>3, <1>4 DEF CallbackInv, CallbackAlive, InUse, Range, TableType
  <1>10. RoomInv'
    <2>1. IsFiniteSet(batch') /\ Cardinality(batch') = Cardinality(batch) - 1
      BY <1>1, FS_RemoveElement DEF RoomInv
    <2>2. Cardinality(retired) \in Nat /\ Cardinality(batch) \in Nat
      BY FS_CardinalityType DEF RoomInv
    <2>. QED  BY <1>2, <1>4, <2>1, <2>2, ServerAssumption DEF RoomInv, Handling, BeforeRemove
  <1>. QED  BY <1>5, <1>6, <1>7, <1>8, <1>9, <1>10

LEMMA TickInv ==
  ASSUME IInv, Tick
  PROVE  IInv'
  <1>. USE DEF IInv, TypeOK, env, setup, stack
  <1>0. /\ pc = "dispatch" /\ batch = {} /\ retired' = {} /\ pc' \in {"exit", "wait"}
        /\ UNCHANGED <<env, fds, conns, handlers, setup, spare_fd, listener_paused, stack>>
    BY DEF Tick, Goto
  <1>1. EnvType' /\ TableType' /\ ThreadType'
    BY <1>0 DEF EnvType, TableType, ThreadType
  <1>2. DescriptorsAccounted' /\ PausedMeansUnwatched' /\ StartInv'
    BY <1>0 DEF DescriptorsAccounted, PausedMeansUnwatched, StartInv
  <1>3. BatchInv' /\ CallbackInv'
    BY <1>0 DEF BatchInv, CallbackInv, CallbackAlive, Handling
  <1>4. RoomInv'
    BY <1>0, FS_EmptySet, ServerAssumption DEF RoomInv, Handling, BeforeRemove
  <1>. QED  BY <1>1, <1>2, <1>3, <1>4

LEMMA ExitInv ==
  ASSUME IInv, Exit
  PROVE  IInv'
  <1>. USE DEF IInv, TypeOK
  <1>0. /\ pc \in {"exit", "failed"} /\ pc' = "stopped"
        /\ fds' = [fd \in Fds |-> None] /\ conns' = [fd \in Fds |-> None]
        /\ handlers' = [fd \in Fds |-> NoCallback] /\ retired' = {}
        /\ listen_fd' = NoFd /\ spare_fd' = NoFd /\ batch' = {}
        /\ UNCHANGED <<capacity, listener_paused, running, at, accepts>>
    BY DEF Exit, Goto
  <1>1. EnvType'
    <2>1. backlog' = <<>> /\ UNCHANGED <<others, takes, shutdown>>
          /\ status' = [c \in Clients |-> IF status[c] = "away" THEN "away" ELSE "done"]
          /\ input' = [c \in Clients |-> "none"]
      BY DEF Exit
    <2>2. backlog' \in Seq(Clients)
      BY <2>1
    <2>. QED  BY <2>1, <2>2 DEF EnvType
  <1>2. TableType' /\ ThreadType'
    BY <1>0 DEF TableType, ThreadType
  <1>3. DescriptorsAccounted'
    BY <1>0, ServerAssumption DEF DescriptorsAccounted, Fds, NoFd
  <1>4. PausedMeansUnwatched' /\ StartInv'
    BY <1>0 DEF PausedMeansUnwatched, StartInv
  <1>5. BatchInv' /\ CallbackInv'
    BY <1>0 DEF BatchInv, CallbackInv, CallbackAlive, Handling
  <1>6. RoomInv'
    BY <1>0, FS_EmptySet, ServerAssumption DEF RoomInv, Handling, BeforeRemove
  <1>. QED  BY <1>1, <1>2, <1>3, <1>4, <1>5, <1>6


-----------------------------------------------------------------------------
(* Server::on_conn_event.                                                  *)

\* EventLoop::remove: the callback leaves the table but not the heap.
LEMMA RemoveCallback ==
  ASSUME IInv, NEW fd \in Fds, Remove(fd), running' \in {running, NoCallback}
  PROVE  /\ handlers' \in [Fds -> Callbacks \cup {NoCallback}]
         /\ handlers'[fd] = NoCallback
         /\ \A g \in Fds \ {fd} : handlers'[g] = handlers[g]
         /\ retired' \subseteq Callbacks
         /\ IsFiniteSet(retired') /\ Cardinality(retired') <= Cardinality(retired) + 1
         /\ CallbackAlive'
  <1>. USE DEF IInv, TypeOK
  <1>1. /\ handlers' \in [Fds -> Callbacks \cup {NoCallback}]
        /\ handlers'[fd] = NoCallback
        /\ \A g \in Fds \ {fd} : handlers'[g] = handlers[g]
        /\ retired' \subseteq Callbacks
    BY DEF Remove, TableType
  <1>2. IsFiniteSet(retired') /\ Cardinality(retired') <= Cardinality(retired) + 1
    <2>1. IsFiniteSet(retired) /\ Cardinality(retired) \in Nat
      BY FS_CardinalityType DEF RoomInv
    <2>2. CASE retired' = retired
      BY <2>1, <2>2
    <2>3. CASE retired' = retired \cup {handlers[fd]}
      <3>1. /\ IsFiniteSet(retired \cup {handlers[fd]})
            /\ Cardinality(retired \cup {handlers[fd]}) =
                 IF handlers[fd] \in retired THEN Cardinality(retired) ELSE Cardinality(retired) + 1
        BY <2>1, FS_AddElement
      <3>. QED  BY <2>1, <2>3, <3>1
    <2>. QED  BY <2>2, <2>3 DEF Remove
  <1>3. CallbackAlive'
    <2>. SUFFICES ASSUME running # NoCallback, running' = running
                  PROVE  running \in (Range(handlers) \cup retired)'
      BY DEF CallbackAlive, InUse
    <2>1. CASE running \in retired
      BY <2>1 DEF Remove
    <2>2. CASE running \in Range(handlers)
      <3>1. PICK g \in Fds : running = handlers[g]
        BY <2>2 DEF Range, TableType
      <3>2. CASE g = fd
        BY <3>1, <3>2 DEF Remove
      <3>3. CASE g # fd
        <4>1. running = handlers'[g]
          BY <3>1, <3>3, <1>1
        <4>. QED  BY <4>1, <1>1 DEF Range
      <3>. QED  BY <3>2, <3>3
    <2>. QED  BY <2>1, <2>2 DEF CallbackInv, CallbackAlive, InUse
  <1>. QED  BY <1>1, <1>2, <1>3

\* A handler returns to the loop with the tables it has left: what is still to show.
LEMMA ReturnInv ==
  ASSUME IInv, Return, pc \in Handling,
         IsFiniteSet(retired'),
         Cardinality(retired') <= Cardinality(retired) + (IF pc \in BeforeRemove THEN 1 ELSE 0),
         \A e \in batch : fds'[e.fd] = e.who
  PROVE  ThreadType' /\ BatchInv' /\ CallbackInv' /\ RoomInv'
  <1>. USE DEF IInv, TypeOK
  <1>0. pc' = "dispatch" /\ running' = NoCallback /\ at' = NoFd /\ accepts' = 0 /\ UNCHANGED batch
    BY DEF Return, Goto
  <1>1. ThreadType'
    BY <1>0, ServerAssumption DEF ThreadType
  <1>2. BatchInv' /\ CallbackInv'
    BY <1>0 DEF BatchInv, CallbackInv, CallbackAlive, Handling
  <1>3. RoomInv'
    <2>1. /\ Cardinality(retired) \in Nat /\ Cardinality(retired') \in Nat
          /\ IsFiniteSet(batch) /\ Cardinality(batch) \in Nat
      BY FS_CardinalityType DEF RoomInv
    <2>2. Cardinality(retired') + Cardinality(batch) <= Limit
      BY <2>1, ServerAssumption DEF RoomInv
    <2>. QED  BY <1>0, <2>1, <2>2, ServerAssumption DEF RoomInv, Handling, BeforeRemove
  <1>. QED  BY <1>1, <1>2, <1>3

\* The tables are as they were.
LEMMA SameTables ==
  ASSUME IInv, UNCHANGED tables
  PROVE  /\ TableType' /\ DescriptorsAccounted'
         /\ retired' = retired /\ IsFiniteSet(retired') /\ Cardinality(retired) \in Nat
         /\ \A e \in batch : fds'[e.fd] = e.who
  <1>. USE DEF IInv, TypeOK, tables, setup
  <1>1. TableType' /\ DescriptorsAccounted'
    BY DEF TableType, DescriptorsAccounted
  <1>2. IsFiniteSet(retired) /\ Cardinality(retired) \in Nat
    BY FS_CardinalityType DEF RoomInv
  <1>3. \A e \in batch : fds'[e.fd] = e.who
    BY DEF BatchInv
  <1>. QED  BY <1>1, <1>2, <1>3

LEMMA ConnStaysInv ==
  ASSUME IInv, ConnStays
  PROVE  IInv'
  <1>. USE DEF IInv, TypeOK
  <1>0. /\ pc \in {"read", "write"} /\ Return /\ pc' = "dispatch"
        /\ UNCHANGED <<status, backlog, others, takes, shutdown, tables>>
    BY DEF ConnStays, InHandler, Return, Goto
  <1>1. EnvType'
    <2>1. input' \in [Clients -> {"none", "ask", "last", "bye"}]
      <3>1. input \in [Clients -> {"none", "ask", "last", "bye"}]
        BY Zenon DEF EnvType
      <3>2. \/ UNCHANGED input
            \/ \E said \in {"none", "bye"} : input' = [input EXCEPT ![conns[at]] = said]
        BY Zenon DEF ConnStays, AfterRead
      <3>. QED  BY ONLY <3>1, <3>2
    <2>. QED  BY <1>0, <2>1 DEF EnvType
  <1>2. TableType' /\ DescriptorsAccounted'
    BY <1>0, SameTables
  <1>3. ThreadType' /\ BatchInv' /\ CallbackInv' /\ RoomInv'
    <2>1. IsFiniteSet(retired') /\ Cardinality(retired') <= Cardinality(retired) + 1
      BY <1>0, SameTables
    <2>. QED  BY <1>0, <2>1, SameTables, ReturnInv DEF Handling, BeforeRemove
  <1>4. PausedMeansUnwatched' /\ StartInv'
    BY <1>0 DEF PausedMeansUnwatched, StartInv, tables, setup
  <1>. QED  BY <1>1, <1>2, <1>3, <1>4

LEMMA ConnClosesInv ==
  ASSUME IInv, ConnCloses
  PROVE  IInv'
  <1>. USE DEF IInv, TypeOK, setup, stack
  <1>0. /\ pc \in {"read", "write"} /\ pc' = "resume" /\ conns[at] # None /\ Remove(at)
        /\ fds' = [fds EXCEPT ![at] = None] /\ conns' = [conns EXCEPT ![at] = None]
        /\ UNCHANGED <<setup, spare_fd, listener_paused, stack>>
    BY DEF ConnCloses, InHandler, Goto
  <1>1. /\ at \in Fds /\ at # listen_fd /\ at # spare_fd /\ conns[at] \in Clients
        /\ \A e \in batch : e.fd # at
    BY <1>0, ServerAssumption DEF BatchInv, Handling, DescriptorsAccounted, TableType
  <1>2. EnvType'
    <2>1. /\ UNCHANGED <<backlog, others, takes, shutdown>>
          /\ status' = [status EXCEPT ![conns[at]] = "done"]
          /\ input' = [input EXCEPT ![conns[at]] = "none"]
      BY DEF ConnCloses
    <2>. QED  BY <2>1, <1>1 DEF EnvType
  <1>3. /\ handlers' \in [Fds -> Callbacks \cup {NoCallback}]
        /\ handlers'[at] = NoCallback
        /\ \A g \in Fds \ {at} : handlers'[g] = handlers[g]
        /\ retired' \subseteq Callbacks
        /\ IsFiniteSet(retired') /\ Cardinality(retired') <= Cardinality(retired) + 1
        /\ CallbackAlive'
    BY <1>0, <1>1, RemoveCallback
  <1>4. TableType'
    <2>1. /\ fds' \in [Fds -> Clients \cup {"listener", "spare", None}]
          /\ conns' \in [Fds -> Clients \cup {None}]
      BY <1>0, <1>1 DEF TableType
    <2>. QED  BY <1>0, <1>3, <2>1 DEF TableType
  <1>5. ThreadType'
    BY <1>0 DEF ThreadType
  <1>6. DescriptorsAccounted'
    BY <1>0, <1>1, <1>3, ServerAssumption DEF DescriptorsAccounted, TableType
  <1>7. PausedMeansUnwatched' /\ StartInv'
    <2>1. listen_fd \in Fds
      BY <1>0 DEF StartInv
    <2>2. PausedMeansUnwatched'
      BY <1>0, <1>1, <1>3, <2>1 DEF PausedMeansUnwatched
    <2>3. StartInv'
      BY <1>0, <2>1 DEF StartInv
    <2>. QED  BY <2>2, <2>3
  <1>8. BatchInv' /\ CallbackInv'
    BY <1>0, <1>1, <1>3 DEF BatchInv, CallbackInv, Handling, TableType, ThreadType
  <1>9. RoomInv'
    <2>1. /\ Cardinality(retired) \in Nat /\ Cardinality(retired') \in Nat
          /\ Cardinality(batch) \in Nat
      BY <1>3, FS_CardinalityType DEF RoomInv
    <2>2. Cardinality(retired) + Cardinality(batch) + 1 <= Limit
      <3>1. pc \in BeforeRemove
        BY ONLY <1>0 DEF Handling, BeforeRemove
      <3>. QED  BY <3>1, Zenon DEF RoomInv
    <2>3. Cardinality(retired') + Cardinality(batch) + 0 <= Limit
      <3>1. Cardinality(retired') <= Cardinality(retired) + 1
        BY <1>3, Zenon
      <3>2. Limit \in Nat
        BY ONLY ServerAssumption
      <3>. QED  BY ONLY <2>1, <2>2, <3>1, <3>2
    <2>4. /\ pc' \notin BeforeRemove /\ pc' \in Handling /\ batch' = batch
          /\ IsFiniteSet(batch) /\ IsFiniteSet(retired')
      BY <1>0, <1>3 DEF RoomInv, Handling, BeforeRemove
    <2>. QED  BY ONLY <2>3, <2>4, Zenon DEF RoomInv
  <1>. QED  BY <1>2, <1>4, <1>5, <1>6, <1>7, <1>8, <1>9

\* No descriptor could be made: nothing has changed.
LEMMA CannotReopenInv ==
  ASSUME IInv, CannotReopen, UNCHANGED <<conns, handlers, listen_fd, batch>>
  PROVE  /\ fds' \in [Fds -> Clients \cup {"listener", "spare", None}]
         /\ spare_fd' \in Fds \cup {NoFd}
         /\ DescriptorsAccounted'
         /\ \A e \in batch : fds'[e.fd] = e.who
  BY DEF CannotReopen, IInv, TypeOK, TableType, DescriptorsAccounted, BatchInv

LEMMA ResumeInv ==
  ASSUME IInv, Resume
  PROVE  IInv'
  <1>. USE DEF IInv, TypeOK, env, setup
  <1>0. pc = "resume" /\ Return /\ pc' = "dispatch" /\ UNCHANGED <<env, conns, retired, setup, batch>>
    BY DEF Resume, Return, Goto
  <1>1. listen_fd \in Fds /\ (listener_paused <=> handlers[listen_fd] = NoCallback)
    BY <1>0 DEF StartInv, PausedMeansUnwatched
  <1>2. EnvType'
    BY <1>0 DEF EnvType
  <1>. DEFINE Sound == /\ fds' \in [Fds -> Clients \cup {"listener", "spare", None}]
                       /\ spare_fd' \in Fds \cup {NoFd}
                       /\ \A e \in batch : fds'[e.fd] = e.who
  <1>3. Sound /\ TableType' /\ DescriptorsAccounted' /\ PausedMeansUnwatched'
    <2>1. CASE UNCHANGED <<fds, spare_fd, handlers, listener_paused>>
      <3>1. Sound /\ TableType' /\ DescriptorsAccounted'
        BY <1>0, <2>1 DEF TableType, DescriptorsAccounted, BatchInv
      <3>2. PausedMeansUnwatched'
        BY <1>0, <1>1, <2>1 DEF PausedMeansUnwatched
      <3>. QED  BY <3>1, <3>2
    <2>2. CASE (CannotReopen \/ ReopenSpare) /\ UNCHANGED <<handlers, listener_paused>>
      <3>1. Sound /\ DescriptorsAccounted'
        BY <1>0, <2>2, CannotReopenInv, ReopenSpareInv
      <3>2. TableType'
        BY <1>0, <2>2, <3>1 DEF TableType
      <3>3. PausedMeansUnwatched'
        BY <1>0, <1>1, <2>2 DEF PausedMeansUnwatched
      <3>. QED  BY <3>1, <3>2, <3>3
    <2>3. CASE /\ listener_paused /\ ReopenSpare
               /\ handlers' = [handlers EXCEPT ![listen_fd] = NewCallback]
               /\ listener_paused' = FALSE
      <3>1. /\ handlers' \in [Fds -> Callbacks \cup {NoCallback}]
            /\ handlers'[listen_fd] # NoCallback
            /\ \A g \in Fds \ {listen_fd} : handlers'[g] = handlers[g]
        BY <1>0, <1>1, <2>3, AddCallback, Zenon DEF Return
      <3>2. Sound /\ DescriptorsAccounted'
        BY <1>0, <2>3, <3>1, ReopenSpareInv
      <3>3. TableType'
        BY <1>0, <2>3, <3>1, <3>2, Zenon DEF TableType
      <3>4. PausedMeansUnwatched'
        BY <1>0, <2>3, <3>1 DEF PausedMeansUnwatched
      <3>. QED  BY <3>2, <3>3, <3>4
    <2>. QED  BY <2>1, <2>2, <2>3, Zenon DEF Resume
  <1>4. ThreadType' /\ BatchInv' /\ CallbackInv' /\ RoomInv'
    <2>1. IsFiniteSet(retired') /\ Cardinality(retired') <= Cardinality(retired) + 0
      BY <1>0, FS_CardinalityType DEF RoomInv
    <2>. QED  BY <1>0, <1>3, <2>1, ReturnInv DEF Handling, BeforeRemove
  <1>5. StartInv'
    BY <1>0, <1>1 DEF StartInv
  <1>. QED  BY <1>2, <1>3, <1>4, <1>5

-----------------------------------------------------------------------------
(* Server::on_listener_readable.                                           *)

\* A turn of the accept loop that leaves the tables alone.
LEMMA AcceptAgainInv ==
  ASSUME IInv, AcceptAgain
  PROVE  IInv'
  <1>. USE DEF IInv, TypeOK
  <1>0. /\ accepts < MaxAccepts /\ accepts' = accepts + 1
        /\ UNCHANGED <<input, others, takes, shutdown, tables, pc, batch, running, at>>
    BY DEF AcceptAgain, MayAccept
  <1>1. EnvType'
    <2>1. CASE UNCHANGED <<backlog, status>>
      BY <1>0, <2>1 DEF EnvType
    <2>2. CASE /\ backlog # <<>> /\ backlog' = Tail(backlog)
               /\ status' = [status EXCEPT ![Head(backlog)] = "done"]
      <3>1. Head(backlog) \in Clients /\ backlog' \in Seq(Clients)
        BY <2>2 DEF EnvType
      <3>. QED  BY <1>0, <2>2, <3>1 DEF EnvType
    <2>. QED  BY <2>1, <2>2 DEF AcceptAgain
  <1>2. accepts' \in 0..MaxAccepts
    BY <1>0, ServerAssumption DEF ThreadType
  <1>3. ThreadType'
    BY <1>0, <1>2 DEF ThreadType
  <1>4. TableType' /\ DescriptorsAccounted' /\ PausedMeansUnwatched' /\ StartInv'
    BY <1>0 DEF tables, setup, TableType, DescriptorsAccounted, PausedMeansUnwatched, StartInv
  <1>5. BatchInv' /\ CallbackInv' /\ RoomInv'
    BY <1>0 DEF tables, BatchInv, CallbackInv, CallbackAlive, InUse, RoomInv
  <1>. QED  BY <1>1, <1>3, <1>4, <1>5

\* A connection is accepted: its descriptor was free, so no event, callback or other
\* connection is affected.
LEMMA AcceptInv ==
  ASSUME IInv, Accept
  PROVE  IInv'
  <1>. USE DEF IInv, TypeOK, setup
  <1>. DEFINE fd == LowestFree
              c == Head(backlog)
  <1>0. /\ pc = "accept" /\ ~NoDescriptor
        /\ accepts < MaxAccepts /\ accepts' = accepts + 1
        /\ backlog # <<>> /\ backlog' = Tail(backlog)
        /\ UNCHANGED <<others, takes, shutdown, retired, setup, spare_fd,
                       listener_paused, pc, batch, running, at>>
    BY DEF Accept, MayAccept
  <1>1. /\ fd \in Fds /\ fd # NoFd /\ fds[fd] = None /\ conns[fd] = None
        /\ fd # listen_fd /\ fd # spare_fd /\ handlers[fd] = NoCallback
    BY <1>0, LowestFreeIsFree
  <1>2. c \in Clients /\ backlog' \in Seq(Clients)
    BY <1>0 DEF EnvType
  <1>3. accepts' \in 0..MaxAccepts
    BY <1>0, ServerAssumption DEF ThreadType
  <1>4. ThreadType' /\ StartInv' /\ RoomInv'
    <2>1. ThreadType'
      BY <1>0, <1>3 DEF ThreadType
    <2>2. RoomInv'
      BY <1>0 DEF RoomInv
    <2>3. listen_fd \in Fds
      BY <1>0 DEF StartInv
    <2>. QED  BY <1>0, <2>1, <2>2, <2>3 DEF StartInv
  <1>. HIDE DEF fd, c
  <1>5. CASE Registered(fd, c)
    <2>1. /\ fds' = [fds EXCEPT ![fd] = c] /\ conns' = [conns EXCEPT ![fd] = c]
          /\ handlers' = [handlers EXCEPT ![fd] = NewCallback]
          /\ status' = [status EXCEPT ![c] = "open"]
      BY <1>5 DEF Registered
    <2>2. EnvType'
      <3>1. PICK said \in {"none", "last", "bye"} : input' = [input EXCEPT ![c] = said]
        BY <1>5 DEF Registered
      <3>. QED  BY <1>0, <1>2, <2>1, <3>1 DEF EnvType
    <2>3. /\ handlers' \in [Fds -> Callbacks \cup {NoCallback}]
          /\ handlers'[fd] # NoCallback
          /\ \A g \in Fds \ {fd} : handlers'[g] = handlers[g]
          /\ CallbackAlive'
      <3>1. fd \in Fds /\ handlers[fd] = NoCallback /\ UNCHANGED retired
            /\ handlers' = [handlers EXCEPT ![fd] = NewCallback]
            /\ running' \in {running, NoCallback}
        BY <1>0, <1>1, <2>1
      <3>. QED  BY <3>1, AddCallback, Zenon
    <2>4. TableType'
      BY <1>0, <1>1, <1>2, <2>1, <2>3 DEF TableType
    <2>5. DescriptorsAccounted'
      BY <1>0, <1>1, <1>2, <2>1, <2>3, ServerAssumption DEF DescriptorsAccounted, TableType
    <2>6. PausedMeansUnwatched'
      BY <1>0, <1>1, <2>3 DEF PausedMeansUnwatched, StartInv
    <2>7. ASSUME NEW e \in batch PROVE fds'[e.fd] = e.who
      <3>1. e.fd \in Fds /\ fds[e.fd] = e.who /\ e.who # None
        BY ServerAssumption DEF ThreadType, BatchInv
      <3>2. e.fd # fd
        BY <1>1, <3>1
      <3>. QED  BY <2>1, <3>1, <3>2 DEF TableType
    <2>8. BatchInv'
      BY <1>0, <2>7 DEF BatchInv
    <2>9. CallbackInv'
      BY <1>0, <2>3 DEF CallbackInv
    <2>. QED  BY <1>4, <2>2, <2>4, <2>5, <2>6, <2>8, <2>9
  <1>6. CASE TurnedAway(fd, c)
    <2>1. /\ status' = [status EXCEPT ![c] = "done"]
          /\ UNCHANGED <<fds, conns, handlers, input>>
      BY <1>6 DEF TurnedAway
    <2>2. EnvType' /\ TableType'
      BY <1>0, <1>2, <2>1 DEF EnvType, TableType
    <2>3. DescriptorsAccounted' /\ PausedMeansUnwatched'
      BY <1>0, <2>1 DEF DescriptorsAccounted, PausedMeansUnwatched
    <2>4. BatchInv' /\ CallbackInv'
      BY <1>0, <2>1 DEF BatchInv, CallbackInv, CallbackAlive, InUse
    <2>. QED  BY <1>4, <2>2, <2>3, <2>4
  <1>. QED  BY <1>5, <1>6 DEF Accept, fd, c

LEMMA AcceptDoneInv ==
  ASSUME IInv, AcceptDone
  PROVE  IInv'
  <1>. USE DEF IInv, TypeOK
  <1>0. pc = "accept" /\ Return /\ pc' = "dispatch" /\ UNCHANGED <<env, tables>>
    BY DEF AcceptDone, Return, Goto
  <1>1. EnvType'
    BY <1>0 DEF EnvType, env
  <1>2. TableType' /\ DescriptorsAccounted'
    BY <1>0, SameTables
  <1>3. ThreadType' /\ BatchInv' /\ CallbackInv' /\ RoomInv'
    <2>1. IsFiniteSet(retired') /\ Cardinality(retired') <= Cardinality(retired) + 1
      BY <1>0, SameTables
    <2>. QED  BY <1>0, <2>1, SameTables, ReturnInv DEF Handling, BeforeRemove
  <1>4. PausedMeansUnwatched' /\ StartInv'
    BY <1>0 DEF PausedMeansUnwatched, StartInv, tables, setup
  <1>. QED  BY <1>1, <1>2, <1>3, <1>4

\* A step from one point of the listener's handler to the next, the registrations and
\* the batch left alone.
LEMMA HandlerGoesOn ==
  ASSUME IInv, pc \in BeforeRemove, pc' \in BeforeRemove,
         UNCHANGED <<handlers, retired, listen_fd, listener_paused, stack>>,
         \A e \in batch : fds'[e.fd] = e.who
  PROVE  ThreadType' /\ PausedMeansUnwatched' /\ StartInv' /\ BatchInv' /\ CallbackInv' /\ RoomInv'
  <1>. USE DEF IInv, TypeOK, stack, BeforeRemove, Handling
  <1>1. ThreadType'
    BY DEF ThreadType
  <1>2. PausedMeansUnwatched' /\ StartInv'
    BY DEF PausedMeansUnwatched, StartInv
  <1>3. BatchInv' /\ CallbackInv'
    BY DEF BatchInv, CallbackInv, CallbackAlive, InUse
  <1>4. RoomInv'
    BY DEF RoomInv
  <1>. QED  BY <1>1, <1>2, <1>3, <1>4

LEMMA AcceptStarvedInv ==
  ASSUME IInv, AcceptStarved
  PROVE  IInv'
  <1>. USE DEF IInv, TypeOK, setup
  <1>0. /\ pc = "accept" /\ pc' \in {"shed", "pause"}
        /\ spare_fd' = NoFd /\ fds' = [fd \in Fds |-> IF fd = spare_fd THEN None ELSE fds[fd]]
        /\ UNCHANGED <<env, conns, handlers, retired, setup, listener_paused, stack>>
    BY DEF AcceptStarved, MayAccept, Goto
  <1>1. EnvType' /\ TableType'
    BY <1>0 DEF EnvType, env, TableType
  <1>2. DescriptorsAccounted'
    BY <1>0, ServerAssumption DEF DescriptorsAccounted, Fds, NoFd
  <1>3. \A e \in batch : fds'[e.fd] = e.who
    BY <1>0, ServerAssumption DEF BatchInv, ThreadType, DescriptorsAccounted
  <1>. QED  BY <1>0, <1>1, <1>2, <1>3, HandlerGoesOn DEF BeforeRemove, Handling

LEMMA ShedInv ==
  ASSUME IInv, Shed
  PROVE  IInv'
  <1>. USE DEF IInv, TypeOK
  <1>0. pc = "shed" /\ pc' = "reopen" /\ UNCHANGED <<input, others, takes, shutdown, tables, stack>>
    BY DEF Shed, Goto
  <1>1. EnvType'
    <2>1. CASE UNCHANGED <<backlog, status>>
      BY <1>0, <2>1 DEF EnvType
    <2>2. CASE /\ backlog # <<>> /\ backlog' = Tail(backlog)
               /\ status' = [status EXCEPT ![Head(backlog)] = "done"]
      <3>1. Head(backlog) \in Clients /\ backlog' \in Seq(Clients)
        BY <2>2 DEF EnvType
      <3>. QED  BY <1>0, <2>2, <3>1 DEF EnvType
    <2>. QED  BY <2>1, <2>2 DEF Shed
  <1>2. TableType' /\ DescriptorsAccounted' /\ \A e \in batch : fds'[e.fd] = e.who
    BY <1>0, SameTables
  <1>3. ThreadType' /\ PausedMeansUnwatched' /\ StartInv' /\ BatchInv' /\ CallbackInv' /\ RoomInv'
    BY <1>0, <1>2, HandlerGoesOn DEF tables, setup, BeforeRemove, Handling
  <1>. QED  BY <1>1, <1>2, <1>3

LEMMA ReopenInv ==
  ASSUME IInv, Reopen
  PROVE  IInv'
  <1>. USE DEF IInv, TypeOK, setup
  <1>0. /\ pc = "reopen"
        /\ UNCHANGED <<env, conns, handlers, retired, setup, listener_paused, batch>>
    BY DEF Reopen, Return, stack
  <1>1. EnvType'
    BY <1>0 DEF EnvType, env
  <1>2. CASE ReopenSpare /\ Return
    <2>1. /\ fds' \in [Fds -> Clients \cup {"listener", "spare", None}] /\ spare_fd' \in Fds
          /\ DescriptorsAccounted' /\ \A e \in batch : fds'[e.fd] = e.who
      BY <1>0, <1>2, ReopenSpareInv
    <2>2. TableType'
      BY <1>0, <2>1 DEF TableType
    <2>3. IsFiniteSet(retired') /\ Cardinality(retired') <= Cardinality(retired) + 1
      BY <1>0, FS_CardinalityType DEF RoomInv
    <2>4. ThreadType' /\ BatchInv' /\ CallbackInv' /\ RoomInv'
      BY <1>0, <1>2, <2>1, <2>3, ReturnInv DEF BeforeRemove, Handling
    <2>5. PausedMeansUnwatched' /\ StartInv'
      BY <1>0, <1>2 DEF PausedMeansUnwatched, StartInv, Return, Goto
    <2>. QED  BY <1>1, <2>1, <2>2, <2>4, <2>5
  <1>3. CASE CannotReopen /\ pc' = "pause" /\ UNCHANGED stack
    <2>1. /\ fds' \in [Fds -> Clients \cup {"listener", "spare", None}]
          /\ spare_fd' \in Fds \cup {NoFd}
          /\ DescriptorsAccounted' /\ \A e \in batch : fds'[e.fd] = e.who
      BY <1>0, <1>3, CannotReopenInv
    <2>2. TableType'
      BY <1>0, <2>1 DEF TableType
    <2>3. ThreadType' /\ PausedMeansUnwatched' /\ StartInv' /\ BatchInv' /\ CallbackInv' /\ RoomInv'
      BY <1>0, <1>3, <2>1, HandlerGoesOn DEF BeforeRemove, Handling
    <2>. QED  BY <1>1, <2>1, <2>2, <2>3
  <1>. QED  BY <1>2, <1>3 DEF Reopen, Goto

LEMMA PauseInv ==
  ASSUME IInv, Pause
  PROVE  IInv'
  <1>. USE DEF IInv, TypeOK, setup
  <1>0. /\ pc = "pause" /\ pc' = "dispatch" /\ Return /\ Remove(listen_fd) /\ listener_paused' = TRUE
        /\ UNCHANGED <<env, fds, conns, setup, spare_fd, batch>>
    BY DEF Pause, Return, Goto
  <1>1. listen_fd \in Fds
    BY <1>0 DEF StartInv
  <1>2. EnvType'
    BY <1>0 DEF EnvType, env
  <1>3. /\ handlers' \in [Fds -> Callbacks \cup {NoCallback}]
        /\ handlers'[listen_fd] = NoCallback
        /\ \A g \in Fds \ {listen_fd} : handlers'[g] = handlers[g]
        /\ retired' \subseteq Callbacks
        /\ IsFiniteSet(retired') /\ Cardinality(retired') <= Cardinality(retired) + 1
    BY <1>0, <1>1, RemoveCallback DEF Return
  <1>4. TableType'
    BY <1>0, <1>3 DEF TableType
  <1>5. DescriptorsAccounted'
    <2>. SUFFICES ASSUME NEW fd \in Fds, fd # listen_fd
                  PROVE  handlers'[fd] # NoCallback <=> conns[fd] # None
      BY <1>0 DEF DescriptorsAccounted
    <2>1. handlers'[fd] = handlers[fd]
      BY <1>3, Zenon
    <2>. QED  BY <2>1, Zenon DEF DescriptorsAccounted
  <1>6. PausedMeansUnwatched' /\ StartInv'
    BY <1>0, <1>1, <1>3 DEF PausedMeansUnwatched, StartInv
  <1>7. ThreadType' /\ BatchInv' /\ CallbackInv' /\ RoomInv'
    <2>1. \A e \in batch : fds'[e.fd] = e.who
      BY <1>0 DEF BatchInv
    <2>. QED  BY <1>0, <1>3, <2>1, ReturnInv DEF BeforeRemove, Handling
  <1>. QED  BY <1>2, <1>4, <1>5, <1>6, <1>7

-----------------------------------------------------------------------------
LEMMA StutterInv ==
  ASSUME IInv, UNCHANGED vars
  PROVE  IInv'
  <1>. USE DEF vars
  <1>1. EnvType'
    BY DEF IInv, TypeOK, EnvType, env
  <1>. QED  BY <1>1, EnvironmentStep

LEMMA NextInv == IInv /\ [Next]_vars => IInv'
  <1>. SUFFICES ASSUME IInv, [Next]_vars PROVE IInv'
    OBVIOUS
  <1>1. CASE Environment
    BY <1>1, EnvironmentInv
  <1>2. CASE Startup
    BY <1>2, ListenInv, ReserveInv, WatchInv, RunInv DEF Startup
  <1>3. CASE Loop
    BY <1>3, WaitInv, WaitFailsInv, DispatchInv, TickInv, ExitInv DEF Loop
  <1>4. CASE Conn
    BY <1>4, ConnStaysInv, ConnClosesInv, ResumeInv DEF Conn
  <1>5. CASE Listener
    BY <1>5, AcceptInv, AcceptAgainInv, AcceptDoneInv, AcceptStarvedInv, ShedInv, ReopenInv,
       PauseInv DEF Listener
  <1>6. CASE UNCHANGED vars
    BY <1>6, StutterInv
  <1>. QED  BY <1>1, <1>2, <1>3, <1>4, <1>5, <1>6 DEF Next, Serve

LEMMA Invariance == Spec => []IInv
  BY InitInv, NextInv, PTL DEF Spec

\* Every table, queue and counter of the event loop and the server keeps its type, and
\* no accept loop exceeds kMaxAcceptsPerEvent, whatever is accepted, closed or refused.
THEOREM TypeCorrect == Spec => []TypeOK
  <1>1. IInv => TypeOK
    BY DEF IInv
  <1>. QED  BY <1>1, Invariance, PTL

\* An event in the batch of EventLoop::run is never handled for a client other than the
\* one the kernel reported on, though descriptors are closed and reissued on the way.
THEOREM EventsReachTheirClientAlways == Spec => []EventsReachTheirClient
  <1>1. IInv => EventsReachTheirClient
    BY DEF IInv, BatchInv, EventsReachTheirClient
  <1>. QED  BY <1>1, Invariance, PTL

\* EventLoop::remove and add, called from inside a callback, never destroy or replace the
\* callback that is running.
THEOREM CallbackAlwaysAlive == Spec => []CallbackAlive
  <1>1. IInv => CallbackAlive
    BY DEF IInv, CallbackInv
  <1>. QED  BY <1>1, Invariance, PTL

\* No descriptor leaks and none has two owners; conns_ and handlers_ agree, on every path
\* of add_connection, close_conn and shed_connection.
THEOREM NoDescriptorLeaks == Spec => []DescriptorsAccounted
  <1>1. IInv => DescriptorsAccounted
    BY DEF IInv
  <1>. QED  BY <1>1, Invariance, PTL

\* listener_paused_ and the registration of the listener never come apart.
THEOREM PauseCorrect == Spec => []PausedMeansUnwatched
  <1>1. IInv => PausedMeansUnwatched
    BY DEF IInv
  <1>. QED  BY <1>1, Invariance, PTL

LEMMA ReopenHolds ==
  ASSUME IInv, ReopenSpare
  PROVE  spare_fd' # NoFd
  BY LowestFreeIsFree DEF IInv, ReopenSpare, HasSpare

\* shed_connection ends with the spare in hand or the listener paused, and resume_listener
\* resumes only with the spare in hand: the loop cannot spin on a listener it cannot serve.
THEOREM ReserveOrPauseAlways == Spec => ReserveOrPause
  <1>1. IInv /\ [Next]_vars =>
          [/\ pc \in {"shed", "reopen", "pause"} /\ pc' = "dispatch" =>
                spare_fd' # NoFd \/ listener_paused'
           /\ listener_paused /\ ~listener_paused' => spare_fd' # NoFd]_vars
    <2>. SUFFICES ASSUME IInv, Next
                  PROVE  /\ pc \in {"shed", "reopen", "pause"} /\ pc' = "dispatch" =>
                              spare_fd' # NoFd \/ listener_paused'
                         /\ listener_paused /\ ~listener_paused' => spare_fd' # NoFd
      OBVIOUS
    <2>1. CASE Resume
      BY <2>1, ReopenHolds DEF Resume
    <2>2. CASE Reopen
      BY <2>2, ReopenHolds DEF Reopen, Goto
    <2>3. CASE Pause
      BY <2>3 DEF Pause
    <2>4. CASE Environment
      <3>1. UNCHANGED <<tables, pc>>
        BY <2>4 DEF Environment, Connect, GiveUp, Ask, Bye, OthersTake, OthersRelease, Signal
      <3>. QED  BY <3>1 DEF tables
    <2>5. CASE Startup
      <3>1. pc \in {"start", "reserve", "watch", "run"} /\ UNCHANGED listener_paused
        BY <2>5 DEF Startup, Listen, Reserve, Watch, Run, tables
      <3>. QED  BY <3>1
    <2>6. CASE Loop
      <3>1. pc \in {"wait", "dispatch", "exit", "failed"} /\ UNCHANGED listener_paused
        BY <2>6 DEF Loop, Wait, WaitFails, Dispatch, Tick, Exit, tables
      <3>. QED  BY <3>1
    <2>7. CASE ConnStays \/ ConnCloses
      <3>1. pc \in {"read", "write"} /\ UNCHANGED listener_paused
        BY <2>7 DEF ConnStays, ConnCloses, InHandler, tables
      <3>. QED  BY <3>1
    <2>8. CASE Accept \/ AcceptAgain \/ AcceptDone \/ AcceptStarved
      <3>1. pc = "accept" /\ UNCHANGED listener_paused
        BY <2>8 DEF Accept, AcceptAgain, AcceptDone, AcceptStarved, MayAccept, tables
      <3>. QED  BY <3>1
    <2>9. CASE Shed
      <3>1. pc' = "reopen" /\ UNCHANGED listener_paused
        BY <2>9 DEF Shed, Goto, tables
      <3>. QED  BY <3>1
    <2>. QED  BY <2>1, <2>2, <2>3, <2>4, <2>5, <2>6, <2>7, <2>8, <2>9
                DEF Next, Serve, Conn, Listener
  <1>. QED  BY <1>1, Invariance, PTL DEF Spec, ReserveOrPause
=============================================================================
