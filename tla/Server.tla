------------------------------- MODULE Server -------------------------------
(***************************************************************************)
(* The event loop (src/net/event_loop.cpp), the listener and the table of  *)
(* connections (src/net/server.cpp): who owns which descriptor, which      *)
(* callback is registered for it, and what happens when descriptors run    *)
(* out.  Handlers are cut into steps wherever a client, another process or *)
(* a signal can come in between: at every system call whose outcome they   *)
(* can change.                                                             *)
(*                                                                         *)
(* Abstractions.  What a connection reads and writes is module Connection; *)
(* here its handler reads once if the event says so, writes, and keeps the *)
(* connection or closes it.  A callback is the address it lives at, so     *)
(* that a destroyed one can be reissued.  Init is the process with its     *)
(* signal handlers installed, about to call start().                       *)
(***************************************************************************)
EXTENDS Integers, Sequences, FiniteSets, FiniteSetsExt, Functions

CONSTANTS
  Clients,       \* each connects at most once
  Limit,         \* descriptors the process may have, beyond its fixed ones
  SystemFiles,   \* open files the machine allows this and the other processes
  MaxTakes,      \* how many of them the others take at most, over all
  MaxAccepts,    \* kMaxAcceptsPerEvent
  InitialEvents, \* kInitialEventCapacity
  MaxEvents,     \* kMaxEventCapacity
  Faults,        \* a subset of AllFaults: what may fail besides
  None           \* no client, no owner

AllFaults == {"listen", "add", "accept", "wait"}

ASSUME ServerAssumption ==
  /\ IsFiniteSet(Clients)
  /\ Limit \in Nat /\ Limit >= 2
  /\ SystemFiles \in Nat /\ SystemFiles >= 2
  /\ MaxTakes \in Nat
  /\ MaxAccepts \in Nat \ {0}
  /\ InitialEvents \in Nat \ {0} /\ MaxEvents \in Nat /\ InitialEvents <= MaxEvents
  /\ Faults \subseteq AllFaults
  /\ {None, "listener", "spare"} \cap Clients = {} /\ None \notin {"listener", "spare"}

Fds == 1..Limit
NoFd == 0
NoCallback == 0
Callbacks == 1..(2 * Limit)

VARIABLES
  \* the clients, the other processes and the kernel
  status,    \* client -> "away", "queued", "left" (the queue), "open", "done"
  backlog,   \* the accept queue
  input,     \* client -> what waits to be read from it: "none", "ask", "bye" (its
             \* end), or "last" (a request and then its end)
  others,    \* open files of the other processes
  takes,     \* how many they have taken so far
  shutdown,  \* g_shutdown
  fds,       \* descriptor -> the client, "listener" or "spare" it is, or None
  \* the server
  conns,     \* conns_: descriptor -> the client it serves, or None
  handlers,  \* handlers_: descriptor -> callback, or NoCallback
  retired,   \* retired_
  listen_fd, spare_fd, listener_paused,
  capacity,  \* the size of Poller::Impl::events
  pc,        \* where the loop thread is
  batch,     \* events_ still to dispatch; .who is whom the kernel reported on
  running,   \* the callback on the stack, or NoCallback
  at,        \* the descriptor it was called for
  accepts    \* i of on_listener_readable

env == <<status, backlog, input, others, takes, shutdown>>
setup == <<listen_fd, capacity>>
tables == <<fds, conns, handlers, retired, setup, spare_fd, listener_paused>>
stack == <<batch, running, at, accepts>>
vars == <<env, tables, pc, stack>>

-----------------------------------------------------------------------------
(* The clients, the other processes, and the operator's signal.            *)

Connect(c) ==
  /\ status[c] = "away" /\ listen_fd # NoFd
  /\ status' = [status EXCEPT ![c] = "queued"]
  /\ backlog' = Append(backlog, c)
  /\ UNCHANGED <<input, others, takes, shutdown, tables, pc, stack>>

GiveUp(c) ==
  /\ status[c] = "queued"
  /\ status' = [status EXCEPT ![c] = "left"]
  /\ UNCHANGED <<backlog, input, others, takes, shutdown, tables, pc, stack>>

Ask(c) ==
  /\ status[c] = "open" /\ input[c] = "none"
  /\ input' = [input EXCEPT ![c] = "ask"]
  /\ UNCHANGED <<status, backlog, others, takes, shutdown, tables, pc, stack>>

Bye(c) ==
  /\ status[c] = "open" /\ input[c] \in {"none", "ask"}
  /\ input' = [input EXCEPT ![c] = IF @ = "ask" THEN "last" ELSE "bye"]
  /\ UNCHANGED <<status, backlog, others, takes, shutdown, tables, pc, stack>>

Owned == {fd \in Fds : fds[fd] # None}
SystemFull == Cardinality(Owned) + others >= SystemFiles

OthersTake ==
  /\ ~SystemFull /\ takes < MaxTakes
  /\ others' = others + 1 /\ takes' = takes + 1
  /\ UNCHANGED <<status, backlog, input, shutdown, tables, pc, stack>>

OthersRelease ==
  /\ others > 0
  /\ others' = others - 1
  /\ UNCHANGED <<status, backlog, input, takes, shutdown, tables, pc, stack>>

\* handle_signal.
Signal ==
  /\ ~shutdown /\ shutdown' = TRUE
  /\ UNCHANGED <<status, backlog, input, others, takes, tables, pc, stack>>

-----------------------------------------------------------------------------
(* Descriptors and callbacks.                                              *)

\* EMFILE or ENFILE, the system calls that make a descriptor say.
NoDescriptor == Owned = Fds \/ SystemFull
LowestFree == Min(Fds \ Owned)

\* The address of a newly made callback: any that is not in use.
InUse == Range(handlers) \cup retired
NewCallback == Min(Callbacks \ InUse)

\* Mutant: the callback is destroyed at once.
RemoveDestroys(fd) ==
  /\ handlers' = [handlers EXCEPT ![fd] = NoCallback]
  /\ UNCHANGED retired
\* EventLoop::remove: out of the table, alive until the iteration ends.
Remove(fd) ==
  /\ handlers' = [handlers EXCEPT ![fd] = NoCallback]
  /\ retired' = retired \cup ({handlers[fd]} \ {NoCallback})

Goto(l) == pc' = l

\* The callback returns to EventLoop::run, and its locals are gone.
Return ==
  /\ Goto("dispatch")
  /\ running' = NoCallback /\ at' = NoFd /\ accepts' = 0
  /\ UNCHANGED batch

-----------------------------------------------------------------------------
(* EventLoop::run.                                                         *)

Watched == {fd \in Fds : handlers[fd] # NoCallback}
Readable == {fd \in Watched : \/ fds[fd] = "listener" /\ backlog # <<>>
                              \/ fds[fd] \in Clients /\ input[fds[fd]] # "none"}
\* Of the connections, those with output pending are watched for room to write as well.
Writable == {fd \in Watched : conns[fd] # None}

\* kevent(2) returns one report per descriptor and filter, as many as events has room for.
Reports(writing) ==
  LET all == {<<fd, "read">> : fd \in Readable} \cup {<<fd, "write">> : fd \in writing}
  IN  kSubset(Min({capacity, Cardinality(all)}), all)

Event(fd, readable) == [fd |-> fd, who |-> fds[fd], readable |-> readable]

\* Mutant: the array never grows.
GrownNever(n) == capacity
\* A full array: there may be more, so make room for them.
Grown(n) == IF n = capacity /\ capacity < MaxEvents THEN 2 * capacity ELSE capacity

\* Mutant: read and write readiness of one descriptor come as two events.
MergedPerFilter(reports, hung) ==
  {Event(r[1], r[2] = "read" \/ r[1] \in hung) : r \in reports}
\* One event per descriptor; it is readable if the read filter was among the reports, or
\* a report carried EV_EOF.
Merged(reports, hung) ==
  {Event(r[1], <<r[1], "read">> \in reports \/ r[1] \in hung) : r \in reports}

\* Poller::wait: one event for each descriptor reported, in any order; none when the
\* timeout runs out or a signal interrupts the wait.  The reports on a peer that has left
\* may say so, whatever their filter.  (epoll_wait(2) reports a descriptor once: the case
\* that no readable descriptor is also in writing.)
Wait ==
  /\ pc = "wait"
  /\ \/ \E writing \in SUBSET Writable : \E reports \in Reports(writing) :
        \E hung \in SUBSET {fd \in writing : input[conns[fd]] \in {"last", "bye"}} :
          batch' = Merged(reports, hung) /\ capacity' = Grown(Cardinality(reports))
     \/ shutdown /\ batch' = {} /\ UNCHANGED capacity
  /\ Goto("dispatch")
  /\ UNCHANGED <<env, fds, conns, handlers, retired, listen_fd, spare_fd, listener_paused,
                 running, at, accepts>>

\* The poller itself fails: the loop is left at once.
WaitFails ==
  /\ pc = "wait" /\ "wait" \in Faults
  /\ Goto("exit")
  /\ UNCHANGED <<env, tables, stack>>

\* The handler is looked up per event: an earlier one may have removed it.  The listener
\* is watched for reading only.
Dispatch ==
  /\ pc = "dispatch"
  /\ \E e \in batch :
       /\ batch' = batch \ {e}
       /\ at' = e.fd
       /\ accepts' = 0
       /\ running' = handlers[e.fd]
       /\ Goto(IF handlers[e.fd] = NoCallback THEN "dispatch"
               ELSE IF e.fd = listen_fd THEN "accept"
               ELSE IF e.readable THEN "read" ELSE "write")
  /\ UNCHANGED <<env, tables>>

\* Mutant: a shutdown waits until the last client has left.
TickDrains ==
  /\ pc = "dispatch" /\ batch = {}
  /\ retired' = {}
  /\ Goto(IF shutdown /\ \A fd \in Fds : conns[fd] = None THEN "exit" ELSE "wait")
  /\ UNCHANGED <<env, fds, conns, handlers, setup, spare_fd, listener_paused, stack>>
\* The batch is done: on_tick (whose expiry cycle is module Keyspace), then
\* retired_.clear().
Tick ==
  /\ pc = "dispatch" /\ batch = {}
  /\ retired' = {}
  /\ Goto(IF shutdown THEN "exit" ELSE "wait")
  /\ UNCHANGED <<env, fds, conns, handlers, setup, spare_fd, listener_paused, stack>>

\* ~Server.
Exit ==
  /\ pc \in {"exit", "failed"}
  /\ fds' = [fd \in Fds |-> None] /\ conns' = [fd \in Fds |-> None]
  /\ handlers' = [fd \in Fds |-> NoCallback] /\ retired' = {}
  /\ listen_fd' = NoFd /\ spare_fd' = NoFd
  /\ status' = [c \in Clients |-> IF status[c] = "away" THEN "away" ELSE "done"]
  /\ input' = [c \in Clients |-> "none"]
  /\ backlog' = <<>> /\ batch' = {}
  /\ Goto("stopped")
  /\ UNCHANGED <<others, takes, shutdown, capacity, listener_paused, running, at, accepts>>

-----------------------------------------------------------------------------
(* Server::on_conn_event.                                                  *)

\* pc = "read": the event is readable (and perhaps writable); "write": writable only.
InHandler == pc \in {"read", "write"}

\* What one read leaves to be read; the end of the input is for the next event.
AfterRead(said) == IF said = "last" THEN "bye" ELSE "none"

\* Mutant: the handler reads until nothing is left.
ConnStaysReading ==
  /\ InHandler
  /\ \/ /\ pc = "read" /\ conns[at] # None /\ input[conns[at]] \in {"ask", "last"}
        /\ input' = [input EXCEPT ![conns[at]] = AfterRead(@)]
        /\ UNCHANGED <<pc, stack>>
     \/ /\ pc = "write" \/ conns[at] = None \/ input[conns[at]] = "none"
        /\ UNCHANGED input
        /\ Return
  /\ UNCHANGED <<status, backlog, others, takes, shutdown, tables>>
\* The connection lives on: a read that found data (or EAGAIN), or no read at all: the
\* event was not readable, a signal interrupted the read, or the Conn is not known.
ConnStays ==
  /\ InHandler
  /\ \/ /\ pc = "read" /\ conns[at] # None /\ input[conns[at]] # "bye"
        /\ input' = [input EXCEPT ![conns[at]] = AfterRead(@)]
     \/ /\ pc = "write" \/ conns[at] = None \/ shutdown
        /\ UNCHANGED input
  /\ Return
  /\ UNCHANGED <<status, backlog, others, takes, shutdown, tables>>

\* close_conn, up to close(2) and the end of the Conn: the client left, sent QUIT or
\* broken framing, or let its output pile up.  What it still had to say is discarded.
ConnCloses ==
  /\ InHandler /\ conns[at] # None
  /\ Remove(at)
  /\ fds' = [fds EXCEPT ![at] = None]
  /\ conns' = [conns EXCEPT ![at] = None]
  /\ status' = [status EXCEPT ![conns[at]] = "done"]
  /\ input' = [input EXCEPT ![conns[at]] = "none"]
  /\ Goto("resume")
  /\ UNCHANGED <<backlog, others, takes, shutdown,
                 setup, spare_fd, listener_paused, stack>>

\* reopen_spare_fd: true at once if it is held.
HasSpare == spare_fd # NoFd
ReopenSpare ==
  /\ HasSpare \/ ~NoDescriptor
  /\ spare_fd' = IF HasSpare THEN spare_fd ELSE LowestFree
  /\ fds' = IF HasSpare THEN fds ELSE [fds EXCEPT ![LowestFree] = "spare"]
CannotReopen == ~HasSpare /\ NoDescriptor /\ UNCHANGED <<spare_fd, fds>>

\* close_conn's last call, resume_listener.
Resume ==
  /\ pc = "resume"
  /\ \/ /\ ~listener_paused
        /\ UNCHANGED <<fds, spare_fd, handlers, listener_paused>>
     \/ /\ listener_paused /\ CannotReopen
        /\ UNCHANGED <<handlers, listener_paused>>
     \/ /\ listener_paused /\ ReopenSpare
        /\ \/ "add" \in Faults /\ UNCHANGED <<handlers, listener_paused>>
           \/ /\ handlers' = [handlers EXCEPT ![listen_fd] = NewCallback]
              /\ listener_paused' = FALSE
  /\ Return
  /\ UNCHANGED <<env, conns, retired, setup>>

-----------------------------------------------------------------------------
(* Server::on_listener_readable: a step per accept(2).                     *)

\* add_connection: registered and remembered.
Registered(fd, c) ==
  /\ fds' = [fds EXCEPT ![fd] = c]
  /\ conns' = [conns EXCEPT ![fd] = c]
  /\ handlers' = [handlers EXCEPT ![fd] = NewCallback]
  /\ status' = [status EXCEPT ![c] = "open"]
  /\ \E said \in IF status[c] = "left" THEN {"last", "bye"} ELSE {"none"} :
       input' = [input EXCEPT ![c] = said]

\* Mutant: the descriptor of a connection that could not be registered stays open.
TurnedAwayLeaks(fd, c) ==
  /\ status' = [status EXCEPT ![c] = "done"]
  /\ fds' = [fds EXCEPT ![fd] = c]
  /\ UNCHANGED <<conns, handlers, input>>
\* add_connection when fcntl or the poller refuses: closed again.
TurnedAway(fd, c) ==
  /\ status' = [status EXCEPT ![c] = "done"]
  /\ UNCHANGED <<fds, conns, handlers, input>>

\* Mutant: one turn more than kMaxAcceptsPerEvent.
MayAcceptOneMore == pc = "accept" /\ accepts <= MaxAccepts
MayAccept == pc = "accept" /\ accepts < MaxAccepts

Accept ==
  /\ MayAccept /\ ~NoDescriptor /\ backlog # <<>>
  /\ backlog' = Tail(backlog)
  /\ \/ Registered(LowestFree, Head(backlog))
     \/ "add" \in Faults /\ TurnedAway(LowestFree, Head(backlog))
  /\ accepts' = accepts + 1
  /\ UNCHANGED <<others, takes, shutdown, retired, setup, spare_fd,
                 listener_paused, pc, batch, running, at>>

\* ECONNABORTED: the client is no longer there.  EINTR: a signal.
AcceptAgain ==
  /\ MayAccept
  /\ \/ /\ backlog # <<>> /\ status[Head(backlog)] = "left"
        /\ backlog' = Tail(backlog)
        /\ status' = [status EXCEPT ![Head(backlog)] = "done"]
     \/ shutdown /\ UNCHANGED <<backlog, status>>
  /\ accepts' = accepts + 1
  /\ UNCHANGED <<input, others, takes, shutdown, tables, pc, batch, running, at>>

\* EAGAIN, an error of another kind, or kMaxAcceptsPerEvent turns.
AcceptDone ==
  /\ pc = "accept"
  /\ backlog = <<>> \/ "accept" \in Faults \/ ~MayAccept
  /\ Return
  /\ UNCHANGED <<env, tables>>

\* EMFILE or ENFILE, which some kernels report even for an empty queue: on to
\* shed_connection, which first gives up the spare.
AcceptStarved ==
  /\ MayAccept /\ NoDescriptor
  /\ Goto(IF HasSpare THEN "shed" ELSE "pause")
  /\ spare_fd' = NoFd
  /\ fds' = [fd \in Fds |-> IF fd = spare_fd THEN None ELSE fds[fd]]
  /\ UNCHANGED <<env, conns, handlers, retired, setup, listener_paused, stack>>

\* Mutant: the connection that cannot be kept stays in the queue.
ShedNothing ==
  /\ pc = "shed"
  /\ UNCHANGED <<backlog, status>>
  /\ Goto("reopen")
  /\ UNCHANGED <<input, others, takes, shutdown, tables, stack>>
\* accept and close, if there is a descriptor and someone to accept.
Shed ==
  /\ pc = "shed"
  /\ \/ /\ ~NoDescriptor /\ backlog # <<>>
        /\ backlog' = Tail(backlog)
        /\ status' = [status EXCEPT ![Head(backlog)] = "done"]
     \/ /\ NoDescriptor \/ backlog = <<>>
        /\ UNCHANGED <<backlog, status>>
  /\ Goto("reopen")
  /\ UNCHANGED <<input, others, takes, shutdown, tables, stack>>

\* Mutant: the listener stays watched although there is no spare.
ReopenOrGoOn ==
  /\ pc = "reopen"
  /\ ReopenSpare \/ CannotReopen
  /\ Return
  /\ UNCHANGED <<env, conns, handlers, retired, setup, listener_paused>>
\* The spare is taken back, or else the listener must be paused.
Reopen ==
  /\ pc = "reopen"
  /\ \/ ReopenSpare /\ Return
     \/ CannotReopen /\ Goto("pause") /\ UNCHANGED stack
  /\ UNCHANGED <<env, conns, handlers, retired, setup, listener_paused>>

\* Mutant: the flag is set, the registration stays.
PauseStillWatching ==
  /\ pc = "pause"
  /\ listener_paused' = TRUE
  /\ Return
  /\ UNCHANGED <<env, fds, conns, handlers, retired, setup, spare_fd>>
\* pause_listener, called from the listener's callback and so never while paused.
Pause ==
  /\ pc = "pause"
  /\ Remove(listen_fd)
  /\ listener_paused' = TRUE
  /\ Return
  /\ UNCHANGED <<env, fds, conns, setup, spare_fd>>

-----------------------------------------------------------------------------
(* Server::start and the way into run().                                   *)

\* listen_on, or one of its calls fails, or the poller was not made: main returns.
Listen ==
  /\ pc = "start"
  /\ \/ /\ ~NoDescriptor
        /\ listen_fd' = LowestFree
        /\ fds' = [fds EXCEPT ![LowestFree] = "listener"]
        /\ Goto("reserve")
     \/ /\ NoDescriptor \/ "listen" \in Faults
        /\ Goto("failed")
        /\ UNCHANGED <<listen_fd, fds>>
  /\ UNCHANGED <<env, conns, handlers, retired, capacity, spare_fd, listener_paused, stack>>

\* To have no spare is not fatal.
Reserve ==
  /\ pc = "reserve"
  /\ ReopenSpare \/ CannotReopen
  /\ Goto("watch")
  /\ UNCHANGED <<env, conns, handlers, retired, setup, listener_paused, stack>>

Watch ==
  /\ pc = "watch"
  /\ \/ handlers' = [handlers EXCEPT ![listen_fd] = NewCallback] /\ Goto("run")
     \/ "add" \in Faults /\ Goto("failed") /\ UNCHANGED handlers
  /\ UNCHANGED <<env, fds, conns, retired, setup, spare_fd, listener_paused, stack>>

\* Mutant: a stop that came before run() set running_ is lost.
RunForgetsStop ==
  /\ pc = "run" /\ Goto("wait")
  /\ shutdown' = FALSE
  /\ UNCHANGED <<status, backlog, input, others, takes, tables, stack>>
\* main installs the shutdown check and run() sets running_: the flag is not touched.
Run == pc = "run" /\ Goto("wait") /\ UNCHANGED <<env, tables, stack>>

-----------------------------------------------------------------------------
Init ==
  /\ status = [c \in Clients |-> "away"] /\ backlog = <<>>
  /\ input = [c \in Clients |-> "none"]
  /\ others \in 0..Min({MaxTakes, SystemFiles}) /\ takes = others
  /\ shutdown = FALSE
  /\ fds = [fd \in Fds |-> None] /\ conns = [fd \in Fds |-> None]
  /\ handlers = [fd \in Fds |-> NoCallback] /\ retired = {}
  /\ listen_fd = NoFd /\ spare_fd = NoFd /\ listener_paused = FALSE
  /\ capacity = InitialEvents
  /\ pc = "start" /\ batch = {} /\ running = NoCallback /\ at = NoFd /\ accepts = 0

Environment ==
  \/ \E c \in Clients : Connect(c) \/ GiveUp(c) \/ Ask(c) \/ Bye(c)
  \/ OthersTake \/ OthersRelease \/ Signal

Startup == Listen \/ Reserve \/ Watch \/ Run
Loop == Wait \/ WaitFails \/ Dispatch \/ Tick \/ Exit
Conn == ConnStays \/ ConnCloses \/ Resume
Listener == Accept \/ AcceptAgain \/ AcceptDone \/ AcceptStarved \/ Shed \/ Reopen \/ Pause
Serve == Startup \/ Loop \/ Conn \/ Listener

Next == Environment \/ Serve

Spec == Init /\ [][Next]_vars

\* The loop thread keeps running; a wait ends by its timeout if by nothing else.
ServedSpec == Spec /\ WF_vars(Serve)

\* Besides, connected clients leave one day and the other processes give back what
\* they have taken: what a paused listener is waiting for.
RelievedSpec ==
  /\ ServedSpec
  /\ \A c \in Clients : WF_vars(Bye(c))
  /\ WF_vars(OthersRelease)

-----------------------------------------------------------------------------
(* Properties.                                                             *)

EnvType ==
  /\ status \in [Clients -> {"away", "queued", "left", "open", "done"}]
  /\ backlog \in Seq(Clients)
  /\ input \in [Clients -> {"none", "ask", "last", "bye"}]
  /\ others \in 0..SystemFiles /\ takes \in 0..MaxTakes /\ shutdown \in BOOLEAN
TableType ==
  /\ fds \in [Fds -> Clients \cup {"listener", "spare", None}]
  /\ conns \in [Fds -> Clients \cup {None}]
  /\ handlers \in [Fds -> Callbacks \cup {NoCallback}] /\ retired \subseteq Callbacks
  /\ {listen_fd, spare_fd} \subseteq Fds \cup {NoFd} /\ listener_paused \in BOOLEAN
  /\ capacity \in InitialEvents..(2 * MaxEvents)
ThreadType ==
  /\ pc \in {"start", "reserve", "watch", "run", "failed", "wait", "dispatch", "read",
             "write", "resume", "accept", "shed", "reopen", "pause", "exit", "stopped"}
  /\ \A e \in batch : e.fd \in Fds /\ e.who \in Clients \cup {"listener"}
  /\ running \in Callbacks \cup {NoCallback}
  /\ at \in Fds \cup {NoFd} /\ accepts \in 0..MaxAccepts

\* Every table, queue and counter holds values of its type; on_listener_readable never
\* takes more than kMaxAcceptsPerEvent turns.
TypeOK == EnvType /\ TableType /\ ThreadType

\* An event is handled for the connection the kernel reported on: while it waits in
\* the batch, its descriptor is never closed and reissued to another client.
EventsReachTheirClient ==
  \A e \in batch : handlers[e.fd] # NoCallback => fds[e.fd] = e.who

\* The callback on the stack is never destroyed or replaced under its own frame,
\* though a connection closes itself and the listener pauses itself from inside it.
CallbackAlive == running # NoCallback => running \in InUse

\* No descriptor leaks: each is the listener, the spare or one connection's, and a
\* connection is in conns_ exactly if it is registered with the loop.
DescriptorsAccounted ==
  \A fd \in Fds :
    /\ fds[fd] = "listener" <=> fd = listen_fd
    /\ fds[fd] = "spare" <=> fd = spare_fd
    /\ conns[fd] = IF fds[fd] \in Clients THEN fds[fd] ELSE None
    /\ fd # listen_fd => (handlers[fd] # NoCallback <=> conns[fd] # None)

\* listener_paused says exactly whether the poller watches the listener: if they came
\* apart, it would be registered twice, or never again.
PausedMeansUnwatched ==
  pc \notin {"start", "reserve", "watch", "failed", "stopped"} =>
    (listener_paused <=> handlers[listen_fd] = NoCallback)

\* The loop cannot spin on a listener it cannot accept from: once accept has failed
\* for want of a descriptor, the handler ends with the spare in hand or the listener
\* paused, and a paused listener is resumed only with the spare in hand.
ReserveOrPause ==
  [][/\ pc \in {"shed", "reopen", "pause"} /\ pc' = "dispatch" =>
          spare_fd' # NoFd \/ listener_paused'
     /\ listener_paused /\ ~listener_paused' => spare_fd' # NoFd]_vars

\* Everyone who connects is accepted or refused (or gives up), even when every
\* descriptor is taken and no connection ever closes.
QueuedIsServed == \A c \in Clients : status[c] = "queued" ~> status[c] # "queued"

\* What a client has sent is read (or its connection closed), however fast the others
\* send: a handler reads once per event and goes back to the loop, and the reports that a
\* full array cut off (a write report may take the room of the read report that matters)
\* find room once the array has grown.
InputIsServed ==
  \A c \in Clients : input[c] \in {"ask", "last"} ~> input[c] \in {"none", "bye"}

\* A signal ends the server, however busy its clients are, and even if it comes before
\* the loop runs.
ShutdownStops == shutdown ~> pc = "stopped"

\* server.cpp:139: "Stop watching the listener entirely; a closing connection frees the
\* descriptor that resumes it."
PausedListenerResumes == listener_paused ~> ~listener_paused \/ pc = "stopped"

=============================================================================
