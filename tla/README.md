# kvsd in TLA+

kvsd is a single-threaded RESP2 key-value server. This directory models its
keyspace and the collector of dead keys, one client connection, the protocol
parser and the byte buffer under it, and the event loop with its listener; checks
them with TLC on small instances; and proves most of the safety properties, three
refinements among them, with TLAPS for every value of the constants.
Paths below are relative to the repository.

## 1. Inventory

| Part | Source | State | Operations |
|---|---|---|---|
| keyspace | `src/db/` | `map_`, `volatile_keys_`, the wall clock | lookup (with lazy expiry), set_string, erase, set_expire_at, persist, pttl, clear, active_expire_cycle |
| commands | `src/cmd/` | none of their own | SET GET INCR DECR DEL EXISTS TYPE EXPIRE TTL PERSIST DBSIZE FLUSHALL COMMAND PING ECHO QUIT |
| connection | `src/net/conn.h`, `on_conn_event` … `close_conn` in `src/net/server.cpp` | `in`, `out`, `parser`, `close_after_write`, `write_armed` | read, parse/dispatch loop, flush, close |
| listener, connection table | `src/net/server.cpp` | `conns_`, `listen_fd_`, `spare_fd_`, `listener_paused_` | start, accept, shed, pause, resume, add, close, tick, destructor |
| event loop | `src/net/event_loop.cpp` | `handlers_`, `retired_`, the batch, `running_` | add, remove, run, stop |
| poller | `src/net/poller_*.cpp` | kernel interest sets, `slot`, the size of `events` | add, set_write_interest, del, wait |
| RESP parser, writer | `src/resp/` | `state_`, `args_remaining_`, `arg_len_`, `argv_` | parse, encode, string_to_int64, format_int |
| byte buffer | `src/net/buffer.cpp` | storage, two cursors | ensure_writable, append, consume |
| process | `src/main.cpp` | `g_shutdown` | signal handler, argument parsing |
| sockets, logging | `src/net/socket.cpp`, `src/util/log.cpp` | none, log level | wrappers, output |

How they interact: the loop waits in the poller, then calls one callback per
event. A connection's callback reads once, parses and dispatches every whole
command against the keyspace, and writes what the socket takes. The listener's
callback accepts. After each batch the tick runs an expiry cycle and looks at
the shutdown flag. Everything runs on one thread, so what can interleave is what
the thread does not control: the clients, the kernel's socket buffers, other
processes that compete for open files, signals, and the clock, which moves
between any two readings inside one command.

What is hard about each part, and hard to test:

- **keyspace**: two tables that must agree on every path; several clock readings
  in one command; deadlines and counters at the ends of the integer range; a
  collector that must take exactly the dead; a clock that can be set back.
- **connection**: input cut anywhere, pipelining, a socket that fills in the
  middle of a reply, write interest armed by hand, a close that must wait for
  the output, an output limit inside a loop with several ways out.
- **event loop and listener**: descriptor numbers reissued within a batch,
  callbacks that remove themselves, descriptor exhaustion without spinning, a
  spare that can be lost, a pause that must end, a startup that fails half way,
  clients that could starve others, a signal at any moment.
- **parser and writer**: input cut at any byte, limits tested on what happens to
  have arrived, arguments that look like framing, integers at both ends.
- **byte buffer**: cursor arithmetic at its boundaries, moving against growing, a
  growth loop that starts from an empty vector.
- **collector**: a walk over a hash table that must be a fair sample, wraps
  around, and must neither miss dead keys for ever nor cost too much.

`PROJECT.json` lists these as hazards, each at its line.

## 2. Modules

| Module | Models | State ↔ code |
|---|---|---|
| `Keyspace` | class Db, all keyspace commands, the expiry cycle | `db.map` = `map_`, `db.volatile_keys` = `volatile_keys_`, `clock` = what `now_ms()` returned last, `round` = the cycle's round, `last` = the last command and its reply |
| `LiveStore` | the promise of the keyspace: a store whose keys vanish at their deadlines | abstract |
| `ActiveExpiry` | `active_expire_cycle` bucket by bucket | `chains` = the buckets of `volatile_keys_`; `due` = its keys whose deadline has passed; `round`, `bucket`, `scanned`, `sampled`, `doomed` as in the code; `place` = the iterator, in a bucket and then in `doomed_` |
| `Connection` | one client's connection, the client, both kernel buffers | `in`, `out`, `close_after_write`, `write_armed` as in `Conn`; `held` = the parser's place; `pc` = where the thread is in `on_conn_event`; `wire`, `queued` = the kernel's buffers |
| `Server` | startup, event loop, poller, listener, connection table, descriptors | `conns`, `handlers`, `retired`, `listen_fd`, `spare_fd`, `listener_paused` as in the code; `capacity` = the size of the poller's `events`; `fds` = the kernel's view of who owns which number; `batch` = events still to dispatch, each with the client it was reported for |
| `Resp` | `string_to_int64`, `format_int`, array headers and bulk strings, `split_inline` | pure operators over bytes |
| `RespParser` | `RespParser::parse` as `process_input` drives it | `state_`, `args_remaining_`, `arg_len_`, `argv_` as in the code; `in` = `Conn::in`; `ahead` = bytes not yet read |
| `WholeInput` | the promise of `parse()` to a caller that feeds it read by read: the decisions of a parser that has its whole input and never waits | abstract |
| `ParserReads` | `RespParser` implements `WholeInput` | the abstract `in` is `in \o ahead` |
| `ParserCuts` | two parsers side by side: one reads in pieces, one everything at once | `once_*` = the second parser |
| `ByteBuffer` | `Buffer` | `data`, `read_pos`, `write_pos` as in the code; `next` = the growth loop's variable; `credit` = what is left of a reservation |
| `ByteQueue` | the promise of `Buffer`: a queue of bytes | abstract |
| `KeyspaceProofs`, `KeyspaceRefinement`, `ActiveExpiryTable`, `ActiveExpiryProofs`, `ConnectionProofs`, `ServerProofs`, `ByteBufferProofs`, `RespParserProofs` | theorems and their lemmas | |
| `MC*` | instances for TLC | |

How they fit together. `Connection` treats its buffers as sequences, which
`ByteBuffer` justifies, and takes the parser's verdicts for granted, which
`RespParser` justifies byte by byte. `Keyspace` takes a sample to be any set of
volatile keys of the right size, which `ActiveExpiry` justifies
(`WalkIsASample`). `Server` knows only whether a connection's handler reads, and
whether it keeps the connection or closes it; what the handler does is `Connection`.

Choices that matter for reading them:

- A keyspace command is one action, because nothing else runs on the thread. Each
  `now_ms()` call in its handler is a reading of its own, in call order
  (`Readings`): that is how a deadline can fall in the middle of a command.
  `lookup` on an absent key does not read the clock; letting time pass there as
  well adds no behaviour that two commands could not show.
- In `Keyspace` a round of the expiry cycle is one step. The sample is any set of
  the right size, which covers every order of the hash table. In `ActiveExpiry` the
  walk looks at one key per step and `reclaim` erases one.
- Strings are words or integers. One value type exists, so WRONGTYPE cannot
  happen and is left out. Refusals that come before any table is touched are the
  action `Refuse`.
- A connection handler is cut at every system call and at every turn of the parse
  loop. A request is two units, so that reads can split it. `Reply` gives "big"
  commands two units so that sends can split a reply. After a protocol error the
  parser starts again on what the error left in the buffer, which may look like
  a command (`Garbled`).
- EXISTS and DEL read the clock once per argument, so `EXISTS k k` may answer 1;
  `LiveStore` allows for it. QUIT and protocol errors leave the parse loop before
  the output limit is tested, so `OutputBounded` speaks of connections that have
  not queued their last reply.
- `KernelClose`: closing a socket with unread input lets the kernel reset the
  connection and destroy replies under way.
- In `Server`, a connection's handler reads once if the event is readable and not at
  all if it is writable only, and then keeps the connection or closes it. A client's
  input is nothing, a request, its end, or a request and its end, which take two
  reads. A callback is the address it lives at, so a destroyed one can be reissued. `accept` can fail
  for want of a descriptor of the process (`Limit`) or of the machine
  (`SystemFiles`, shared with other processes). It begins where `main` has
  installed the signal handlers: `start()` may fail at any of its calls, and
  clients may connect and a signal may come before `run()`.
- `Wait` is the kqueue poller: reports per descriptor and filter, as many as the
  array holds, merged to one event per descriptor, which is readable if the read
  report was among them or a report carried `EV_EOF`. epoll's reports are the case in
  which no descriptor is reported for both.
- `EndlessSpec` in `MCConnection` has a step that is none of the system's: once the
  client has talked on after a QUIT or broken framing, requests over and done with are
  forgotten and the others renumbered (`Forget`). Such a client can then send for ever,
  and `MaxRequests` bounds only what is under way.
- In `RespParser` a read returns one byte per step for as long as it lasts, so
  every cut of every input is a behaviour. After an error the parser is not
  called again (that the server does call it is in `Connection`).
- A conversion that can refuse its argument (`StringToInt64`, `SplitInline`)
  returns the set of its results, empty or of one element.
- EXPIRE's second lookup may find the key gone, and its result is ignored;
  `LiveStore` therefore lets EXPIRE answer 1 and leave no key if the old deadline
  passes during the command.
- Definitions introduced by "Mutant:" are plausible bugs in the definition that
  follows. No specification uses them; substituted for it, each one makes the
  property named in `PROJECT.json` fail.

## 3. Runs

| Run | Instance | Shows |
|---|---|---|
| `keyspace` | 2 keys, 3 instants, a word and counters at the top of the integers, overflowing TTLs, sample size 1 | `TypeOK`, `VolatileIndexExact`, `OnlyExpiredVanish`, `DeadlineSticks`, `ImplementsLiveStore` |
| `connection` | 4 requests of all kinds, reads of 3 units, a send buffer of 1, limit 2 | `TypeOK`, `RepliesInOrder`, `NoStrandedInput`, `WriteInterestExact`, `OutputBounded` |
| `connection_live` | 3 requests at a time (`EndlessSpec`), limit out of reach, client may half-close | `LastReplyCloses`, `EveryCommandAnswered` |
| `server` | 3 clients, 4 descriptors, 5 open files, others take up to 4, all faults | `TypeOK`, `EventsReachTheirClient`, `CallbackAlive`, `DescriptorsAccounted`, `PausedMeansUnwatched`, `ReserveOrPause` |
| `server_live` | 3 clients, 4 descriptors, an event array that grows from 1 | `QueuedIsServed`, `InputIsServed`, `ShutdownStops` |
| `buffer` | calls of up to 2 bytes, 4 unread, storage of 1, 2, 4, 6 | `TypeOK`, `ImplementsQueue`, `GrowsOnlyWhenFull`, `ReservationCovers`, `CallsEnd` |
| `resp` | 10-bit integers, limits of 15, 7, 2 and 2, every input of `MCParserCuts` | `TypeOK`, `HeldBounded`, `CutsAgree`, `IntegersExact`, `AsMeant`, `CutsDoNotShow` |
| `expiry` | 4 keys, 3 of them in one bucket, samples of 2, 1 to 4 buckets | `TypeOK`, `WalkIsASample`, `MassExpiryDrains`, `DueIsCollected` |

What the less obvious ones show:

- `ImplementsLiveStore`: whatever lazy expiry and the collector have got round to,
  a client sees a store whose keys vanish at their deadlines.
- `CutsAgree`: the parser's verdicts do not depend on how TCP cuts the input, with
  one exception: an inline command of exactly `max_inline_len` bytes that ends in
  CRLF is refused if a read ends between the two, and accepted otherwise.
  `CutsDoNotShow` says the same decision by decision, as a refinement, and is the
  form that is proved; `CutsAgree` runs a second parser and compares where the two
  end up.
- `AsMeant`: what `format_int`, `array_header` and `bulk` write, and words quoted in
  every way, are read back as they were meant, arguments that contain CRLF, `*` or
  `$` included. `IntegersExact` compares `string_to_int64` with a definition by
  digit positions, over every ten-bit integer and every text of up to five
  characters of a small alphabet.
- `ImplementsQueue`: bytes come out of a buffer as they went in, through every
  move and growth. `ReservationCovers`: appends after an `ensure_writable` never
  move or grow anything until they have used it up.
- `DueIsCollected`: a dead key that has fewer than `sample_size` keys before it in
  its bucket is collected in time. One behind more live keys than that is never
  reached by the cycle and waits for a lookup.
- `LastReplyCloses`: the close that a QUIT or a protocol error asks for comes about,
  unless the client sends for ever. The exception is needed: what arrives while output
  is pending is still executed and answered, and TLC finds, if the exception is left
  out, a client that reads all the time and yet keeps `out` from draining.
- `InputIsServed`: one read per event and a growing event array are enough to serve
  everyone, without help from the order in which the kernel reports. An array that did
  not grow could be filled by a write report for ever, and the read report never come.
- `HeldBounded` speaks of the parser up to its first error. What a client sends after
  it, while the close waits for the socket, is read and kept in `Conn::in` besides.
- `ShutdownStops` covers a signal before the loop runs: `run()` sets `running_`,
  which would lose an earlier `stop()`, but the flag is read at the first tick.

Runs that end in a violation, because the code does not do what a comment or the
design document says:

| Run | What the code does | What is said |
|---|---|---|
| `connection_last` | after QUIT, later input is still executed and answered while the reply waits for the socket | `src/net/conn.h:27` |
| `connection_drain` | a half-close discards the pending last reply | `src/net/conn.h:28` |
| `server_paused` | a listener paused with no connection open is never resumed | `src/net/server.cpp:139` |
| `expiry_cost` | a round walks every bucket the table has ever had, for few remaining keys | `docs/DESIGN.md:481` |

A shutdown, too, closes connections whose output has not drained (`Stop` in
`Connection`), though `src/net/conn.h:27` and `docs/DESIGN.md:277` count it among the
closes that wait. No run is about this.

**Bounds.** `UnitMs` is 4, so TTL's rounding and the difference between EX and PX
show within a few instants. `IntMax` lies a little above the last instant, so a
TTL of one second overflows at some instants and fits at others. Two
keys are what the index, multi-key commands and a sample smaller than the index
need. In `Connection`, a read of 3 units ends inside the second request, a send
buffer of 1 splits a reply of 2, and a limit of 2 is met and exceeded by four
requests. In `Server`, three clients and at most three free numbers mean that a
number is reissued and that the last one is spent; `MaxAccepts` of 2 ends the
accept loop early, and an event array of 1 or 2 is too small for what is ready.
In `ByteBuffer`, an `InitialSize` of 1 and a `DoublingLimit` of 2 put both regimes
of growth within four bytes, and two kinds of byte show an exchange; the number
of calls is not bounded. In `MCParserCuts`, integers have ten bits because then,
as with 64, the longest text (`MaxDigits`) is as long as that of the largest
unsigned integer, and lines of all lengths around both line limits occur. In
`MCActiveExpiry` one bucket has more keys than a sample, and the table rehashes
twice. A cycle can take all its keys there, so that of `MassExpiryDrains` the case with
keys left over is covered by the theorem only. `Server` stops for good at shutdown, a
connection that is closed stays closed, and a parser that has read everything waits:
deadlock is not checked there.

**Fairness.** The loop thread runs on (weak fairness of `Serve`): the wait has a
timeout, and no handler blocks. `connection_live` also assumes that the client keeps receiving, without which no server could deliver; whether it sends,
stops sending or leaves is its own affair. `server_live` assumes nothing of
the clients. `buffer` assumes that a call once made runs on. `expiry`
assumes ticks, and that rounds start at every bucket again and again (strong
fairness of `StartRound`): the start is `rng_() % bucket_count` of a
`minstd_rand`, whose period runs through all its values. The paused listener waits for connections to close and
for open files to be given back, so `server_paused` assumes that clients leave
and other processes release what they hold (`RelievedSpec`), and shows that even
this is not enough.

## 4. Theorems

Proved with TLAPS for every value of the constants that the modules' named
assumptions allow (`KeyspaceAssumption`, `ConnectionAssumption`,
`ServerAssumption`, `BufferAssumption`, `RespAssumption`, `ParserAssumption`,
`ExpiryAssumption`). Each theorem listed in `PROJECT.json` states a property that a
run checks on a small instance, but for `IntegersRoundTrip`, which is about two pure
functions.

**Induction over data.** The library's induction theorems cannot be instantiated by
the installed provers, so where a recursive function matters the proofs do without
them. That the function exists is shown by extending one for smaller arguments
(`RepliesExist`, `TextExists`, `ReadExists`, `WordsExist`). That what it gives has a
property is shown on the least counterexample, which exists because the order of the
natural numbers is well-founded (`MinIs` and its like): the recursion leads from it
to a smaller one.

**Keyspace** (`KeyspaceProofs`, `KeyspaceRefinement`).

- `TypeCorrect` (`TypeOK`) and `IndexCorrect` (`VolatileIndexExact`), also for a
  clock that is set back, which the runs leave out (`StepBack`). The inductive
  invariant is `IInv == TypeOK /\ VolatileIndexExact`. It is needed whole: that a
  rewritten entry's deadline is in range depends on `TtlFits` (`DeadlineRange`), and
  that `set_expire_at` may add to the index without looking depends on the deadline
  not being `kNoExpiry`. One lemma per operation of Db says that it preserves
  `DbInv`; one per kind of command lifts that to the action.
- `OnlyTheDeadVanish` (`OnlyExpiredVanish`) and `DeadlinesStick` (`DeadlineSticks`),
  if the clock is not set back: what a command found dead at its first reading is
  dead at its last (`DeathIsFinal`, `ReadingsInOrder`). `EntryFate` says of every
  action what it can do to an entry; most can only keep it or collect it when dead
  (`Kept`).
- `DeadKeysNeverShow` (`ImplementsLiveStore`), if the clock is not set back and a
  second has more than two ticks (`UnitMs > 2`; it is 1000). TTL reads
  the clock twice; if the key dies in between it answers 0, which is the answer of
  the key's last tick only if that one is rounded down, and with a unit of two it is
  rounded up (`RoundsDown`). An
  entry's image under the refinement is itself while it lives (`Seen`); dropping
  the dead changes no image (`SeenCollect`), so lookups and rounds are stutters or
  the passing of time, and one lemma per command (`GetKeeps` … `DelKeeps`) shows its
  reply to be one that `LiveStore` allows during the command.

**Collector** (`ActiveExpiryTable`, `ActiveExpiryProofs`), for any keys, hashes and
sample size: `TypeCorrect`, `WalkSamples` (`WalkIsASample`) and the action property
`MassExpiry` (`MassExpiryDrains`). `ActiveExpiryTable` shows what insertion, rehash
and erasure do to a table in which each key stands once, in the bucket of its hash.
The walk's invariant (`WalkInv`) says which keys it has met: those of the buckets
behind it (`Behind`) and those in front of its place in the present one, once each
(`Passed`). When it has scanned as many buckets as there are, all are behind it,
however it wrapped around, which is what makes the sample whole. For the mass
expiry, the invariant (`MassInv`) counts: after r rounds in which every key was due, r samples
are gone or nothing is left (`Left`), and while `doomed_` is reclaimed, its keys up to
the present place as well.

**Connection** (`ConnectionProofs`): `TypeCorrect`, `InputNeverStranded`,
`OutputAlwaysBounded`, `WriteInterestCorrect` and `RepliesOrdered`
(`RepliesInOrder`). The last rests on `OrderInv`, which ties what has been consumed
to what the client sent: `in` and the kernel's buffer, laid end to end, hold the
second halves of exactly the requests not yet answered, in order (`TailsFrom`), so the
next command dispatched is the next one in the client's order and its reply goes
behind all others. Sends and receptions move the boundary between three pieces whose
concatenation stays the same. `WriteInterestExact` speaks of the
waiting loop only and is not inductive; `ArmedInv` says what `write_armed` means at
every point of the handler: exact outside parsing and flushing, a lower bound while
parsing, nothing while flushing.

**Server** (`ServerProofs`), for any number of clients,
descriptors and open files and any set of faults: `TypeCorrect`,
`EventsReachTheirClientAlways`, `CallbackAlwaysAlive`, `NoDescriptorLeaks`,
`PauseCorrect` and the action property `ReserveOrPauseAlways`. None of the
invariants is inductive alone. That an event reaches its client rests on a batch
having one event per descriptor and on a handler closing no descriptor but its own
(`BatchInv`). That the callback on the stack is alive rests on `retired_` being
cleared with an empty stack only (`CallbackInv`). That registering replaces no
callback rests on the tables agreeing. `RoomInv` counts the callbacks in use, and
so shows that the addresses the model provides never run out.

**Byte buffer** (`ByteBufferProofs`), for any sizes and bytes: `TypeCorrect` (the
cursors stay in order and in the storage), `GrowthIsTheLastResort`
(`GrowsOnlyWhenFull`), `ReservationHonoured` (`ReservationCovers`) and
`BufferIsAQueue` (`ImplementsQueue`). The invariant adds to the types what a call in
progress has achieved (`CallInv`) and that what is left of a reservation is
writable (`CreditInv`). The refinement rests on what compaction, growth and copying
do to the window between the cursors (`Window`, `SameWindow`).

**Parser** (`RespParserProofs`), for every input and all limits:
`TypeCorrect`, `CeilingsHold` (`HeldBounded`), `ReadsDoNotMatter` (`CutsDoNotShow`)
and `IntegersRoundTrip`. The types of the members come first (`ResumesProperly`);
that the commands handed over are made of bytes needs `split_inline` to yield words
of bytes for every line, through quotes and escapes, which is shown from the end of
the line backwards (`SplitType`). `IntegersRoundTrip` says for every integer width
that `string_to_int64` reads back what `format_int` writes: reading past the digits
of u gives u (`TextRead`), the accumulator does not overflow on the way
(`OneDigit`), and the negation in unsigned space is exact down to the smallest
integer (`Negated`). For `ReadsDoNotMatter`, the bytes on their way are laid behind the buffer: reading and waiting then
change nothing, and a turn that decides must decide the same with more bytes behind
the ones it saw. Where a limit cuts in before the end of a line is seen, that takes
an argument. A header line over its limit is longer than any number, so it is
refused either way; this needs `MaxHeader > MaxDigits + 1` (64 and 20 in the code),
one more than it may seem, because a `\r` that arrived alone counts as a byte of
the line. An inline line over its limit is too long either way, except for the
one whose `\r` made it so, which `WholeInput` therefore allows to be refused
(`RefuseAtLimit`).

Only model-checked, and why:

- all liveness, which is out of the prover's reach;
- `CutsAgree`, which compares two parsers over whole histories. `ReadsDoNotMatter`
  proves the same decision by decision;
- `IntegersExact`, whose reference adds up digits times powers with a fold over a
  set, of which the provers know nothing. `IntegersRoundTrip` proves that every
  integer is read back exactly; that nothing else is accepted stays with TLC;
- `AsMeant`, which is about whole requests, from the writer through the parser. Of it
  the integers are proved.

## 5. Not modelled, and the plan

Not modelled, and why:

- option syntax and arity of commands: they end in a refusal before any table is
  touched, which is one action (`Refuse`);
- the text of replies and errors, the one-line replies of the writer, `COMMAND`,
  peer names, logging: text only, nothing depends on it;
- argument parsing in `main.cpp`: it runs before there is any state;
- socket options, `SIGPIPE`: no effect on the state of the server;
- the `expired_count` statistic, which is only logged;
- failures of `set_write_interest`: a change of the interest in a registered
  descriptor has no realistic way to fail;
- the order in which the kernel reports more events than the array's largest size
  (4096) can hold.

Planned: `AsMeant` for a single bulk string, from `IntegersRoundTrip` and the lemmas
on the first CRLF of a buffer.
