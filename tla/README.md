# A verification of rivetxgo in TLA+

rivetxgo is a Go library: TCP connections with a goroutine each for reading and
writing (`rivetxcore/tcpx`), pools of reference-counted messages
(`rivetxcore/msgPool`), goroutines that serve a name (`rivetxcore/gox`),
buffered readers and writers that survive errors (`rivetxcore/bufiox`),
concurrent maps (`shardedmap`, `linkedmap`), small helpers (`syncx`, `arcswap`,
`vector`), and layers over SQL (`rivetxsql`) and HTTP (`ginx`).  This directory
holds TLA+ models of it, the TLC configurations that check them on small
instances, and proofs, checked by TLAPS, of what holds for every instance.

Run a check with `tlc -config X.cfg MCModule.tla`, a proof with
`tlapm X_proofs.tla`.  `PROJECT.json` names every run with its properties, the
source lines each definition models, the hazards, and the mutants: for each
property a plausible bug of the code, written as an operator beside the
definition it replaces (its comment says "mutant"), that breaks it.

## 1. Inventory

| Part | State | Operations | Interacts with | What is hard |
|---|---|---|---|---|
| `tcpx.ConnService` (tcp.go 228-1128) | two channels of messages, context, `IsQuit`, `TypeClose`, the buffered writer, flush timer | `Run`, `Write`, `Read`, `ReadChan`, `checkTimeout`, `QuitFunc`, `(Try)WriteChan(Ref)`, `(Try)WriteToReadChan` | msgPool (custody of messages), bufiox.Writer, the Servicer's callbacks, the context of its Service | five goroutines and any number of callers; channels that are closed while senders are about to send; a drain; reasons overwritten without a lock; bytes that stay in the buffer |
| `checkTimeout` (tcp.go 498-594) | byte counters and their copies, counted time, two flags | one check an interval | reader and writer that count bytes; QuitFunc | flags and time remembered between checks |
| `tcpx.Service`, `ListenTcp`, `DoConnectTcp` (tcp.go 74-226) | listener, context, WaitGroup, the shared `Config` | listen, accept, dial, `Close` | starts ConnServices; its context ends them | connections accepted while it closes; a Config replaced between the two reads of a dialled connection, so that its Add and its Done are on different groups; a dial after the quit |
| `msgPool` | pools by size class, a reference count a message | `GetMsg`, `Init`, `GetData`, `Clone`, `Put`, `NewMsgFromBytes`, `SetMsgPoolFlag` | every user of messages | test and addition in two steps; reuse while referenced; size classes |
| `gox.UniqSpawns` | one goroutine and channel a name, pooled wait channels | `UniqSpawn(isWait)`, context | callers' functions | racing registration; stale wake-ups; panics |
| `gox.BatchSpawns` | a slice under a mutex, signals | `Add`, `Flush`, `Close`, ticker | `Func` | dropped and merged signals |
| `gox.ListSpawns` | a channel | `Add`, `Close` | `Func` | a Close among the data; producers left blocked |
| `gox.TimerSpawns`, `Spawn`, statistics | - | - | every goroutine is started by `Spawn`, which recovers its panic | - |
| `ShardedMap` | shards with a lock each, one counter | `Load`, `LoadOrStore`, `LoadAndDelete`, `Size` | callers | double-checked locking; a counter outside the locks |
| `LinkedMap` | a sync.Map, a list under a mutex | `Add`, `Load` | callers | two structures never changed together |
| `TaskGroup` | WaitGroup, context, Once | `Quit(isWait)`, `Add`, `Done`, `Wait` | tasks | who waits for whom |
| `bufiox.Writer` | a buffer, a kept error | `Write*`, `ReadFrom`, `Flush`, `ResetErr`, `Reset` | an underlying writer that fails half way | use after an error |
| `bufiox.Reader` | a buffer, a kept error, what was read last | `Read*`, `Peek`, `Discard`, `Unread*`, `WriteTo`, `ResetErr` | an underlying reader | errors that come with bytes; unread after a line; use after an error |
| `rivetxsql` | builders; a pool of connections; caches | paged, keyset, chunked statements | a database that others change | pages of a moving table, ties, partial batches, a second connection taken while holding a first |
| `ginx.Server` | an http.Server | `Listen`, `Stop`, `HttpJsonResp` | gin, net/http | a Stop before Listen; what is answered after a panic or an answer that cannot be marshalled |
| `ArcSwap`, `Vector` | one pointer; one slice | as their names say | callers | a lost compare-and-swap; bounds |
| `session`, `limitx`, `recoverx`, `utilx`, `config`, `log`, `rivetxexample` | - | start-up, logging, a counter | - | - |

What makes each part correct:

* a connection: an accepted message has one owner and is put back exactly once,
  whatever quits first; callers, `Run` and `Service.Close` return; the servicer
  is told why the connection closed; written bytes go out;
* timeouts: no live connection is closed, and every dead one is, in time;
* a service: a `Close` that returns has waited for what it accepted, and every
  `Close` returns, but for connections whose Add and Done went to two groups;
* message pools: the count is the number of references; a pooled message is nobody's;
* the spawns: one goroutine a name; order kept; nothing lost, doubled or left
  without a signal; waiters woken by their own function;
* maps: atomic operations; a counter that can be relied on; an eviction bound;
* reader and writer: the stream is exact whatever fails; lines are whole;
* select: the pages add up to the one query they stand for, and a keyset neither
  skips nor doubles a row, though the table changes under it;
* statements: a trim takes no row that should be kept, a call reports what it did,
  and callers that share a small pool all return;
* the helpers: a `Quit` returns; a pointer is stored once; success is told only
  of a success; no vector writes into the array of another.

## 2. Modules

`X.tla` is a component, `X_proofs.tla` its theorems, `MCX.tla` an instance for
TLC.  `Spawns`, `Maps`, `Bufio`, `Helpers` and `Sql` are benches of several
components that do not interact: the variable `which` picks, in the initial state,
the one whose turn the behaviour is, and the others stand still, so that one run
explores each alone (`Parts` of `Sql` says which of its two).  A bench EXTENDS one
of its components and INSTANCEs the others, each with its own specification, of
which the theorems speak: `Batch!Spec => []InOrderOnce` is about `BatchSpawns`
alone.  The instances' variables are renamed where names clash (`spc` is the `pc`
of `PagedSelect` in `Sql`), and what is assumed of their constants is stated in
the bench.

| Module | Models | Actions correspond to |
|---|---|---|
| `ConnService` | one TCP connection with its goroutines and callers | steps of a caller (`Enter` .. `SelectSend`, parking on a full channel), of the pump (`WriteTake`, `WriteStop`), reader, `ReadChan`, `checkTimeout` (its decisions a free choice), of the body of `QuitFunc`, of the closer and of `Run` with its drain. A message is the call that offered it. Tests and assignments of `TypeClose` are separate steps, as no lock joins them |
| `CheckTimeout` | the timeout goroutine with its arithmetic | one check is `Wake`, a look at each counter, and the decision; time passes in the sleep; bytes are counted at any moment |
| `Service` | listeners and dialled connections on a shared `Config` | Accept, Add, the start of a connection's goroutine, each of its reads of the Config, its end; the steps of Close. `sync.WaitGroup` is a counter whose Add wakes the parked Waits when it becomes zero (`Count`), and panics below zero; a Wait that is woken looks again (`Woken`) |
| `MsgPool` | message objects, their counts and pools | each function, cut where another goroutine can see it: test and add of `Clone`, subtraction and pool of `Put`, taking and `Init` of `GetMsg` |
| `UniqSpawns`, `BatchSpawns`, `ListSpawns` | one name each | calls, registration, the goroutine's receive, call and exit; `BatchSpawns` holds the ticker and the signals |
| `ShardedMap` | the map with its locks and counter | the look under the read lock is a step, as are lock, change, count, unlock of the write side |
| `ConcurrentSet` | what `ShardedMap` promises: each call takes effect at one instant | the call, the instant, the return |
| `LinkedMap` | map and list | LoadOrStore, lock, list work, map delete, unlock |
| `BufioWriter` | the writer over a failing one | a step is a call, or a turn of the loop of `Write` and `ReadFrom`; bytes are numbered in the order they are offered |
| `BufioReader` | the reader over one that gives what it likes, errors too | a step is a call, or one `fill`; bytes keep their kind (carriage return, newline, part of a rune) and their place in the input |
| `PagedSelect` | `SelectRaw` and `execOrderFieldSelect` | a step is the start of a call or one query of a page; rows come and go before any query |
| `Statements` | insert, update, delete in chunks, and `execReserveSize`, on one pool | taking a connection, the statement, its result; a trim's `SELECT` keeps its connection while its deletes take another; a context expires |
| `TaskGroup` | Quit, Wait, Add, Done, the Once, the context | the steps between which another goroutine can run |
| `ArcSwap` | `LoadOrStore` against other stores | Load and CompareAndSwap are a step each |
| `HttpServer` | Listen, Stop, and how `HttpJsonResp` decides its answer | one step for each moment another goroutine can see; gin and net/http as they are used |
| `Vector` | slices with methods, on arrays that vectors may share | one method a step |
| `Spawns`, `Maps`, `Bufio`, `Helpers`, `Sql` | benches: the three spawns; the two maps; writer and reader; `CheckTimeout`, `TaskGroup`, `ArcSwap`, `HttpServer`, `Vector`; `Statements`, `PagedSelect` | the actions of the component whose turn it is |

How they fit together.  `ConnService`, `CheckTimeout` and `Service` are three
views of one system.  `ConnService` leaves the decision of a timeout open,
`CheckTimeout` justifies it; `Service` takes of a connection only that it starts,
ends when its context does and then returns from `Run`, which is what `conn_live`
checks of `ConnService`.  `ConnService` relies on `BufioWriter` only for "bytes
are buffered or not, an error is kept or not".  `BatchSpawns` and `ListSpawns`
register a name as `UniqSpawns` does, so that the racing registration is modelled
there only.  `PagedSelect` and `Statements` meet in the table, which each lets
others change.

## 3. Runs

| Run | Instance | Shows |
|---|---|---|
| `conn_write` | three callers (one non-blocking), capacity 1, the pump and Run's drain, senders as slow as they like | `OneOwner`, `NothingLeft`: an accepted message is queued, in a hand or put back, once; `ParkedNeverPanics`: a caller parked on a full channel is woken with a refusal |
| `conn_close` | a caller of each channel, the `ReadChan` goroutine, a Service that may quit, write errors, a timeout, `SlowSenders = FALSE` | `NoSendOnClosed`: the closer's sleep is what keeps a late sender from a panic (with slow senders, in `conn_write`, the panic happens and the properties still hold); `NoStuckBytes`: what the pump leaves buffered has a timer |
| `conn_live` | one message, read errors, a Service that may quit | `QuitReturns`: after a quit of the connection or of its Service, Run returns |
| `service` | two listeners on one Config, two connections accepted or dialled, panicking `callFunc` | `CloseIsFinal`: what a `Close` has not waited for is at most as much as had its count taken away by Dones that belonged to another group; nothing at all while no Config changes between two reads. `CloseReturns`: a `Close` returns if every listener is closed in the end, but for a Config replaced between the two reads of a connection on the group (`Crossed`), or a dial after the quit that makes Wait panic |
| `msgpool` | three holders, two objects, sizes 0, 4, 5, 8, 9 around blocks of 4 | `CountIsHolders`, `NoPanic`; `DataStable`: a message that somebody holds is not initialised again, not even with the size it has |
| `spawns` | `UniqSpawns`: four calls, three wait, one panics, two wait channels. `BatchSpawns`: three data in batches of two, a Flush, a Close. `ListSpawns`: two producers, two Closes, one slot or none | `OneAtATime`, `WaitsForItsOwn`, `CallsReturn`; `InOrderOnce`, `FlushCovers`, `AddedIsHandled`, `LastCloseEnds`; `CloseIsACut`, `SentIsHandled` |
| `maps` | `LinkedMap`: three callers, five keys, a list of two. `ShardedMap`: three callers, three keys, two shards | `ListMirrorsMap`, `AddedIsFound`; `SizeIsCount`, `CallsAreAtomic` (refinement of `ConcurrentSet`). `ASSUME`s check `nextPowerOfTwo` against its definition, and `getShard`'s mask against the remainder that the model takes |
| `bufio` | Writer: a buffer of 3, runes of up to 4, writes of up to 5. Reader: a buffer of 3, inputs of 5, up to two errors | `StreamIsExact` of the writer, `ReadsAreExact` and `LineIsWhole` of the reader |
| `unread` | the Reader of `bufio` with `UnreadByte` after a `ReadLine` that put a carriage return back | *violated*: `UnreadIsTheLastRead` (section 5) |
| `helpers` | `CheckTimeout`: interval 2, slack 1, timeouts 4 and 3, both modes. `TaskGroup`: a task, three calls. `ArcSwap`: three racing calls. `HttpServer`: two requests, a Stop. `Vector`: two vectors, three arrays | `TimeoutIsSilence`, `GivenUpInTime`; `QuitReturns`; `StoresOnce`; `SuccessIsHonest`, `StopIsFinal`; `HoldsItsOwn` |
| `select` | 28 kinds of call over any table of four rows, two of which tie | `ResultAddsUp`, `KeysetIsExact`, `SelectReturns` |
| `sql` | two trims that keep two rows, an insert in two chunks, a delete or an update, on a pool of two | `ReportIsTrue`, `NewestKept`, `CallsReturn` |

The `TypeOK` of the three spawns and of `ShardedMap` states the types of their
variables and is in no run: what could go wrong there is in the runs' other
properties.

### Bounds

* Callers of a connection: three, so that one can overtake two that hold each
  other up; one a channel where the question is what the connection's own
  goroutines do (`conn_close`, `conn_live`).  Capacity 1 is the smallest a
  channel can have that both buffers and is full.
* `service`: two connections, each of which may be accepted, by either listener,
  or dialled, before there is a listener, at once or after a Close began: one
  whose Done goes astray, and one that holds the group meanwhile.  Two services
  share what they can only share through the Config; one caller of Close.
* `msgpool`: two objects let one be reused while the other is shared; the sizes
  lie on, below and above a class boundary and past the last class, and two of
  them (5 and 8) are of one class.
* `spawns`: two wait channels, fewer than the calls that wait, so that one is
  reused; four calls, so that two race to register and two find a goroutine.
  Three data are a full batch and one more; the Flush and the Close fill the
  signal channel, so that the signal of a full batch finds no room.  With two
  Closes one of them, or a datum, is left behind the cut; a list of no slots makes
  a send and a receive one step.
* `maps`: three callers with a list of two let an eviction take a key that another
  caller has just pushed; five keys let it be added again meanwhile.  Two of the
  three keys of the sharded map share a shard.
* `bufio`: a buffer of 3 holds the runes of 1 to 3 bytes and not one of 4;
  `MaxWrite` 5 is more than the buffer, so that the loop of `Write` turns;
  `MaxStream` stops new calls after twice that.  The reader's inputs are longer
  than its buffer, with a carriage return where it can be the last of a full one
  and runes cut by its end; `MaxFaults` 2 lets an error be kept, reset and met
  again; `MaxEmpty` 2 stands for the hundred empty reads after which the reader
  gives up; `MaxArg` 4 is the longest argument.
* `helpers`: `MaxSilence` 14 is beyond the longest time a timeout takes; `Slack`
  is how late a sleep may wake; the write timeout is no multiple of the interval.
  `MaxClears` 2 makes a pointer nil again under a call that has seen it set.  With
  three arrays two vectors can hold one each and one can grow; `MaxLen` 3 is the
  longest array.
* `select`: pages of one and two make a limit of four take up to five queries;
  chunks of two split an IN condition of three values; the calls are those that
  the code treats differently, among them the two it refuses and the one whose
  statement is malformed.  `NoLimit` stands for `math.MaxInt32`: more than the
  table has rows and a call names values.
* `sql`: a pool of two, both of whose connections the two trims may take, and a
  trim's deletes need one more; batches of one so that a trim deletes in several
  statements; eight ids for four rows and two inserts that reach them.

### Deadlock

`CHECK_DEADLOCK FALSE` stands where the system may really stop: the calls of the
instance are finite and each is made once (`spawns`, `service`, `select`, `sql`,
`bufio`, `helpers`), a caller of `UniqSpawn` may wait for a function that panicked
or was dropped by the context, and the checker of timeouts ends.  In `ConnService`
a named stutter, `Terminated`, is the only way to stop, so the check for deadlock
is on and says that nobody is left waiting; it is on in `msgpool` and `maps` too,
where callers call for ever.

### Fairness

Weak fairness of a goroutine's next step says that the scheduler runs it and that
callbacks return.  Where each goroutine takes finitely many steps, one weak
fairness of all their steps together says the same (`UniqSpawns` `GoesOn`).
Beyond that:

* `ConnService`: a socket is sure to return from a read or a write only after
  `Conn.Close`: before that the peer may be silent for good.  Nothing makes a
  timeout fire or a quit happen.
* `BatchSpawns` `Receive`, `ListSpawns` `SendersGoOn`: strong fairness.  A
  Go select picks at random among the cases that are ready, and a channel serves
  its waiting senders first come first served.
* `Service`: a connection obeys the context it waits for and need not end without
  it.  `Accept` is sure to fail only once its listener is closed.
* `TaskGroup`: a task ends once the context is done, as tasks are told to.
* `PagedSelect`: the call goes on; others may change the table for ever.
* `Statements`: each caller goes on by itself, and its context expires while it
  waits for a connection (every call gives its statements a timeout).

## 4. Proofs

TLAPS checks these for every value of the constants, from the assumptions named
in the modules (capacities and sizes are positive naturals, markers such as
"none" are no callers, callers of the two channels are distinct, an interval is
positive, connections and callers are finitely many, a table and an IN condition
are smaller than `math.MaxInt32`, there are more arrays than vectors, the calls of
a SELECT are what its builder can build, an insert or update has rows, as the code
returns early without).

| Module | Theorems | The argument |
|---|---|---|
| `ConnService_proofs` | `TypeCorrect`, `MessagesHaveOneOwner`, `RunLeavesNothing`, `ParkedSendersAreLive`, `ParkedNeverPanic`, `PromptSendersNeverPanic`, `CloseHasReason`, `ReasonStays`, `BytesGoOut` | Custody ties the program counter of a call to where its message is: a call has answered true exactly if its message is in the channel, in a worker's hand or was put. Sends, receives (which let a parked sender in) and the drain move it from one to the next. `RunLeavesNothing` needs that a channel is closed only after the cancellation, and that nobody is parked on a closed one |
| `MsgPool_proofs` | `CountIsExact`, `PooledIsNobodys`, `ContractNeverPanics`, `HeldDataStays` | `RefCount` is the number of holders plus those between two steps of `Clone` or `Put`; an object in a pool has neither |
| `Service_proofs` | `CloseAlwaysFinal` | no assumption on when a Config changes. A counter is the Adds less the Dones on its group, whosoever called them (in `TypeOK`); at zero, those added and not done are no more than the Dones of strangers (`Balance`, `ZeroIsEnough`). Who waits has quit and closed the listener before, so that from a Wait's wake-up on nothing is accepted, a dial is late, and the balance goes on (`Closing`, `Final`, `StaysFinal`) |
| `Spawns_proofs`: `UniqSpawns` | `AlwaysOneAtATime`, `AlwaysWaitsForItsOwn` | what was accepted is what was started followed by the channel of the registered goroutine, and a call is in it once; a wait channel is held by one call, and a token in it is the answer to the call that holds it |
| `BatchSpawns` | `AlwaysInOrderOnce`, `FlushAlwaysCovers` | what was appended is what `Func` was given, the batch in hand and the slice, in this order; what a received signal is to cover is appended when it is received, in hand or handled once the goroutine has taken the slice, and handled when it is done |
| `ListSpawns` | `CloseIsAlwaysACut` | what was accepted is what `Func` was given, the datum in hand and the channel; a nil can only be the last that `Func` was given; what a call found accepted is accepted before the call itself |
| `Maps_proofs`: `LinkedMap` | `TypeCorrect`, `ListMirrorsMapAlways`, `AddedIsFoundAlways` | who holds the mutex is the only one past the lock; a key on the list is in the map, a key in the map is on the list or in the hands of a caller |
| `ShardedMap` | `SizeIsAlwaysCount`, `CallsAreAlwaysAtomic` | whoever changes a shard holds its lock, so that what the look under the lock saw is still so; counter = keys - stores to be counted + deletes to be counted. The refinement maps a call to "called" until its look or its change, its instant, and to "done" from there: each step is an atomic call, its answer, or a stutter. Any number of shards |
| `Bufio_proofs`: writer | `TypeCorrect`, `StreamIsAlwaysExact` | what the underlying writer took, then the buffer, is what was accepted, through every turn of the loops |
| reader | `ReadsAreAlwaysExact`, `LinesAreAlwaysWhole` | what callers have is a beginning of the input, the buffer is what comes next, `lastByte` is the last that was handed out (so that `UnreadByte` restores the place before it), a kept error is no earlier than the end of the buffer, and the part of a line or slice a call holds has no delimiter. Assumes `~Unreads`: no `UnreadByte` straight after a `ReadLine` that put a carriage return back, with which the stream is not exact (section 5) |
| `Helpers_proofs`: `CheckTimeout` | `TypeCorrect`, `TimeoutIsAlwaysSilence`, `AlwaysGivenUpInTime` | time is added at the end of a sleep, so the invariant adds the sleep under way to the counted time: counted time + sleep <= silence, unless bytes came that no check has seen. From the other side, a silence in which n checks were made is at most (n + 1) * (Interval + Slack) and the sleep under way, and a direction not yet taken as timed out has counted less than its timeout, so that n is bounded |
| `ArcSwap` | `AlwaysStoresOnce` | a call that is told it stored has made the pointer leave nil, which happens at most as often as it became nil |
| `HttpServer` | `SuccessIsAlwaysHonest`, `StopIsAlwaysFinal` | a reply is a function of what was read and of where the callback stopped; once shut, a server accepts nothing and a Stop waits for what runs |
| `Vector` | `AlwaysHoldsItsOwn` | two vectors have the same array only if one was made to share it; an operation writes into the array of its vector, or into one that no vector has (a lemma counts them: there is one) |
| `Sql_proofs`: `Statements` | `NewestAlwaysKept`, `ReportIsAlwaysTrue` | the boundary a trim holds has `ReserveSize` rows above it for as long as no row but those at or below a boundary is taken by a trim; assumes `NoTies`: no two rows have the same `reserveField` (with ties it is false of the code, section 5). What a call reports is the size of what it did, as the chunks of its data do not overlap and the ids of an insert are new; assumes `NamedOnce`: an update names each row once (it counts one that is named twice twice) |
| `PagedSelect` | `KeysetIsAlwaysExact`, `ResultAlwaysAddsUp` | keyset: a row that stays and was not returned ties, lies before the first row, or lies beyond the last one, where the keyset goes on, whatever came and went behind it. Pages by offset: there is one ascending listing of rows that the order tells apart (a row's place is its rank), so that the pages of different queries are parts of one sequence, and rows so far and rows to come make up the limit. Chunks: the values of the chunks up to the present one are those before a place in the list, so that a new chunk's rows have values of their own |

The exemptions of a property are behaviour of the code, which section 5 tells and
`PROJECT.json` names in the notes of the hazards: there is nothing in the code to
hold it to.

The invariants were checked by TLC before they were proved, in an equivalent form
where one quantifies over what TLC cannot enumerate (`OrderedParts` speaks of any
`t` that lists the table).

Only proved, and in no run: `ParkedOnLive`, `CloseTold` (the servicer is told a
reason), `NeverAlive` and `PumpFlushes` of `ConnService`, `IdleIsUnshared` of
`MsgPool`, and the `TypeOK`s.

Only model-checked: liveness, all of it (TLAPS has no ENABLED here): `QuitReturns`
of a connection and of the `TaskGroup`, whose only property it is, `CloseReturns`
of a Service,
the `CallsReturn`s, `AddedIsHandled`, `LastCloseEnds`, `SentIsHandled`,
`SelectReturns`; and `nextPowerOfTwo`, whose recursion is evaluated on small
arguments: the proofs about `ShardedMap` use only that it is positive.

## 5. Behaviour to know of

One run contradicts a comment of the code.  `unread`: after `ReadLine` has filled
the buffer with a line whose last byte is a carriage return, it puts that byte
back (bufio.go 419), but `lastByte` still holds it.  `UnreadByte` then steps back
over one more byte and overwrites it with the carriage return, which the next line
has twice.  The comment at bufio.go 405 says that `UnreadByte` after `ReadLine`
"will always unread the last byte read".  (Go's own bufio does the same.)

What else the models allow, and a reader should know of:

* A sender that is descheduled between its test of `IsQuit` and its send for
  longer than the closer sleeps panics on the closed channel.
* A timeout callback that panics ends the connection's checks and nothing else:
  it never times out.  Nor does one with `IsUnidirectionalTimeout` off and one
  timeout 0.
* Two services that were given one `Config` share the context of the second, so
  that the first one's `Close` waits for the second's (the premise of
  `CloseReturns`).
* A `ListenTcp` between the two reads of `config.WaitGroup` in `DoConnectTcp`
  (tcp.go 196 and 202 or 213) makes its Add and its Done be on different groups.
  The first group is never empty again and its `Close` hangs; the second loses a
  count that is another's, so that its `Close` returns with a connection or the
  acceptor running, or an Add or a Done panics.  A group that was nil at the first
  read and is not at the second loses a count too.
* A dial whose Config has the group of a service that quit is not waited for; it
  may make a `Wait` that is being woken panic.
* A `callFunc` that panics leaves its socket open for good.  No goroutine is left
  and the count is released, but no property is about sockets.
* A `Service.Close` from a callback of one of its connections waits for itself.
* A caller of `UniqSpawn` with `isWait` whose function panics waits for ever, and
  a panic of `Func` ends the goroutine of a `BatchSpawns` or `ListSpawns`: what is
  in it then is not handled.
* The signal of a full batch is dropped when the signal channel is full; the data
  go with the next one, or with the ticker.
* A `LinkedMap` can hold as many keys beyond its `maxSize` as there are callers
  between the store and the lock.
* `TaskGroup`: a task that calls `Quit` while a `Quit(true)` waits for it hangs
  (`Embrace`), and so does one that calls `Quit(true)` or `Wait` itself
  (`WaitsForItself`); these two are the exemptions of `QuitReturns`.  A `Quit(false)` that came first makes
  every later `Quit(true)` return without waiting.
* `ginx.Server`: a `Stop` that does not see the server `Listen` is about to make
  does nothing, and the server runs on; when an answer cannot be marshalled, nor
  the error told instead, an empty body is sent.
* `bufiox`: `ResetErr` makes a writer or reader that has failed go on, of which its
  comments, kept from Go's bufio, say nothing; the streams are exact.  `ReadLine`
  returns a line that an error cut off without the error, which the next call gets
  (or nobody, after `ResetErr`).
* A keyset skips the rows that tie with the last one of a page (the exemption in
  `KeysetIsExact`); with fixed columns and no condition its statement has two ANDs
  and fails.
* A trim deletes all rows that tie with its boundary, so that fewer than
  `reserveSize` may stay (`NoTies`).
* A trim holds a connection by the rows of its SELECT while its deletes wait for
  another one: on a pool of one it always times out, and as many trims at once as
  the pool has connections wait for each other until their contexts expire.
* `LastInsertId` and the ids derived from it mean nothing after IGNORE or ON
  DUPLICATE KEY UPDATE.
* A batch that fails leaves the chunks before it in the table: there is no
  transaction around them, and the error takes the place of the totals, so that
  only its text tells how far the call came.

## 6. Not modelled

* Formatting, logging and statistics; bytes of messages (their identity and
  length are kept where a property tells them apart).
* `CheckTimeout`, `ConnService`: the counters' data races.  Each is written by
  one goroutine and read by one other, which may see it late: `Slack`, and the
  bytes of `Traffic` that come after the look, stand for that.
* A callback that calls back into its own connection's `Run` or its
  `Service.Close`: by the shape of the code it waits for itself.
* `Service`: the instant between the two assignments to the Config in `ListenTcp`.
  Nobody can close the new service before `ListenTcp` returns, so that a
  connection that reads the new context there and one that reads the old group
  after it do what they could do in the other order.  Nor the instants within one
  Add, Done or Wait of a `sync.WaitGroup`, with which it detects, sometimes, that
  an Add races a Wait, and panics; a panic the model has anyway for a counter below
  zero and for a Wait that finds it raised again.
* `gox.TimerSpawns` calls a function by a ticker and shares nothing;
  `gox` statistics are single atomic additions for a log; `session` is one atomic
  counter.  No two steps of these can be out of order.
* `rivetxsql`: the metadata caches hold what is a function of a type, so that
  racing fills store the same.  The cache of auto-increment columns (util.go 239)
  goes stale when a table changes, and its key joins the names of database and
  table; nothing in the repository calls it, so that there is no behaviour to
  state a property of.  Text of statements, reflection and scanning are data.
  Opening and closing a `sql.DB` are calls into the library.
* `gox.Spawn` is the recover around every goroutine: in each module a panic ends
  the goroutine and nothing else; its log is left out.
* `ginx.Server`: gin's routing, headers and the log of a request.
* `limitx`, `recoverx`, `utilx`, `config`, `log`, `rivetxexample`: calls at the
  start of a program, conversions without a copy, names of loggers, a program that
  runs the integration tests.

## 7. Plan

All components with a protocol of their own are modelled, and every safety
property of a passing run is a theorem.  What would add most from here:

1. A composition of `Service` with an abstract connection that `ConnService` is
   shown to implement, in place of the argument of section 2.
2. `LinkedMap` without its bound as an implementation of `ConcurrentSet`, as
   `ShardedMap` is.
3. `BatchSpawns` and `ListSpawns` as implementations of one abstract queue that a
   goroutine drains.
4. `PagedSelect`'s keyset as a refinement of a scan that remembers its place.
