# TLA+ verification of XbeeAssignment

The program runs on a Raspberry Pi. It asks a remote XBee node for temperatures
through a local XBee module on a serial line, and hands the results to another
process over a TCP connection. It is small, but nearly everything in it runs in
threads of its own, without much to keep them apart. These modules say what the
threads can do to each other and what is nevertheless guaranteed.

## 1. Inventory

| component | state it keeps | operations | interacts with |
|---|---|---|---|
| exchange engine (`XBeeHandler.cpp`) | `serial_fd`, `recieve_mutex`, `global_retries`; per thread: `retries`, the read buffer | `init`, `send` (starts a detached thread), `exchange_thread`, `receive` | the tty, the console (calls `send`), callbacks |
| console (`main.cpp`) | `human_cmd`, the endless loop of the auto run | commands `t 0 1 a b c q`, `get_temp_callback` | calls `send` and `Tx`; the callback runs in the exchange's thread |
| socket receiver (`socket.cpp`: `InitRx`, `RxListen`, `Rx`, `DestroyRx`) | `ClientList`: per connection two buffers and three flags; `rx_socket_desc` | listening thread; callback, or polling with `Rx`; set-up and destruction while it runs | peers; the application |
| socket sender (`Socket.cpp`: `InitTx`, `TxReconnect`, `Tx`, `DestroyTx`) | `tx_socket_desc`, `tx_is_connected` | connect again and again in a thread; send from any thread; destruction by the exiting `main` | a peer; `Timer` in `InitTx` |
| timer (`timer.cpp`) | `Monotonic` (shared), `mode`, `start`, `timeout` per object; `AbsTimer` in the thread | `Set`, `Timeout`, `Remain`, `Pause`, `Elapsed` and its conversions, the counting thread | polled by whoever waits; the system's clock |
| message definitions (`messagedef.cpp`) | a growing table, shared by all objects, and `Initialized` | constructor, `Add`, `GetName`, `GetId`, `IsValid`, `CanHighendSet` | none |
| wrappers (`thread.cpp`, `syscall.cpp`, `fileio.cpp`) | none | one call each | the system |

`socket.cpp` and `Socket.cpp` have the same text; the receiver is read from the
first, the sender from the second.

What is hard about it:

- **exchanges overlap**: every `send` is a thread; the mutex that should line them
  up is unlocked twice; replies that come late meet another request's thread;
  `tcflush` and `read` take whatever is there;
- **retries**: an unsigned counter that wraps around at 0, lost and split frames,
  answers to attempts that were already given up;
- **load**: the auto run adds a thread every 4 seconds, and one exchange that fails
  holds up the line for longer than that;
- **the receiver's ready buffer** passes between two threads by a flag, and the
  list may be cleared under the listening thread;
- **the sender's descriptor** is tested by one thread, used by it later, and
  closed or replaced by another in between; the peer comes and goes; `DestroyTx`
  takes part in this without asking anybody;
- **the timer's counter** wraps around, its values go through an `int`, objects may
  start from whatever their memory held, and the clock that drives the counter may
  be set;
- **the message table** may be refused memory at every growth, which nobody notices.

The hazards are listed one by one, with their lines, in `PROJECT.json`.

What makes each component correct:

- exchange engine: one exchange at a time; a callback at most once per request,
  with a frame nobody else had, never after giving up; the promised number of
  attempts; every exchange ends;
- console: no more threads wait than failures explain, and none once failures stop;
  a sample becomes a temperature exactly in the sensor's range; the callback never
  reads a byte that is not there;
- receiver: with a callback, packages whole, in order, without loss, eventually, and
  no buffer overrun; for an application that polls, none cut or overtaken; nothing
  more after a `DestroyRx` that no connection overlaps;
- sender: no descriptor lost before `DestroyTx` and few by it, losses noticed, connected again, and a `send` that
  fails does not cost the process;
- timer: exact as long as the counter has not come round, never early, elapsed
  times that add up to a millisecond, loops that wait for it end, and a clock that is set back does
  not stop it;
- message definitions: a message keeps the meaning it was first given, whatever
  else was refused, and the table stays within its memory.

## 2. Modules

| module | models | built on |
|---|---|---|
| `XBeeHandler` | exchange engine, tty, XBee module | |
| `ExchangeService` | what `send` promises (abstract) | |
| `XBeeRefinement` | the mapping of the first to the second | `XBeeHandler`, `ExchangeService` |
| `XBeeHandler_proofs` | theorems on the threads, the mutex and the retry counter | `XBeeRefinement` |
| `XBeeRefinement_proofs` | theorems on the frames and on the refinement | `XBeeHandler_proofs` |
| `Console` | console, auto run, callback, how long exchanges take | |
| `Console_proofs` | theorems on what the callback prints and on the backlog | `Console` |
| `SocketRx` | receiver, peers, polling application | |
| `SocketRx_proofs` | theorems on types, on safety and packages with a callback, on packages when polled, on `DestroyRx` | `SocketRx` |
| `SocketTx` | sender, kernel sockets, peer, destructor | |
| `SocketTx_proofs` | theorems on descriptors and on a steady peer | `SocketTx` |
| `Timer` | counter, timer object, waiting loops | |
| `TimerSystem` | the counting thread and the clock | `Timer` |
| `Timer_proofs` | theorems on timers and the counting thread, also that `TimerSystem` refines `Timer` | `TimerSystem` |
| `MessageDef` | the table of messages and its lookups | `MessageDirectory` |
| `MessageDirectory` | what the lookups promise (abstract) | |
| `MessageList` | the messages of `messagedef.h` and those of the constructor | |
| `MessageDef_proofs` | theorems on the table and on the refinement | `MessageDef` |
| `MCXBeeHandler`, `MCConsole`, `MCSocketRx`, `MCSocketTx`, `MCTimer`, `MCMessageDef` | instances for TLC | |

Operators marked `Fault:` are plausible mistakes in the definition that follows
them. No specification uses them; substituting one for its neighbour shows that
a property notices the mistake (`PROJECT.json`, "mutants").

### XBeeHandler

`pc[e]` is where thread `e` stands in `exchange_thread`; one action goes from one
place where another thread can interfere to the next:

| `pc` | code | actions |
|---|---|---|
| `idle` -> `lock` | `send`, 165-171 | `Send` |
| `lock` -> `prepare` | `lock_guard`, 87 | `LockReceive` |
| `prepare` -> `write` | 89-139 | `PrepareFrame`, `ExitOnBadPort` |
| `write` -> `flush` | `write`, 150 | `WriteFrame` |
| `flush` -> `read` | `TCOFLUSH`, 154 | `FlushOutput` |
| `read` -> `parse` | `read`, 179 | `ReadBytes`, `ReadError` |
| `parse` -> `retry`, `unlock` | 187-260 | `Reject`, `Accept`, `CrashOnShortFrame` |
| `retry` -> `write`, `unlock` | `redundancy`, 157-158 | `Retry` |
| `unlock` -> `release` | `recieve_mutex.unlock()`, 161 | `Unlock` |
| `release` -> `done` | destructor of the guard, 162 | `ReleaseGuard` |

The mutex is a Boolean without an owner, as the default mutex of the C library
is; unlocking it twice is undefined in C++, and this is what the build does. The
environment loses, delays and splits frames: a request in `output` may be
transmitted or flushed, a reply in `air` may never arrive, and a frame reaches
`input` in two halves between which a thread may read. Which request a frame
answers is recorded in the frame, but no action of the program looks at it.
`attempts` and `delivered` are histories. Sleeps are left out: they make windows
wider or narrower, not new ones.

### Console

The exchange engine again, but with time and without a line: an attempt takes 2 or
3 half seconds (`sleep(1)`, then a `read` that waits for `VTIME` at most) and then
fails or succeeds; a failure sleeps for 3 seconds. No time passes while a thread can
go on (`Tick` is enabled only when all of them sleep or wait), which makes the
bound on the backlog one about the code's sleeps and not about the scheduler.
Threads that wait, or are between their two unlocks, are alike and only counted
(`waiting`, `releasing`); those that have the line are listed in `holders`, with
the time until they go on and the retries they have left.

| code | actions |
|---|---|
| `cin >> human_cmd` and the switch, 188-225 | `Type`, `EndOfInput`, `Repeat` |
| `while (true) { send; sleep(4); }`, 209-214 | `AutoSend` |
| `exchange_thread`: `lock_guard`, loop, the two unlocks | `Lock`, `Fail`, `Succeed`, `GiveUp`, `Release` |
| `get_temp_callback` and `to_temp2`, 90-146 | `Outcome`, `ToTemp2`, inside `Succeed` |

At the end of its input `cin` leaves `human_cmd` as it was and the loop goes on
with it: `Repeat` sends as fast as the system lets it. `process` says what the
process ended of: `b` writes to element 0 of an empty vector, a sample of 0 divides
by zero, `send` throws where no thread can be had, a short frame would throw from
`.at()`.

### SocketRx

The two threads share an entry of `ClientList` without a lock. A step therefore
reads or writes what they share about it once, and a test, a `memcpy` and a `+=`
are three steps or more. `listener` is where `RxListen` stands, with the local
variables it goes on with; `app` is the same for the application.

| `listener.at` | code | actions |
|---|---|---|
| `accept` | `accept`, 107 | `Accept`, `AcceptNothing` |
| `accepted`, `fill` | the entry and its buffers, 111-145 | `FindEntry`, `FillEntry` |
| `receiving`, `receive` | the loop of `recv`, 149-165 | `TestRaw`, `RawTested`, `Receive` |
| `analysing` | the loop and its test, 168-181 | `TestReady`, `ReadyTested` |
| `copy` | `memcpy`, 188 | `CopyPackages` |
| `load`, `store` | `pReady += PackSize`, 190, and the rest of the input, 193-201 | `LoadReady`, `StoreReady` |
| `announce`, `raise` | `pReady > pReadyBuf`, 208, and the flag, 210-213 | `Announce`, `RaiseReady` |
| `call` | one callback at a time, 215-221 | `Call`, `Called` |

`Rx` is a copy (`RxCopy`), then either a move of the rest (`RxShift`) or the flag
(`RxClearFlag`) and after it the reset of `pReady` (`RxResetReady`), in the order of
lines 258 and 259. `DestroyRx` goes through the list by `DestroyBuffers` and
`DestroyEntry` and then forgets the socket (`DestroySocket`); what `RxListen` does
comes in between. `rxSocket` is what `InitRx` made of `rx_socket_desc`: each call may
fail and leave a socket that is not bound, and one that comes later finds the port
taken (`InitRxAgain`), since `DestroyRx` closes the sender's descriptor instead.

Line 188 does not ask for room, `DestroyRx` does not ask whether an entry is in use,
and `Rx` may move a negative number of bytes. Where this happens, memory is
overwritten or used that is gone, and the process need not end. The model does not
guess: `process` becomes `undefined` and the application may have been given
anything (`Undefined`). Properties speak of what comes before, and `CallbackSafe` says
that with a callback and before `DestroyRx` it does not come at all.

`Flag` is a field of the entry that nothing sets. Bytes carry their sender and
position. `delivered[c]` is a history: the packages that the application was given
from the entry of `c`.

### SocketTx

`reconnect` is where `TxReconnect` stands, `tx[s]` whether sender `s` is between
the test and the `send` of `Tx`, `main` how far `InitTx` or `DestroyTx` have come.
`sock[d]` is what the kernel has behind descriptor `d`; descriptors are given out
lowest first, which is why a stale one may mean a new socket. A `send` on a socket
that is not connected, or that was reset after the peer had closed, raises SIGPIPE,
which nobody handles. `DestroyTx` is three steps (`DestroyClose`,
`DestroyClearFlag`, `DestroyClearDesc`, lines 365 to 367) between which, and after
which, the other threads go on until the process is gone. The cleared flag makes the
thread open another socket over the one it has just connected, the cleared
descriptor a third one over that: `Forgotten` says what is left open at which stage,
`NoLeak` that there is nothing else.

### Timer and TimerSystem

Time is counted in tics. `asked` and `age` are histories: what the last `Set` was
given and how long ago. `ToInt` is the conversion of line 31: out of range it
yields the least `int` (x86) or the nearest one (ARM). `Initialize` sets up only the
first object, so that the object starts either clean or as `Garbage`. `Elapsed`,
`ReadableTimer` and `ElapsedMsec` are the conversions, by `ConvTime`, with the
periods as they are in an `int`. Between the first two the tics are divided by 1000.0,
multiplied by 1000 and cut off, and so is what `Pause` hands back to `Set`:
`Truncated` is what that may leave, the number itself or the one next to it towards 0.
`Pause` restores the object if there was time remaining (`remain`, `TimeRemain` in the
code), even if its own time has used it up. A thread that waits polls at least every `MaxLag`
tics: the loops of `Pause` and `InitTx` do nothing else.

`Tick` is one tic of the counter. When it happens is `TimerSystem`'s business: an
iteration of `TimerMainLoop` (`Iterate`) reads a clock that went on by `step`, takes
it for a jump or not (`Jumped`), and adds one tic if one is due (`TicDue`), however
many are. `ahead` is `AbsTimer` less the clock. Divisions that cut off fractions,
and would need the two clocks' microseconds, are choices.

### MessageDef

`table` is `pMessageDef`, `allocated` the records that fit in it. The constructor
(`Construct`, `AddBuiltin`, `Constructed`) adds entry by entry, and `Add` is the
same for it and for an application: the first `malloc`, whose result is not looked
at (`AddFirst`), a record that fits (`AddBehind`), and `realloc`, which may be
refused (`AddGrowing`). `missed` is a history of refusals. Lookups find the first
record that fits, which is what makes the table a directory in which a key or a
name keeps its first meaning: `MessageDirectory` says only this.

## 3. Runs

| run | bounds | checks |
|---|---|---|
| `exchange_three` | 3 exchanges, 1 attempt each, 1 unsolicited frame | `IntrudersBounded`, `DeliveredOnce`, `ImplementsService` |
| `exchange_pair` | 2 exchanges, retry count 0 of a counter with 2 values, which wraps to 2 attempts each; replies that report success or an error | `TypeOK`, `MutualExclusion`, `RetriesExact`, `ForeignReplyIsLate`, `EveryExchangeEnds` |
| `mutual_exclusion` | as `exchange_three`, nothing unsolicited | `MutualExclusion` is violated |
| `own_reply` | 2 exchanges, 1 attempt each | `OwnReplyOnly` is violated |
| `console` | at most 7 threads, 3 attempts each, 1 request typed, 4 attempts fail | `BacklogBounded`, `TemperatureSound`, `AutoRunCatchesUp` |
| `rx` | 2 peers with 6 bytes between them (`MaxTotal`), packages of 2, buffers of 5, callback or polling | `TypeOK`, `CallbackSafe`, `CallbackInOrder`, `NothingLost`, `WholeAndOrdered`, `EventuallyDelivered`, `DestroyedForGood` |
| `polled_in_order` | 1 peer with 8 bytes, packages of 2, buffers of 5 | `InOrder` is violated |
| `connections_listed` | 2 peers with 5 bytes between them | `AllConnectionsListed` is violated |
| `tx_reconnect` | 2 senders, 4 descriptors, the peer closes 3 times | `NoLeak`, `SurvivesSteadyPeer`, `LossNoticed`, `Reconnects` |
| `timer` | counter of 6 tics, times of 0 to 13 tics, clock steps from -6 to 9, 2 of them back | `RemainExact`, `NeverEarly`, `ElapsedExact`, `FreezeBounded`, `WaitEnds` |
| `timer_maximum` | as `timer` | `MaxTimeoutHonoured` is violated |
| `message_def` | the program's 22 messages, 10 records at a time, 3 of 4 other ones added | `WithinAllocation`, `BuiltinKnown`, `ImplementsDirectory` |

Why these are enough.

- Three exchanges are the fewest that break the mutex (one ends, one is inside, one
  is let in); two attempts are the fewest in which an answer to the first can meet
  the second, and a counter with two values the smallest that wraps around.
- One exchange in which all three attempts fail, and one more failure, hold up the
  line until there are six threads, which are then worked off; a seventh exists
  only after the end of the input, so that "out of threads" is reached by `Repeat` alone.
  The samples are those on both sides of each limit of the sensor, the sizes those
  on both sides of the callback's test.
- With a buffer of five bytes and packages of two, a package may come in parts, two
  may be moved at once, and a byte remains. Six bytes are three packages, one more
  than the buffer holds, so that a buffer that was not reset runs over. Two peers are enough for one to push the other out of the list.
- Four descriptors are one more than the two forgotten ones and the stored one, so
  that a fourth could be open; a third loss comes after the class has been through all of that.
- A counter of six tics wraps within every longer timer. The steps of the clock are
  its pace, lateness, a jump just below and beyond the threshold, and a small and a
  large step back.
- The messages are those of the program; the four others have a new key, a used
  key, a used name and the key 0.

Deadlock is not checked where the program may really stop: a process that has
ended or crashed, a table that is complete.

What the violations show: a third exchange gets in beside the second after the
second unlock of the first; a late reply goes to the callback of the next
request; the listening thread, between lines 258 and 259 of `socket.cpp`, raises the
flag again over the package that was just fetched, which is then fetched a second
time; the second connection takes the entry of the first; a timer below the declared
maximum is done early where the conversion saturates.

**Fairness.** Threads are scheduled by the kernel, so each thread's steps are
weakly fair. For the exchange engine this covers waiting for the mutex, too: the
threads are finitely many and each leaves after finitely many steps, so the mutex
is not free only at times for ever. `read` is not obliged to fail, the module not to
answer, the user not to send or quit. `EveryExchangeEnds` is for a port that
`init` has configured: without its read timeout a thread may wait for ever, with
the mutex locked. In `Console`, time goes on, the auto run goes on, and so does some
thread that can; attempts fail `MaxFailures` times at most, which is what "once they
stop failing" means. In `SocketRx` the listening thread is fair and, without a callback, so is
the application in `Rx`, as the comment of line 223 asks; a `DestroyRx` that has begun
comes to its end, and nobody has to send. In `SocketTx`, creating a socket may fail any number of times,
but not always. In `TimerSystem`, the counting thread and the waiting one both run;
the clock may do what it likes, but goes back finitely often.

## 4. Proofs

The theorems hold for all values of the constants, from the assumptions on them
alone: every number of exchanges, senders, descriptors and messages, every retry
count, width of a counter or size of a table.

**Exchange engine** (`XBeeHandler_proofs`, `XBeeRefinement_proofs`)

- `TypeCorrect`: the type invariant is inductive. The lemmas it needs say what
  `Redundancy` returns and that frames built by the environment are frames.
- `IntrudersAreBounded`: `IntrudersBounded` is not inductive, since it does not
  say when a thread can get in. `MutexInv` adds that while the process lives and
  the mutex is free, those inside are no more than those that have ended. Locking
  raises the first number by one; the first unlock lowers it; the second raises
  the second.
- `PairMutuallyExcluded`: with at most two exchanges the bound leaves no room for
  two inside, as both would have to be among those that have not ended.
- `RetriesAreExact`: `RetryInv` states that attempts made and attempts the
  counter still allows (`WritesLeft`) add up to the budget, one more between the
  write and the decrement, and that no callback was called before the loop ends.
- `DeliveredAtMostOnce`: where a frame may still come from decides whether it
  can be delivered again, so `DeliveredOnce` needs an invariant on the whole line.
  `OnePlaceOf` says that the first half of a frame is on its way, in the tty, in
  one buffer or with one callback, never in two of them; `HistoryInv` says that a
  frame still to be made is new, because its number is larger than all those seen
  or its request is still untransmitted. A read moves all halves at once, which is
  why the mutex is not needed for this.
- `HandlerImplementsService`: `Send` is a `Request`, `Accept` an `Answer` whose
  frame is new by `OnePlaceOf` and possible by `RetryInv` and `HistoryInv`, the
  `Retry` that ends the loop is a `GiveUp` since nothing was delivered before
  (`RetryInv`); every other step, the end of the process included, is a stutter.
- `ForeignRepliesAreLate`, for at most two exchanges: when a callback gets a reply
  to the other request, that request's thread has ended. The accepting thread is
  inside, so the other one is not, has sent its request (`FrameInv`) and is past the
  loop; `MutualExclusion` comes from `PairMutuallyExcluded`.

**Console** (`Console_proofs`)

- `TemperatureIsSound`: `TemperatureSound` is inductive. What it needs is arithmetic:
  an integer quotient of 10230000 exceeds 10000 for the samples 1 to 1022 and for no
  others (`RangeOfSensor`), and the test of line 103 leaves `.at()` nothing to throw.
- `BacklogIsBounded`: a bound on a number of threads needs one on the time that they
  take. `Credit` is the time that threads may still cost: 4 s for each request typed,
  4.5 s for each failure and, for those of the auto run, what it sleeps until the next.
  `Covered` says that it pays 4 s for every live thread, of which 2.5 s may be owed
  until the next thread at the line goes on. With the second unlock several may be
  there together, but their times need not be added up: all run down at once,
  so the least of them is enough. Only when one is done and another has just failed,
  which leaves that one its full 4.5 s, does the invariant ask for half a second more.
  The lemmas `LockCovered` to `ReleaseCovered` are this argument without the threads.

**Receiver** (`SocketRx_proofs`)

Each property is a consequence of `IInv`, which is inductive. Beside `TypeOK` and
`CallbackSafe` it says, until something undefined happens:

- `ListInv`, `ListenerInv`, `FetchInv`, `SocketInv`: the program only ever uses the
  first entry of its list; what the local variables of the two threads say of that
  entry; which places of the one exclude which of the other;
- `WireInv`, `InputInv`: what the input buffer and the wire hold are the next parts
  of what the listed peer sent, without a gap, in front of them whole packages;
- `CallbackInv`, with a callback: how far `ready`, `size` and `called` have come at
  each place (`CallbackFlow`), that what was handed over ends where the rest of the
  ready buffer begins (`Handed`), and that this one is the part of the stream in
  front of the input (`HeldOf`);
- `PolledInv`, without: the ready buffer holds, up to where it was ever filled, whole
  packages that do not go back (`BufferOf`), and none that was fetched is later than
  its first one (`HistoryOf`). This is weak enough to survive the reset of line 259
  between the copy and the two accesses of `+=`, or lost in them: a package that was
  fetched then lies in front of the new ones again, or what was copied is not
  counted, but the first package is always a whole one and not before the last.

The theorems:

- `TypeCorrect`: also the limits of both buffers.
- `CallbackIsSafe`: with a callback the ready buffer is empty at each `copy`
  (`CallbackFlow`), hence `memcpy` stays within it; before `DestroyRx` no buffer of an
  entry in use was freed, and `FindEntry` meets no `Rx`.
- `CallbackOrder`, `CallbackComplete`: by `Handed` and `HeldOf`; a new connection
  begins at 0 as nothing of its stream was read.
- `PackagesWholeAndOrdered`: by `HistoryOf`.
- `DestroyedIsForGood`: while nobody is listed or about to be, the list is unused and
  `RxListen` finds nothing in it; and after a `DestroyRx` the socket that `accept`
  needs is gone for good (`SocketInv`).

**Sender** (`SocketTx_proofs`)

- `NoDescriptorLeaks`: that only the stored descriptor is open is not inductive,
  since it does not say when the thread may overwrite it. `LeakInv` adds that where
  the thread is about to open a socket (`Unheld`) the stored one is closed. In
  `DestroyTx` the same holds but for a set of forgotten ones (`LeakBut`), to which
  each of its two resets adds the descriptor that is stored at that moment.
- `SteadyPeerSurvived`: while the peer keeps its connections, `Steady` says that the
  flag is up only with a connected socket behind the descriptor, and as long as a
  sender is between its test and its `send`.

**Timer** (`Timer_proofs`)

- `SystemRefinesTimer`: every iteration of the counting thread is a `Tick` or a
  stutter, so that what holds of `Timer` holds with every behaviour of the clock.
- `RemainIsExact`, `TimerIsNeverEarly`: `SetInv` ties the counter to the age of the
  timer (`CounterAt`) for one turn, and says that the end lies `asked` tics behind the
  start. `NowUnwrapped` is the lemma on the comparison in line 44.
- `ElapsedIsExact`: `StartInv` is the part of `SetInv` that holds for every time asked
  for. What `Truncated` leaves of it goes through five divisions, one by one: `DivMod` and `RestOfRest`, by which minutes are
  what is left whatever whole hours and days were taken off before. The periods are
  arbitrary but for what the program's have in common as `int`: that of the months is
  the larger one, since `2592000*1000` overflows to a negative number, and days are
  whole hours and those whole minutes.
- `FreezeIsBounded`: each step back adds at most what the division hides, and each
  tic is due again within it.

**Message definitions** (`MessageDef_proofs`)

- `NeverBeyondAllocation`: `TableInv`. It also says that every search that can find
  something has a first hit (`Searchable`), which would be an induction over the
  table and is an invariant of its growth instead.
- `BuiltinStaysKnown`: once a message has its place in the table, with its key and
  name before all others, no `Add` takes it away (`StaysPlaced`), and each message the
  constructor adds is new to the table (`NextBuiltinIsNew`).
- `TableImplementsDirectory`: an `Add` that stores is a `Register`, since the first
  record that fits stays the first (`MeaningAppended`, `IdAppended`); every other
  step is a stutter.

Left to TLC: liveness under fairness (`EveryExchangeEnds`, `EventuallyDelivered`,
`LossNoticed`, `Reconnects`, `WaitEnds`, `AutoRunCatchesUp`), which is out of the
prover's reach as ENABLED is. Every other property of the passing runs, the
invariants, the two refinements and the action property, is a theorem. The
properties that the other runs violate are of course not.

## 5. Plan

Done: all components with a state of their own, two of them against an abstract
specification, and theorems about each of the six, for all safety properties that
the runs check.

Left: the layout and checksum of frames as an operator against a reference
definition; stronger forms of what is known only for a pair of exchanges
(`ForeignReplyIsLate`); how many packages a polling application can lose or get
twice for each of its calls.

## 6. Not modelled

- The bytes of a frame, beyond what `receive` tells apart: whole or not, its
  status, too short or not.
- Names of messages beyond the 255 characters of the field; the destructor of
  `MessageDef`, which is declared but not defined.
- Failures of `malloc` in `RxListen`; what a process does after it has used freed
  memory or written behind a buffer; calls of `Rx` or `DestroyRx` from several threads.
- Steps of the clock so large that `dif` overflows an `int` (248 days), and a counter
  that falls behind the clock without bound: `MaxBehind` cuts the exploration off.
- The other conversions that the callback prints: they are floating point and
  cannot fail, they print `inf` at worst. The greeting that the console sends over
  `ipcSocket`, a `Tx` of `SocketTx`.
- Wrappers (`thread.cpp`, `syscall.cpp`, `fileio.cpp`) and build files, which have no
  behaviour of their own.
