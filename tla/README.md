# KUtil in TLA+

Specifications of KUtil (`src/kutil/`), a Python library of utilities: threads
and progress bars, byte buffers, network protocols built in layers, small
languages, storage formats and a web scraper.  Each module translates the code
it names; `PROJECT.json` maps every definition to its lines.

## 1. The system

Paths are below `src/kutil/`.

| Part | State | Operations | Hard because |
|---|---|---|---|
| Thread waiter (`threads/ThreadWaiter.py`) | a flag, a counter, a semaphore | wait, wait(maxTime), release, reset | no lock protects the flag and the counter; every other threaded part relies on it |
| Protocol connection (`protocol/ProtocolConnection.py`) | socket, `closed`, listeners, sending lock, the receiver's buffer and pointer, layers | startRecv, receive, tryReceivedData, sendData, close | a receiver thread, application threads and callbacks share it; the stream is cut anywhere; failures close it from inside any call |
| Server (`protocol/ProtocolServer.py`) | `connections`, `closed` | listen, close, the close listener | a connection may end while it is being set up |
| HTTP server, WebSocket, SSE (`protocol/HTTPServer.py`, `WSConnection.py`, `SSEConnection.py`) | upgrade state, last layer, a second connection object with its own `closed`, message buffer | onDataInner, upgrades, refusals, frames | two connection objects on one socket; the stack of layers changes while others may send |
| HTTP messages (`protocol/HTTP/`) | none | read, write | a message may be cut anywhere |
| TLS client (`protocol/HTTPSConnection.py`, `protocol/TLS/`) | handshake state, ciphers | onDataInner, sendAlert | records in any order, a constructor that races its own receiver |
| Byte buffers (`buffer/`) | data, pointer; the parts of an appended buffer and their recorded lengths | read, write, index, back, reset, copy, batched, appended | four implementations of one interface; appended buffers share their parts, with their pointers |
| Progress bars (`progress.py`) | state of each bar, two collections of bars, the updater thread | begin, update, end, delete, render | four locks and a thread that ends by itself |
| Paint Tryhard (`language/languages/paint_tryhard/`) | employees (threads) with waiters, events, variables | instructions of bosses and employees, the main loop | threads that wait for each other through `ThreadWaiter.reset()` |
| JavaScript parser (`language/languages/javascript/`) | the token looked at, a context of thirteen flags and sets, the lexer's stack of braces | one function per production of the grammar | flags are set, used by calls of any depth, and restored behind them; what was read may turn out to be something else (arrow functions, strict code) |
| Language framework, BrainFuck (`language/`) | token streams, constant pools, a compile cache | lex, parse, compile, run | a stale cache |
| BON (`storage/bon/`) | object pool | encode, decode | cyclic data, integer widths |
| Config, Cache (`storage/`) | a stack of configuration files | read, write, delete | writes go to the nearest file |
| Map scraper (`webscraper/`) | working connections, the list of the workers, a cache directory, three waiters | throttle, scrape, scrape around, clean | worker threads without locks, requests that fail at any step |
| Helpers, window toolkit | – | – | – |

How they interact: a server creates connections and calls the application's
`onConnection`; a connection owns a receiver thread, which calls the layers'
unpackers, `onDataInner`, the application's `onData` and, on `close()`, the
listeners (of which the server's removes the connection from its list).  The
progress bars, Paint Tryhard and the map scraper block and wake their threads
with a `ThreadWaiter`.

What makes each part correct: the waiter loses no wake-up; a connection handles
every frame once, in order, and tells its listeners once; a server connection
never mixes two protocols and is taken off the list when it ends; a bar is
drawn only while it may be; an interpreter ends and reports the first error; formats
give back what they were given, or raise; a buffer of any kind is a sequence of
bytes with a pointer; a parser's flags hold where they were set and nowhere
else, and it ends; every request to the scraper is answered and gives its place
back.  `PROJECT.json` lists the hazards, each at its line, with the properties that would catch it.

## 2. Modules

| Module | What it models |
|---|---|
| `Gate` | abstract: a gate that opens once; who is held passes only when it is open, and gives up only if he came with a time limit |
| `ThreadWaiter` | the waiter, one action per access to a shared attribute or call of the semaphore |
| `ThreadWaiterProofs` | its theorems |
| `FrameChannel` | abstract: what a connection promises to the code above it |
| `ProtocolConnection` | one connection: receiver, senders, closers, the peer and the network |
| `ProtocolConnectionProofs` | its theorems, and those about `Formats`, whose frames it carries |
| `HTTPServerConnection` | one connection of an `HTTPServer`: set up, requests, upgrade, messages, end |
| `HTTPServerConnectionProofs` | its theorems |
| `PaintTryhard` | the interpreter of Paint Tryhard: employees, bosses, the main loop |
| `PaintTryhardProofs` | its theorems |
| `ProgressBar` | bars used by any thread, and the updater thread that draws them |
| `ProgressBarProofs` | its theorems |
| `TLSHandshake` | a TLS client's handshake: the constructor, the receiver, the server's records |
| `TLSHandshakeProofs` | its theorems |
| `JSMachine`, `JSExpressions`, `JSStatements`, `JSParser` | the JavaScript parser: the machine it runs on, then its productions, the last module with classes, modules and the properties |
| `JSParserProofs` | its theorems |
| `ByteSequence` | abstract: what each operation of a buffer does to a sequence of bytes and a pointer |
| `ByteBuffers` | memory, file and appended buffers in one heap, and calls of all their methods |
| `MapScraper` | connections that wait and scrape, workers, the cache and its cleaner |
| `MapScraperProofs` | its theorems |
| `BonStorage`, `WSMessages` | encoder and decoder of BON and of WebSocket frames, as operators |
| `Formats` | a writer, what arrives of its bytes, and a reader of these two formats |
| `MC...` | constants for TLC |

**ThreadWaiter.**  `pc[t]` is where a thread is in the method it runs, `reg[t]`
what it loaded last: `waitingThreadCount += 1` is `LoadCount` then `CountIn`,
and `release()` reads the counter once for its test (`CheckWaiting`) and once
for the argument (`LoadPermits`).  CPython 3.12, the first version whose
grammar accepts the sources (`class ByteBuffer[TData]`), switches threads only
at calls and at backward jumps; with `GIL` a thread is therefore not
interrupted on the labels of `Uninterruptible`, which are those reached with no
call in between.  Without, it is interrupted anywhere: that is all the language
promises and what a free-threaded build does, and it is then that `release()`
can raise.  A behaviour has either from its beginning.

**ProtocolConnection.**  The peer's stream is a sequence of frames of one or
more units: `Frames` gives the kind of each and the place in the stream where it
ends.  The kind says what the layers do with it (reach `onData`, be kept by
`onDataInner`, raise `StopUnpacking`, raise anything else).  `recv()` returns
any number of units.  The buffer is the sequence of the places in the stream of
the units it holds, and it and its pointer are state, so that frames that would
be skipped or parsed twice are seen.  Callbacks may call
`close()` and `sendData()` on the receiver thread, and close listeners may call
`sendData()` on whatever thread closes.  A message is `Chunks` calls
of `sendall` under `sendingLock`.  `sendall` has no time-out: a thread may wait
in it (`SendBlocks`, `blocked`) until the peer reads or resets the connection.
A close by another thread need not wake a thread blocked in `recv()` or
`sendall()`: `ReceiveAborted` and `SendAborted` may happen but need not.  The run
of an action ends at the next call the thread makes, for the reason above.

**HTTPServerConnection.**  A script of items (requests, WebSocket frames) is
what the peer sends; `recv()` may end inside an item (`tail`), which matters to
the request parser.  The server's thread, the receiver and an application
thread take steps; `closed` and `wsClosed` are the flags of the two connection
objects that share a socket after an upgrade.  Frames have no payload: a
message is the places in the script of what it was made of, which tells any
two frames apart, also equal ones.  `ScriptsAssumption` says that an item is
what the connection reads at its place, a request before the first request for
a WebSocket and a frame after it.  A server that refuses that request closes,
and reads no frame.  An upgrade is the answer, the removal of the old protocol, which
leaves only the bottom of the stack (`"TCP"`), and the new protocol with the
state behind it, in this order: `Push` packs with whatever is last in the stack
when it goes by the state.  Sending is one step here, which fails
when the socket is closed or, at any time, because the peer has gone;
interleaved chunks are the subject of `ProtocolConnection`.

**PaintTryhard.**  A call that another thread can interrupt (`Employee.call`,
`exit`, `throw`, `waitUntilEmployeeDone`) is the sequence of its steps;
`todo[t]` is what is left of the calls thread `t` is in, and `at[t]` where it
goes on afterwards.  A boss's waiter is `<<owner, number>>`; a reset gives it a
permit only if the owner is counted, which is the moment everything depends on.
Resetting all waiters in `exit()` is one step (one of them at most has somebody
waiting); the loop over `doneWaiters` at the end of a job is not, because the
list grows under it.  Stack, variables and canvas are left out: an instruction
calls, waits, throws, raises, or does nothing of interest.
Three histories say what is due: `calls` and `runs` of each employee, and `due`,
how many runs there will have been when the newest wait of a boss may end; `hasty`
marks a wait that began while the employee was telling his waiters.
`UsageAssumption` is what `interpret()` checks before it starts anybody: each
employee is named by one contract.  That a contract also *tells* only the
employees it names (`OwnStaff`) is checked nowhere; `NoCallLost` needs it, as
two threads that call one employee can both find him idle.

**ProgressBar.**  As above, a call is a sequence of steps.  `_progressBarsLock`,
`_updaterThreadLock` and a bar's lock protect single steps; `globalUpdateLock`
is held from `BeginPass` to `EndDrawing`.  `dropped` are the bars the application
lets go of.  Such a bar lives as long as the class or a variable of the updater
refers to it (`Referenced`; the lists live until the next pass, the loop variable
until the next turn) and is finalised by the step that ends this (`Lost`): without
the lock `__del__` deletes it (`Finalise`); a step of the updater under the lock
hangs, as the lock is not reentrant (`"hung"`, and `"hungInList"` if it has
`_progressBarsLock` too).  Any thread may use any bar once its
constructor has returned.  `Updaters` are thread objects; the class starts a
new one whenever it has none, and that it never has two is a property.

**TLSHandshake.**  A flight is the sequence of records the server sends, which may
come before the hello, because the constructor starts the receiver first
(`HTTPSConnection.py:89`); a record is its kind, its messages and what reading the rest of
it does (nothing, an alert, another exception).  `rpc` and `mpc` are the places
in the code of the receiver and the constructor, which race for the state from
the moment the hello is sent.  Reading a record and handling it are separate
steps, because a record whose reading closed the connection is handled all the
same, and so are an alert and the close behind it.  A `ServerHello` with an
unknown cipher is one whose version is refused.  `Finished` is never sent (the
lines are commented out), so that no state behind `CHANGE_CIPHER_SENT` is
reached and `onEstablished` is never called.  Two ways out of the code leave the
connection open without a receiver, and are modelled as `dead`: an
`ApplicationRecord` before its time, and alert 116, which is not in the table
and therefore raises in the handler of the exception.  `ErrorsClose` speaks of
the errors that do reach the handler.

**JSMachine, JSExpressions, JSStatements, JSParser.**  `JSParser` is a recursive
descent parser of some 130 functions.  A call is an instruction on the stack
`todo`, and what a function does when a call has returned is another one,
pushed with the locals it still needs; each function, and each piece of one
between two calls, is an action that begins with `At(its name)` and whose guards
are the tests of the code, in their order.  `vals` are the nodes returned and
not yet used, reduced to what the parser later asks of them.  `ctx` is
`Context`, flag by flag.  The text is a template, which lists for each place
the lexemes that may stand there; the lexer draws one when it is asked for a
token, or the end of the text.  What the scanner does is modelled where the
parser's state depends on it: the braces of templates (`CurlyAfter`), strict
words, lookahead.

**ByteSequence, ByteBuffers.**  A heap of buffers: a memory buffer, a file
with its own position, which every method moves and `_syncPointer` moves back,
and appended buffers, which are lists of other buffers with the lengths they
had.  A method is an operator from a heap to an outcome: the heap afterwards,
the value, and what it raises; `Then` chains outcomes as a call does, so that a
method that raises half way leaves behind what it had done.  `Next` calls any
of the methods that write, move or join; the properties then call every method
of every buffer in every state and compare it with `ByteSequence`, so a state
shows the calls that led to it and one more.  The application keeps two rules of
the documentation: a buffer is a part of one other buffer at most, and is not
used on its own meanwhile, except where the property is about exactly that
(`ResizeIsNoticed`).

**MapScraper.**  Threads again stand at a place in the code (`pc`): one for each
connection, each worker, and the cleaner.  The three `ThreadWaiter`s are reduced
to their counter and permits, which `ThreadWaiter` justifies.  Requests to the
API may fail (`Fails`), as a bad answer or as an exception of the library, or
never return.  Opening or writing a file may raise.  A client of `steady` asks
again and again, without a bound.
Writing a file is opening, which truncates, and writing; a tile is its name, so
that a read of another tile or of half a one is seen.  The cache at the start is
what an earlier process left: a file whose writing was killed or raised is
`"torn"`.  `img` keeps what `readFile` returned.  `working` is
`__workingConnections`.

**BonStorage, WSMessages, Formats.**  BON is modelled byte by byte: a value is a
heap of lists and dicts whose items are scalars or refer to nodes, `gen_pool`
and `PoolIndex` compare with Python's `==` (`PyEq`), for which `1 == True` and
two endless containers raise.  `gen_pool` calls itself for each item in the
code and is a loop over the items still to be looked at in the model, in the same
order.  Dumping ends at `"raised"` if the value is `Unencodable`.  The decoder is
a reader at a position, which fails for good when bytes are missing.  Of a
frame's payload only its length, and whether it is masked, are of interest.
`InputsAssumption` says what a value and a message are: references lead to nodes, a dict
has a key for each item, an integer lies below 2^24 in size (a bound of the
model), the length of a frame fits the encoding that `lenBytes` chooses, and a
heap has at most thirty containers (`IsShallow`), so that the recursion of
`gen_pool` and of a comparison stays below Python's limit of a thousand calls; the
`RecursionError` of a deeper one is left out.  `decode_object` refuses a pool
entry that is a scalar or a pointer and a container within a container, which
the code would accept: `encode` writes none, and no cut makes one.

The models that are functions of their input were compared with the running
code on every state TLC reaches or more: the parser on a hundred thousand texts,
with the token at which it raises; the buffers on sixty thousand sequences of
calls; BON and frames on all eighteen thousand behaviours of the run `formats`.

The definitions named "As if ..." are mutations of the definition after them;
no specification uses them.

## 3. Runs

| Run | Question | Result |
|---|---|---|
| `waiter` | three threads, four calls of any method with the interpreter lock, two without: with it, the counter, wake-ups, an open gate lets out | holds |
| `connection` | one application thread and callbacks, four frames of all kinds, one of two units, messages of two chunks, a peer that may stop reading, close listeners that send: implements `FrameChannel`, messages contiguous, sends and receivers end | holds |
| `http_server` | four scripts, with requests, both upgrades, refusals, one- and two-frame messages, close and ping frames | holds |
| `http_partial_request` | does a part of a request always ask for more data? | violated |
| `paint` | seven programs: two workers in turn or together, repeated and premature calls, a boss who goes home, a throw, a crash | holds |
| `progress` | two threads, a kept and an erased bar, which may have a maximum of 0 and be dropped, five calls | holds |
| `tls` | fifteen flights, complete, out of order, broken, without a certificate, arriving at any time: order on the wire, certificates before the key, states forward, errors close | holds |
| `js_parser` | templates of every construct: flags and labels in their scope, strict names checked late, precedence, braces of templates, every parse ends | holds |
| `buffers` | four calls on a memory buffer, a file and what is made of them: every method (`readLastByte` on memory buffers only) reads and writes as on one sequence, resized parts are noticed | holds |
| `scraper` | six loads of connections, workers and the cleaner, one with a client that never stops asking, one with a torn file, requests and writes that fail anywhere: who works is served, what the cache holds, a lone worker lives, every request ends | holds |
| `scraper_close` | is a connection never marked working when it closes? | violated |
| `formats` | data and frames of all kinds, whole, cut anywhere, with more behind: read back equal, a cut is noticed, what cannot be stored | holds |

*Bounds.*  Three threads and four calls are enough for a waiter, a releaser and
a third that steals or is overlooked, and for one more call after a reset; two
make a release raise without the lock; the
proofs remove the bound.  In `connection` a stream with each kind of frame, one
that can be cut, two calls per thread: a close and a send can be in progress on
the receiver and another thread at once.  In `http_server` the scripts end, so
only the pushes need a bound.  In `paint` the programs are finite; one boss
and two workers show everything that the code lets pairs of employees do to
each other, and a third worker would only be a second `painter`.  In
`progress` five calls let one thread take a bar through its life while another
ends it too or begins a second one.  In `tls` there is a flight for every
branch of the handler, in one record and in several, and one more message or
record after those that should end the handshake.  In `js_parser` the
templates amount to some twenty thousand texts of up to thirty tokens; each
construct occurs with every token that its code tests for, in another construct
where a flag could leak, in scripts, modules and with errors tolerated, and each
text may end anywhere.  In `buffers` there are five buffers of at most three
bytes, appended ones of two parts, and `Threshold = 3` for the limit behind
which `appended` joins without copying; four calls make a buffer of parts, copy
it, and use both.  In `scraper` there are two connections, two workers and two
tiles; `RetryLimit = 1` stands for 20, `FreshArgs = 1` for 10,
`MaxCacheSize = 2` and `ToLeave = 1` for 100 and 90, so that each limit is
passed.  A steady client asks without end; `MaxPermits = 1` only keeps it from
piling up permits of the waiters that nobody fetches.  In `formats` there are heaps of up to three containers of up to two items,
with the integers around every change of width, and frames around every change
of the length's encoding.

`CHECK_DEADLOCK FALSE` wherever peers, applications, waiters or finite scripts
may stop; a parse that has not ended may not, and `js_parser` checks it.

*Fairness.*  A thread that can run is run in the end (weak fairness of each
thread's steps); neither the interpreter nor the system starves one.  Nothing
makes the peer send, read or end, the application call, or a close wake `recv()` or
`sendall()`; what depends on a peer that reads says so (`Stalled`).
A timed wait's timeout is a step of its thread, so it happens in the end.
In `TLSHandshake` the receiver also ends after a close by another thread, which
in truth may need the peer to wake it; nothing that is checked depends on it.
In `ProgressBar` a call in progress has strong fairness: it waits for a lock
that the updater releases, and sleeps a tenth of a second without, between any
two passes.  A parse goes on (weak fairness of `Next`).  In `MapScraper` every
thread that can run is run; half a second passes, so a wait of a connection ends.
Nothing makes the API answer: `session.get` has no time-out, so a thread that asks
it may hang for good, and `EveryRequestEnds` asks no more of such a request.

*What the violated runs show.*

- `http_partial_request`: when `recv()` ends inside a line of a request's head,
  `MemoryByteBuffer.index` raises `IndexError`, which `HTTPServerProtocol` does
  not translate to `NeedMoreDataError`; the receiver thread dies and the
  connection stays open and listed.
- `scraper_close`: `/api_key.txt` and forwarded requests mark
  their connection as working and unmark it without a `finally`.  When the API
  fails in between, the close that follows raises in the listener
  (`MapyCZServer.py:120`), and the place is gone for good.  `WorkingIsServed`
  therefore excepts such connections by name, and no others.

*Promises that are not kept.*  The modules also state these properties, which
say what a docstring or comment says, and which the code does not keep; each
can be seen by adding it to the configuration of its module.

- `ThreadWaiter!ReleaseReleasesAll`: `reset()` calls `release()` and closes the
  gate again at once.  The permit meant for a blocked thread may be taken by a
  thread whose `wait()` begins after that, and the first stays blocked.
- `PaintTryhard!WaitEnds`: nobody resets a waiter that was appended after the
  employee had finished, or that was reset before its owner was counted.
- `PaintTryhard!InterpretEnds`: the last employee wakes the main loop before his
  thread is dead, possibly between the main loop's look at him and its wait.
  The same window can hide an exception: the verdict is then OK.
- `PaintTryhard!WaitIsForThisRun`: the loop that tells the waiters of one run
  (`Employee.py:81`) also meets the waiter of a boss who was let out by it, called
  again and waits again; he is let out before the second run.  `WaitAfterWork`
  excludes a wait that began during that loop by name (`hasty`), and no other.
- `TLSHandshake!HelloComesFirst`: a record that comes before the hello meets the
  state `INIT`; the receiver's alert may be written before the constructor's hello.
  `WireOrder` names this one order besides the right ones.
- `ProgressBar!CallsAlwaysReturn`: a bar ended with `deleteManually=True` and
  dropped undeleted is finalised by the updater, when it last referred to it, and
  in most places under `globalUpdateLock`; `__del__` then waits for this lock for
  ever, and so does every later call.  `CallsReturn` excludes this case by name
  (`HangsFor`).
- `MapScraper!ThrottlingEnds`: "10s timeout in total" (`MapyCZServer.py:149`)
  counts only waits that timed out.  A request that is woken each time a place is
  given back, and each time finds it taken by others, waits for ever; one client
  that never stops asking is enough.
- `MapScraper!WholeTilesServed`: `readFile` returns what the file holds, which is
  a part while another thread writes it, and after a write that raised or was
  killed until the cleaner takes the file (`"torn"`).
- `ProgressBar!EndIsRendered`: the updater knows a bar from the list or from its
  previous pass; one that came and went since is in neither.
- `ByteBuffers!LastByteIsRead`: `readLastByte` of a file asks for the byte behind
  the end (`FileByteBuffer.py:49`) and raises, and that of an appended buffer asks
  the last part, which may be empty or a file; "reads the last byte" (`ByteBuffer.py:94`)
  holds of memory buffers.
- `ByteBuffers!InsertsInstead`: `FileByteBuffer._writeInternal` overwrites in the
  middle of a file, because its size check moves the file's position to the end
  before the rest is read.
- `JSParser!TemplateStartsWithHead`: a template whose expression is missing makes
  the parser fail its own assertion instead of reporting the token.
- `JSParser!PiecesBelong`: `saveState` and `restoreState` leave the stack of open
  braces out (`JSLexer.py:138`), so that a brace or a template behind `async`, `let`
  or `import` is opened twice.  The `}` of a block around ``async`${x}` `` is then
  scanned as a piece of a template, and the text refused.  `TemplatesHeld`
  therefore speaks of texts in which no such look changed the stack (`scan.twice`).
- `JSParser!TemplatesClosed`: `parseTemplateElement` looks at the kind of the token
  alone, and takes a template that begins for the end of the one it is in: the text
  `` `x${a++`b` `` is parsed to its end with a template still open.  What does hold is
  the other direction, `TemplatesHeld`: as long as an element is awaited, the lexer
  holds a `${` for it.
- `JSParser!NoReservedParameter`: `validateParam` looks for reserved words only
  outside strict code, because the lexer makes keywords of them inside.  But the
  token behind a directive is looked ahead at before the directive sets `strict`, so
  that `"use strict"; static => x` is parsed, with a parameter `static` in strict
  code.  `StrictNamesChecked` allows this one, a lone parameter, and nothing else.

## 4. Theorems

`ThreadWaiterProofs`, for any finite set of threads, any number of calls, and
with or without `GIL` unless said otherwise:

- `TypeCorrect`: `TypeOK`, in particular that the semaphore never goes below 0;
- `CounterIsExact`: with the interpreter lock, `CountExact`;
- `NoWakeUpLost`: with the interpreter lock, `ReleaseCoversBlocked`;
- `OneShotImplementsGate`: without `reset`, the waiter implements `Gate`
  (`ImplementsGate`; proved, so no run repeats it).

*Argument.*  `CountExact` is not inductive: the counter is written from a
register.  The invariant `IInv` adds that a register that is about to be used
holds the counter's value, and that under the interpreter lock at most one
thread is on an uninterruptible label; then the write is the increment it
looks like (`CountStep`), a release's argument is the number of counted
threads, which includes all blocked ones (`BlockedAndCounted`, `CoversStep`),
and nobody blocks behind a releaser's back (`ExclusiveStep`).  The refinement
needs a second invariant, `OneShotInv`: without `reset` a thread on a label of
`wait` is in a `wait`, one on a label of `release` is in a `release`, the gate
is open past the label that opens it, and a permit exists only behind an open
gate.

`ProgressBarProofs`, for any bars, users, updater objects (at least one) and
number of calls; the assumption is `ProgressAssumption`:

- `TypeCorrect`: `TypeOK`;
- `OneUpdaterRuns`: `OneUpdater`;
- `OnlyEmptyBarsEndIt`: `OnlyEmptyBarsRaise`;
- `RemovedOnlyOnce`: `RemovedOnce`.

*Argument.*  None but `TypeOK` and `OnlyEmptyBarsRaise` speak of enough state
to be inductive.  The invariant adds: a thread object that was started is
`_updaterThread` until it forgets itself (`UpdaterInv`), so one at most holds
the lock; what it chose to draw has a ticket or is `BEGAN` (`ChosenInv`), which
`_setState` cannot undo without the lock (`SetStateKeeps`), and drawing takes
no ticket but the drawn bar's (`OneTicket`); a ticket is only given to a bar
that has begun (`TicketInv`); a bar is registered before it can begin and stays
so while it is shown (`ListedInv`); and who is to take a bar off the list does
it next, is alone in this, and has ended the bar (`RemoveInv`).  `RemoveInv`
holds because the legal changes of state lead to `ENDED` once and never back.
A call in progress is a sequence of steps, so half of the lemmas are about what
a step leaves of it (`Shorter`, `StillPending`, `Called`); most steps then need
only `PlainStep` or `CallsUntouched`.

`TLSHandshakeProofs`, for any set of flights, of any length
(`TLSAssumption` says what a record is):

- `TypeCorrect`: `TypeOK`;
- `WireIsOrdered`: `WireOrder`;
- `ChosenOnce`: `CipherIsChosenOnce`;
- `StateOnlyAdvances`: `StateGoesForward`;
- `KeyWaits`: `KeyAfterCertificates`.

*Argument.*  `WireOrder` does not say when what is sent; `SentInv` adds that on
an open connection the state tells how far the handshake was sent, and that
after an alert somebody is about to close.  A step that sends nothing keeps it
if the state stays (`SentStays`), a step of the handshake sends the next
message (`SentNext`), an error an alert (`SentAlert`).  Before the constructor has
written the hello there is one alert at most (`AlertFirst`), which the hello may
still follow.  `PlaceInv` ties the
places in the code to the state, in particular that the state is `INIT` until
the constructor has set it, which is why its assignment cannot undo the
receiver's.  `CipherInv` says that a cipher has been chosen behind
`CLIENT_HELLO_SENT`, or the `ServerHello` was refused and the connection ends;
nothing is chosen before, so that `ServerHello` chooses once.

`KeyAfterCertificates` speaks of places of messages (record, and place in it).
What is left of the record being handled is its end (`TodoInv`), so a place is
passed when its record is done with or it lies before that end (`Passed`), and
what is handled next comes after every passed place (`NextPlace`).  The pending
cipher is then a `ServerHello` that was passed (`HelloPassed`), a certificate
that is kept lies behind it (`CertificatePassed`), because nothing is kept
before the hello (`KeptInv`), and the `ServerHelloDone` is still at the head of
the record while its certificates are verified and the key is sent (`DoneInv`).

`MapScraperProofs`, for any finite set of connections and workers, distinct
from each other and from the cleaner, any tiles, loads and limits
(`ThreadsAssumption` to `BoundsAssumption`):

- `TypeCorrect`: `TypeOK`;
- `PlacesAreServed`: `WorkingIsServed`;
- `CacheIsWhole`: `CacheHoldsTiles`;
- `LoneWorkerLives`: `LoneWorkerNeverCrashes`.

*Argument.*  `CacheHoldsTiles` needs to know that who has a file open is about to
write a whole tile (`WriterInv`), which holds because only forwarded requests
may end with the page of an error and those are not stored; that who stores has
a tile is `RequestInv`.  The thread that ends the write may find that the
cleaner has unlinked its file, or that another writer has the same tile open;
`linked` tells them apart.  A write that raises leaves a torn file, which is all
that the cache may hold besides whole tiles.  A lone worker that is about to pop has seen an
element (`LoneInv`), and no other worker is there to take it: who was not started
stays off.  `WorkingIsServed` is inductive with `TypeOK`.  Each has a lemma with
a step per action; `ServedMove` and `WriterMove` serve those that only move a
thread.

`ProtocolConnectionProofs`, for any set of threads, stream of frames
(`FramesAssumption`: each ends behind the one before), chunks per message and
number of calls (`ReceiverAssumption`, `BoundsAssumption`):

- `TypeCorrect`: `TypeOK`;
- `MessagesStayTogether`: `MessagesAreContiguous`;
- `ChannelImplemented`: `ImplementsChannel`, the refinement of `FrameChannel`.

*Argument.*  Three invariants, one for each way of using a connection.
`Sending`: who is in the middle of a message, or waits there for the peer, has the lock, the last chunk on the
socket is the sender's last one, and a message that was cut short is still
being sent unless nothing can be sent any more.  `Closing`: one thread at most is past
the check of `closed`, and then nobody was told yet; this is where it matters
that no thread runs between the check and the assignment of `closed`
(`ProtocolConnection.py:80`), with no call in between.  `Receiving`: the buffer begins where the last
handled frame ends, at each place of the receiver's loop, so what is parsed next
is the next frame of the stream (`HereIsNext`), and once a frame was handled
after the close the receiver is on its way out.  Each step is then a step of
`FrameChannel` or leaves its variables alone (`ChannelNext`).

`HTTPServerConnectionProofs`, for any set of scripts of any length that satisfies
`ScriptsAssumption` and any number of pushes:

- `TypeCorrect`: `TypeOK`;
- `MessagesWhole`: `MessagesAssembled`;
- `ConversationOrdered`: `Conversation`.

*Argument.*  `Handled` counts the items that were looked at.  Until the upgrade
each of them was answered (`AnswersInv`), so that the next answer is for the
next request; at the upgrade the answer is on the wire, or could not be sent,
and then nothing can be (`SwitchInv`), so that whatever is pushed follows it, and
while the stack has no last protocol the state still keeps the application from
pushing (`LayerInv`).  For the messages,
`AssemblyInv` says that the frames that are kept follow what was delivered, one
after the other, with nothing for the application in between, and that nothing
of interest was handled since; a close frame, after which the code no longer
collects, only comes with `closed`.  `CloseInv`, `SetUpInv` and `LayerInv` tie
the three threads together: who may be closing where, and which protocol is
read.  Most actions change nothing that these speak of (`SilentStays`).

`PaintTryhardProofs`, for any employees, contracts and programs that
`StaffAssumption`, `ProgramsAssumption` and `UsageAssumption` admit:

- `TypeCorrect`: `TypeOK`;
- `WaitsAfterWork`: `WaitAfterWork`;
- `NoCallIsLost`: under `OwnStaff`, `NoCallLost`.

*Argument.*  A call in progress is a sequence of steps, and any step may insert
a throw, which is many more.  `TodoCases` says the only three ways a thread's
steps change: it takes the first, it takes the first and inserts a throw, or it
begins a call; an invariant about `todo` is then shown for these three and not
for each action.  `Waits` is inductive: the steps of a wait come in order and
last (`InOrder`), an employee's waiters are told by a call only after he was
stopped (`StopsFirst`), and the waiter that a boss sleeps on is in the list of the
employee he waits for and no other (`NewestWaiter`), who owes him one more run at
most, and none while he tells his waiters unless the waiter came after that began
(`Owes`).  `Starts` says that a thread is about
to start one employee at most, whom nobody else may start (`OneStart`), and that
it checks him first (`StartsAreChecked`); with it the calls and the runs balance.
That the last call is not simply left behind is `SentHome`: an employee who ran
off did so because his job crashed, or was told to stop, and while nobody has
thrown only a boss on his way home tells his own employees to.  The job of the
first boss is never started twice (`CalledOnce`), so that he alone goes home of
his own accord, with nothing left to run.

`JSParserProofs`, for any set of templates, hence any text, script or module,
tolerant or not:

- `FlagsRestored`: `ContextScoped`;
- `LabelsFollowCalls`: `LabelsInScope`;
- `Scoping`: the inductive invariant behind both, `IInv`;
- `TemplatesStayOpen`: `TemplatesHeld`, by an inductive invariant of its own,
  `TemplateInv`.

*Argument.*  A function of the parser that changes a flag saves it and puts it
back after the calls in between.  That a statement finds its flags again is
therefore not a fact about the top of the stack: `Stacked` says of every
instruction on it that what it will put back is what the next one below that counts
on the flag expects (`InPlace`, `Meets`), and that the labels still to be removed
are those of the label set, up to the return from the function (`Labels`).
Two things break the pattern.  A `use strict` directive is not undone by who reads
it, so directives may be read only where a function puts `strict` back before an
item ends (`Unwatched`); and the `allowYield` that a getter clears is never put
back, which is why `Keeps` asks less of this flag.  TLC found `IInv` true in
every state of `js_parser` before it was proved.  A step pushes a list of
instructions in the place of one; `Below`, `Through` and `Pushed` say what that
leaves of everything under it, so that of an action only the list it pushes has
to be looked at.  Most lists change nothing that is followed (`MachineMoves`,
`ExpressionMoves`, `StatementMoves`, `ModuleMoves`); some put back what the action
sets (`FunctionsRestore`, `ExpressionsRestore`, `StatementsRestore`); loops,
directives, labels and the ends of items have lemmas of their own.

`TemplateInv` follows the lexer and the stack of calls together, for a parser that
tolerates no error.  The lexer turns its stack of braces when it scans a token, the
parser adds to what it awaits when it takes one, a step or more later; `Balanced`
counts both, with one for the token in between (`Begun`, `Ended`).  The count would
be lost if another call took a piece of a template: most look at the token before
they take it (`Passable`), but some, such as `parseIfStatement`, were chosen by a
caller who looked.  Such a call (`Takers`) is `Ready` only on top of the stack and
only while the token is no piece of a template, and no call below is one, nor will
run one that it was handed (`Idle`, which looks into the arguments of `peek`,
`closeHead` and the like); that is `Ranked`.  A call that makes a plain step
(`Serves`) keeps all of this (`Served`); that all but a few do is
`MachineServes`, `ExpressionServes`, `StatementServes` and `ModuleServes`, the few
have `GivenServes`, `PeekHolds` and `TemplatesHold`.  `HitsTail`, `HitsCons` and
`HitsJoin` say what pushing and popping do to the number of marked members of a
sequence, which is all that is known of either stack.

The last section of `ProtocolConnectionProofs` is about `Formats`, for any set
of values (heaps of up to thirty containers, of any shape, cyclic ones too), any set of messages
and any bytes behind them, as far as `InputsAssumption` admits them, and any cut:

- `FrameReadsBackHolds`: `FrameReadsBack`;
- `FailsOnlyForSignsHolds`: `FailsOnlyForSigns`;
- `CutIsNoticedHolds`: `CutIsNoticed`.

*Argument.*  The steps are few (`FrameInv`, `StoreInv`: what is on the wire is
what the operators write, what was read back is what they read from the part
that arrived); the work is in the operators.  All of them recurse, and the
provers have no induction over data.  They do have that a non-empty set of
numbers has a least element (`LeastElement`), which is used twice: a set that
holds 0 and with each number the next holds all (`UpTo`), and the partial
solutions of a recursive equation extend one another, so that a function that
follows it exists (`Recursion`).  From there: the bytes of a number, most
significant first, have the number as their value (`BigReadsBack`), so a frame's
head says its length in each of the three encodings (`Parts`, `ReadOf`), and a
head that is cut is no head.  An integer has as many bits as there are powers of
two up to it (`PowersBetween`), so it does not fit exactly if it fills its last
byte and is not the least number of that width (`SignNeedsRoom`); and the loop
over the pool puts the containers of the heap there and nothing else (`PoolType`).
A cut is noticed because every operator of the decoder, given the beginning of some
bytes, fails or returns what it would return for all of them (`Same`): this holds
of taking bytes, survives `Then` and `Repeat`, and so reaches `decode`
(`DecodeCut`).

`TypeOK` of the modules above but `JSParser`, `CipherIsChosenOnce` and `ImplementsGate` are
proved and no run repeats them.  `TypeOK` of the other modules says what their
variables hold; it takes no part in the runs.

*Only model-checked.*

- The liveness properties: `OpenGateLetsOut`, `ArrivedFramesAreHandled`,
  `SendEnds`, `PeerEndClosesConnection`, `EndedConnectionsAreUnlisted`,
  `WorkersGoHome`, `CallsReturn`, `ShownBarsAreDrawn`, `ErrorsClose`,
  `EveryRequestEnds`, `ParseEnds`.  The prover has
  neither fairness nor `ENABLED`.
- `ReadsBackEqual`: that the decoder gives back what the encoder wrote follows
  a value through its pool, its bytes and the pool of the result, up to an
  equality (`PyEq`) that itself recurses to a depth; the lemmas for numbers and
  for cut bytes are there, those for strings, floats and containers are not.
- The three properties of `ByteBuffers`: its operators are RECURSIVE, as a buffer
  may be made of buffers, and the prover loses its main backend in such a module.
- Of the JavaScript parser `StrictNamesChecked` and `PrecedenceRespected`.  They
  speak of the nodes that calls have returned, and so need to know, for every
  instruction on the stack, which nodes it will find under it.  The first
  also needs the names of the parameters of an arrow function, which are read
  from a tree of any depth.

## 5. Not modelled, and the plan

Partly modelled, and what is missing:

- connections: `addProtocol` and `removeProtocol` but for the upgrade of an
  `HTTPServer` connection; a send by another thread that does not
  go by the state of the upgrade, which may see one layer too few between its two
  steps (`ProtocolConnection.py:179`); a close
  between `onConnection` and the append of its listener (`ProtocolServer.py:57`),
  after which the server lists the connection for ever;
- HTTP messages as text, messages of server-sent events, URL parameters;
- the JavaScript lexer's scanning, and regular expressions;
- `DataBuffer`, `TextOutput`; gzip.

Not modelled:

- the Paint Tryhard compiler, the language framework and BrainFuck: pure passes
  over token lists; loops compiled to jumps, the constant pool and the compile
  cache are next;
- `Config` and `Cache`: reads and writes through a stack of files;
- cryptography, drawing (`pyngguin`, OpenCV), file-system helpers, formatting and
  typing helpers, which keep no state of their own or none that a model could say
  anything about.

Theorems to come: an encoded integer, string and float is read back, and with
them `ReadsBackEqual` of values without references; the operations of a single
memory buffer are those of `ByteSequence`.
