# A TLA+ development of bluetti-mqtt-node

bluetti-mqtt-node polls Bluetti power stations over Bluetooth LE, publishes what it reads over MQTT,
and writes settings it receives over MQTT. It is a single-threaded Node process per bridge, with a
native Windows helper process for Bluetooth. What makes it hard is not data but order: promise chains,
timers that race with answers, sessions that break while commands are queued on them, and a shutdown
that must end all of it.

This directory models that behaviour, checks it with TLC, and proves the core of it with TLAPS. Source
paths below are relative to the repository.

## 1. Inventory of the system

| component | source | state | operations |
|---|---|---|---|
| device work queue | `src/app/device-queue.ts` | stop flag, sleep waiters, one promise-chain tail per address | `enqueue`, `sleep`, `stop`, `reset` |
| device session | `src/bluetooth/device-session.ts`, `session-utils.ts`, `errors.ts` | `DeviceSessionState`, waiter and timer, response buffer, name | `connectAndInitialize`, `perform`, `handleNotification`, `disconnect` |
| polling schedule | `src/app/polling-state.ts` | options, three intervals, two due times | normalise, back off, recover, reschedule |
| polling handler | `src/app/device-handler.ts`, `device-executor.ts`, `device-connection.ts` | devices, polling states, one loop per address | `connectAll`, `run`, `stop`, command sets, packs, external writes, recovery |
| session manager | `src/bluetooth/manager.ts` | map from address to session | `connectAll`, `getSession`, `reconnect`, `disconnectAll` |
| bridge server | `src/app/server.ts` | the parts above and below | `run` with its `finally`, `stop` |
| helper client | `src/bluetooth/helper-client.ts`, `helper-request.ts`, `helper-line-router.ts` | `ready` promise and flag, dispose flag, map of pending requests | requests, line routing, exit, `dispose` |
| helper transport | `src/bluetooth/helper-transport.ts` | session id, listener, subscribers | `connect`, `disconnect`, read, write, `subscribe` |
| native helper | `helper/BluettiMqtt.BluetoothHelper/Program.cs` | table of native sessions | a serial loop over requests |
| MQTT bridge | `src/broker/client.ts`, `payload-utils.ts` | raw client, listeners, known devices | `run`, `stop`, publish, dispatch of commands |
| event bus | `src/core/event-bus.ts` | two sets of listeners | publish to all |
| Modbus frames, CRC | `src/core/commands.ts`, `crc.ts` | none | build, recognise, parse |
| device definitions | `src/devices/*.ts` | tables of fields, windows and writable ranges | decode a window, build a setter |
| CLI configuration | `src/cli/bluetti-mqtt.ts`, `cli-config.ts`, `args.ts` | the options | scan arguments, read the file and the PEM files, merge |
| one-shot commands | `src/cli/shared.ts`, `probe.ts`, `poll.ts`, `bluetti-logger.ts`, `bluetti-discovery.ts` | one helper client, transport and session per command | connect, work, clean up |
| process and signals | `src/cli/process.ts` | the flag `stopping` | install and dispose signal handlers |
| logger, mock transport, basic MQTT client | `src/core/logger.ts`, `src/bluetooth/mock-transport.ts`, `src/broker/basic-client.ts` | | not modelled |

**How they interact.** A loop of the handler puts each read on the device's chain in the work queue;
external writes arrive from MQTT over the event bus and go on the same chain. The work looks the
session up in the manager and calls `perform`, which writes through the transport and the helper client
and waits for notifications, which the helper prints as events. What is read goes over the event bus to
MQTT inside the same piece of work. A connection error makes the loop call `manager.reconnect`. Signals
call `server.stop()`, which sets the queue's stop flag and wakes its sleepers; when every loop has ended
the server disconnects all sessions and the broker.

**What is hard, and what makes each part correct.** (The complete list, line by line, is `hazards` in
`PROJECT.json`.)

* *Queue.* Deleting a chain's tail while its links settle; work that throws or hangs; a sleep that
  begins as the stop comes. Correct: one worker at a time and FIFO per address, no leaked entry, a hang
  blocks one address only, no sleep through a stop.
* *Session.* Notifications carry no request id, may be late, split, lost or early; timer, write
  acknowledgement and notification race; `disconnect` may come at any time. Correct: no command is
  completed with another's answer; every command ends.
* *Schedule.* Busy backoff, clamps, recovery and late timers. Correct: the intervals stay in their
  band, full cycles are not starved, and backoff is undone.
* *Handler, manager, server.* Two loops, writes, reconnections, stop and cleanup interleave. Correct: a
  reconnection loses no command, one connection per device, none after the cleanup, stop always ends
  the run and starts nothing, a broken session is noticed.
* *Process.* A signal meets the bridge's start, publications, commands and reconnections; publications and
  cleanups fail. Correct: nothing is left behind, no publication is cut off by a stop, reads and commands of
  a device take turns, a signal ends the process.
* *Helper.* The process hangs, crashes, answers late, prints stray lines. Correct: every request ends,
  and both sides agree on the sessions that exist.
* *Transport.* Several transports share one helper, whose notifications are written by tasks nobody awaits:
  they may come before the answer to the subscription, after the disconnect, or in the middle of the next
  attempt. Correct: a callback hears its own connection's notifications, each once, none after the disconnect,
  and misses none from the subscription on.
* *One-shot commands.* Initialisation, work and disconnection may each fail, and two cleanups follow one another.
  Correct: the first error is the one reported, and the helper is killed.
* *Controls.* The tables name some fields twice, and a command and the reads around it share a queue. Correct: a
  command writes the register its field names, and its state topic follows it; every field is in a window.
* *Command line.* Values that look like values that were not given. Correct: each option has the value that the
  command line, the file and the defaults say, or the first mistake is reported.

## 2. Modules

| module | models | role |
|---|---|---|
| `SerialExecutor` | what `enqueue` promises | abstract specification |
| `DeviceWorkQueue` | `device-queue.ts` | implements `SerialExecutor` |
| `DeviceSession` | `device-session.ts` and its device | component |
| `PollingSchedule` | `polling-state.ts` and the scheduling lines of `run` | component |
| `DeviceHandler` | handler, executor, connection, manager, Bluetooth half of the server | composition |
| `HelperClient` | helper client, request, line router; request loop of `Program.cs` | component |
| `BluetoothTransport` | what `transport.ts` promises a session | abstract specification |
| `HelperTransport` | `helper-transport.ts` over a shared helper, under the session's `connectAndInitialize` and `disconnect` | implements `BluetoothTransport` |
| `OneShotCommand` | `withConnectedDevice`, `probe.ts` | extends `HelperTransport` |
| `BridgeServer` | `server.ts`, MQTT bridge, event bus, `main()` of `bluetti-mqtt.ts` from the server on, signals | composition |
| `ModbusFrames` | `core/commands.ts`, `core/crc.ts`, and how a session gathers a reply | component |
| `DeviceModels` | `devices/*.ts`: tables, windows, decoding, setters | pure operators |
| `DeviceControl` | one control of one device over MQTT: payload, setter, register, read, state topic | extends `DeviceModels` |
| `CommandLine` | `bluetti-mqtt.ts` `parseArgs` and the start of `main`, `cli-config.ts`, `args.ts` | component |
| `BridgeProgram` | `main()` of `bluetti-mqtt.ts` from its first word to its end | composes `CommandLine` and `BridgeServer` |
| `MC*` | | instances for TLC |
| `*Proofs` | | theorems for TLAPS |

One action is one synchronous stretch of code between two awaits, so the interleavings TLC explores are
those of the event loop. The operators marked `Fault` in the modules are variants of an action or helper
with a plausible bug; no specification uses them. `PROJECT.json` pairs each with the property it
breaks, which shows that the property depends on the code it is about.

**DeviceWorkQueue.** `deviceQueues` is the map, with a call standing for the `queued` promise it made.
`Enqueue` is the prefix of `enqueue`, `StartWork` its continuation after `await previous`, `FinishWork`
its `finally` block, and `Settle` the microtask in which `previous.then(() => current)` resolves.
`sleepWaiters` and `sleeping` separate the set of callbacks from the promises they resolve.

**DeviceSession.** A frame is one or two chunks with sizes in half responses: whole, a head and a tail,
corrupt, oversized, an exception (busy or not), or an `AT` control message. The device answers each
request that reached it at most once, at any time or never, and may lose the second chunk.
`chunk.of`, the command a chunk answers, and `answer` are history: no guard of the code's actions looks
at them except through the CRC (the two halves of one frame fit, those of two frames do not).
`handleNotification` is one action per branch.

**PollingSchedule.** Times are relative to now. How late a timer fires (`MaxLate`) and how long a cycle
takes (`MaxCycle`) are the environment's choices.

**DeviceHandler.** `loop[a]` says where the loop of address `a` is and what is left of its command
set. `queue[a]` holds jobs (the loop's or a write), as the queue is proved to be a serial FIFO; `session[a]`
is what the manager's map holds, abstracted as `DeviceSession` is proved to behave: a session that breaks,
by a timeout, a malformed answer or the connection, does not heal (the lemma `StaysDown` in `DeviceSessionProofs`). `open[a]` counts connections opened and not yet closed, whether or not the manager still
knows them. `disconnect` takes effect at once on commands and is awaited before the entry is deleted;
`disconnectAll` does so for one address after the other and deletes by address, so that it may meet
a loop that is reconnecting. External writes are possible once the command listener is attached.
`helperReady` is the helper client's promise of that name having settled: every attempt to connect waits for it,
without a deadline, and so may last for ever.

**BridgeServer.** `main` is where `main()` of the program is: in `mqttBridge.run()` (`connecting`,
`subscribing`, `failing`), in `deviceHandler.run()` (`starting`, `polling`), or in the `finally` blocks
(`disconnecting`, `closing`). Of polling it keeps what meets the bridge: `Enqueue` to `Published` are the job
of one read, which publishes `left[d]` values one by one, and `ConnectionLost` to `GiveUpRecovery` its
reconnection. Messages come from the broker only for devices the bridge has published for. `helper`, which
no connection is made without until it is `ready`, and `session` say what the end must release. `DeviceHandler` has the same loops in detail, with the queue and the
manager, and knows nothing of the bridge; its job of a read is one step, its result one of the classes that
`runCommandSet` tells apart.

**HelperClient.** `stdin` and `stdout` are the lines in the pipes. `waiting` are the requests in
`await ready`, in order; `pending` is the map. The helper serves one request at a time; it may stay in
it for ever, crash, or be killed. A session is named by the request that connected it.

**BluetoothTransport, HelperTransport, OneShotCommand.** The contract has three variables: the connection of each
transport, whether it has a callback, and how often each notification was called back. `HelperTransport` keeps
`sessionId`, the listener on the client, the subscribers, the native sessions with their handlers, and the
notifications in the pipe; connect, name read and subscribe are the three requests of an attempt, of which there
are up to `RetryCount` on one transport. What `HelperClient` shows of requests (answered, failed or timed out; an
answer that is too late is dropped) is built in. `OneShotCommand` is the code of one command around its transport:
its other steps are those of `HelperTransport`.

**DeviceModels, DeviceControl.** The tables are copied field by field: registers are 16-bit words, a window is the
sequence of words one read returns (for polling, for packs, and for the logger and its packs, which publishes nothing
over MQTT), and a published value is a pair of a text and a number. `Control` picks a
model and one of its writable names; a payload becomes a value, the value a register write, and the write a job that
waits in the queue between the reads of all windows, each of which decodes and publishes. The device keeps what is
written and may change any register of the control itself.

**CommandLine.** A word is a string that constants give a meaning to (an address and what it spells, a number of
seconds, a level, a readable path); an option is an empty sequence while it is undefined. One action is one word
of the scan, then the file, the merge, the TLS files and `main`, each of which may end in the first mistake.
An empty word is skipped by the scan, and an empty broker is one that is missing, as the code has it.

**BridgeProgram.** `Parse` is a step of `CommandLine`; `Launch` is `main()` going on behind its checks, from where
the steps are those of `BridgeServer`, with `runOnce` as the options have it. The other options change nothing in
what the server's parts do to one another, and are forgotten.

**ModbusFrames.** A command is a record of its constructor's arguments, `InRange` says which ones the
constructor throws at, and the other operators are the methods. One command is constructed, the device
answers it, answers another one (late) or sends an exception, a burst of at most 16 bits may damage the
reply, and `HandleNotification` takes it chunk by chunk. `AddByte` is the loop over bits, and
`InOrder` a loop over a sequence: it takes the first half and then the second one, which keeps the recursion
shallow for frames of 255 bytes. It, `Xor` and `AddByte` are recursive functions, not operators, so
that the provers can be told what they compute. The device's registers are assumed to hold 16-bit numbers.

## 3. Runs

| run | checks | states |
|---|---|---|
| `queue` | FIFO (and with it mutual exclusion), no sleep during stop, hang isolation, implements `SerialExecutor` | 44 847 |
| `session` | own answers only, quiet when usable, no self-healing of the transport, every command ends | 31 386 |
| `schedule` | band, full cycles not starved, return to configured rates | 2 477 |
| `handler` | no command lost to a reconnection, one connection per device and none after the cleanup, stop starts nothing, stop and one-shot mode end the run, broken sessions are noticed | 232 855 |
| `helper` | known sessions, no orphan but by a deadline, requests end | 14 941 |
| `program` | the options are what command line, file and defaults say, or the first mistake is reported; released at the end, no publication cut off, one job per device, a signal ends the run | 177 270 |
| `oneshot` | nothing missed from the subscription on, the first error is reported and the helper killed, implements `BluetoothTransport` | 120 613 |
| `data` | frames say their command, replies decide when whole, noise is rejected, look-alikes; a command writes the register of its field, the state topic follows, windows fit the fields | 38 711 |

`program` runs `BridgeProgram`, and with it `CommandLine` and `BridgeServer`. `data` runs `ModbusFrames` or
`DeviceControl`, whose states have nothing in common: `MCDeviceData` picks one half at the start and leaves the
other where it began.

The remaining runs end in a counterexample: each states what a comment of the code says and the code
does not do. They are listed in section 6.

**Bounds, and why they are enough.**

* `queue`: three calls on one address, one call on another that hangs, one loop. Two calls
  on one address are needed for a chain, a third to be submitted while its tail is being deleted.
* `session`: three commands, so that a late answer meets a usable session of one command and one more
  follows; a limit of three attempts at the initialisation (`RetryCount`).
* `schedule`: the proportions of the default options (fast clamp below the full default, penalty above
  the step), one legacy interval above the default and one options object; timers up to 1 late, cycles
  up to 3 long, which is longer than the fast interval.
* `handler`: two devices, one fast, one slow and one pack read, two packs, one write, one-shot mode and
  continuous polling. Two devices are needed for one loop to throw while another reconnects; two packs for
  a pack read to be lost between two selections; two reads in a full set for a stop between them. There is no
  symmetry, since the run also checks liveness. `MaxOpen` = 2 bounds leaked connections: a loop
  that outlives the cleanup can leak one each time round. The safety properties are proved for any values.
* `program`, the server: two devices, for one loop to fail, reconnect or return while the other publishes; a field and the
  snapshot, for a stop to fall between them; one command per device and one signal, as later ones are ignored.
* `helper`: two connects, one use and one disconnect of the first session, one stray line; proved for any requests.
* `oneshot`: one transport, three attempts, one notification of each native session, so that a notification of a
  failed attempt can meet the next two. Several transports on one helper are covered by the proofs only.
* `data`, controls: every model and control of the tables; two commands and one change by the device, so that a command
  can overtake the reads of another; payloads -1, 0, 2, 65536, ON, OFF and every option name.
* `program`, the command line: up to two phrases (a flag with or without its value, a switch, an address, an empty
  word) after one of four
  beginnings, so that each flag meets each other, itself, the file and a mistake; seven files: unreadable, empty, full,
  and with a wrong or negative member.
* `data`, frames: commands on both sides of each limit of their constructors (the longest frames included), and
  commands that are easily taken for one another; bursts of one bit, of bits on both sides of a byte boundary
  and of 16 bits, at each kind of position; chunks that end at the size of an exception.

Deadlock checking is off where the system stops by design: all calls are over (`session`, `session_no_retry`,
`helper`, `helper_wedged`), the cleanup is over (`handler`, `program`, `server_signal_lost`, `oneshot`), the reply, the commands or
the words are used up (`data`, `cmdline_flags`).

**Fairness.** Timers fire (`RequestTimeout`, `CommandTimeout`, the sleeps in
`LoopStep`); continuations of settled promises run (`StartWork`, `Settle`, `Send`); node reads the lines
in its pipe and gets exit events; a killed process exits. The device, the helper and hanging work owe
nothing. In `DeviceHandler` a performed command ends (`JobStep`), which `DeviceSession!PerformSettles`
shows for commands that are not disconnected; a command that was disconnected (`FinishOrphan`) is not
assumed to end. In `BridgeServer` the promises of the broker settle, one way or the other. Attempts to connect need not
ever succeed. They end only once the helper's promise of being ready has settled: until then requests wait without a
deadline (`helper-request.ts:45`), and nothing makes it settle (`HelperReady` and `HelperStarts` have no fairness).
With a helper that neither says it is ready nor fails, a stop during the start does not end the run, so that `RunEnds`, `SignalEndsRun` and
`SignalEndsProcess` have the settled promise as a premise; a stop that comes first is met when it settles. After
that helper requests have deadlines, and attempts end.

## 4. Proofs

TLAPS checks the theorems below for all values of the constants under the named assumptions
(`QueueAssumption`, `SessionAssumption`, `ScheduleAssumption`, `ServerAssumption`, `HelperAssumption`,
`TransportAssumption`, `OwnAssumption`, `HandlerAssumption`, `FramesAssumption`, `ControlAssumption`,
`CommandLineAssumption`, `TablesAssumption`). They are types, positive bounds and disjointness; `OwnAssumption`
says that the command's transport is one of the transports, `CommandLineAssumption` that no address is spelled
like a flag. `TablesAssumption` is about no constant: it says of the tables in `DeviceModels`, which are concrete,
what the proofs use of them, and TLC evaluates it of every model. A definition as large as the tables is better
read by TLC than by the provers.

* `DeviceWorkQueueProofs`: `TypeCorrect`, `Fifo`, `MutualExclusion`, `TailEntry`, `StopWakes`,
  `Refinement`. FIFO is not inductive: that a call starts only after all earlier ones depends on each
  call's `previous` being the call of its address made just before it, or on that call having been finished
  and settled when its entry was deleted. The inductive invariant `IInv` adds `TicketInv` (calls of an address
  have different tickets), `TailInv` (what the tail entry is), `PreviousInv` and `SettledInv` to
  `FifoPerAddress`; mutual exclusion is FIFO read for two calls with different tickets; and the
  refinement's only non-trivial step, `StartWork` to `Begin`, is the invariant at a settled `previous`.
* `DeviceSessionProofs`: `TypeCorrect`, `AnswersOwn`, `Quiet`, `SelfHealing`. `IInv` says of each state in
  which commands are accepted that only the command in flight has anything owed, on the wire or in the
  buffer (`OneInFlight`, `FlowInv`, `OwedReceived`), and of each write or wait in progress which states it
  can be in (`PendingInv`, `ResolvedInv`, `InitialisingInv`, `ClosingInv`). A timeout or parse error makes the
  session unusable, which is the argument: the session never tells answers apart, it stops listening.
  `SelfHealing` is about failures of the transport, as the code documents it. Its lemma `StaysDown` covers every
  state that refuses commands, the one after a timeout too, which is documented to accept a retry (section 6).
* `PollingScheduleProofs`: `TypeCorrect`, `Band`, `NotStarved`. `FullBudget` bounds `sinceFull + fullDueIn`
  by the longest interval the options allow, and a fast cycle starts only while `fullDueIn` is positive.

* `BridgeServerProofs`: `TypeCorrect`, `Released`, `ClientOutlives`, `OneJob`. What is released at the end
  follows from what is held in each phase of `main()` (`PhaseInv`, `BeforeInv`), and for the sessions and the
  last publications from `AfterInv`: a run that ends without an exception has waited for every loop. `LeftInv`
  and `HeldInv` say that a publication has something to publish and a job its session.

* `DeviceHandlerProofs`: `TypeCorrect`, `ReconnectIsQuiet`, `OneConnection`, `StopIsFinal`. That a reconnection meets no command
  in flight is not inductive: it depends on how the loop got there. `Lost` is the whole stretch from the connection
  error a loop is told of to the replacement of the session, and `JobInv` says that through it the session takes no
  commands and none is performing, because the error that was reported had broken the session, and commands of a
  device take turns. It needs no assumption about the other loops, so that it also holds when one has thrown. The
  connections are counted by `LinkInv`: who disconnects a session, a loop or the cleanup, forgets it before anyone
  replaces it. This needs that the cleanup begins when all loops are over (`CleanupInv`), which is why the property
  stops at a loop that throws. The loops' actions other than the reconnection are first shown to be moves
  (`Moves`), after which one step covers them all. The action property `StopIsFinal` needs types only: it is read off
  the actions, each of which looks at the flag where the code does (`StoppedLoop`).
* `HelperClientProofs`: `TypeCorrect`, `SessionsKnown`, `SessionsOwned`. Lines keep their order and the helper serves
  one request at a time: `PlaceInv` says that each request is in one place (waiting, in a pipe, being served,
  answered) and how far its call has come, `UseInv` that no disconnect of a session is before a use of it anywhere on
  the way, and `NativeInv` and `ConnectedInv` relate the helper's table to what Node has been told.
* `HelperTransportProofs`: `TypeCorrect`, `MissesNothing`, `KeepsContract`. The transport implements
  `BluetoothTransport` for any set of transports, attempts and notifications: `Ownership` says
  what session id, listener and callback are in each phase, `ListenersOwned` that the client has no listener but
  those of the current sessions, and `NothingEarly` that no notification exists before its session asked for it,
  when the callback was already there.
  Of the one-shot command it has `UsesTransport` (a command takes only steps of `HelperTransport`, so that what is
  proved of the transport holds in it) and `ReportsFirstError` (`StageInv`: what has gone wrong at each stage).
* `ModbusFramesProofs`, on the checksum: `ValidIsCodeword` and `BurstIsDetected`, for bytes of any number. The
  first says that the comparison the code makes, with what `modbusCrc` computes bit by bit from the low end with a
  reflected polynomial, holds exactly when the bits as sent, the first 16 complemented, are a multiple of x^16 +
  x^15 + x^2 + 1. The argument: numbers are seen as their bits (`XorBits`, `HalfBits`, `DoubleBits`, `SameBits`),
  so that a round of the loop and a step of the division are each a statement of their bits (`ShiftBits`,
  `DivideBits`); and `Mirror`, which goes from byte to byte, says that the register so far is the mirror image of
  the remainder that the division has 16 bits later, but for these 16 bits. The second says that two frames of one
  length that are both accepted do not differ in two adjacent bytes alone: up to the difference the divisions are
  the same, after it each step can be undone (`DivideKeepsApart`), and 16 steps that lead from one remainder to one
  remainder took in the same bits (`WindowKeepsApart`). Induction is used all through: it is `Inductive`, a fact
  about sets of numbers that rests on the library's theorem that strict inclusion of finite sets is well-founded,
  and `LoopRuns` and `InOrderRuns` turn recursive functions into the values that loops go through.
* `ModbusFramesProofs`, on frames: `FrameIsDecoded`, `DecidesWhenWhole`, `NoiseIsDetected`, `TakesOnlyLookalikes`,
  for any commands, in range or not, registers, exception codes, chunk sizes, and bursts at any place. Why chunks
  decide at the right time is a matter of lengths and function codes: a proper prefix of the reply to the command
  in flight is shorter than that reply, and one as short as an exception has another function code. `FInv` relates
  `frame`, `reply` and `outcome` to the command and to what arrived, and `NoiseInv` says of a damaged reply that it
  is a frame of the device that one burst has hit. `NoiseIsDetected` and `TakesOnlyLookalikes` have the premise
  `LengthIsTold`: the function code and byte count have come through, or the reply has arrived whole. It cannot be
  dropped. `handleNotification` believes these two bytes, so that noise in them can make it take the first bytes of
  a long answer for all of a short one, and whether the last two of those pass for a checksum depends on what the
  registers hold. For some contents they do: with its highest bit flipped, the function code of an answer is that
  of an exception, five bytes long, whose checksum is then the first register. In the runs' instance none do, and
  `NoiseIsRejected` holds there without the premise.
* `ModbusFramesProofs`, on controls: `WritesTheField` and `ReadFollowsWrite`, for any payloads, any number of commands
  and changes, and what any other register holds. `ControlInv` says of each write in the queue, and of each register
  not changed since it was last written, that its value is one whose text is what the command said (`AskedInv`):
  encoding and decoding are inverse there, because an enum's options differ and a number is one word. Then a
  read that covers the register publishes that text, as it decodes no other field of the name, which is the premise
  `[]SchemaFitsWindows`. TLC finds it true of every table, which is all of its cases, so that it is no restriction.
* `BridgeServerProofs` also has the command line: `OptionsAreEffective`, for any command lines and files. The
  property reads the command line at once, by the positions of its words, and the code scans it word by word.
  `ParseInv` joins them: while the scan goes on, the words before `rest` have no mistake, no value among them is a
  flag, and `options` and `addresses` are what their positions say; each action moves the position by one or two
  words. After the scan it says what the file has added. Of an interval of 0 and the level info on the command line
  the property says nothing: there the file wins (section 6).
  `ProgramKeepsPromises` is about `BridgeProgram`: from its first word to its end the program keeps what
  `OptionsAreEffective`, `TypeCorrect`, `Released`, `ClientOutlives` and `OneJob` say of its parts, since the
  invariant of the command line holds until `Launch` and that of the server, whose initial state has been waiting,
  from the beginning (`LaunchKeeps`).

`MutualExclusion` and `TailEntry` are theorems about the queue that no run checks any more: the first follows from
FIFO, the second is a conjunct of the argument.

What the proofs do not cover, and why:

* Liveness (`PerformSettles`, `HangBlocksOnlyItsAddress`, `ReturnsToConfigured`, `RunEnds`, `BrokenSessionNoticed`,
  `SignalEndsRun`, `RequestSettles`), fairness in the refinements (`ImplementsExecutor` is checked with it,
  `Refinement` proved without), and anything about ENABLED: out of the prover's reach.
* `NoiseIsRejected` without its premise, which is false for some contents of the registers (see `LengthIsTold` above),
  and noise that hits more than two adjacent bytes, of which a 16-bit checksum lets some pass.
* `SchemaFitsWindows` is about tables, of which TLC looks at every entry: there is nothing left to generalise.

## 5. Not modelled, and why

* Formatting, logging, telemetry counters, the JSON of the raw snapshot, the parts of a topic, MQTT connection
  options: data that no property here tells apart.
* The registry's name pattern and the decoding of texts letter by letter; JSON syntax and number formats, which
  are constants of `CommandLine`.
* Wall-clock jumps: the schedule compares with `Date.now()`; no bound holds under an arbitrary clock.
* Duplicate addresses in `DeviceHandler`, and the number of the selected pack, which an external write of
  `pack_num` may change between a pack's selection and its reads.
* Discovery, which is one request, and what the one-shot commands print.
* `pollOnce`, which nothing calls, the mock transport, and `BasicMqttClient`, which no program uses.
* `BluettiMqttBridge.stop()` beside its `run()`, which the server never does; several listeners of one kind
  on the event bus, of which the program has one each.
* GATT, WinRT and the broker: environment.

## 6. Where the code does not do what it says

| run | what happens |
|---|---|
| `session_no_retry` | after a timeout or a malformed answer the session refuses every further command, although the state is documented so: "the session can accept a retry" (`device-session.ts:32`), "allowing recovery on the next command" (`errors.ts:24`), "can retry" (`errors.ts:82`). |
| `cmdline_flags` | "CLI flags override config-file values when both are provided" (`README.md:297`), but `--interval 0` and `--log-level info` yield to the file. |
| `server_signal_lost` | a signal while the bridge connects or subscribes is erased by the `reset()` of `handler.run()`, and every later signal is ignored: the process polls on. |
| `helper_wedged` | requests wait for the ready event without a deadline. |

Each is a run whose only property is the documented statement. More came up while modelling; the models
contain the behaviour, and no run is spent on it:

* `disconnect()` drops the waiter and timer of a command in flight, whose promise never settles
  (`device-session.ts:208`), although `perform` documents how it rejects (`:225`);
* a request that waits for `ready` when `dispose()` is called is sent and forgotten, although "no new requests are
  accepted" (`helper-client.ts:320`);
* "The helper client is always disposed during cleanup" (`cli/shared.ts:22`), but not when the disconnection after
  successful work fails: the second cleanup returns at once;
* a connection error in a pack read is dropped and the next pack tried on the broken session, until another
  command meets it;
* with a configured interval above the clamp, backing off speeds polling up;
* when one loop throws, the others keep running past the cleanup and may reconnect;
* a stop while `connectAll` waits for a helper that is never ready does not end the run (`device-connection.ts:18`
  is not reached);
* a line before the ready event that is not JSON makes the helper client unusable for good;
* enum fields take an "enum name string" (`README.md:375`), but the name `OFF` of `led_mode` is read as the
  boolean first (`payload-utils.ts:48`) and refused;
* "must contain a JSON object" (`cli-config.ts:144`), but an array is accepted as an empty one;
* `--help` of the bridge is honoured only if everything else on the command line is valid;
* the examples of names in `devices/registry.ts:11` have a hyphen, which the pattern of names refuses.

## 7. Plan

Done: 1. `SerialExecutor`, `DeviceWorkQueue`, their proofs. 2. `DeviceSession`, its proofs.
3. `PollingSchedule`, its proofs. 4. `DeviceHandler`, its proofs. 5. `HelperClient`, its proofs.
6. `ModbusFrames`. 7. `BridgeServer`, its proofs. 8. `BluetoothTransport`, `HelperTransport`, the refinement proved.
9. `OneShotCommand`, its proofs. 10. `DeviceModels`, `DeviceControl`. 11. `CommandLine`.
12. Proofs for `ModbusFrames`, its checksum included, `DeviceControl` and `CommandLine`. 13. `BridgeProgram`, its proof.

Next, in this order:

14. `DeviceHandler` with the selected pack and the published values, and its runs as runs of the loops in
    `BridgeServer`, with the projection as a refinement.
15. Theorems for the queue's hang isolation and the handler's one-shot mode as far as they are safety: what a step
    of one address may change of another.
16. Duplicate addresses, from `CommandLine` through the handler's loops to two reconnections at once.
