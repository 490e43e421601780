# TLA+ models of the drivebrain software

Drivebrain is the process on the vehicle's computer that receives sensor data
over CAN and Ethernet, keeps a vehicle state, steps a controller every 4 ms and
sends its set points over CAN. It also logs every message to an MCAP recording
and serves parameters to Foxglove clients. These modules model its threads, the
state they share, and the algorithms whose results the car depends on.

Run a configuration with `tlc -config <run>.cfg <module>`, and the proofs with
`tlapm <module>_proofs.tla`. `PROJECT.json` lists the runs, the theorems, and the
lines of the source behind every definition.

## Inventory

Paths are below `src/`; `core` is `drivebrain_core`, `comms` is
`drivebrain_comms`, `control` is `drivebrain_control`.

| component | state | operations | called by | module |
|---|---|---|---|---|
| `MCAPLogger` | input buffer, writer thread, `_logging`, `_running`, the open file | `log_msg`, `log_params`, `open_new_mcap`, `init_logging`, `stop_logging`, `close_active_mcap`, `status`, destructor | every thread that logs; the parameter server (start and stop); the main thread (boot, destructor) | `MCAPLogger` |
| `StateTracker` | vehicle state, raw inputs, four time stamps | `handle_receive_protobuf_message`, `get_latest_state_and_validity`, `set_previous_control_output` | CAN, io and simulation threads; control loop; parameter server | `StateTracker` |
| `ControllerManager` | active index, status | `init`, `step_active_controller`, `swap_active_controller` | control loop; parameter server | `ControllerManager` |
| `DrivebrainControllerInterface` | none | turns two parameters into logging and controller requests | parameter server | `DrivebrainControllerInterface`; in detail `MCAPLogger`, `ControllerManager` |
| `FoxgloveServer` | parameter map, callbacks, channel map | parameter changes and requests, `get_param`, `get_all_params`, `send_live_telem_msg` | the WebSocket library's thread; all others | `FoxgloveServer` (parameters) |
| `LoadCellTorqueController` | `_config` | `init`, `_handle_param_updates`, `step_controller` | main thread; parameter server; control loop and switches | `LoadCellTorqueController` |
| `DrivebrainApp` | `running`, two threads, drivers | `run`, `_loop`, signal handler, destructor | `main` | `DrivebrainApp`; one tick with what it sends: `ControlLoop` |
| `CANComms` | socket, `_messages`, reader thread | reader, decoding, encoding, `send_message` | its own thread; control loop | `CANComms` |
| `Telemetry` | none | `core::log`: recording, then Foxglove | every thread that logs | a step of `CANComms`, `ControlLoop`, `IoReceivers`, `SimComms` |
| `ETHRecvComms`, `VNComms` | socket or serial port, buffers | receive, handle, ask for the next | io thread | `IoReceivers` |
| `SimComms` | ZeroMQ socket, thread | `start`, receive loop, `close` | HOOTL build only | `SimComms` |
| `ETHSendComms` | queue, sender thread | enqueue, send | no object of the application | not modelled |
| `SimplePowerLimiter` | none | scales torque limits to a power | its one call is commented out | not modelled |
| estimator manager, generated models | generated | not in this repository | control loop | environment |

The threads: **main** creates the singletons and drivers, starts the others,
joins them and runs the destructor. The **control loop** reads the tracker,
steps the active controller, stores its output, sends and logs. The **io
thread** runs the UDP and serial receivers. **One reader per CAN interface**
logs and tracks each frame. The **log writer** empties the logger's buffer. The
**parameter server's thread** applies a client's change, logs the parameters and
runs the callbacks: start or stop logging, switch the controller, reconfigure it.

What is hard in it:

- Locks that cover less than the operation: one for the stamps and another for
  the state; one for each field of a configuration; none in `ControllerManager`,
  in the start and stop of logging, around `_messages`.
- Flags and a condition variable set in the wrong order, or never set again.
- Boot and shutdown: callbacks that arrive before what they call exists, threads
  that outlive what they call, exceptions and signals at the wrong moment.
- Messages that travel in parts or by several ways: speeds and their torque
  limits in two frames, an output on two buses and in the log, a change that
  goes to the recording, the logger and the manager.
- Receivers that stop for ever after an error, and one thread that serves all.
- Conversions: parameter types between C++, JSON and the protocol; messages to
  frames and back; NaN in limits.

## Correctness, component by component

- **Logger**: an accepted message is written once and in order (`NothingLost`,
  `ImplementsMessageLog`, `AcceptedIsWritten`); the unlocked file operations
  never meet the writer (`WriterHasFileToItself`); a stop drains (`StopDrains`)
  and comes back (`StopReturns`); each recording holds its configuration
  (`ConfigRecorded`) and overwrites none (`NewRecordingIsNew`).
- **Tracker**: a stamp dates the data it stands for (`StampDatesData`); a valid
  state is complete and recent (`ValidStateIsRecent`); a corner is one inverter
  (`CornerIsOneInverter`).
- **Manager**: a controller becomes active only below the limits
  (`SwitchIsSafe`: wheel speed, acceleration, and set points and torques of both
  controllers); null controllers are never stepped (`NeverStepsNull`); the
  status tells the truth (`StatusIsHonest`).
- **Parameters**: no client changes a type (`TypesNeverChange`); a value echoed
  back through JSON is unchanged (`SentBackIsUnchanged`).
- **Controller**: its configuration follows the parameters
  (`FloatsFollowParameters`); the axle split keeps the total
  (`RearScaleSplitsDrive`).
- **Application**: threads never meet a missing singleton
  (`ThreadsFindSingletons`); ticks do not bunch up: a late one may be followed by
  an early one, but two never fit in one period (`TicksAreSpaced`); a stop has the
  threads joined and the destructor begun (`StopJoinsThreads`), which then need not
  come to its end (`logger_lost_wakeup`).
- **Control loop**: what a bus carries only gets newer, and a tick speaks for one
  controller (`ImplementsDriveCommands`); the active one, from the first tick
  after a switch (`NewControllerCommands`); speeds and limits part only when a
  counter says that a frame was lost, or the DBC file lacks one of the two messages
  (`OnlyLossesSplitPairs`); output ends when the state is too old
  (`OutputEndsWithState`); every command is recorded (`CommandsAreRecorded`).
- **Requests**: once a change is handled, nothing records if `should_log` is off,
  and if it is on a writer was started, which works unless logging was stopped
  before (`LoggingFollowsParameter`); the controller is the one asked for or the
  status says it was rejected (`RequestIsDecided`); a change that comes after a
  recording was opened is the last it shows (`LaterChangesAreShown`).
- **Receivers**: each source's messages are tracked once and in order
  (`SourcesInOrder`), and recorded in the order the state took them
  (`IoLogsInStateOrder`); an error of one does not deafen another
  (`OthersErrorsHarmless`); `SimComms::close` returns and is final
  (`CloseReturns`, `ClosedIsQuiet`).
- **CAN**: each decodable frame is logged and tracked once, in order
  (`HandledInOrder`), whatever comes between (`EveryFrameHandled`); what is sent
  can be read back (`EncodingKeepsFields`).

## The modules

**`MessageLog`** is the abstract FIFO log: a message is accepted, and the oldest
accepted one is recorded.

**`MCAPLogger`** splits each operation at its lock and unlock points. A logging
thread reads the clock in `BeginLog` and pushes in `PushMsg`; another may push in
between. The writer checks its predicate, parks (it has decided to wait and holds
the mutex), blocks, wakes, takes the whole buffer and writes one message at a
time. `OpenSucceeds`/`OpenFails`, `LogInitialParams`, `InitLogging` are a start,
at boot or on request; `StopSetsFlags` to `CloseActiveMcap` a stop. `InitLogging`
joins two statements, the creation of the thread and `_logging = true`: the
thread reads no `_logging`. `DestroyUnlinks` to `DestroyJoins` are `destroy()`.
The flags it sets are a data race with their readers; the model gives the values
a build produces, the old one or the new one. A thread that calls `instance()`
after `destroy()` aborts the process in the assertion and has no step here.
`accepted`, `written`, `landed` and `stopMark` are history variables.

**`StateTracker`** keeps, for each field, which message brought it and when.
`Receive` is one critical section, as every handler is. A read is three steps:
`CopyStamps` (first lock), `ValidateTimestamps` (no lock), `ReturnLatestState`
(second lock). The other message types of the dispatch change fields no property
here tells apart, and are not told apart either.

**`ControllerManager`** runs the control loop and the parameter server's thread
against a manager without a lock. A request is cut at the two calls of
`step_controller`, the loop's step between its null check and its call. What a
controller returns is arbitrary, since each keeps state of its own. A wheel
vector is its deciding wheel: each test asks whether any wheel is above a limit.
The write of the status inside `_can_switch_controller` and of the index after it
are one step, `Decide`. `prevOut` is a history variable: what the controller that is
to be replaced returned to the request.

**`DriveCommands`** is what the drives may rely on, bus by bus: a command never
comes after a newer one, and within a tick only the torque limits come after the
speeds of the same controller. Any command may be missing.

**`ControlLoop`** is one tick of `_loop` with what it touches: the verdict of the
tracker (`inputs`: coming; stopped, with a state still judged recent; or old, once
`StateExpires` lets the 500 ms pass), the active controller, which the parameter server's thread
may switch between any two steps of the tick, the transmit queues of the two CAN
interfaces, and the log. `SendAndLog` is the order of the calls: one interface,
the other, the log, each part by part. `TickSends` is `send_message`, with its four
ends: the frame is queued, dropped and counted because the queue is full
(`Drops`), lost to another error of the write, which is counted apart
(`WriteFails`), or not encoded, because the DBC file has no such message, which
nothing counts (`EncodingFails`). A write of part of a frame is left out: a CAN
socket takes whole frames. `BusCarries` is the controller
and the bus, and is external to the code. `last`, `held`, `lateFrames` and
`switchedIn` are history variables. What the verdict rests on, how a switch is
judged and how a frame is encoded are in the modules of those components.

**`DrivebrainControllerInterface`** extends `FoxgloveServer` with the callback that
it runs after each change: first the logger is started or stopped, then a
controller is requested, whatever the parameter that changed. Entries of the
recording are told apart by the parameters they show, named by the number of
changes before them (0: the file's). The logger is here as the callback sees it:
two flags, the writer, the queue. The writer takes the whole queue at once; what
it writes with no recording open is lost. `boot` follows `run()`: clients are served
from the first step, before the recording of boot is opened (`BootOpens`), before
the callback is registered (until then a change only reaches the log,
`SkipCallback`), and before the manager exists (a change in between aborts the
process, `ManagerMissing`). An open may fail, at boot or later, and is followed by
`init_logging` all the same (`Opens`).

**`IoReceivers`** is the io thread with the UDP receivers and the VectorNav driver:
the reads under way (`armed`), completed reads in the queue of the `io_context`,
and the handler that runs. A read is the sequence of its messages, since the
bytes of a serial read hold several packets. A read that fails, an exception and
the stop are actions. **`SimComms`** extends it with the receive thread of the
HOOTL build, `start` and `close`.

**`FoxgloveServer`** is the parameter map under `parameterChangeHandler`: the
locked loop over a message that may name anything, the second lock for the log,
the callbacks. Numbers that are not integers are counted in halves, enough for a
cast to cut something off; an `int` has `IntSize` values, so a cast wraps.
**`LoadCellTorqueController`** extends it: `init()` reads one parameter per step
and registers last, the callback writes one field per step, the control loop
copies the configuration and computes. A field takes its parameter as it is, but
`dt_rate_hz`, which is an `int`, cuts it (`AsField`). Torques are exact numbers over the sum of
the loads of the four wheels.

**`DrivebrainApp`** is the main thread's program from boot to destructor, with the
control loop's pacing, the io thread and the CAN readers reduced to what
matters for their lifetime. `TimePasses` lets `sleep_until` wake up to `MaxLate` after
`next_tick`; `TickBegins` then adds a period to the old `next_tick`. `DestroyLogger`
ends in the join of the log writer, from which `WriterJoined` may never return.

**`CANComms`** has the reader and the sender over a transmit queue. A description
of a message is a constant; signals share bit positions when they are
multiplexed. While the reader inserts an unknown id into the map, a lookup by
the sender may find nothing and go through a null pointer. That ends the process:
nothing happens after it (`Alive`).

An operator marked *mutant* in a comment is a plausible slip of the definition
after it. No behaviour uses it; it shows that a property can fail.

## What each run shows

Passing runs:

| run | properties | bounds, and why they are enough |
|---|---|---|
| `logger_safety` | all safety of the logger, refinement of `MessageLog` | 2 threads, 3 calls, 2 recordings, destructor: two batches, a stop between them, a restart, and a call left inside the destructor. 437 000 states |
| `logger_liveness` | `AcceptedIsWritten`, `StopReturns` | 2 threads, 2 calls, 2 recordings; without symmetry, which liveness does not allow |
| `tracker_validity` | `StampDatesData`, `ValidStateIsRecent`, `CornerIsOneInverter` | the four stamped types, threshold 1, time to 3: ages below, at and above one threshold and at two; an indexed and a named message of different inverters, which a slip would put on one corner. 403 000 states |
| `manager_switch` | `NeverStepsNull`, `StatusIsHonest`, `SwitchIsSafe` | 2 controllers and a null one, indices -1 to 3, values under, at, over each limit, of both signs, and NaN. 73 000 states |
| `params_types` | `TypesNeverChange`, `SentBackIsUnchanged`, `LoggingFollowsParameter`, `LaterChangesAreShown`, `RequestIsDecided` | one parameter of each type, of which clients set three, values of each type, an `int` of 4 values so that 4 wraps; 3 changes: a stop, a start and one after it, each with or without a request for a controller, and each at any step of boot or later; every open may fail. 101 000 states |
| `config_updates` | `FloatsFollowParameters`, `RearScaleSplitsDrive` | both ends of the scale and the middle, uneven and zero loads, throttle and brake; a client sets the rate to halves, which the `int` cuts. 792 000 states |
| `app_lifecycle` | `ThreadsFindSingletons`, `TicksAreSpaced`, `StopJoinsThreads` | period 2, a tick up to 5: overruns of less and of more than a period; wakes up to 3 late (`MaxLate`), so by more than a period; every step of boot that can throw. 7 600 states |
| `can_frames` | `HandledInOrder`, `EncodingKeepsFields`, `EveryFrameHandled` | 2 frames of known, unknown and undecodable ids, 2 sends, a queue of 1, writes that fail. 50 000 states |
| `control_loop` | `TypeOK`, `OnlyLossesSplitPairs`, `OutputEndsWithState`, `NewControllerCommands`, `CommandsAreRecorded`, refinement of `DriveCommands` | 3 ticks, queues of 2 frames, so that a pair fits and a second one does not; a switch (`MaxSwitches`), a failed write (`MaxErrors`) and a loss of the inputs (`MaxLosses`), each at any step; a DBC file with all messages and one without the limits. A controller of speeds and one of torques or nothing. 3 230 000 states |
| `receivers` | `SourcesInOrder`, `IoLogsInStateOrder`, `OthersErrorsHarmless`, `CloseReturns`, `ClosedIsQuiet` | one UDP port, the VectorNav and the simulation thread; 2 messages, in one read or two, of any kind; one failed read; 2 starts. 116 000 states |

Each module has a type invariant, `TypeOK`. Two runs check it, and it is a theorem
about every component with proofs; with `INVARIANT TypeOK` added to its
configuration every other run passes as well. The
safety properties of `receivers` were also checked with 3 messages and 2 failed
reads (2 260 000 states).

Runs that end in a counterexample, each a place where the code does something
other than a line of the repository says (quoted in `PROJECT.json`):

| run | property | what happens |
|---|---|---|
| `logger_restart` | `LoggingMeansWriterAlive` | `stop_logging` leaves `_running` false: after a restart the writer exits at its first empty buffer while the status says logging is active |
| `recording_parameters` | `RecordingShowsParameters` | what was changed before a recording is opened is queued first, during boot or by the change that starts the recording, then `open_new_mcap` queues the parameters of the file: the last ones in the recording are not those in force |

The same happens for the properties below. They are not part of the list of
runs, to keep it short; each has its configuration beside the others.

| configuration | property | what happens, and the line it contradicts |
|---|---|---|
| `logger_lost_wakeup` | `DestroyReturns` | the destructor notifies without the mutex, between the writer's check and its wait, and joins for ever: the process does not end |
| `logger_open_failure` | `AcceptedLandsInFile` | a recording that cannot be opened is logged to all the same: both callers ignore the result (`DrivebrainControllerInterface.cpp:66`), while `MCAPLogger.hpp:104` says `log_msg` logs "to the current MCAP file" |
| `logger_destroyed_in_use` | `SafelyDestroyed` | the logger is deleted under a thread inside it, and `drivebrain_app.cpp:38` logs "Logging singletons safely destroyed" |
| `logger_fallback_name` | `NewRecordingIsNew` | with an unreadable directory every recording is `sdfsdf.mcap` and overwrites the last; `MCAPLogger.hpp:68`: "Opens a new mcap file" |
| `tracker_uninitialised` | `ValidMeansAllReceived` | the stamps are never initialised: a state with nothing received can be valid, against the name `all_members_received` (`StateTracker.cpp:287`) |
| `tracker_unstamped` | `ValidMeansWheelSpeeds` | a state without any wheel speed is valid; `drivebrain_core/README.md:14` wants inputs "coming in at a reasonable time period" |
| `manager_two_threads` | `NoConcurrentStep` | a switch steps a controller while the loop does; `drivebrain_core/README.md:50`: "no need for worrying about threading" |
| `manager_rejected` | `RejectedSwitchTouchesNothing` | a rejected switch has stepped both controllers; `drivebrain_core/README.md:30`: the manager "shall not affect the output of any controller" |
| `manager_early_callback` | `ManagerExists` | a parameter change during boot fails the assertion of `ControllerManager.tpp:23` |
| `config_torn` | `StepSeesOneSetting` | a step sees half of a change: the callback locks for each field |
| `config_during_init` | `FloatsFollowParameters` | a change between `init()`'s read and its registration is lost |
| `config_vectoring` | `EveryFieldFollowsParameters` | the vectoring flag never changes at runtime: the callback takes only numbers |
| `app_interrupt` | `InterruptEndsProcess` | SIGINT during boot is overwritten and forgotten; the handler logs that it is stopping the application |
| `app_readers` | `ReadersEndWithInterfaces` | an orderly shutdown ends in `std::terminate`: nothing joins the CAN readers, which `CANComms.hpp:65` says run "until the interface is destructed" |
| `app_throws` | `ThrownIsReported` | a malformed parameter file aborts in the destructor before `main` reports the error |
| `can_unknown_frame` | `SkippedFrameIsHarmless` | an unknown frame inserts an empty entry into the map that the sender reads |
| `can_lost_field` | `EncodingKeepsFields` | enum and multiplexed fields do not survive encoding |

Six more are violated on the instance of a passing run: put the property in the
place of the ones in its configuration.

| run | property | what happens, and the line it contradicts |
|---|---|---|
| `control_loop` | `PairsStayWhole` | the limits are lost, to a full queue or a failed write, after the speeds were queued: the drives go on with the limits of an earlier tick, while `drivebrain_app.cpp:182` sends the speeds as a pair with their limits |
| `control_loop` | `SwitchOnValidState` | a switch is judged on a state whose validity is thrown away; `drivebrain_core/README.md:14` wants the inputs of a controller to keep coming in |
| `params_types` | `ConfiguredControllerIsActive` | after boot controller 0 is active, whatever `controller_index` says, until some parameter changes |
| `receivers` | `LoggedAreDecoded` | a datagram that does not decode is logged and tracked all the same; `ETHRecvComms.hpp:41`: "Deserializes the received ethernet message" |
| `receivers` | `RecordedInStateOrder` | two threads that log and then track may do so in opposite orders: the recording is not the order of the state |
| `receivers` | `SimFindsLogger` | the simulation's receive thread is not stopped before the logger is deleted, and ends in the assertion of `core::log` |

`LoadCellTorqueController.hpp:23` describes `regen_torque_scale`; nothing reads it,
and regen is split by the drive scale. `RearScaleSplitsDrive` is about throttle
only.

`can_frames` sends only message 1, whose fields are of types that both
directions handle, like the set points the control loop sends: there
`EncodingKeepsFields` holds.

Deadlock is checked only for the manager. In the others the system really
stops: bounded calls, changes and ticks are used up, the process ends, or
(logger, CAN, simulation) a thread has crashed.

## Fairness

- Logger: the writer, a request that has begun, and the destructor each keep
  running when they can. The operating system schedules a runnable thread, and
  each action is one step of such a thread. Nothing is assumed of logging
  threads, clients, or spurious wake-ups.
- Application: the main thread and the control loop keep running, and `run()` of
  the io context returns once `stop()` was called. Nothing makes a signal
  arrive, a step throw or a reader assert, and the join of the log writer in the
  destructor (`WriterJoined`) need not return.
- CAN: the reader keeps running as long as the process does. Frames need not arrive and the sender need not
  send.
- Receivers: the system completes a read it has data for, the io thread and the
  receive thread keep running, and a `close` goes on once the thread it joins
  has ended. Nothing makes a message arrive, a read fail or a handler throw.

All are weak fairness: no step depends on being enabled again and again without
staying enabled. The writer's wait for the mutex, which others hold for one
step, is a step they cannot keep disabled.

## What is proved

TLC checks small instances; the theorems below hold for every value of the
constants. Every safety and action property of a passing run is one of them. Each
component has an inductive invariant, `IInv`, made of named parts, that the
actions keep one by one; TLC checked it on the instance of the component's run
before it was proved. The only facts taken from outside are the
assumptions on constants that the modules declare. They are what the code gives:
sets of numbers are sets of integers with 0 among them where the code starts
from 0, orders of fields and of signals are sequences. Four theorems have a
hypothesis on constants of their own, and for each of them a configuration shows
what happens without it. Six more say how far a property goes that the
code violates: what has to happen first (`CrashNeedsUnknownFrame`,
`WritesLandUnlessOpenFails`, `HeardFirstIsRecent`, `StatusTrueAtFirst`), or what is left of
it (`TornAtOneField`; `PairsPartOnlyByLosses` for `PairsStayWhole`).

### The logger

`MCAPLogger_proofs`: any set of logging threads, any directory and any number of
messages and sessions.

| theorem | statement |
|---|---|
| `TypesKept` | `Spec => []TypeOK` |
| `QueueKept` | `Spec => []NothingLost` |
| `FileNotShared` | `Spec => []WriterHasFileToItself` |
| `StopWaitsForWrites` | `Spec => []StopDrains`, of the session that the first stop ends |
| `WriterLeavesNothing` | a step in which a writer exits leaves `written = accepted`, in every session |
| `ConfigIsRecorded` | `Spec => []ConfigRecorded` |
| `RecordingsKept` | `Spec => NewRecordingIsNew`, if the directory can be listed (`logger_fallback_name` shows the other case) |
| `WritesLandUnlessOpenFails` | `Spec /\ [][~OpenFails]_vars => []AcceptedLandsInFile` |
| `StatusTrueAtFirst` | `Spec => [](running => LoggingMeansWriterAlive)` |
| `LoggerIsMessageLog` | `Spec => ImplementsMessageLog` |

What makes the invariant inductive:

- `BatchOnlyWhileWriting`: the batch is non-empty exactly while the writer
  writes. Without it, taking the buffer could overwrite a batch.
- `WriterFollowsLogging`: when there is a writer and logging is off, a stop
  request or the destructor is on its way to join it. It is why a start, which
  looks at `_logging` only, never finds a live writer, and so why the file
  needs no lock.
- `LeftAfterWriting`: a writer that has left its loop has written all that
  `stopMark` counts. It holds because the exit looks at the buffer.
- `DiskBounded`: the directory has a largest number, so that the next is new.
- `ConfigOnItsWay`, `LandedWithWritten`, `WriterToJoin`: the parameters that the
  opening of a recording pushed are accepted, and once written they are in the
  file that is open; the file is not closed before the writer was joined.
- `RecordingIsOpen` (for `WritesLandUnlessOpenFails`): a writer, and a request that is
  about to start one, have a recording open. A failed open is the only step that
  breaks it (`logger_open_failure`). In the same way `StatusTrueAtFirst` says what
  `logger_restart` needs: `_running` must have been cleared by a stop before.

`TypeStep`, `QueueStep`, `ControlStep` and `ConfigStep` show that each action keeps
the parts of `IInv`; lemmas on sequences cut in three carry the queue. The
refinement maps `pending` to batch and buffer together, so taking the buffer is a
stutter.

### The control loop

`ControlLoop_proofs`: any controllers and kinds of output, any length of the
transmit queues and any number of ticks, switches and losses.

| theorem | statement |
|---|---|
| `TypesKept` | `Spec => []TypeOK` |
| `SwitchTakesEffect` | `Spec => []NewControllerCommands` |
| `CommandsRecorded` | `Spec => []CommandsAreRecorded` |
| `PairsPartOnlyByLosses` | `Spec => []OnlyLossesSplitPairs` |
| `OutputEnds` | `Spec => []OutputEndsWithState` |
| `LoopIsDriveCommands` | `Spec => ImplementsDriveCommands` |

The refinement maps `last` to itself: only `BusCarries` is a step of
`DriveCommands`. What makes it inductive looks back from the bus to the list of
the tick:

- `TickShape`: only a tick that is sending has anything left to send.
- `TodoInOrder`, `TodoIsLogged`: what is left for one place is speeds before
  their limits, and what is left for a bus is left for the log, later. The lemma
  `SendAndLogOrder` shows it of the list that a tick makes; taking its head
  keeps it.
- `BusInOrder`: along a bus, from the frame carried last through the queue to what
  is left for it, each frame may come after the one before. It relates what is
  left to the frame given last, so that dropping a part does no harm; and before
  a tick has its list, every frame given is of an earlier tick.
- `OfPastTicks`: no frame is of a later tick than the one under way, and this one
  speaks for the active controller unless there was a switch in it. Without it
  a switch could meet frames that are newer than itself.
- `WillBeRecorded`: a frame that a bus was given is in the log or is left for it.
- `TodoPaired`, `BusPaired`: on a bus that lost nothing, frames alternate
  between speeds and the limits of the same tick, and so does what comes next.
- `OutputEnding`: while the state is old, what a bus has carried since, its
  queue and what the tick may still send fit in a queue and one output. A sum of
  three, since each step moves a frame from one term to another.

### The manager

`ControllerManager_proofs`: any number of controllers, any of them null but the
first, any requests, limits and values.

| theorem | statement |
|---|---|
| `TypesKept` | `Spec => []TypeOK` |
| `NullNeverStepped` | `Spec => []NeverStepsNull` |
| `StatusHonest` | `Spec => []StatusIsHonest` |
| `SwitchSafe` | `Spec => SwitchIsSafe` |

`NoNullWithin` is the point: the active controller is never null, and a request
that steps controllers has checked the one it wants. So neither thread needs a
lock to be safe from null, although each reads the index twice. The controller
of index 0 has to be there, which `ManagerAssumption` says: `init` and the loop
start with it. The lemmas `VerifiedOutput` and `AllowedSwitch` say what it means
that an output, and a switch, have passed their tests.

### The tracker

`StateTracker_proofs`: any message types and readers, any threshold and length of
time.

| theorem | statement |
|---|---|
| `TypesKept` | `Spec => []TypeOK` |
| `StampsDateData` | `Spec => []StampDatesData` |
| `CornersNotMixed` | `Spec => []CornerIsOneInverter` |
| `HeardFirstIsRecent` | `Spec /\ [][\A r \in Readers : CopyStamps(r) => AllHeard]_vars => []ValidStateIsRecent` |
| `ValidIsRecent` | `Spec => []ValidStateIsRecent`, if no stamp is positive at first (`tracker_uninitialised` shows the other case) |

- `KeptTwice`: a vector that is kept twice, in the raw inputs and the state, is
  the same in both. Without it a message of the front axle, which copies all four
  corners, could bring back old data of the rear.
- `DataIsDated`, `CornerHasOwnInverter`: the properties for every type, whether or
  not its messages arrive.
- `HeardInPast`, `ReaderKnows` (for the last two): the stamp of a message that was
  handled is of the past and only grows. So what a reader copied under the first
  lock is not newer than the state it returns under the second, and its verdict
  is out by at most a threshold.

`HeardFirstIsRecent` says nothing of what the stamps hold at first, which the code
leaves to the memory: it is enough that each of the four messages was handled
once before a reader begins (`AllHeard`). `ValidIsRecent` is the other half: with
harmless memory no such order is needed.

### The parameter server and the callback

`DrivebrainControllerInterface_proofs`: any parameters, any values that clients
send, any (even) number of values of an `int`, any number of changes. It covers
`FoxgloveServer`, which the callback's module extends.

| theorem | statement |
|---|---|
| `TypesKept` | `Spec => []TypeOK` |
| `ParametersKeepTypes` | `Spec => []TypesNeverChange` |
| `RoundTrip` | `Spec => []SentBackIsUnchanged` |
| `LoggingFollows` | `Spec => []LoggingFollowsParameter` |
| `RequestDecided` | `Spec => []RequestIsDecided` |
| `LaterChangesShown` | `Spec => []LaterChangesAreShown` |

- `IntsFit`: an `int` parameter is always in the range of an `int`, which
  `RoundTrip` needs since the way back narrows it. The lemma `NarrowedFits` says
  that narrowing gives a number of that range, and leaves one of it alone.
- `ServerAndCallback`: outside the lock there is only one set of parameters, that
  of the last change, since one thread handles changes.
- `CallbackDecides`: what the callback has done by the time it reaches each of its
  steps.
- `BootIsPast`: boot only goes forward, so a callback that ran was registered and
  still is.
- `FlagFollows`, `LoggerFits`: the flag follows the parameter, and writer and file
  follow the flag, but in the middle of a start or a stop. Only a writer whose
  `running` was cleared is done.
- `RecordingIsCurrent`: the entry that the recording will show last is of the last
  change that was logged after it was opened, and otherwise of the file.
  `recording_parameters` shows why it says no more.

### The torque controller

`LoadCellTorqueController_proofs`: any fields in any order, any values that clients
send, any pedal position and load-cell readings.

| theorem | statement |
|---|---|
| `TypesKept` | `Spec => []TypeOK` |
| `ConfigFollows` | `Spec => []FloatsFollowParameters`, if no parameter changes during `init()` (`config_during_init` shows the other case) |
| `RearScaleSplits` | `Spec => []RearScaleSplitsDrive` |
| `AxleFollowsLoads` | under acceleration the torques of the two wheels of an axle are in the proportion of their loads |
| `TornAtOneField` | a configuration copied while the callback runs is `CutAtTurn` |

`InitLoads` and `PassedFollow` say which fields have been read, or passed by the
callback, so far; `OutputIsComputed` ties the torques to the configuration that
the step had copied, which the callback may be changing meanwhile.

`StepSeesOneSetting` is violated (`config_torn`); `TornAtOneField` is what holds in its
place. The fields before the one that the callback writes next are of the new
parameters, the others are as they were before the callback (`HalfTaken`), so a
step never mixes more than two settings.

### The application, the receivers and the simulator

`Threads_proofs`: any period, any duration of a tick, any steps that throw; any ports,
any kinds of messages, any number of messages, failed reads and starts. It is one
module because the io thread is in both models, and the last two theorems are
about that.

| theorem | statement |
|---|---|
| `AppTypesKept` | `AppSpec => []AppTypeOK` |
| `SingletonsOutliveThreads` | `AppSpec => []ThreadsFindSingletons` |
| `TicksSpaced` | `AppSpec => TicksAreSpaced` |
| `TypesKept` | `Spec => []TypeOK` |
| `EachSourceInOrder` | `Spec => []SourcesInOrder` |
| `IoThreadLogsInOrder` | `Spec => []IoLogsInStateOrder` |
| `ClosedStaysQuiet` | `Spec => ClosedIsQuiet` |
| `IoIsAsAppSees` | `Spec => [][IoGoesOn(IoSeen, IoSeen')]_vars`, and the logger is deleted only when `IoSeen` is "done" |
| `AppSeesIo` | `AppSpec => [][ioThread # "none" => IoGoesOn(ioThread, ioThread')]_processVars`, and the logger is deleted only when `ioThread` is "done" or "none" |

Of the application (`AppIInv`): `MainFirstAndLast` follows the main thread from the
singletons it makes to the threads it joins. `NextTickIsAhead` relates the time
since the last two ticks began to the time until `next_tick`: from the last one
together they are not negative, from the one before they are a period or more. An
interval alone may be shorter, since a late wake is made up for in the next.

Of the receivers and the simulator (`IInv`), where the messages of all ports go
through one queue of completed reads and one thread:

- `OneReadEach`: a port has at most one read, which is armed, completed and waiting,
  or in the hands of the io thread. Without it, a second read of the same port
  could overtake the first.
- `ReadsAreOfPort`, `ArrivedIsNumbered`: a read holds messages of its own port, and
  messages are numbered in the order of arrival.
- `PortsInOrder`: within a read the numbers grow, and of each port the read in hand
  or completed comes before those that still wait in the socket. The property,
  `SourcesInOrder`, puts what was tracked before all of these.
- `LoggedInHand`: the io thread has logged what it has tracked, and at most the
  message in hand besides. It counts positions (`IoCount`) instead of selecting a
  subsequence, and lemmas say what an append does to a count.
- `SimIsApart`: frames of the simulator have a source of their own, and are logged
  and tracked by its thread alone, so that the two threads do not mix.

`IoIsAsAppSees` and `AppSeesIo` connect the two models. `IoSeen` is what the
application knows of the io thread of the receivers: running, asked to stop,
done. Each step of the receivers is a step, or none, of that thread; and the
application's own io thread goes on in the same way. So what `DrivebrainApp` leaves out of
the thread is nothing its properties depend on, and the order that `SimComms`
assumes in `AppJoinsIo`, thread first, logger afterwards, is one that the
application keeps.

### CAN

`CANComms_proofs`: any description of messages, any frames and any number of them.

| theorem | statement |
|---|---|
| `TypesKept` | `Spec => []TypeOK` |
| `FramesHandledInOrder` | `Spec => []HandledInOrder` |
| `CrashNeedsUnknownFrame` | `Spec => []CrashOnUnknown` |
| `EncodingKept` | `Spec => []EncodingKeepsFields`, if each message that is sent has `WholeSignals` (`can_lost_field` shows the other case) |

- `WaitingInOrder`: the frame in hand and those waiting are the last to have
  arrived, in order.
- `TrackedInOrder`: what was tracked is what decodes among the frames before
  them. It speaks of positions, through the number of decodable frames up to
  each (`CountStep`, `CountGrows`, `CountDependsOnPrefix`).
- `FromBusAndLoop`: frames in hand are of the bus, and messages being written are
  of the control loop, so that what they decode and encode to has a type.

`SkippedFrameIsHarmless` is violated (`can_unknown_frame`). `CrashOnUnknown` says what that
takes: a frame has arrived whose id the DBC file does not have. Frames that are
skipped for another reason insert nothing (`InsertsUnknown`), so on a bus whose ids
are all in the file the reader and the sender do not disturb each other.

`WholeSignals` says of a message that its signals are in every frame, in places of
their own, with types that both directions convert. The lemma `WholeSignalsKept`
shows that encoding and decoding are then inverse.

### Only model-checked

- Liveness (`AcceptedIsWritten`, `StopReturns`, `StopJoinsThreads`,
  `EveryFrameHandled`, `OthersErrorsHarmless`, `CloseReturns`) is beyond the proof
  system, which does not treat it under fairness.
- The properties that a run finds violated.

## Not modelled

- Scaling of signals and rounding of `float`: work of the DBC library and the
  compiler. Numbers are small integers or halves where a cast matters.
- The formats (MCAP schemas, protobuf, JSON), sockets and serial ports.
- Weak memory: a race on a flag gives the old or the new value. A race on an
  object whose outcome is visible, the map of `CANComms`, is modelled as such;
  a race on `_log_name` is not.
- `update_controllers`, which nothing calls; the estimators, which are generated
  elsewhere; parsing of arguments.
- `ETHSendComms` and `SimplePowerLimiter`: the application makes no object of the
  one, and the only call of the other is commented out. The configuration of
  the VectorNav device and its heading functions: the first only writes to the
  device, nothing calls the others.
- The build for simulation other than `SimComms`: `CANComms` then opens nothing
  and hands what it sends to `SimComms`, where it is a stub.
- `create` and `destroy` of the singletons running against each other: only the
  main thread calls them. What other threads find meanwhile is in
  `DrivebrainApp` and `SimComms`.
- Live telemetry: a lookup of the channel and a broadcast by the library. The
  lookup is `operator[]` on a map without a lock (`FoxgloveServer.cpp:287`), called
  by every thread that logs; it only reads as long as every message type has a
  channel, and what a message without one would do is not modelled.
- The message with the name of the recording that the control loop logs in each
  tick: it is logged like any other message.

## Plan

Done: all the modules above, and a theorem for every safety and action property
that a passing run checks.

To extend the models, little is left that the code does: the tracker composed
with the receivers, so that the order between two sources is judged on the state
itself; and the range checks of the manager's comments against negative torques
and NaN in the control loop's outputs.

Then, to prove:

1. That the logger as `DrivebrainControllerInterface` sees it, two flags, a queue and a
   writer that takes it at once, is what `MCAPLogger` does, as `AppSeesIo` shows of the
   io thread.
2. `LoadCellTorqueController`: the total of the torques between the two ends of the
   scale, which needs products of three variables.
3. `ControllerManager`: which controllers a rejected switch has stepped, and that a
   step by two threads at once takes a request that passed its first checks.

Later runs keep the sizes above: two actors of a kind, three steps of a counter,
values on both sides of each limit. A composition, once there, takes over the
questions of the runs of its parts where it asks them too, so that the list of
runs stays short.
