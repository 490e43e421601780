--------------------------- MODULE DrivebrainApp ----------------------------
(* DrivebrainApp: run() on the main thread, which creates the singletons and *)
(* drivers and starts the control loop and the io thread; the pacing of the  *)
(* control loop; the signal handler; and the destructor. The reader threads  *)
(* of the CAN interfaces start as the interfaces are made.                   *)
EXTENDS Integers, Sequences

CONSTANTS Period,   \* loop_time, the 4 ms between ticks
          MaxTick,  \* bound: how long one tick of the loop takes
          MaxLate,  \* bound: how late sleep_until wakes the loop
          MayThrow  \* the steps of run() that may throw

(* The calls of run(), in order, and the threads and singletons they make.   *)
BootSteps  == <<"logger", "foxglove", "tracker", "recording", "interface",
                "drivers", "telem", "aux", "controllers", "manager">>
Singletons == {"logger", "foxglove", "tracker", "interface", "manager"}
Interfaces == {"telem", "aux"}

ASSUME AppAssumption ==
    /\ Period \in Nat \ {0} /\ MaxTick \in Nat /\ MaxLate \in Nat
    /\ MayThrow \subseteq {BootSteps[k] : k \in DOMAIN BootSteps}

VARIABLES
    phase,       \* where the main thread is
    boot,        \* the next of BootSteps
    published,   \* singletons whose instance() pointer is set
    readers,     \* CAN interfaces whose reader thread runs
    running,     \* the flag the signal handler clears
    loop,        \* the control loop: none, checking its flag, ticking, done
    ioThread,    \* the io thread: none, running, stopping, done
    sinceStart,  \* time since the last tick of the loop began
    sincePrevious, \* history: time since the tick before that one began
    due,         \* next_tick - now
    interrupted, \* history: SIGINT arrived
    threw,       \* history: run() threw
    outcome      \* how the process ended

timing == <<sinceStart, sincePrevious, due>>
processVars == <<phase, boot, published, readers, running, loop, ioThread, timing,
                 interrupted, threw, outcome>>

AppInit ==
    /\ phase = "boot" /\ boot = 1
    /\ published = {} /\ readers = {}
    /\ running = TRUE
    /\ loop = "none" /\ ioThread = "none"
    /\ sinceStart = Period /\ sincePrevious = Period /\ due = 0
    /\ interrupted = FALSE /\ threw = FALSE
    /\ outcome = "none"

-----------------------------------------------------------------------------
(* sig_handler.                                                              *)
Interrupt ==
    /\ ~interrupted /\ phase # "over"
    /\ interrupted' = TRUE
    /\ running' = FALSE
    /\ UNCHANGED <<phase, boot, published, readers, loop, ioThread, timing, threw, outcome>>

BootStep ==
    /\ phase = "boot" /\ boot <= Len(BootSteps)
    /\ published' = published \cup ({BootSteps[boot]} \cap Singletons)
    /\ readers' = readers \cup ({BootSteps[boot]} \cap Interfaces)
    /\ boot' = boot + 1
    /\ UNCHANGED <<phase, running, loop, ioThread, timing, interrupted, threw, outcome>>

(* The exception leaves run(); main catches it once app is destroyed.        *)
BootThrows ==
    /\ phase = "boot" /\ boot <= Len(BootSteps)
    /\ BootSteps[boot] \in MayThrow
    /\ threw' = TRUE
    /\ phase' = "destructor"
    /\ UNCHANGED <<boot, published, readers, running, loop, ioThread, timing, interrupted, outcome>>

StartThreads ==
    /\ phase = "boot" /\ boot > Len(BootSteps)
    /\ running' = TRUE
    /\ loop' = "checking" /\ ioThread' = "running"
    /\ phase' = "joining"
    /\ UNCHANGED <<boot, published, readers, timing, interrupted, threw, outcome>>

-----------------------------------------------------------------------------
(* One round of _loop, once sleep_until is over, which may be late; the      *)
(* estimators, the controller and the sends are what takes the time.         *)
TickBegins ==
    /\ loop = "checking" /\ due <= 0
    /\ IF running
         THEN /\ loop' = "ticking"
              /\ sincePrevious' = sinceStart /\ sinceStart' = 0
              /\ due' = due + Period
         ELSE loop' = "done" /\ UNCHANGED timing
    /\ UNCHANGED <<phase, boot, published, readers, running, ioThread, interrupted, threw, outcome>>

(* Mutant: next_tick stays behind after an overrun.                          *)
StillBehind == due

(* The overrun: next_tick = now.                                             *)
NextDue == IF due < 0 THEN 0 ELSE due

TickEnds ==
    /\ loop = "ticking"
    /\ loop' = "checking"
    /\ due' = NextDue
    /\ UNCHANGED <<sinceStart, sincePrevious, phase, boot, published, readers, running, ioThread,
                   interrupted, threw, outcome>>

(* The thread's function catches whatever _loop throws and returns.          *)
TickThrows ==
    /\ loop = "ticking"
    /\ loop' = "done"
    /\ UNCHANGED <<phase, boot, published, readers, running, ioThread, timing,
                   interrupted, threw, outcome>>

TimePasses ==
    /\ \/ loop = "ticking" /\ sinceStart < MaxTick
       \/ loop = "checking" /\ due > -MaxLate
    /\ sinceStart' = sinceStart + 1
    /\ sincePrevious' = sincePrevious + 1
    /\ due' = due - 1
    /\ UNCHANGED <<phase, boot, published, readers, running, loop, ioThread,
                   interrupted, threw, outcome>>

(* The io thread returns when io_context is stopped, or a handler throws.    *)
IoEnds ==
    /\ ioThread \in {"running", "stopping"}
    /\ ioThread' = "done"
    /\ UNCHANGED <<phase, boot, published, readers, running, loop, timing,
                   interrupted, threw, outcome>>

-----------------------------------------------------------------------------
(* The end of run(). Mutants: the loop is not joined; io is not stopped.     *)
LoopNotJoined ==
    /\ phase = "joining"
    /\ ioThread' = IF ioThread = "running" THEN "stopping" ELSE ioThread
    /\ phase' = "joining_io"
    /\ UNCHANGED <<boot, published, readers, running, loop, timing,
                   interrupted, threw, outcome>>

IoNotStopped ==
    /\ phase = "joining" /\ loop = "done"
    /\ phase' = "joining_io"
    /\ UNCHANGED <<boot, published, readers, running, loop, ioThread, timing,
                   interrupted, threw, outcome>>

JoinLoop ==
    /\ phase = "joining" /\ loop = "done"
    /\ ioThread' = IF ioThread = "running" THEN "stopping" ELSE ioThread
    /\ phase' = "joining_io"
    /\ UNCHANGED <<boot, published, readers, running, loop, timing,
                   interrupted, threw, outcome>>

JoinIo ==
    /\ phase = "joining_io" /\ ioThread = "done"
    /\ phase' = "destructor"
    /\ UNCHANGED <<boot, published, readers, running, loop, ioThread, timing,
                   interrupted, threw, outcome>>

(* The process ends: the other threads stop where they are.                  *)
Ends(how) == phase' = "over" /\ outcome' = how

(* ~DrivebrainApp: instance() of each logging singleton, which asserts that  *)
(* it exists, then destroy(), which clears the pointer first. The logger's   *)
(* joins its writer, a join that need not return (see MCAPLogger).           *)
Destroys(singleton, next) ==
    /\ running' = FALSE
    /\ IF singleton \in published
         THEN phase' = next /\ published' = published \ {singleton} /\ UNCHANGED outcome
         ELSE Ends("aborted") /\ UNCHANGED published
    /\ UNCHANGED <<boot, readers, loop, ioThread, timing, interrupted, threw>>

DestroyLogger   == phase = "destructor" /\ Destroys("logger", "joining_writer")

WriterJoined ==
    /\ phase = "joining_writer"
    /\ phase' = "logger_gone"
    /\ UNCHANGED <<boot, published, readers, running, loop, ioThread, timing, interrupted, threw, outcome>>

DestroyFoxglove == phase = "logger_gone" /\ Destroys("foxglove", "foxglove_gone")

(* Then the members go: ~thread of a reader that still runs terminates.      *)
DestroyMembers ==
    /\ phase = "foxglove_gone"
    /\ Ends(IF readers # {} THEN "terminated" ELSE IF threw THEN "failed" ELSE "exited")
    /\ UNCHANGED <<boot, published, readers, running, loop, ioThread, timing, interrupted, threw>>

(* A reader that handles a frame logs it: instance() asserts there, too.     *)
ReaderAsserts ==
    /\ readers # {} /\ phase # "over"
    /\ ~({"logger", "foxglove", "tracker"} \subseteq published)
    /\ Ends("aborted")
    /\ UNCHANGED <<boot, published, readers, running, loop, ioThread, timing, interrupted, threw>>

-----------------------------------------------------------------------------
Main == \/ BootStep \/ BootThrows \/ StartThreads \/ JoinLoop \/ JoinIo
        \/ DestroyLogger \/ DestroyFoxglove \/ DestroyMembers
Loop == TickBegins \/ TickEnds \/ TickThrows \/ TimePasses
Alive == phase # "over"

AppNext == Alive /\ (Main \/ WriterJoined \/ Loop \/ IoEnds \/ Interrupt \/ ReaderAsserts)

AppSpec == AppInit /\ [][AppNext]_processVars

(* The main thread and the control loop keep running, and io_context.run()   *)
(* returns once it is stopped; nothing else need ever happen, the end of the *)
(* logger's writer included.                                                 *)
AppLiveSpec ==
    /\ AppSpec
    /\ WF_processVars(Alive /\ Main)
    /\ WF_processVars(Alive /\ Loop)
    /\ WF_processVars(Alive /\ ioThread = "stopping" /\ IoEnds)

-----------------------------------------------------------------------------
(* Every variable keeps its type.                                            *)
AppTypeOK ==
    /\ phase \in {"boot", "joining", "joining_io", "destructor", "joining_writer",
                  "logger_gone", "foxglove_gone", "over"}
    /\ boot \in 1..(Len(BootSteps) + 1)
    /\ published \subseteq Singletons
    /\ readers \subseteq Interfaces
    /\ running \in BOOLEAN /\ interrupted \in BOOLEAN /\ threw \in BOOLEAN
    /\ loop \in {"none", "checking", "ticking", "done"}
    /\ ioThread \in {"none", "running", "stopping", "done"}
    /\ sinceStart \in Nat /\ sincePrevious \in Nat
    /\ due \in -(MaxTick + MaxLate)..Period
    /\ outcome \in {"none", "exited", "failed", "aborted", "terminated"}

(* While the control loop or the io thread runs, the singletons it calls     *)
(* instance() of exist: whatever throws or interrupts, in boot or later, the *)
(* destructor comes after both threads.                                      *)
ThreadsFindSingletons ==
    Alive => /\ loop \in {"checking", "ticking"} =>
                    {"logger", "foxglove", "tracker", "manager"} \subseteq published
             /\ ioThread \in {"running", "stopping"} =>
                    {"logger", "foxglove", "tracker"} \subseteq published

(* Of three ticks in a row the last begins at least a period after the       *)
(* first, however late sleep_until wakes the loop and however long a tick    *)
(* takes: a tick after a late one may come early, but the loop does not make *)
(* up for lost ticks in a burst of commands.                                 *)
TicksAreSpaced ==
    [][loop = "checking" /\ loop' = "ticking" => sincePrevious >= Period]_<<loop, timing>>

(* Once the threads run and the flag is cleared, run() joins both of them    *)
(* and the destructor begins. It says nothing of the destructor's own end.   *)
StopJoinsThreads == (phase = "joining" /\ ~running) ~> phase = "destructor"

(* The handler's message: interrupted, the app is stopping, so it ends.      *)
InterruptEndsProcess == interrupted ~> phase = "over"

(* The doc of CANComms::_receive_handler: it runs until the interface is     *)
(* destructed, so the destructor of an interface ends it and not the process.*)
ReadersEndWithInterfaces == outcome # "terminated"

(* The catch of main: what run() throws is reported, and main returns 1.     *)
ThrownIsReported == phase = "over" /\ threw => outcome = "failed"
=============================================================================
