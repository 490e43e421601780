----------------------------- MODULE MCAPLogger -----------------------------
(* core::MCAPLogger: the threads that log (control loop, CAN readers, io     *)
(* context, parameter server), the log-writer thread _handle_log_to_file,    *)
(* the start and stop requests of DrivebrainControllerInterface, and the     *)
(* destructor that DrivebrainApp runs on the main thread.                    *)
(*                                                                           *)
(* A message is the thread that logged it, the time it read from the clock   *)
(* before taking the lock and, for the parameters that open_new_mcap logs,   *)
(* which of its calls logged them.                                           *)
EXTENDS Integers, Sequences, FiniteSetsExt

CONSTANTS Loggers,        \* threads that call log_msg or log_params
          OldRecordings,  \* numbers of the recordings of earlier boots
          MaxInt,         \* the largest number std::stoi returns
          ListingMayFail, \* directory_iterator may throw
          CanDestroy,     \* the run includes the destructor
          MaxMsgs,        \* bound: calls of log_msg and log_params
          MaxSessions     \* bound: calls of open_new_mcap

(* The numbers of the directory leave room for the recordings to come; the   *)
(* + 1 of get_logfile_name overflows at MaxInt.                              *)
ASSUME LoggerAssumption ==
    /\ MaxInt \in Nat
    /\ OldRecordings \subseteq 1..(MaxInt - MaxSessions)
    /\ ListingMayFail \in BOOLEAN
    /\ CanDestroy \in BOOLEAN
    /\ MaxMsgs \in Nat
    /\ MaxSessions \in Nat

NoFile   == 0    \* no recording open; the name "NONE"
Fallback == -1   \* the name "sdfsdf.mcap"
Control  == "open_new_mcap"

Recording == Nat \cup {Fallback}
Message   == [by: Loggers \cup {Control}, time: 0..MaxMsgs, opens: 0..MaxSessions]

VARIABLES
    inputBuffer,  \* _input_buffer
    writeBuffer,  \* what is left to write of the static write_buffer
    writer,       \* where the log-writer thread is
    logging,      \* _logging
    running,      \* _running
    control,      \* where the thread that starts and stops logging is
    main,         \* where the main thread is: booting, running, destroying
    logName,      \* _log_name
    file,         \* the recording _writer has open
    disk,         \* the recordings in the directory
    sessions,     \* calls of open_new_mcap so far
    clock,        \* the last time read from the system clock
    stamp,        \* log_time of the call each thread is in, 0 outside one
    accepted,     \* history: every message pushed, in order
    written,      \* history: every message given to _writer.write
    landed,       \* history: the recording open at each of those writes
    stopMark      \* history: messages accepted when stop_logging took the lock

buffers == <<inputBuffer, writeBuffer, accepted, written, landed>>
flags   == <<logging, running>>
files   == <<logName, file, disk, sessions>>
calls   == <<clock, stamp>>
vars    == <<buffers, writer, flags, control, main, files, calls, stopMark>>

Init ==
    /\ inputBuffer = <<>> /\ writeBuffer = <<>>
    /\ accepted = <<>> /\ written = <<>> /\ landed = <<>>
    /\ writer = "none"
    /\ logging = FALSE /\ running = TRUE
    /\ control = "idle"
    /\ main = "boot"
    /\ logName = NoFile /\ file = NoFile
    /\ disk = OldRecordings
    /\ sessions = 0
    /\ clock = 0
    /\ stamp = [l \in Loggers |-> 0]
    /\ stopMark = 0

-----------------------------------------------------------------------------
(* instance() asserts that the pointer is set, and destroy() clears it first:*)
(* a call begun later aborts the process, which is no step here. Each call   *)
(* of a request (status, open_new_mcap, init_logging, stop_logging,          *)
(* close_active_mcap) fetches the instance again.                            *)
Published == main \in {"boot", "alive"}

(* The writer thread is the only one that keeps the mutex over two steps.    *)
MutexFree == writer # "parking"

(* Mutants, here and below: what a slip in the definition after it would do. *)
(* The notify is forgotten.                                                  *)
NobodyNotified == writer

(* notify_one: only the log writer ever waits.                               *)
Notified == IF writer = "waiting" THEN "check" ELSE writer

(* Mutant: push_front for push_back.                                         *)
PushFront(m) ==
    /\ inputBuffer' = <<m>> \o inputBuffer
    /\ accepted' = Append(accepted, m)
    /\ writer' = Notified
    /\ UNCHANGED <<writeBuffer, written, landed>>

Push(m) ==
    /\ inputBuffer' = Append(inputBuffer, m)
    /\ accepted' = Append(accepted, m)
    /\ writer' = Notified
    /\ UNCHANGED <<writeBuffer, written, landed>>

-----------------------------------------------------------------------------
(* log_msg and log_params: fetch the instance, read the clock, then push     *)
(* under the lock. Neither looks at _logging.                                *)
BeginLog(l) ==
    /\ stamp[l] = 0
    /\ Published
    /\ clock < MaxMsgs
    /\ clock' = clock + 1
    /\ stamp' = [stamp EXCEPT ![l] = clock + 1]
    /\ UNCHANGED <<buffers, writer, flags, control, main, files, stopMark>>

PushMsg(l) ==
    /\ stamp[l] # 0
    /\ MutexFree
    /\ main # "gone"
    /\ Push([by |-> l, time |-> stamp[l], opens |-> 0])
    /\ stamp' = [stamp EXCEPT ![l] = 0]
    /\ UNCHANGED <<flags, control, main, files, clock, stopMark>>

-----------------------------------------------------------------------------
(* _handle_log_to_file. Mutant: the input buffer is copied, not swapped.     *)
WriterCopies ==
    /\ writer = "check"
    /\ inputBuffer # <<>>
    /\ writeBuffer' = inputBuffer
    /\ writer' = "writing"
    /\ UNCHANGED <<inputBuffer, accepted, written, landed>>
    /\ UNCHANGED <<flags, control, main, files, calls, stopMark>>

WriterTakes ==
    /\ writer = "check"
    /\ inputBuffer # <<>>
    /\ writeBuffer' = inputBuffer
    /\ inputBuffer' = <<>>
    /\ writer' = "writing"
    /\ UNCHANGED <<accepted, written, landed>>
    /\ UNCHANGED <<flags, control, main, files, calls, stopMark>>

(* Mutant: _running is looked at before the buffer.                          *)
WriterExitsAtOnce ==
    /\ writer = "check" /\ ~running
    /\ writer' = "done"
    /\ UNCHANGED <<buffers, flags, control, main, files, calls, stopMark>>

WriterExits ==
    /\ writer = "check"
    /\ inputBuffer = <<>> /\ ~running
    /\ writer' = "done"
    /\ UNCHANGED <<buffers, flags, control, main, files, calls, stopMark>>

(* wait() has found its predicate false; it still holds the mutex and has    *)
(* not blocked yet.                                                          *)
WriterParks ==
    /\ writer = "check"
    /\ inputBuffer = <<>> /\ running
    /\ writer' = "parking"
    /\ UNCHANGED <<buffers, flags, control, main, files, calls, stopMark>>

WriterBlocks ==
    /\ writer = "parking"
    /\ writer' = "waiting"
    /\ UNCHANGED <<buffers, flags, control, main, files, calls, stopMark>>

SpuriousWake ==
    /\ writer = "waiting"
    /\ writer' = "check"
    /\ UNCHANGED <<buffers, flags, control, main, files, calls, stopMark>>

(* One _writer.write; its result is not looked at.                           *)
WriterWrites ==
    /\ writer = "writing"
    /\ written' = Append(written, Head(writeBuffer))
    /\ landed' = Append(landed, file)
    /\ writeBuffer' = Tail(writeBuffer)
    /\ writer' = IF Len(writeBuffer) = 1 THEN "check" ELSE "writing"
    /\ UNCHANGED <<inputBuffer, accepted>>
    /\ UNCHANGED <<flags, control, main, files, calls, stopMark>>

Writer == \/ WriterTakes  \/ WriterExits  \/ WriterParks
          \/ WriterBlocks \/ SpuriousWake \/ WriterWrites

-----------------------------------------------------------------------------
(* get_logfile_name: one more than the largest number, or the fallback when  *)
(* the directory cannot be listed.                                           *)
(* Mutants: without the + 1; wrapped to a negative number.                   *)
LargestNumber == Max(disk \cup {0})
NumberWrapped == -Max(disk \cup {0}) - 1

NextNumber == Max(disk \cup {0}) + 1
LogfileNames == {NextNumber} \cup (IF ListingMayFail THEN {Fallback} ELSE {})

(* A start request (or boot) while not logging: open_new_mcap up to its      *)
(* first exit. The callers go on to init_logging whatever it returns.        *)
OpenSucceeds ==
    /\ control = "idle" /\ ~logging /\ Published
    /\ sessions < MaxSessions
    /\ sessions' = sessions + 1
    /\ \E name \in LogfileNames :
          /\ logName' = name
          /\ file' = name
          /\ disk' = disk \cup {name}
    /\ control' = "params"
    /\ UNCHANGED <<buffers, writer, flags, main, calls, stopMark>>

OpenFails ==
    /\ control = "idle" /\ ~logging /\ Published
    /\ sessions < MaxSessions
    /\ sessions' = sessions + 1
    /\ logName' \in LogfileNames
    /\ file' = NoFile
    /\ control' = "init"
    /\ UNCHANGED <<buffers, writer, flags, main, disk, calls, stopMark>>

(* log_params(_initial_params), the last step of open_new_mcap.              *)
LogInitialParams ==
    /\ control = "params"
    /\ MutexFree
    /\ main # "gone"
    /\ Push([by |-> Control, time |-> clock, opens |-> sessions])
    /\ control' = "init"
    /\ UNCHANGED <<flags, main, files, calls, stopMark>>

(* init_logging spawns the writer; it leaves _running as it is.              *)
InitLogging ==
    /\ control = "init" /\ Published
    /\ writer' = "check"
    /\ logging' = TRUE
    /\ control' = "idle"
    /\ main' = "alive"
    /\ UNCHANGED <<buffers, running, files, calls, stopMark>>

(* A stop request while logging: stop_logging, then close_active_mcap.       *)
StopSetsFlags ==
    /\ control = "idle" /\ logging /\ Published
    /\ MutexFree
    /\ running' = FALSE
    /\ logging' = FALSE
    /\ stopMark' = IF running THEN Len(accepted) ELSE stopMark
    /\ control' = "notify"
    /\ UNCHANGED <<buffers, writer, main, files, calls>>

StopNotifies ==
    /\ control = "notify" /\ main # "gone"
    /\ writer' = Notified
    /\ control' = "join"
    /\ UNCHANGED <<buffers, flags, main, files, calls, stopMark>>

(* Mutant: the log writer is detached, not joined.                           *)
StopDetaches ==
    /\ control = "join" /\ main # "gone"
    /\ control' = "close"
    /\ UNCHANGED <<buffers, writer, flags, main, files, calls, stopMark>>

StopJoins ==
    /\ control = "join" /\ main # "gone"
    /\ writer \in {"done", "none"}
    /\ writer' = "none"
    /\ control' = "close"
    /\ UNCHANGED <<buffers, flags, main, files, calls, stopMark>>

CloseActiveMcap ==
    /\ control = "close" /\ Published
    /\ file' = NoFile
    /\ logName' = NoFile
    /\ control' = "idle"
    /\ UNCHANGED <<buffers, writer, flags, main, disk, sessions, calls, stopMark>>

-----------------------------------------------------------------------------
(* destroy() and ~MCAPLogger on the main thread, while other threads run on. *)
(* The flags are set without the mutex.                                      *)
DestroyUnlinks ==
    /\ CanDestroy /\ main = "alive"
    /\ main' = "unlinked"
    /\ UNCHANGED <<buffers, writer, flags, control, files, calls, stopMark>>

DestroySetsFlags ==
    /\ main = "unlinked"
    /\ logging' = FALSE
    /\ running' = FALSE
    /\ main' = "flagged"
    /\ UNCHANGED <<buffers, writer, control, files, calls, stopMark>>

DestroyNotifies ==
    /\ main = "flagged"
    /\ writer' = Notified
    /\ main' = "joining"
    /\ UNCHANGED <<buffers, flags, control, files, calls, stopMark>>

DestroyJoins ==
    /\ main = "joining"
    /\ writer \in {"done", "none"}
    /\ writer' = "none"
    /\ main' = "gone"
    /\ UNCHANGED <<buffers, flags, control, files, calls, stopMark>>

-----------------------------------------------------------------------------
Log(l)  == BeginLog(l) \/ PushMsg(l)
Request == \/ OpenSucceeds  \/ OpenFails    \/ LogInitialParams \/ InitLogging
           \/ StopSetsFlags \/ StopNotifies \/ StopJoins
           \/ CloseActiveMcap
Destroy == DestroyUnlinks \/ DestroySetsFlags \/ DestroyNotifies \/ DestroyJoins

Next == \/ \E l \in Loggers : Log(l)
        \/ Writer
        \/ Request
        \/ Destroy

Spec == Init /\ [][Next]_vars

(* The log writer, a request under way and the destructor keep running; no   *)
(* thread need ever log again, ask again, or destroy the logger.             *)
Fairness ==
    /\ WF_vars(WriterTakes \/ WriterExits \/ WriterParks \/ WriterBlocks \/ WriterWrites)
    /\ WF_vars(LogInitialParams \/ InitLogging)
    /\ WF_vars(StopNotifies \/ StopJoins \/ CloseActiveMcap)
    /\ WF_vars(DestroySetsFlags \/ DestroyNotifies \/ DestroyJoins)

LiveSpec == Spec /\ Fairness

-----------------------------------------------------------------------------
(* Every variable keeps its type.                                            *)
TypeOK ==
    /\ \A queue \in {inputBuffer, writeBuffer, accepted, written} : queue \in Seq(Message)
    /\ landed \in Seq(Recording)
    /\ writer \in {"none", "check", "parking", "waiting", "writing", "done"}
    /\ control \in {"idle", "params", "init", "notify", "join", "close"}
    /\ main \in {"boot", "alive", "unlinked", "flagged", "joining", "gone"}
    /\ logging \in BOOLEAN /\ running \in BOOLEAN
    /\ logName \in Recording /\ file \in Recording
    /\ disk \subseteq Recording
    /\ sessions \in 0..MaxSessions
    /\ clock \in 0..MaxMsgs
    /\ stamp \in [Loggers -> 0..MaxMsgs]
    /\ stopMark \in Nat

(* Across batches, stops, restarts and the destructor, a pushed message is   *)
(* in the input buffer, in the writer's batch or written, once, and the      *)
(* order of the pushes is the order of the writes.                           *)
NothingLost == accepted = written \o writeBuffer \o inputBuffer

(* open_new_mcap (which fills _name_to_id_map and reopens _writer) and       *)
(* close_active_mcap take no lock: they run only while no log writer exists, *)
(* and init_logging never assigns over a thread that was not joined.         *)
WriterHasFileToItself ==
    control \in {"params", "init", "close"} => writer = "none"

(* When close_active_mcap runs, the recording it closes holds the parameters *)
(* that its own open_new_mcap logged through the queue.                      *)
ConfigRecorded ==
    control = "close" /\ file # NoFile =>
        \E i \in DOMAIN written :
            written[i].opens = sessions /\ landed[i] = file

(* stop_logging returns only after every message accepted before it took the *)
(* lock has been written, in the session in which _running was still set.    *)
StopDrains == control = "close" => Len(written) >= stopMark

(* A recording is never opened over one that is already in the directory.    *)
NewRecordingIsNew == [][file' \notin {file, NoFile} => file' \notin disk]_<<file, disk>>

(* A message accepted in the session that boot starts is eventually written, *)
(* whether or not logging is stopped meanwhile.                              *)
AcceptedIsWritten ==
    \A i \in 1..(MaxMsgs + MaxSessions) :
        (Len(accepted) >= i /\ logging /\ running) ~> (Len(written) >= i)

(* stop_logging comes back, although the writer may be anywhere in its loop  *)
(* when the flags change.                                                    *)
StopReturns == control = "notify" ~> control = "idle"

(* The destructor joins the log writer and comes back.                       *)
DestroyReturns == main = "unlinked" ~> main = "gone"

(* The status doc: the flag says whether the logging process is active.      *)
LoggingMeansWriterAlive == logging /\ Published => writer \notin {"none", "done"}

(* log_msg reports success for each message, so each lands in a recording.   *)
AcceptedLandsInFile == \A i \in DOMAIN landed : landed[i] # NoFile

(* The log line after the destructor: the logging singletons go down safely, *)
(* so no thread is left inside a call of a logger that was deleted.          *)
SafelyDestroyed ==
    main = "gone" => control = "idle" /\ \A l \in Loggers : stamp[l] = 0

Log0 == INSTANCE MessageLog WITH pending <- writeBuffer \o inputBuffer,
                                 recorded <- written
(* The logger implements the queue it promises.                              *)
ImplementsMessageLog == Log0!Spec
=============================================================================
