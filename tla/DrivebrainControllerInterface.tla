------------------- MODULE DrivebrainControllerInterface --------------------
(* core::DrivebrainControllerInterface: its callback on the parameter server *)
(* (module FoxgloveServer, which this one extends), which after each change, *)
(* of whatever parameter, first starts or stops the recording and then asks  *)
(* for a controller. The logger (module MCAPLogger) and the manager (module  *)
(* ControllerManager) are here as the callback sees them: the parameters in  *)
(* the logger's queue and recording, each as the number of changes before    *)
(* it, and the manager's verdict.                                            *)
EXTENDS FoxgloveServer, SequencesExt

CONSTANT MaxChanges   \* bound: parameter changes

ShouldLog == "should_log"
ControllerIndex == "controller_index"

ASSUME InterfaceAssumption ==
    /\ {ShouldLog, ControllerIndex} \subseteq Params
    /\ InitialValue[ShouldLog].type = "bool" /\ InitialValue[ControllerIndex].type = "int"
    /\ MaxChanges \in Nat

(* DrivebrainApp::run as far as it matters here: the server serves clients   *)
(* before the recording of boot is opened, and the callback is registered    *)
(* before the manager exists.                                                *)
BootPhases == {"serving", "opened", "logging", "registered", "created", "ready"}
Registered(phase) == phase \in {"registered", "created", "ready"}
HasManager(phase) == phase \in {"created", "ready"}

NoFile  == -2   \* no recording is open
NoEntry == -1   \* it is open, without parameters

VARIABLES
    boot,      \* the main thread
    changes,   \* history: parameter changes so far; names the parameters in force
    slot,      \* where the callback is
    ran,       \* history: where boot was as the last callback returned, or was skipped
    logging, running,  \* the logger's flags
    writer,    \* the log writer: none, running or done
    pending,   \* the parameters in the logger's queue
    shown,     \* the last parameters in the open recording
    early,     \* history: the changes that were logged before it was opened
    active,    \* _current_controller_index
    rejected   \* the manager's status: the last request was rejected

callbackVars == <<changes, slot, ran>>
fileVars     == <<pending, shown, early>>
loggerVars   == <<logging, running, writer, fileVars>>
managerVars  == <<active, rejected>>
vars == <<serverVars, boot, callbackVars, loggerVars, managerVars>>

(* The loggers and the server are created. Nothing is recorded.              *)
Init ==
    /\ ServerInit
    /\ boot = "serving"
    /\ changes = 0 /\ slot = "idle" /\ ran = "serving"
    /\ logging = FALSE /\ running = TRUE /\ writer = "none"
    /\ pending = <<>> /\ shown = NoFile /\ early = 0
    /\ active = 0 /\ rejected = FALSE

-----------------------------------------------------------------------------
(* open_new_mcap, whose result nobody looks at: the parameters of the file   *)
(* are queued, or the recording could not be opened and nothing is.          *)
Opens(before) ==
    \/ pending' = Append(pending, 0) /\ shown' = NoEntry /\ early' = before
    \/ UNCHANGED fileVars

(* init_logging, which starts the writer all the same.                       *)
StartsWriter == writer' = "running" /\ logging' = TRUE

(* run(): a recording whatever should_log says, the callback, and a manager  *)
(* that starts with controller 0 whatever controller_index says. Its init()  *)
(* clears the status.                                                        *)
BootOpens ==
    /\ boot = "serving" /\ boot' = "opened"
    /\ Opens(IF handler = "applied" THEN changes - 1 ELSE changes)
    /\ UNCHANGED <<serverVars, callbackVars, logging, running, writer, managerVars>>

BootInitsLogging ==
    /\ boot = "opened" /\ boot' = "logging"
    /\ StartsWriter
    /\ UNCHANGED <<serverVars, callbackVars, running, fileVars, managerVars>>

RegisterCallback ==
    /\ boot = "logging" /\ boot' = "registered"
    /\ UNCHANGED <<serverVars, callbackVars, loggerVars, managerVars>>

CreateManager ==
    /\ boot = "registered" /\ boot' = "created"
    /\ UNCHANGED <<serverVars, callbackVars, loggerVars, managerVars>>

InitManager ==
    /\ boot = "created" /\ boot' = "ready"
    /\ rejected' = FALSE
    /\ UNCHANGED <<serverVars, callbackVars, loggerVars, active>>

-----------------------------------------------------------------------------
ServerApplies ==
    /\ ApplyChanges
    /\ changes < MaxChanges /\ changes' = changes + 1
    /\ UNCHANGED <<boot, slot, ran, loggerVars, managerVars>>

(* log_params queues them also when nothing is recorded. Mutant: a change is *)
(* queued only when a recording is to be started.                            *)
ServerLogsAtStart ==
    /\ LogAllParams
    /\ pending' = IF logging THEN pending ELSE Append(pending, changes)
    /\ slot' = "logging"
    /\ UNCHANGED <<boot, changes, ran, logging, running, writer, shown, early, managerVars>>

ServerLogs ==
    /\ LogAllParams
    /\ pending' = Append(pending, changes)
    /\ slot' = "logging"
    /\ UNCHANGED <<boot, changes, ran, logging, running, writer, shown, early, managerVars>>

(* The signal finds no callback yet.                                         *)
SkipCallback ==
    /\ slot = "logging" /\ ~Registered(boot)
    /\ ran' = boot
    /\ slot' = "returned"
    /\ UNCHANGED <<serverVars, boot, changes, loggerVars, managerVars>>

ServerReturns ==
    /\ slot = "returned"
    /\ SignalReturns
    /\ slot' = "idle"
    /\ UNCHANGED <<boot, changes, ran, loggerVars, managerVars>>

-----------------------------------------------------------------------------
(* _handle_parameter_updates: should_log against the status of the logger.   *)
WantsLogging == copy[ShouldLog].val # 0
Asked == slot = "logging" /\ Registered(boot)

LoggingAsWanted ==
    /\ Asked /\ WantsLogging = logging
    /\ slot' = "switching"
    /\ UNCHANGED <<serverVars, boot, changes, ran, loggerVars, managerVars>>

OpenNewMcap ==
    /\ Asked /\ WantsLogging /\ ~logging
    /\ Opens(changes)
    /\ slot' = "starting"
    /\ UNCHANGED <<serverVars, boot, changes, ran, logging, running, writer, managerVars>>

InitLogging ==
    /\ slot = "starting"
    /\ StartsWriter
    /\ slot' = "switching"
    /\ UNCHANGED <<serverVars, boot, changes, ran, running, fileVars, managerVars>>

(* Mutant: the flag that the status reports is forgotten.                    *)
StopKeepsStatus ==
    /\ Asked /\ ~WantsLogging /\ logging
    /\ running' = FALSE
    /\ slot' = "joining"
    /\ UNCHANGED <<serverVars, boot, changes, ran, logging, writer, fileVars, managerVars>>

StopLogging ==
    /\ Asked /\ ~WantsLogging /\ logging
    /\ logging' = FALSE /\ running' = FALSE
    /\ slot' = "joining"
    /\ UNCHANGED <<serverVars, boot, changes, ran, writer, fileVars, managerVars>>

CloseActiveMcap ==
    /\ slot = "joining" /\ writer = "done"
    /\ writer' = "none" /\ shown' = NoFile
    /\ slot' = "switching"
    /\ UNCHANGED <<serverVars, boot, changes, ran, logging, running, pending, early, managerVars>>

-----------------------------------------------------------------------------
(* The early returns of _request_controller_change. Mutant: off by one.      *)
WantedIndex == copy[ControllerIndex].val
IgnoresFirst(index) == index = active \/ index <= 0
Ignored(index) == index = active \/ index < 0

(* instance() finds no manager, and the process dies.                        *)
ManagerMissing ==
    /\ slot = "switching" /\ ~HasManager(boot)
    /\ slot' = "aborted"
    /\ UNCHANGED <<serverVars, boot, changes, ran, loggerVars, managerVars>>

IgnoreRequest ==
    /\ slot = "switching" /\ HasManager(boot) /\ Ignored(WantedIndex)
    /\ slot' = "returned" /\ ran' = boot
    /\ UNCHANGED <<serverVars, boot, changes, loggerVars, managerVars>>

SwapController ==
    /\ slot = "switching" /\ HasManager(boot) /\ ~Ignored(WantedIndex)
    /\ \/ active' = WantedIndex /\ rejected' = FALSE
       \/ rejected' = TRUE /\ UNCHANGED active
    /\ slot' = "returned" /\ ran' = boot
    /\ UNCHANGED <<serverVars, boot, changes, loggerVars>>

-----------------------------------------------------------------------------
(* The log writer, which exits once _running is cleared and the queue empty. *)
(* What it writes without an open recording is lost.                         *)
WriterWrites ==
    /\ writer = "running" /\ pending # <<>>
    /\ shown' = IF shown = NoFile THEN NoFile ELSE Last(pending)
    /\ pending' = <<>>
    /\ UNCHANGED <<serverVars, boot, callbackVars, logging, running, writer, early, managerVars>>

WriterExits ==
    /\ writer = "running" /\ pending = <<>> /\ ~running
    /\ writer' = "done"
    /\ UNCHANGED <<serverVars, boot, callbackVars, logging, running, fileVars, managerVars>>

Main    == BootOpens \/ BootInitsLogging \/ RegisterCallback \/ CreateManager \/ InitManager
Server  == ServerApplies \/ ServerLogs \/ SkipCallback \/ ServerReturns
Request == \/ LoggingAsWanted \/ OpenNewMcap \/ InitLogging \/ StopLogging
           \/ CloseActiveMcap \/ ManagerMissing \/ IgnoreRequest \/ SwapController
Writer  == WriterWrites \/ WriterExits

Next == slot # "aborted" /\ (Main \/ Server \/ Request \/ Writer)

Spec == Init /\ [][Next]_vars

-----------------------------------------------------------------------------
(* Every variable keeps its type.                                            *)
TypeOK ==
    /\ ServerTypeOK
    /\ boot \in BootPhases /\ ran \in BootPhases
    /\ changes \in Nat /\ early \in Nat
    /\ slot \in {"idle", "logging", "starting", "joining", "switching", "returned", "aborted"}
    /\ logging \in BOOLEAN /\ running \in BOOLEAN
    /\ writer \in {"none", "running", "done"}
    /\ pending \in Seq(Nat) /\ shown \in Nat \cup {NoFile, NoEntry}
    /\ active \in Nat /\ rejected \in BOOLEAN

(* Once the callback has handled a change, of whichever parameter, a         *)
(* should_log that is off leaves nothing recording: no writer and no open    *)
(* file. One that is on leaves a writer started, which is at work unless     *)
(* logging had been stopped before; then, and after an open that failed,     *)
(* nothing more is recorded although the status says so.                     *)
LoggingFollowsParameter ==
    handler = "idle" /\ Registered(ran) =>
        IF params[ShouldLog].val # 0
          THEN logging /\ writer # "none" /\ (running => writer = "running")
          ELSE ~logging /\ writer = "none" /\ shown = NoFile

(* Whenever the queue is written, and so also when a stop closes the         *)
(* recording, its last parameters are those of the latest change, if one was *)
(* logged after it was opened, and those of the configuration file if not,   *)
(* whatever was changed before.                                              *)
LaterChangesAreShown ==
    shown # NoFile /\ pending = <<>> /\ handler # "applied" =>
        shown = IF changes > early THEN changes ELSE 0

(* Once a change is handled, with the manager ready, the controller that     *)
(* controller_index names is active, or the manager's status says that it    *)
(* was rejected; a negative index asks for nothing.                          *)
RequestIsDecided ==
    handler = "idle" /\ ran = "ready" =>
        \/ active = params[ControllerIndex].val
        \/ params[ControllerIndex].val < 0
        \/ rejected

(* The comment in parameterChangeHandler: the parameters are logged to show  *)
(* changes in the recording. So its last entry is what is in force.          *)
RecordingShowsParameters ==
    pending = <<>> /\ handler = "idle" /\ shown # NoFile => shown = changes

(* The configuration names the controller, so it is active, if not rejected. *)
ConfiguredControllerIsActive ==
    handler = "idle" /\ boot = "ready" /\ params[ControllerIndex].val >= 0 =>
        active = params[ControllerIndex].val \/ rejected
=============================================================================
