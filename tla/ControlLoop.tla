---------------------------- MODULE ControlLoop -----------------------------
(* The tick of DrivebrainApp::_loop with what it touches: the verdict of the *)
(* StateTracker, the active controller, which the parameter server's thread  *)
(* may switch meanwhile, the transmit queues of the two CAN interfaces, and  *)
(* the log. The modules of those components have their detail: here a state  *)
(* is its verdict, and a controller the kinds of output it returns.          *)
EXTENDS Integers, SequencesExt

CONSTANTS Controllers, First, \* the controllers, and the one that is active at first
          Kinds,       \* controller -> the kinds of its output
          NoController,
          TxLen,       \* frames that the transmit queue of a socket holds
          DbcFiles,    \* for each DBC file there may be, the parts it has a message for
          MaxTicks, MaxSwitches, \* bounds: ticks, switches,
          MaxLosses, MaxErrors   \* losses of the inputs, failed writes

Buses == {"telem", "aux"}

(* The frames, or messages, that an output of each kind becomes.             *)
PartsOf(kind) == CASE kind = "speed"  -> <<"rpm", "limit">>
                   [] kind = "torque" -> <<"torque">>
                   [] kind = "none"   -> <<>>

ASSUME LoopAssumption ==
    /\ First \in Controllers /\ NoController \notin Controllers
    /\ Kinds \in [Controllers -> SUBSET {"speed", "torque", "none"}]
    /\ \A c \in Controllers : Kinds[c] # {}
    /\ TxLen \in Nat \ {0}
    /\ MaxTicks \in Nat /\ MaxSwitches \in Nat /\ MaxLosses \in Nat /\ MaxErrors \in Nat

Parts == {"rpm", "limit", "torque"}
ASSUME FilesAssumption == DbcFiles \subseteq SUBSET Parts

Frame == [tick : Nat \ {0}, controller : Controllers, part : Parts]
Start == [tick |-> 0, controller |-> NoController, part |-> "torque"]

VARIABLES
    inputs,     \* the inputs are coming in; or stopped, and the state of the
                \* StateTracker is still recent; or it is old
    active,     \* _current_controller_index
    request,    \* the parameter server's thread: idle or judging a switch
    judgedOn,   \* the validity it threw away, of the state it judges
    loop,       \* where the control loop is in its tick
    tick,       \* ticks begun
    valid,      \* state_and_validity.second
    command,    \* cmd_out: the controller that returned it, and its kind
    todo,       \* what is left to send and log in this tick
    known,      \* the parts that the DBC file has a message for
    tx,         \* bus -> the transmit queue of its socket
    drops,      \* bus -> _tx_drop_count
    errors,     \* bus -> _tx_error_count
    last,       \* history: bus -> the frame carried last
    held,       \* history: bus -> the tick of each part that its drives hold
    recorded,   \* history: what core::log was given
    switches, switchedIn, \* history: switches, and the ticks begun at the last
    losses, lateFrames    \* history: losses of the inputs; bus -> frames carried
                          \* since the state became old

env     == <<inputs, losses>>
manager == <<active, request, judgedOn, switches, switchedIn>>
tickVars == <<loop, tick, valid, command, todo>>
busVars == <<known, tx, drops, errors, last, held, lateFrames>>
vars    == <<env, manager, tickVars, busVars, recorded>>

NoCommand == [controller |-> NoController, kind |-> "none"]

Init ==
    /\ inputs = "old" /\ losses = 0 /\ known \in DbcFiles
    /\ active = First /\ request = "idle" /\ judgedOn = FALSE
    /\ switches = 0 /\ switchedIn = 0
    /\ loop = "top" /\ tick = 0 /\ valid = FALSE /\ command = NoCommand /\ todo = <<>>
    /\ tx = [b \in Buses |-> <<>>] /\ drops = [b \in Buses |-> 0]
    /\ errors = [b \in Buses |-> 0]
    /\ last = [b \in Buses |-> Start]
    /\ held = [b \in Buses |-> [p \in Parts |-> 0]]
    /\ lateFrames = [b \in Buses |-> 0]
    /\ recorded = <<>>

-----------------------------------------------------------------------------
(* What get_latest_state_and_validity judges: the stamped messages come in   *)
(* or they do not; when they stop, it says valid until 500 ms have passed.   *)
InputsArrive ==
    /\ inputs # "coming"
    /\ inputs' = "coming"
    /\ lateFrames' = [b \in Buses |-> 0]
    /\ UNCHANGED <<losses, manager, tickVars, known, tx, drops, errors, last, held, recorded>>

InputsStop ==
    /\ inputs = "coming" /\ losses < MaxLosses
    /\ inputs' = "recent"
    /\ losses' = losses + 1
    /\ UNCHANGED <<manager, tickVars, busVars, recorded>>

StateExpires ==
    /\ inputs = "recent"
    /\ inputs' = "old"
    /\ UNCHANGED <<losses, manager, tickVars, busVars, recorded>>

StateIsRecent == inputs # "old"

-----------------------------------------------------------------------------
(* _request_controller_change: the state of the tracker, whose validity is   *)
(* not used; then swap_active_controller accepts or rejects.                 *)
RequestReads ==
    /\ request = "idle" /\ switches < MaxSwitches
    /\ request' = "judging" /\ judgedOn' = StateIsRecent
    /\ UNCHANGED <<env, active, switches, switchedIn, tickVars, busVars, recorded>>

SwapController ==
    /\ request = "judging"
    /\ active' \in Controllers \ {active}
    /\ switches' = switches + 1 /\ switchedIn' = tick
    /\ request' = "idle" /\ judgedOn' = FALSE
    /\ UNCHANGED <<env, tickVars, busVars, recorded>>

RejectSwap ==
    /\ request = "judging"
    /\ request' = "idle" /\ judgedOn' = FALSE
    /\ UNCHANGED <<env, active, switches, switchedIn, tickVars, busVars, recorded>>

-----------------------------------------------------------------------------
TickReadsState ==
    /\ loop = "top" /\ tick < MaxTicks
    /\ tick' = tick + 1
    /\ valid' = StateIsRecent
    /\ loop' = "stepping"
    /\ UNCHANGED <<env, manager, command, todo, busVars, recorded>>

(* An output goes to one interface, then the other, then to the log, part by *)
(* part. Mutants: the log is given the last part only; the limits go first.  *)
LogsLastPart(parts) ==
    LET on(to) == [k \in DOMAIN parts |-> <<to, parts[k]>>]
    IN  on("telem") \o on("aux") \o (IF parts = <<>> THEN <<>> ELSE <<on("log")[Len(parts)]>>)

LimitsFirst(parts) ==
    LET on(to) == [k \in DOMAIN parts |-> <<to, parts[Len(parts) + 1 - k]>>]
    IN  on("telem") \o on("aux") \o on("log")

SendAndLog(parts) ==
    LET on(to) == [k \in DOMAIN parts |-> <<to, parts[k]>>]
    IN  on("telem") \o on("aux") \o on("log")

(* Mutant: a command is sent whatever the state is worth.                    *)
AlwaysUsable == TRUE
StateUsable  == valid

(* step_active_controller and set_previous_control_output, whether the state *)
(* is valid or not; the output is used if it is. Mutant: the controller of   *)
(* the tick before is asked.                                                 *)
StepsWith(controller) ==
    /\ loop = "stepping"
    /\ \E kind \in Kinds[controller] :
          /\ command' = [controller |-> controller, kind |-> kind]
          /\ todo' = IF StateUsable THEN SendAndLog(PartsOf(kind)) ELSE <<>>
    /\ loop' = "sending"
    /\ UNCHANGED <<env, manager, tick, valid, busVars, recorded>>

TickStepsPrevious ==
    StepsWith(IF command = NoCommand THEN active ELSE command.controller)

TickStepsController == StepsWith(active)

NewFrame == [tick |-> tick, controller |-> command.controller, part |-> todo[1][2]]

(* Mutant: a queue holds any number of frames.                               *)
AnyRoom(b) == TRUE
HasRoom(b) == Len(tx[b]) < TxLen

(* What becomes of a frame: it is queued, or dropped and counted when the    *)
(* queue is full; a write fails for another reason at any time; and a message *)
(* that the DBC file does not have is lost without a count.                  *)
Queues(b) == /\ NewFrame.part \in known /\ HasRoom(b)
             /\ tx' = [tx EXCEPT ![b] = Append(@, NewFrame)]
             /\ UNCHANGED <<drops, errors>>
Drops(b)  == /\ NewFrame.part \in known /\ ~HasRoom(b)
             /\ drops' = [drops EXCEPT ![b] = @ + 1]
             /\ UNCHANGED <<tx, errors>>
WriteFails(b) == /\ NewFrame.part \in known /\ errors["telem"] + errors["aux"] < MaxErrors
                 /\ errors' = [errors EXCEPT ![b] = @ + 1]
                 /\ UNCHANGED <<tx, drops>>
EncodingFails == NewFrame.part \notin known /\ UNCHANGED <<tx, drops, errors>>

(* send_message, which tells its caller nothing. Mutant: no drop is counted. *)
TickSendsUncounted ==
    /\ loop = "sending" /\ todo # <<>>
    /\ \E b \in Buses : /\ todo[1][1] = b
                        /\ \/ Queues(b) \/ WriteFails(b) \/ EncodingFails
                           \/ ~HasRoom(b) /\ UNCHANGED <<tx, drops, errors>>
    /\ todo' = Tail(todo)
    /\ UNCHANGED <<env, manager, loop, tick, valid, command, known, last, held,
                   lateFrames, recorded>>

TickSends ==
    /\ loop = "sending" /\ todo # <<>>
    /\ \E b \in Buses : /\ todo[1][1] = b
                        /\ Queues(b) \/ Drops(b) \/ WriteFails(b) \/ EncodingFails
    /\ todo' = Tail(todo)
    /\ UNCHANGED <<env, manager, loop, tick, valid, command, known, last, held,
                   lateFrames, recorded>>

TickLogs ==
    /\ loop = "sending" /\ todo # <<>> /\ todo[1][1] = "log"
    /\ recorded' = Append(recorded, NewFrame)
    /\ todo' = Tail(todo)
    /\ UNCHANGED <<env, manager, loop, tick, valid, command, busVars>>

TickEnds ==
    /\ loop = "sending" /\ todo = <<>>
    /\ loop' = "top"
    /\ UNCHANGED <<env, manager, tick, valid, command, todo, busVars, recorded>>

(* The flag of the signal handler, looked at between ticks.                  *)
LoopStops ==
    /\ loop = "top"
    /\ loop' = "ended"
    /\ UNCHANGED <<env, manager, tick, valid, command, todo, busVars, recorded>>

(* A controller that throws ends the loop, before anything of its tick is sent. *)
ControllerThrows ==
    /\ loop = "stepping"
    /\ loop' = "ended"
    /\ UNCHANGED <<env, manager, tick, valid, command, todo, busVars, recorded>>

-----------------------------------------------------------------------------
(* The bus carries what was queued first to the drives.                      *)
BusCarries(b) ==
    /\ tx[b] # <<>>
    /\ tx' = [tx EXCEPT ![b] = Tail(@)]
    /\ last' = [last EXCEPT ![b] = Head(tx[b])]
    /\ held' = [held EXCEPT ![b][Head(tx[b]).part] = Head(tx[b]).tick]
    /\ lateFrames' = IF StateIsRecent THEN lateFrames ELSE [lateFrames EXCEPT ![b] = @ + 1]
    /\ UNCHANGED <<env, manager, tickVars, known, drops, errors, recorded>>

Inputs  == InputsArrive \/ InputsStop \/ StateExpires
Request == RequestReads \/ SwapController \/ RejectSwap
Tick    == \/ TickReadsState \/ TickStepsController \/ TickSends \/ TickLogs
           \/ TickEnds \/ ControllerThrows \/ LoopStops

Next == Inputs \/ Request \/ Tick \/ \E b \in Buses : BusCarries(b)

Spec == Init /\ [][Next]_vars

-----------------------------------------------------------------------------
(* Every variable keeps its type.                                            *)
TypeOK ==
    /\ inputs \in {"coming", "recent", "old"} /\ judgedOn \in BOOLEAN /\ valid \in BOOLEAN
    /\ active \in Controllers /\ request \in {"idle", "judging"}
    /\ loop \in {"top", "stepping", "sending", "ended"}
    /\ tick \in Nat /\ switchedIn \in 0..tick
    /\ switches \in Nat /\ losses \in Nat
    /\ command \in [controller : Controllers, kind : {"speed", "torque", "none"}] \cup {NoCommand}
    /\ todo \in Seq((Buses \cup {"log"}) \X Parts)
    /\ tx \in [Buses -> Seq(Frame)] /\ \A b \in Buses : Len(tx[b]) <= TxLen
    /\ known \subseteq Parts
    /\ drops \in [Buses -> Nat] /\ errors \in [Buses -> Nat] /\ lateFrames \in [Buses -> Nat]
    /\ last \in [Buses -> Frame \cup {Start}]
    /\ held \in [Buses -> [Parts -> Nat]]
    /\ recorded \in Seq(Frame)

Promise == INSTANCE DriveCommands
(* Each bus carries commands as DriveCommands promises: they only get newer, *)
(* a tick speaks for one controller, and speeds come before their limits.    *)
ImplementsDriveCommands == Promise!Spec

(* Speeds and torque limits are separate frames. Drives hold the two of one  *)
(* tick, or the limits are the next frame of their bus; unless a counter of  *)
(* the interface says that a frame was dropped or a write failed, or the DBC *)
(* file does not have both messages, of which no counter tells.              *)
NoLosses(b) == drops[b] = 0 /\ errors[b] = 0 /\ {"rpm", "limit"} \subseteq known

OnlyLossesSplitPairs ==
    \A b \in Buses : NoLosses(b) /\ held[b].rpm # held[b].limit =>
        LET next == tx[b] \o (IF todo # <<>> /\ todo[1][1] = b THEN <<NewFrame>> ELSE <<>>)
        IN  next # <<>> /\ Head(next).part = "limit" /\ Head(next).tick = held[b].rpm

(* Once the state is old, 500 ms after the inputs stopped (until then every  *)
(* tick commands), a bus carries at most what its queue held and what the    *)
(* tick that had still read a valid state sends.                             *)
OutputEndsWithState == \A b \in Buses : lateFrames[b] <= TxLen + 2

(* A tick that begins after a switch speaks for the new controller, on the   *)
(* way to both buses and in the log.                                         *)
NewControllerCommands ==
    \A b \in Buses : \A f \in Range(tx[b]) \cup Range(recorded) :
        f.tick > switchedIn => f.controller = active

(* Between ticks, what a bus carried or will carry is in the log, although   *)
(* the log comes last in a tick and a bus may have lost the frame.           *)
CommandsAreRecorded ==
    loop = "top" => \A b \in Buses :
        Range(tx[b]) \cup {last[b]} \subseteq Range(recorded) \cup {Start}

(* The README: the inputs of a controller must keep coming in; so a switch   *)
(* is judged on a state that is valid.                                       *)
SwitchOnValidState == [][active' # active => judgedOn]_<<active, judgedOn>>

(* A speed command has its torque limits: the drives of a bus never get the  *)
(* speeds of a tick and go on without its limits.                            *)
PairsStayWhole ==
    \A b \in Buses : loop = "top" /\ tx[b] = <<>> => held[b].rpm = held[b].limit
=============================================================================
