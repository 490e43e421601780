------------------------------ MODULE SimComms ------------------------------
(* comms::SimComms, which takes the place of the CAN drivers in the HOOTL    *)
(* build, beside the receivers of the io thread (module IoReceivers): a      *)
(* thread that receives multipart frames with a time-out, and gives those    *)
(* that it can parse to core::log and the StateTracker, as the io thread     *)
(* does. send_message is a stub.                                             *)
EXTENDS IoReceivers

CONSTANT MaxStarts   \* bound: calls of start

ASSUME MaxStartsAssumption == MaxStarts \in Nat

VARIABLES
    sim,        \* where the receive thread is, or none
    simRunning, \* _running
    frames,     \* frames in the socket
    frame,      \* the frame in hand
    closer,     \* where close() is: idle, joining or closed
    starts      \* history: calls of start

simVars == <<sim, simRunning, frames, frame, closer, starts>>
vars == <<receiverVars, simVars>>

NoFrame == NewMessage("sim", "none", 0)

Init ==
    /\ ReceiversInit
    /\ sim = "none" /\ simRunning = TRUE /\ frames = <<>> /\ frame = NoFrame
    /\ closer = "idle" /\ starts = 0

-----------------------------------------------------------------------------
(* invalid: fewer than two parts, no such type, or it does not parse.        *)
Parses(msg) == msg.kind = "whole"

FrameArrives ==
    /\ Len(arrived) < MaxArrivals
    /\ \E kind \in {"whole", "invalid"} :
          LET msg == NewMessage("sim", kind, Len(arrived) + 1)
          IN  frames' = Append(frames, msg) /\ arrived' = Append(arrived, msg)
    /\ UNCHANGED <<netVars, ioVars, appVars, sinkVars, sim, simRunning, frame, closer, starts>>

(* The caller does not start a thread over one that was not joined.          *)
Start ==
    /\ sim = "none" /\ closer # "joining" /\ starts < MaxStarts
    /\ sim' = "checking" /\ starts' = starts + 1
    /\ UNCHANGED <<receiverVars, simRunning, frames, frame, closer>>

SimChecks ==
    /\ sim = "checking"
    /\ sim' = IF simRunning THEN "receiving" ELSE "done"
    /\ UNCHANGED <<receiverVars, simRunning, frames, frame, closer, starts>>

(* The receive times out or fails. Mutant: it waits for a frame.             *)
SimWaits ==
    /\ sim = "receiving" /\ frames # <<>>
    /\ sim' = "checking"
    /\ UNCHANGED <<receiverVars, simRunning, frames, frame, closer, starts>>

SimTimesOut ==
    /\ sim = "receiving"
    /\ sim' = "checking"
    /\ UNCHANGED <<receiverVars, simRunning, frames, frame, closer, starts>>

SimReceives ==
    /\ sim = "receiving" /\ frames # <<>>
    /\ frame' = Head(frames) /\ frames' = Tail(frames)
    /\ sim' = IF Parses(Head(frames)) THEN "logging" ELSE "checking"
    /\ UNCHANGED <<receiverVars, simRunning, closer, starts>>

(* core::log asserts that the logger exists.                                 *)
SimLogs ==
    /\ sim = "logging"
    /\ IF destroyed THEN sim' = "aborted" /\ UNCHANGED logged
                    ELSE sim' = "tracking" /\ logged' = Append(logged, frame)
    /\ UNCHANGED <<netVars, ioVars, appVars, tracked, arrived, simRunning, frames, frame, closer, starts>>

SimTracks ==
    /\ sim = "tracking"
    /\ tracked' = Append(tracked, frame)
    /\ sim' = "checking"
    /\ UNCHANGED <<netVars, ioVars, appVars, logged, arrived, simRunning, frames, frame, closer, starts>>

-----------------------------------------------------------------------------
(* close(): the flag, the join and the socket; a second call does nothing.   *)
CloseClears ==
    /\ closer = "idle" /\ simRunning
    /\ simRunning' = FALSE /\ closer' = "joining"
    /\ UNCHANGED <<receiverVars, sim, frames, frame, starts>>

(* Mutant: the thread is detached.                                           *)
CloseDetaches ==
    /\ closer = "joining"
    /\ closer' = "closed"
    /\ UNCHANGED <<receiverVars, sim, simRunning, frames, frame, starts>>

CloseJoins ==
    /\ closer = "joining" /\ sim \in {"none", "done"}
    /\ sim' = "none" /\ closer' = "closed"
    /\ UNCHANGED <<receiverVars, simRunning, frames, frame, starts>>

SimThread == SimChecks \/ SimTimesOut \/ SimReceives \/ SimLogs \/ SimTracks

(* An abort ends the process, and with it every thread.                      *)
Next == /\ sim # "aborted"
        /\ \/ ReceiversNext /\ UNCHANGED simVars
           \/ FrameArrives \/ Start \/ SimThread \/ CloseClears \/ CloseJoins

Spec == Init /\ [][Next]_vars

(* The system completes what it has data for, the two threads run, and a     *)
(* close goes on once the thread it waits for is done.                       *)
LiveSpec ==
    /\ Spec
    /\ \A source \in Sources : WF_vars(Complete(source) /\ UNCHANGED simVars /\ sim # "aborted")
    /\ WF_vars(Io /\ UNCHANGED simVars /\ sim # "aborted")
    /\ WF_vars(SimThread) /\ WF_vars(CloseJoins)

-----------------------------------------------------------------------------
(* Every variable keeps its type.                                            *)
TypeOK ==
    /\ ReceiversTypeOK
    /\ sim \in {"none", "checking", "receiving", "logging", "tracking", "done", "aborted"}
    /\ simRunning \in BOOLEAN /\ closer \in {"idle", "joining", "closed"}
    /\ frames \in Seq(Message) /\ frame \in Message
    /\ starts \in 0..MaxStarts

(* A receiver is deaf only after an error of its own: what arrives for one   *)
(* is tracked, whatever fails for the others, unless the io thread was       *)
(* stopped or a handler threw.                                               *)
OthersErrorsHarmless ==
    \A n \in 1..MaxArrivals :
        (HasArrived(n) /\ arrived[n].source \in Sources)
            ~> (IsTracked(n) \/ IsExcused(n) \/ sim = "aborted")

(* close() returns, whatever the thread is doing and whether or not it was   *)
(* started: the time-out of the receive lets it look at the flag.            *)
CloseReturns == closer = "joining" ~> closer = "closed" \/ sim = "aborted"

(* After close() has returned, no frame is logged or tracked: the caller may *)
(* then destroy the tracker.                                                 *)
AddsNoFrame(msgs, next) == \A k \in DOMAIN next \ DOMAIN msgs : next[k].source # "sim"
ClosedIsQuiet == [][closer = "closed" => /\ AddsNoFrame(logged, logged')
                                         /\ AddsNoFrame(tracked, tracked')]_vars

(* A thread that logs finds the logger: the io thread is joined before it is *)
(* deleted, and the receive thread is not.                                   *)
SimFindsLogger == sim # "aborted"

(* The recording has all messages in the order in which the state took them. *)
RecordedInStateOrder == IsPrefix(tracked, logged)

(* The doc of _handle_receive: it deserializes the message and logs it.      *)
LoggedAreDecoded == \A msg \in Range(logged) : msg.kind = "whole"
=============================================================================
