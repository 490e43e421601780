------------------------------ MODULE CANComms ------------------------------
(* comms::CANComms: the reader thread that turns CAN frames into protobuf    *)
(* messages for core::log and the StateTracker, and send_message, which the  *)
(* control loop calls. Both look message descriptions up in _messages, an    *)
(* unordered_map, with operator[] and without a lock.                        *)
(*                                                                           *)
(* A frame is its id and the number at each bit position; a message is its   *)
(* id and the number in each field. The scaling of numbers, which the DBC    *)
(* library and the casts do, is left out: a field either gets its signal's   *)
(* number or keeps its default, 0.                                           *)
EXTENDS Integers, SequencesExt

CONSTANTS Dbc,        \* id -> description, the content of the DBC file
          Protos,     \* ids whose name the protobuf pool knows
          Numbers,    \* the numbers a signal can hold
          FrameIds,   \* ids of the frames on the bus
          SendIds,    \* ids of the messages the control loop sends
          TxLen,      \* frames that the transmit queue of the socket holds
          MaxFrames, MaxSends  \* bounds: frames that arrive, sends

Always == -1   \* the multiplexer value of a signal that is in every frame

DecodedTypes == {"float", "int32", "bool", "enum"}
EncodedTypes == {"float", "int32", "bool", "double", "int64", "uint32", "uint64"}
Positions    == 1..2

(* A description: where the multiplexer is, and its signals in order, each   *)
(* with its position, multiplexer value and the type of its field.           *)
ASSUME CanAssumption ==
    /\ SendIds \subseteq Protos /\ Protos \subseteq DOMAIN Dbc
    /\ Numbers \subseteq Nat /\ 0 \in Numbers
    /\ \A id \in DOMAIN Dbc :
          /\ Dbc[id].mux \in Positions
          /\ Dbc[id].signals \in Seq(Range(Dbc[id].signals))
          /\ \A s \in Range(Dbc[id].signals) :
                /\ s.pos \in Positions
                /\ s.plexed \in {Always} \cup Numbers
                /\ s.type \in DecodedTypes \cup EncodedTypes
    /\ TxLen \in Nat /\ MaxFrames \in Nat /\ MaxSends \in Nat

FieldsOf(id) == {s.name : s \in Range(Dbc[id].signals)}
SignalOf(id, field) == CHOOSE s \in Range(Dbc[id].signals) : s.name = field

-----------------------------------------------------------------------------
(* _decode_can_frame: a multiplexed signal is taken only from its frames; a  *)
(* field of another type keeps its default.                                  *)
IsPresent(id, s, data) == s.plexed = Always \/ data[Dbc[id].mux] = s.plexed

Decoded(id, data) ==
    [field \in FieldsOf(id) |-> LET s == SignalOf(id, field) IN
        IF IsPresent(id, s, data) /\ s.type \in DecodedTypes THEN data[s.pos] ELSE 0]

(* _encode_can_frame: each signal in order over the same bytes, multiplexed  *)
(* or not; a field of another type is left out. Mutant: the first signal     *)
(* alone is encoded.                                                         *)
FirstEncoder(id, pos) ==
    {k \in 1..1 : Dbc[id].signals[k].pos = pos /\ Dbc[id].signals[k].type \in EncodedTypes}

Encoders(id, pos) ==
    {k \in DOMAIN Dbc[id].signals : /\ Dbc[id].signals[k].pos = pos
                                    /\ Dbc[id].signals[k].type \in EncodedTypes}

Encoded(id, fields) ==
    [pos \in Positions |->
        IF Encoders(id, pos) = {} THEN 0
        ELSE fields[Dbc[id].signals[Max(Encoders(id, pos))].name]]

(* The messages of an id that a frame can carry.                             *)
Messages(id) == {[id |-> id, fields |-> Decoded(id, data)] : data \in [Positions -> Numbers]}

-----------------------------------------------------------------------------
VARIABLES
    rx,       \* frames received and not read yet
    reader,   \* where the reader thread is
    frame,    \* _frame
    table,    \* the ids that are keys of _messages; unknown ones map to null
    sender,   \* where the control loop is in send_message
    sending,  \* the message being sent
    tx,       \* the transmit queue
    drops,    \* _tx_drop_count
    errors,   \* _tx_error_count
    arrived,  \* history: every frame received
    logged,   \* history: what core::log was given
    tracked,  \* history: what the StateTracker was given
    sends     \* history: calls of send_message

readerVars == <<rx, reader, frame, arrived, logged, tracked>>
senderVars == <<sender, sending, tx, drops, errors, sends>>
vars == <<readerVars, table, senderVars>>

NoFrame   == [id |-> 0, data |-> [pos \in Positions |-> 0]]
NoMessage == [id |-> 0]

Init ==
    /\ rx = <<>> /\ reader = "polling" /\ frame = NoFrame
    /\ arrived = <<>> /\ logged = <<>> /\ tracked = <<>>
    /\ table = DOMAIN Dbc
    /\ sender = "idle" /\ sending = NoMessage
    /\ tx = <<>> /\ drops = 0 /\ errors = 0 /\ sends = 0

-----------------------------------------------------------------------------
FrameArrives ==
    /\ Len(arrived) < MaxFrames
    /\ \E id \in FrameIds, data \in [Positions -> Numbers] :
          /\ rx' = Append(rx, [id |-> id, data |-> data])
          /\ arrived' = Append(arrived, [id |-> id, data |-> data])
    /\ UNCHANGED <<reader, frame, logged, tracked, table, senderVars>>

(* _receive_handler; a read that fails or is cut short is tried again.       *)
(* Mutant: the newest frame comes first.                                     *)
ReaderReadsNewest ==
    /\ reader = "polling" /\ rx # <<>>
    /\ frame' = Last(rx) /\ rx' = Front(rx)
    /\ reader' = IF Last(rx).id \in table THEN "decoding" ELSE "inserting"
    /\ UNCHANGED <<arrived, logged, tracked, table, senderVars>>

ReaderReads ==
    /\ reader = "polling" /\ rx # <<>>
    /\ frame' = Head(rx) /\ rx' = Tail(rx)
    /\ reader' = IF Head(rx).id \in table THEN "decoding" ELSE "inserting"
    /\ UNCHANGED <<arrived, logged, tracked, table, senderVars>>

(* operator[] has put the id of an unknown frame in the map, with null.      *)
ReaderInserts ==
    /\ reader = "inserting"
    /\ table' = table \cup {frame.id}
    /\ reader' = "decoding"
    /\ UNCHANGED <<rx, frame, arrived, logged, tracked, senderVars>>

(* The id is in the DBC file and its name in the protobuf pool.              *)
Decodable(f) == f.id \in Protos

DecodedFrame(f) == [id |-> f.id, fields |-> Decoded(f.id, f.data)]

(* Mutant: the thread ends at an invalid frame.                              *)
ReaderEndsOnInvalid ==
    /\ reader = "decoding"
    /\ ~Decodable(frame)
    /\ reader' = "ended" /\ frame' = NoFrame
    /\ UNCHANGED <<rx, arrived, logged, tracked, table, senderVars>>

ReaderSkips ==
    /\ reader = "decoding"
    /\ ~Decodable(frame)
    /\ reader' = "polling" /\ frame' = NoFrame
    /\ UNCHANGED <<rx, arrived, logged, tracked, table, senderVars>>

ReaderLogs ==
    /\ reader = "decoding"
    /\ Decodable(frame)
    /\ logged' = Append(logged, DecodedFrame(frame))
    /\ reader' = "tracking"
    /\ UNCHANGED <<rx, frame, arrived, tracked, table, senderVars>>

ReaderTracks ==
    /\ reader = "tracking"
    /\ tracked' = Append(tracked, DecodedFrame(frame))
    /\ reader' = "polling" /\ frame' = NoFrame
    /\ UNCHANGED <<rx, arrived, logged, table, senderVars>>

-----------------------------------------------------------------------------
(* send_message: look the description up. While the reader is inserting,     *)
(* the map may be anything: the lookup works, or it finds no description and *)
(* the call goes through a null pointer, which ends the process. The name    *)
(* of a message of SendIds is in the DBC file.                               *)
SenderLooksUp ==
    /\ sender = "idle" /\ sends < MaxSends
    /\ \E id \in SendIds : sending' \in Messages(id)
    /\ sends' = sends + 1
    /\ \/ sender' = "writing"
       \/ reader = "inserting" /\ sender' = "crashed"
    /\ UNCHANGED <<readerVars, table, tx, drops, errors>>

(* A non-blocking write fails when the queue is full.                        *)
HasRoom == Len(tx) < TxLen

SenderWrites ==
    /\ sender = "writing"
    /\ IF HasRoom
         THEN /\ tx' = Append(tx, [id |-> sending.id, data |-> Encoded(sending.id, sending.fields)])
              /\ UNCHANGED drops
         ELSE drops' = drops + 1 /\ UNCHANGED tx
    /\ sender' = "idle" /\ sending' = NoMessage
    /\ UNCHANGED <<readerVars, table, errors, sends>>

(* Or it fails for another reason, whatever the queue has.                   *)
SenderFails ==
    /\ sender = "writing"
    /\ errors' = errors + 1
    /\ sender' = "idle" /\ sending' = NoMessage
    /\ UNCHANGED <<readerVars, table, tx, drops, sends>>

BusTakes ==
    /\ tx # <<>>
    /\ tx' = Tail(tx)
    /\ UNCHANGED <<readerVars, table, sender, sending, drops, errors, sends>>

Reader == ReaderReads \/ ReaderInserts \/ ReaderSkips \/ ReaderLogs \/ ReaderTracks
Sender == SenderLooksUp \/ SenderWrites \/ SenderFails
Alive  == sender # "crashed"

Next == Alive /\ (FrameArrives \/ Reader \/ Sender \/ BusTakes)

Spec == Init /\ [][Next]_vars

(* The reader thread keeps running as long as the process does: whatever     *)
(* fails in it, it reads on.                                                 *)
LiveSpec == Spec /\ WF_vars(Alive /\ Reader)

-----------------------------------------------------------------------------
(* Every variable keeps its type; the transmit queue its length.             *)
Frame   == [id : FrameIds \cup SendIds \cup {0}, data : [Positions -> Numbers]]
Message == UNION {Messages(id) : id \in Protos}

TypeOK ==
    /\ rx \in Seq(Frame) /\ arrived \in Seq(Frame) /\ frame \in Frame
    /\ reader \in {"polling", "inserting", "decoding", "tracking"}
    /\ logged \in Seq(Message) /\ tracked \in Seq(Message)
    /\ DOMAIN Dbc \subseteq table /\ table \subseteq DOMAIN Dbc \cup FrameIds
    /\ sender \in {"idle", "writing", "crashed"}
    /\ sending \in Message \cup {NoMessage}
    /\ tx \in Seq(Frame) /\ Len(tx) <= TxLen
    /\ drops \in 0..MaxSends /\ errors \in 0..MaxSends /\ sends \in 0..MaxSends

(* How many of the first n frames decode.                                    *)
Decodables(frames, n) == Cardinality({k \in 1..n : Decodable(frames[k])})

(* Frames that decode reach the logger and then the tracker, each once and   *)
(* in the order of arrival, with frames that do not decode between them; the *)
(* frames that are not handled yet are in hand or waiting.                   *)
HandledInOrder ==
    LET inHand  == IF reader = "polling" THEN <<>> ELSE <<frame>>
        waiting == inHand \o rx
        handled == Len(arrived) - Len(waiting)
    IN  /\ handled >= 0
        /\ \A k \in 1..Len(waiting) : waiting[k] = arrived[handled + k]
        /\ Len(tracked) = Decodables(arrived, handled)
        /\ \A k \in 1..handled : Decodable(arrived[k]) =>
              tracked[Decodables(arrived, k)] = DecodedFrame(arrived[k])
        /\ logged = IF reader = "tracking" THEN Append(tracked, DecodedFrame(frame)) ELSE tracked

(* The last frame to arrive is handled, although undecodable ones and the    *)
(* map's growth come between, unless the process has died of a send that met *)
(* that growth and went through null.                                        *)
EveryFrameHandled ==
    \A n \in 1..MaxFrames :
        (Len(arrived) >= n) ~> \/ Len(arrived) - Len(rx) >= n /\ reader = "polling"
                               \/ ~Alive

(* The doc of _encode_can_frame: it encodes a message to a CAN message. So a *)
(* frame that is sent carries each field that a receiver would decode.       *)
EncodingKeepsFields ==
    sender = "writing" => Decoded(sending.id, Encoded(sending.id, sending.fields)) = sending.fields

(* The reader's error line: an invalid frame is skipped, so it has no effect *)
(* on a message being sent.                                                  *)
SkippedFrameIsHarmless == sender # "crashed"
=============================================================================
