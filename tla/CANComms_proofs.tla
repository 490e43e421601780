-------------------------- MODULE CANComms_proofs ---------------------------
(* Proofs about CANComms for any DBC file, any frames and any number of them.*)
EXTENDS CANComms, SequenceTheorems, FiniteSetTheorems, WellFoundedInduction, TLAPS

(* Frames are of the bus until they are handled, and messages to send are of *)
(* those that the control loop sends.                                        *)
BusFrame == [id : FrameIds, data : [Positions -> Numbers]]

FromBusAndLoop ==
    /\ rx \in Seq(BusFrame) /\ arrived \in Seq(BusFrame)
    /\ reader # "polling" => frame \in BusFrame
    /\ sender = "writing" => \E id \in SendIds : sending \in Messages(id)
    /\ drops + errors + (IF sender = "writing" THEN 1 ELSE 0) <= sends

(* HandledInOrder by position: what is handled, in hand and waiting.         *)
HandledCount == Len(arrived) - Len(rx) - (IF reader = "polling" THEN 0 ELSE 1)

WaitingInOrder ==
    /\ HandledCount >= 0
    /\ reader # "polling" => frame = arrived[HandledCount + 1]
    /\ \A k \in 1..Len(rx) : rx[k] = arrived[Len(arrived) - Len(rx) + k]

TrackedInOrder ==
    /\ Len(tracked) = Decodables(arrived, HandledCount)
    /\ \A k \in 1..HandledCount : Decodable(arrived[k]) =>
          tracked[Decodables(arrived, k)] = DecodedFrame(arrived[k])
    /\ logged = IF reader = "tracking" THEN Append(tracked, DecodedFrame(frame)) ELSE tracked
    /\ reader = "tracking" => Decodable(frame)

IInv == TypeOK /\ FromBusAndLoop /\ WaitingInOrder /\ TrackedInOrder

(* A send that went through a null pointer met the insertion of an id that   *)
(* the DBC file does not have, and a frame with such an id has arrived.      *)
UnknownArrived == \E k \in 1..Len(arrived) : arrived[k].id \notin DOMAIN Dbc
CrashOnUnknown == sender = "crashed" => UnknownArrived
InsertsUnknown == reader = "inserting" => frame.id \notin DOMAIN Dbc

-----------------------------------------------------------------------------
(* Numbers.                                                                  *)
LEMMA MaxOfSome ==
    ASSUME NEW n \in Nat, NEW S \in SUBSET (1..n), S # {}
    PROVE  Max(S) \in S /\ \A s \in S : Max(S) >= s
<1> DEFINE bounds == {b \in Nat : \A s \in S : b >= s}
<1>1. n \in bounds
  OBVIOUS
<1>2. PICK least \in bounds : \A b \in bounds : ~(b < least)
  <2> DEFINE below == {ss \in Nat \X Nat : ss[1] < ss[2]}
  <2>1. IsWellFoundedOn(below, Nat)
    BY NatLessThanWellFounded, SMT DEF OpToRel
  <2>2. bounds \subseteq Nat /\ bounds # {}
    BY <1>1
  <2>3. \A x, y \in bounds : y < x => <<y, x>> \in below
    BY <2>2
  <2> HIDE DEF bounds, below
  <2>4. \E x \in bounds : \A y \in bounds : ~(<<y, x>> \in below)
    BY <2>1, <2>2, WFMin
  <2> QED
    BY <2>3, <2>4
<1>3. least \in S
  <2> SUFFICES ASSUME least \notin S PROVE FALSE
    OBVIOUS
  <2>0. PICK s \in S : TRUE
    OBVIOUS
  <2>1. s \in 1..n /\ s <= least
    <3>1. s \in 1..n
      OBVIOUS
    <3>2. \A t \in S : least >= t
      BY <1>2
    <3> QED
      BY <2>0, <3>1, <3>2, <1>2
  <2>2. \A t \in S : t <= least - 1
    <3>1. \A t \in S : t \in Nat /\ least >= t /\ t # least
      BY <1>2
    <3> QED
      BY <3>1, <1>2
  <2>3. least - 1 \in bounds
    BY <1>2, <2>1, <2>2
  <2> QED
    BY <1>2, <2>3
<1> QED
  BY <1>2, <1>3 DEF Max

-----------------------------------------------------------------------------
(* Messages and frames.                                                      *)
LEMMA SignalFacts ==
    ASSUME CanAssumption, NEW id \in DOMAIN Dbc
    PROVE  /\ Dbc[id].signals \in Seq(Range(Dbc[id].signals))
           /\ \A k \in DOMAIN Dbc[id].signals : /\ Dbc[id].signals[k] \in Range(Dbc[id].signals)
                                                /\ Dbc[id].signals[k].name \in FieldsOf(id)
           /\ \A s \in Range(Dbc[id].signals) : s.pos \in Positions
           /\ \A field \in FieldsOf(id) : /\ SignalOf(id, field) \in Range(Dbc[id].signals)
                                          /\ SignalOf(id, field).name = field
<1>1. Dbc[id].signals \in Seq(Range(Dbc[id].signals))
      /\ \A s \in Range(Dbc[id].signals) : s.pos \in Positions
  BY DEF CanAssumption
<1>2. \A k \in DOMAIN Dbc[id].signals : /\ Dbc[id].signals[k] \in Range(Dbc[id].signals)
                                        /\ Dbc[id].signals[k].name \in FieldsOf(id)
  BY DEF Range, FieldsOf
<1>3. ASSUME NEW field \in FieldsOf(id)
      PROVE  SignalOf(id, field) \in Range(Dbc[id].signals) /\ SignalOf(id, field).name = field
  <2>1. \E s \in Range(Dbc[id].signals) : s.name = field
    BY DEF FieldsOf
  <2> QED
    BY <2>1, Zenon DEF SignalOf
<1> QED
  BY <1>1, <1>2, <1>3

LEMMA DecodedIsNumbers ==
    ASSUME CanAssumption, NEW id \in DOMAIN Dbc, NEW data \in [Positions -> Numbers]
    PROVE  Decoded(id, data) \in [FieldsOf(id) -> Numbers]
<1>1. ASSUME NEW field \in FieldsOf(id)
      PROVE  (IF IsPresent(id, SignalOf(id, field), data) /\ SignalOf(id, field).type \in DecodedTypes
              THEN data[SignalOf(id, field).pos] ELSE 0) \in Numbers
  <2>1. SignalOf(id, field).pos \in Positions
    BY SignalFacts
  <2>2. data[SignalOf(id, field).pos] \in Numbers /\ 0 \in Numbers
    BY <2>1 DEF CanAssumption
  <2> QED
    BY <2>2
<1> QED
  BY <1>1 DEF Decoded

LEMMA EncodersFacts ==
    ASSUME CanAssumption, NEW id \in DOMAIN Dbc, NEW pos \in Positions, Encoders(id, pos) # {}
    PROVE  Max(Encoders(id, pos)) \in Encoders(id, pos)
<1>1. PICK n \in Nat : DOMAIN Dbc[id].signals = 1..n
  BY SignalFacts, LenProperties
<1>2. Encoders(id, pos) \in SUBSET (1..n)
  BY <1>1 DEF Encoders
<1> QED
  BY <1>2, MaxOfSome

LEMMA EncodedIsNumbers ==
    ASSUME CanAssumption, NEW id \in DOMAIN Dbc, NEW fields \in [FieldsOf(id) -> Numbers]
    PROVE  Encoded(id, fields) \in [Positions -> Numbers]
<1>1. ASSUME NEW pos \in Positions
      PROVE  (IF Encoders(id, pos) = {} THEN 0
              ELSE fields[Dbc[id].signals[Max(Encoders(id, pos))].name]) \in Numbers
  <2>1. CASE Encoders(id, pos) = {}
    BY <2>1 DEF CanAssumption
  <2>2. CASE Encoders(id, pos) # {}
    <3>1. PICK k \in DOMAIN Dbc[id].signals : k = Max(Encoders(id, pos))
      BY <2>2, EncodersFacts DEF Encoders
    <3>2. Dbc[id].signals[k].name \in FieldsOf(id)
      BY SignalFacts
    <3> QED
      BY <2>2, <3>1, <3>2
  <2> QED
    BY <2>1, <2>2
<1> QED
  BY <1>1 DEF Encoded

LEMMA MessageFacts ==
    ASSUME CanAssumption, NEW id \in Protos, NEW m \in Messages(id)
    PROVE  m \in Message /\ m.id = id /\ m.fields \in [FieldsOf(id) -> Numbers]
<1>1. PICK data \in [Positions -> Numbers] : m = [id |-> id, fields |-> Decoded(id, data)]
  BY DEF Messages
<1>2. id \in DOMAIN Dbc
  BY DEF CanAssumption
<1>3. Decoded(id, data) \in [FieldsOf(id) -> Numbers]
  BY <1>2, DecodedIsNumbers
<1> QED
  BY <1>1, <1>3 DEF Message

LEMMA DecodedFrameIsMessage ==
    ASSUME CanAssumption, NEW f \in BusFrame, Decodable(f)
    PROVE  DecodedFrame(f) \in Message
<1>1. f.data \in [Positions -> Numbers] /\ f.id \in Protos
  BY DEF BusFrame, Decodable
<1>2. DecodedFrame(f) \in Messages(f.id)
  BY <1>1 DEF Messages, DecodedFrame
<1> QED
  BY <1>1, <1>2 DEF Message

LEMMA SentFrameIsFrame ==
    ASSUME CanAssumption, NEW id \in SendIds, NEW m \in Messages(id)
    PROVE  [id |-> m.id, data |-> Encoded(m.id, m.fields)] \in Frame
<1>1. id \in Protos /\ id \in DOMAIN Dbc
  BY DEF CanAssumption
<1>2. m.id = id /\ m.fields \in [FieldsOf(id) -> Numbers]
  BY <1>1, MessageFacts
<1>3. Encoded(m.id, m.fields) \in [Positions -> Numbers]
  BY <1>1, <1>2, EncodedIsNumbers
<1> QED
  BY <1>2, <1>3 DEF Frame

(* A message whose signals are in every frame, in places of their own and    *)
(* with types that are converted both ways comes out as it went in.          *)
WholeSignals(id) ==
    \A s \in Range(Dbc[id].signals) :
        /\ s.plexed = Always /\ s.type \in DecodedTypes \cap EncodedTypes
        /\ \A u \in Range(Dbc[id].signals) : u.pos = s.pos \/ u.name = s.name => u = s

LEMMA WholeSignalsKept ==
    ASSUME CanAssumption, NEW id \in DOMAIN Dbc, NEW fields \in [FieldsOf(id) -> Numbers],
           WholeSignals(id)
    PROVE  Decoded(id, Encoded(id, fields)) = fields
<1>1. ASSUME NEW field \in FieldsOf(id)
      PROVE  Decoded(id, Encoded(id, fields))[field] = fields[field]
  <2>1. PICK s \in Range(Dbc[id].signals) : s = SignalOf(id, field) /\ s.name = field
    BY SignalFacts
  <2>2. s.pos \in Positions /\ s.plexed = Always /\ s.type \in DecodedTypes /\ s.type \in EncodedTypes
    BY SignalFacts DEF WholeSignals
  <2>3. PICK j \in DOMAIN Dbc[id].signals : Dbc[id].signals[j] = s
    BY DEF Range
  <2>4. j \in Encoders(id, s.pos)
    BY <2>2, <2>3 DEF Encoders
  <2>5. PICK k \in Encoders(id, s.pos) : k = Max(Encoders(id, s.pos))
    BY <2>2, <2>4, EncodersFacts
  <2>6. Dbc[id].signals[k] \in Range(Dbc[id].signals) /\ Dbc[id].signals[k].pos = s.pos
    BY SignalFacts DEF Encoders
  <2>7. Dbc[id].signals[k] = s
    BY <2>6 DEF WholeSignals
  <2>8. Encoded(id, fields)[s.pos] = fields[field]
    BY <2>1, <2>2, <2>4, <2>5, <2>7 DEF Encoded
  <2>9. Decoded(id, Encoded(id, fields))[field] = Encoded(id, fields)[s.pos]
    BY <2>1, <2>2 DEF Decoded, IsPresent
  <2> QED
    BY <2>8, <2>9
<1>2. /\ Decoded(id, Encoded(id, fields)) \in [FieldsOf(id) -> Numbers]
  BY EncodedIsNumbers, DecodedIsNumbers
<1> QED
  BY <1>1, <1>2

-----------------------------------------------------------------------------
(* Counting the frames that decode.                                          *)
LEMMA CountStep ==
    ASSUME NEW frames, NEW n \in Nat
    PROVE  /\ Decodables(frames, 0) = 0
           /\ Decodables(frames, n) \in Nat
           /\ Decodables(frames, n + 1) = IF Decodable(frames[n + 1])
                                          THEN Decodables(frames, n) + 1
                                          ELSE Decodables(frames, n)
<1> DEFINE those(k) == {j \in 1..k : Decodable(frames[j])}
<1>1. those(0) = {}
  OBVIOUS
<1>2. IsFiniteSet(those(n))
  <2>1. IsFiniteSet(1..n)
    BY FS_Interval
  <2> QED
    BY <2>1, FS_Subset
<1>3. those(n + 1) = IF Decodable(frames[n + 1]) THEN those(n) \cup {n + 1} ELSE those(n)
  <2>1. \A j : j \in 1..(n + 1) <=> j \in 1..n \/ j = n + 1
    OBVIOUS
  <2> QED
    BY <2>1
<1>4. n + 1 \notin those(n)
  OBVIOUS
<1> HIDE DEF those
<1>5. Cardinality(those(n) \cup {n + 1}) = Cardinality(those(n)) + 1
  BY <1>2, <1>4, FS_AddElement
<1>6. Cardinality(those(0)) = 0 /\ Cardinality(those(n)) \in Nat
  BY <1>1, <1>2, FS_EmptySet, FS_CardinalityType
<1>7. Cardinality(those(n + 1)) = IF Decodable(frames[n + 1])
                                  THEN Cardinality(those(n)) + 1 ELSE Cardinality(those(n))
  BY <1>3, <1>5
<1> USE DEF those
<1> QED
  BY <1>6, <1>7 DEF Decodables

LEMMA CountGrows ==
    ASSUME NEW frames, NEW n \in Nat, NEW k \in 1..n, Decodable(frames[k])
    PROVE  Decodables(frames, k) \in 1 .. Decodables(frames, n)
<1> DEFINE those(m) == {j \in 1..m : Decodable(frames[j])}
<1>1. IsFiniteSet(1..n) /\ IsFiniteSet(1..k)
  BY FS_Interval
<1>2. IsFiniteSet(those(n)) /\ IsFiniteSet(those(k))
  BY <1>1, FS_Subset
<1>3. those(k) \subseteq those(n) /\ k \in those(k)
  OBVIOUS
<1> HIDE DEF those
<1>4. Cardinality(those(k)) <= Cardinality(those(n)) /\ Cardinality(those(n)) \in Nat
  BY <1>2, <1>3, FS_Subset, FS_CardinalityType
<1>5. Cardinality(those(k)) \in Nat /\ Cardinality(those(k)) # 0
  BY <1>2, <1>3, FS_EmptySet, FS_CardinalityType
<1>6. Cardinality(those(k)) \in 1 .. Cardinality(those(n))
  BY <1>4, <1>5
<1> USE DEF those
<1> QED
  BY <1>6 DEF Decodables

LEMMA CountDependsOnPrefix ==
    ASSUME NEW frames, NEW others, NEW n \in Nat, \A k \in 1..n : frames[k] = others[k]
    PROVE  Decodables(frames, n) = Decodables(others, n)
<1>1. {j \in 1..n : Decodable(frames[j])} = {j \in 1..n : Decodable(others[j])}
  OBVIOUS
<1> QED
  BY <1>1 DEF Decodables

-----------------------------------------------------------------------------
(* The invariant holds at the start.                                         *)
LEMMA StartsInOrder == ASSUME CanAssumption, Init PROVE IInv
<1>1. NoFrame \in Frame
  BY DEF CanAssumption, NoFrame, Frame
<1>2. TypeOK
  BY <1>1 DEF CanAssumption, Init, TypeOK
<1>3. FromBusAndLoop /\ WaitingInOrder
  BY DEF Init, FromBusAndLoop, WaitingInOrder, HandledCount
<1>4. TrackedInOrder
  <2>1. HandledCount = 0 /\ arrived = <<>> /\ tracked = <<>> /\ logged = <<>> /\ reader = "polling"
    BY DEF Init, HandledCount
  <2>2. Decodables(arrived, 0) = 0
    BY CountStep
  <2> QED
    BY <2>1, <2>2 DEF TrackedInOrder
<1> QED
  BY <1>2, <1>3, <1>4 DEF IInv

-----------------------------------------------------------------------------
(* Types, step by step.                                                      *)
LEMMA TypesStep ==
    ASSUME CanAssumption, IInv, [Next]_vars
    PROVE  TypeOK' /\ FromBusAndLoop'
<1> USE DEF IInv
<1>1. CASE FrameArrives
  <2>1. PICK f \in BusFrame : rx' = Append(rx, f) /\ arrived' = Append(arrived, f)
    BY <1>1, Zenon DEF FrameArrives, BusFrame
  <2>2. f \in Frame
    BY DEF BusFrame, Frame
  <2>3. rx' \in Seq(Frame) /\ arrived' \in Seq(Frame)
    BY <2>1, <2>2 DEF TypeOK
  <2>4. rx' \in Seq(BusFrame) /\ arrived' \in Seq(BusFrame)
    BY <2>1 DEF FromBusAndLoop
  <2>5. UNCHANGED <<reader, frame, logged, tracked, table, senderVars>>
    BY <1>1 DEF FrameArrives
  <2>6. TypeOK'
    BY <2>3, <2>5 DEF TypeOK, senderVars
  <2> QED
    BY <2>4, <2>5, <2>6 DEF FromBusAndLoop, senderVars
<1>2. CASE ReaderReads
  <2>1. /\ rx # <<>> /\ frame' = Head(rx) /\ rx' = Tail(rx)
        /\ reader' \in {"decoding", "inserting"}
        /\ UNCHANGED <<arrived, logged, tracked, table, senderVars>>
    BY <1>2 DEF ReaderReads
  <2>2. Head(rx) \in BusFrame /\ Tail(rx) \in Seq(BusFrame)
    BY <2>1 DEF FromBusAndLoop
  <2>3. Head(rx) \in Frame /\ Tail(rx) \in Seq(Frame)
    BY <2>1 DEF TypeOK
  <2>4. TypeOK'
    BY <2>1, <2>3 DEF TypeOK, senderVars
  <2> QED
    BY <2>1, <2>2, <2>4 DEF FromBusAndLoop, senderVars
<1>3. CASE ReaderInserts
  <2>1. /\ reader = "inserting" /\ reader' = "decoding" /\ table' = table \cup {frame.id}
        /\ UNCHANGED <<rx, frame, arrived, logged, tracked, senderVars>>
    BY <1>3 DEF ReaderInserts
  <2>2. frame.id \in FrameIds
    BY <2>1 DEF FromBusAndLoop, BusFrame
  <2>3. TypeOK'
    BY <2>1, <2>2 DEF TypeOK, senderVars
  <2> QED
    BY <2>1, <2>3 DEF FromBusAndLoop, senderVars
<1>4. CASE ReaderSkips
  <2>1. /\ reader' = "polling" /\ frame' = NoFrame
        /\ UNCHANGED <<rx, arrived, logged, tracked, table, senderVars>>
    BY <1>4 DEF ReaderSkips
  <2>2. NoFrame \in Frame
    BY DEF CanAssumption, NoFrame, Frame
  <2>3. TypeOK'
    BY <2>1, <2>2 DEF TypeOK, senderVars
  <2> QED
    BY <2>1, <2>3 DEF FromBusAndLoop, senderVars
<1>5. CASE ReaderLogs
  <2>1. /\ reader = "decoding" /\ Decodable(frame) /\ reader' = "tracking"
        /\ logged' = Append(logged, DecodedFrame(frame))
        /\ UNCHANGED <<rx, frame, arrived, tracked, table, senderVars>>
    BY <1>5 DEF ReaderLogs
  <2>2. DecodedFrame(frame) \in Message
    BY <2>1, DecodedFrameIsMessage DEF FromBusAndLoop
  <2>3. TypeOK'
    BY <2>1, <2>2 DEF TypeOK, senderVars
  <2> QED
    BY <2>1, <2>3 DEF FromBusAndLoop, senderVars
<1>6. CASE ReaderTracks
  <2>1. /\ reader = "tracking" /\ reader' = "polling" /\ frame' = NoFrame
        /\ tracked' = Append(tracked, DecodedFrame(frame))
        /\ UNCHANGED <<rx, arrived, logged, table, senderVars>>
    BY <1>6 DEF ReaderTracks
  <2>2. DecodedFrame(frame) \in Message
    BY <2>1, DecodedFrameIsMessage DEF FromBusAndLoop, TrackedInOrder
  <2>3. NoFrame \in Frame
    BY DEF CanAssumption, NoFrame, Frame
  <2>4. TypeOK'
    BY <2>1, <2>2, <2>3 DEF TypeOK, senderVars
  <2> QED
    BY <2>1, <2>4 DEF FromBusAndLoop, senderVars
<1>7. CASE SenderLooksUp
  <2>1. PICK id \in SendIds : sending' \in Messages(id)
    BY <1>7 DEF SenderLooksUp
  <2>2. /\ sender = "idle" /\ sends < MaxSends /\ sends' = sends + 1
        /\ sender' \in {"writing", "crashed"}
        /\ UNCHANGED <<readerVars, table, tx, drops, errors>>
    BY <1>7 DEF SenderLooksUp
  <2>3. sending' \in Message
    BY <2>1, MessageFacts DEF CanAssumption
  <2>4. sends' \in 0..MaxSends
    BY <2>2 DEF TypeOK, CanAssumption
  <2>5. TypeOK'
    BY <2>2, <2>3, <2>4 DEF TypeOK, readerVars
  <2>6. drops' + errors' + (IF sender' = "writing" THEN 1 ELSE 0) <= sends'
    BY <2>2 DEF FromBusAndLoop, TypeOK, CanAssumption
  <2> QED
    BY <2>1, <2>2, <2>5, <2>6 DEF FromBusAndLoop, readerVars
<1>8. CASE SenderWrites
  <2>1. PICK id \in SendIds : sending \in Messages(id)
    BY <1>8 DEF SenderWrites, FromBusAndLoop
  <2>2. /\ sender = "writing" /\ sender' = "idle" /\ sending' = NoMessage
        /\ UNCHANGED <<readerVars, table, errors, sends>>
    BY <1>8 DEF SenderWrites
  <2>3. PICK f \in Frame : f = [id |-> sending.id, data |-> Encoded(sending.id, sending.fields)]
    BY <2>1, SentFrameIsFrame
  <2>4. IF HasRoom THEN tx' = Append(tx, f) /\ drops' = drops ELSE drops' = drops + 1 /\ tx' = tx
    BY <1>8, <2>3 DEF SenderWrites
  <2>5. tx' \in Seq(Frame) /\ Len(tx') <= TxLen
    <3>1. tx \in Seq(Frame) /\ Len(tx) <= TxLen /\ Len(tx) \in Nat /\ TxLen \in Nat
      BY DEF TypeOK, CanAssumption
    <3>2. Append(tx, f) \in Seq(Frame) /\ Len(Append(tx, f)) = Len(tx) + 1
      BY <3>1
    <3>3. CASE HasRoom
      <4>1. Len(tx) < TxLen /\ tx' = Append(tx, f)
        BY <2>4, <3>3 DEF HasRoom
      <4>2. Len(tx) + 1 <= TxLen
        BY <3>1, <4>1
      <4> QED
        BY <3>2, <4>1, <4>2
    <3>4. CASE ~HasRoom
      BY <2>4, <3>1, <3>4
    <3> QED
      BY <3>3, <3>4
  <2>6. drops' \in 0..MaxSends /\ drops' + errors' <= sends'
    BY <2>2, <2>4 DEF TypeOK, FromBusAndLoop, CanAssumption
  <2>7. TypeOK'
    BY <2>2, <2>5, <2>6 DEF TypeOK, readerVars
  <2>8. drops' + errors' + (IF sender' = "writing" THEN 1 ELSE 0) <= sends'
    BY <2>2, <2>6 DEF TypeOK
  <2> QED
    BY <2>2, <2>7, <2>8 DEF FromBusAndLoop, readerVars
<1>9. CASE BusTakes
  <2>1. /\ tx # <<>> /\ tx' = Tail(tx)
        /\ UNCHANGED <<readerVars, table, sender, sending, drops, errors, sends>>
    BY <1>9 DEF BusTakes
  <2>2. tx' \in Seq(Frame) /\ Len(tx') <= TxLen
    BY <2>1 DEF TypeOK, CanAssumption
  <2>3. TypeOK'
    BY <2>1, <2>2 DEF TypeOK, readerVars
  <2> QED
    BY <2>1, <2>3 DEF FromBusAndLoop, readerVars
<1>11. CASE SenderFails
  <2>1. /\ sender = "writing" /\ sender' = "idle" /\ sending' = NoMessage /\ errors' = errors + 1
        /\ UNCHANGED <<readerVars, table, tx, drops, sends>>
    BY <1>11 DEF SenderFails
  <2>2. errors' \in 0..MaxSends /\ drops' + errors' <= sends'
    BY <2>1 DEF TypeOK, FromBusAndLoop, CanAssumption
  <2>3. TypeOK'
    BY <2>1, <2>2 DEF TypeOK, readerVars
  <2>4. drops' + errors' + (IF sender' = "writing" THEN 1 ELSE 0) <= sends'
    BY <2>1, <2>2 DEF TypeOK
  <2> QED
    BY <2>1, <2>3, <2>4 DEF FromBusAndLoop, readerVars
<1>10. CASE UNCHANGED vars
  BY <1>10 DEF TypeOK, FromBusAndLoop, vars, readerVars, senderVars
<1> QED
  BY <1>1, <1>2, <1>3, <1>4, <1>5, <1>6, <1>7, <1>8, <1>9, <1>10, <1>11 DEF Next, Reader, Sender


-----------------------------------------------------------------------------
(* The order, step by step.                                                  *)
LEMMA WaitingStep ==
    ASSUME CanAssumption, IInv, [Next]_vars
    PROVE  WaitingInOrder'
<1> USE DEF IInv
<1>1. arrived \in Seq(BusFrame) /\ rx \in Seq(BusFrame) /\ Len(arrived) \in Nat /\ Len(rx) \in Nat
  BY DEF FromBusAndLoop
<1>2. CASE FrameArrives
  <2>1. PICK f \in BusFrame : rx' = Append(rx, f) /\ arrived' = Append(arrived, f)
    BY <1>2, Zenon DEF FrameArrives, BusFrame
  <2>2. reader' = reader /\ frame' = frame
    BY <1>2 DEF FrameArrives
  <2>3. /\ Len(rx') = Len(rx) + 1 /\ \A k \in 1..Len(rx) : rx'[k] = rx[k]
        /\ rx'[Len(rx) + 1] = f
        /\ Len(arrived') = Len(arrived) + 1 /\ \A k \in 1..Len(arrived) : arrived'[k] = arrived[k]
        /\ arrived'[Len(arrived) + 1] = f
    BY <1>1, <2>1
  <2>4. HandledCount' = HandledCount /\ HandledCount \in Nat /\ HandledCount <= Len(arrived) - Len(rx)
    BY <1>1, <2>2, <2>3 DEF HandledCount, WaitingInOrder
  <2>5. reader # "polling" => HandledCount + 1 \in 1..Len(arrived)
    BY <1>1, <2>4 DEF HandledCount
  <2>6. reader' # "polling" => frame' = arrived'[HandledCount' + 1]
    BY <2>2, <2>3, <2>4, <2>5 DEF WaitingInOrder
  <2>7. ASSUME NEW k \in 1..Len(rx')
        PROVE  rx'[k] = arrived'[Len(arrived') - Len(rx') + k]
    <3>1. Len(arrived') - Len(rx') = Len(arrived) - Len(rx) /\ Len(arrived) - Len(rx) \in Nat
      BY <1>1, <2>3, <2>4
    <3>2. CASE k \in 1..Len(rx)
      <4>1. Len(arrived) - Len(rx) + k \in 1..Len(arrived)
        BY <1>1, <3>1, <3>2
      <4> QED
        BY <2>3, <3>1, <3>2, <4>1 DEF WaitingInOrder
    <3>3. CASE k = Len(rx) + 1
      <4>1. Len(arrived) - Len(rx) + k = Len(arrived) + 1
        BY <1>1, <3>3
      <4> QED
        BY <2>3, <3>1, <3>3, <4>1
    <3> QED
      BY <1>1, <2>3, <3>2, <3>3
  <2> QED
    BY <2>4, <2>6, <2>7 DEF WaitingInOrder
<1>3. CASE ReaderReads
  <2>1. /\ reader = "polling" /\ rx # <<>> /\ frame' = Head(rx) /\ rx' = Tail(rx)
        /\ reader' # "polling" /\ arrived' = arrived
    BY <1>3 DEF ReaderReads
  <2>2. /\ Len(rx) >= 1 /\ Len(rx') = Len(rx) - 1 /\ frame' = rx[1]
        /\ \A k \in 1..Len(rx') : rx'[k] = rx[k + 1]
    BY <1>1, <2>1
  <2>3. HandledCount' = HandledCount /\ HandledCount = Len(arrived) - Len(rx)
    BY <1>1, <2>1, <2>2 DEF HandledCount
  <2>4. frame' = arrived'[HandledCount' + 1]
    BY <1>1, <2>1, <2>2, <2>3 DEF WaitingInOrder
  <2>5. ASSUME NEW k \in 1..Len(rx')
        PROVE  rx'[k] = arrived'[Len(arrived') - Len(rx') + k]
    <3>1. k + 1 \in 1..Len(rx)
      BY <1>1, <2>2
    <3>2. rx[k + 1] = arrived[Len(arrived) - Len(rx) + (k + 1)]
      BY <3>1 DEF WaitingInOrder
    <3>3. Len(arrived) - Len(rx) + (k + 1) = Len(arrived') - Len(rx') + k
      BY <1>1, <2>1, <2>2, <3>1
    <3> QED
      BY <2>1, <2>2, <3>2, <3>3
  <2> QED
    BY <2>3, <2>4, <2>5 DEF WaitingInOrder
<1>4. CASE ReaderInserts \/ ReaderLogs
  <2>1. reader # "polling" /\ reader' # "polling" /\ UNCHANGED <<rx, frame, arrived>>
    BY <1>4 DEF ReaderInserts, ReaderLogs
  <2> QED
    BY <2>1 DEF WaitingInOrder, HandledCount
<1>5. CASE ReaderSkips \/ ReaderTracks
  <2>1. reader # "polling" /\ reader' = "polling" /\ UNCHANGED <<rx, arrived>>
    BY <1>5 DEF ReaderSkips, ReaderTracks
  <2>2. HandledCount' = HandledCount + 1 /\ HandledCount \in Int
    BY <1>1, <2>1 DEF HandledCount
  <2> QED
    BY <2>1, <2>2 DEF WaitingInOrder
<1>6. CASE Sender \/ BusTakes \/ UNCHANGED vars
  <2>1. UNCHANGED readerVars
    BY <1>6 DEF Sender, SenderLooksUp, SenderWrites, SenderFails, BusTakes, vars
  <2> QED
    BY <2>1 DEF readerVars, WaitingInOrder, HandledCount
<1> QED
  BY <1>2, <1>3, <1>4, <1>5, <1>6 DEF Next, Reader

(* The frame in hand counts when it is skipped and when it is tracked.       *)
LEMMA TrackedStep ==
    ASSUME CanAssumption, IInv, [Next]_vars
    PROVE  TrackedInOrder'
<1> USE DEF IInv
<1>1. /\ arrived \in Seq(BusFrame) /\ rx \in Seq(BusFrame) /\ tracked \in Seq(Message)
      /\ Len(arrived) \in Nat /\ Len(rx) \in Nat
  BY DEF FromBusAndLoop, TypeOK
<1>2. HandledCount \in 0..Len(arrived)
  BY <1>1 DEF HandledCount, WaitingInOrder
<1>3. CASE FrameArrives
  <2>1. PICK f \in BusFrame : rx' = Append(rx, f) /\ arrived' = Append(arrived, f)
    BY <1>3, Zenon DEF FrameArrives, BusFrame
  <2>2. UNCHANGED <<reader, frame, logged, tracked>>
    BY <1>3 DEF FrameArrives
  <2>3. /\ Len(rx') = Len(rx) + 1 /\ Len(arrived') = Len(arrived) + 1
        /\ \A k \in 1..Len(arrived) : arrived'[k] = arrived[k]
    BY <1>1, <2>1
  <2>4. HandledCount' = HandledCount
    BY <1>1, <2>2, <2>3 DEF HandledCount
  <2>5. ASSUME NEW n \in 0..HandledCount
        PROVE  Decodables(arrived', n) = Decodables(arrived, n)
    <3>1. \A k \in 1..n : arrived'[k] = arrived[k]
      BY <1>1, <1>2, <2>3
    <3> QED
      BY <3>1, CountDependsOnPrefix
  <2>6. Len(tracked') = Decodables(arrived', HandledCount')
    BY <1>2, <2>2, <2>4, <2>5 DEF TrackedInOrder
  <2>7. ASSUME NEW k \in 1..HandledCount', Decodable(arrived'[k])
        PROVE  tracked'[Decodables(arrived', k)] = DecodedFrame(arrived'[k])
    <3>1. arrived'[k] = arrived[k] /\ Decodables(arrived', k) = Decodables(arrived, k) /\ k \in 1..HandledCount
      BY <1>1, <1>2, <2>3, <2>4, <2>5
    <3> QED
      BY <2>2, <2>7, <3>1 DEF TrackedInOrder
  <2> QED
    BY <2>2, <2>6, <2>7 DEF TrackedInOrder
<1>4. CASE ReaderReads \/ ReaderInserts
  <2>1. /\ reader # "tracking" /\ reader' # "tracking" /\ UNCHANGED <<arrived, logged, tracked>>
        /\ \/ reader = "polling" /\ reader' # "polling" /\ rx # <<>> /\ rx' = Tail(rx)
           \/ reader # "polling" /\ reader' # "polling" /\ rx' = rx
    BY <1>4 DEF ReaderReads, ReaderInserts
  <2>2. rx # <<>> => Len(Tail(rx)) = Len(rx) - 1
    BY <1>1
  <2>3. HandledCount' = HandledCount
    <3>1. CASE reader = "polling" /\ reader' # "polling" /\ rx # <<>> /\ rx' = Tail(rx)
      <4>1. Len(rx') = Len(rx) - 1 /\ Len(arrived') = Len(arrived)
        BY <2>1, <2>2, <3>1
      <4>2. PICK a \in Nat, b \in Nat : a = Len(arrived) /\ b = Len(rx)
        BY <1>1
      <4>3. HandledCount' = a - (b - 1) - 1 /\ HandledCount = a - b - 0
        BY <3>1, <4>1, <4>2 DEF HandledCount
      <4> QED
        BY <4>2, <4>3
    <3>2. CASE reader # "polling" /\ reader' # "polling" /\ rx' = rx
      BY <2>1, <3>2 DEF HandledCount
    <3> QED
      BY <2>1, <3>1, <3>2
  <2> QED
    BY <2>1, <2>3 DEF TrackedInOrder
<1>5. CASE ReaderLogs
  <2>1. /\ reader = "decoding" /\ Decodable(frame) /\ reader' = "tracking"
        /\ logged' = Append(logged, DecodedFrame(frame))
        /\ UNCHANGED <<rx, frame, arrived, tracked>>
    BY <1>5 DEF ReaderLogs
  <2>2. HandledCount' = HandledCount
    BY <2>1 DEF HandledCount
  <2> QED
    BY <2>1, <2>2 DEF TrackedInOrder, DecodedFrame
<1>6. ASSUME reader # "polling", reader' = "polling", UNCHANGED <<rx, arrived>>
      PROVE  /\ HandledCount' = HandledCount + 1
             /\ frame = arrived[HandledCount + 1]
             /\ Decodables(arrived, HandledCount + 1) =
                    IF Decodable(frame) THEN Len(tracked) + 1 ELSE Len(tracked)
  <2>1. HandledCount' = HandledCount + 1
    BY <1>1, <1>6 DEF HandledCount
  <2>2. frame = arrived[HandledCount + 1]
    BY <1>6 DEF WaitingInOrder
  <2>3. HandledCount \in Nat /\ Len(tracked) = Decodables(arrived, HandledCount)
    BY <1>1, <1>2 DEF TrackedInOrder
  <2> QED
    BY <2>1, <2>2, <2>3, CountStep
<1>7. CASE ReaderSkips
  <2>1. /\ reader = "decoding" /\ ~Decodable(frame) /\ reader' = "polling"
        /\ UNCHANGED <<rx, arrived, logged, tracked>>
    BY <1>7 DEF ReaderSkips
  <2>2. Len(tracked') = Decodables(arrived', HandledCount')
    BY <1>6, <2>1
  <2>3. ASSUME NEW k \in 1..HandledCount', Decodable(arrived'[k])
        PROVE  tracked'[Decodables(arrived', k)] = DecodedFrame(arrived'[k])
    <3>1. k \in 1..HandledCount
      BY <1>1, <1>2, <1>6, <2>1, <2>3
    <3> QED
      BY <2>1, <2>3, <3>1 DEF TrackedInOrder
  <2> QED
    BY <2>1, <2>2, <2>3 DEF TrackedInOrder
<1>8. CASE ReaderTracks
  <2>1. /\ reader = "tracking" /\ reader' = "polling"
        /\ tracked' = Append(tracked, DecodedFrame(frame))
        /\ UNCHANGED <<rx, arrived, logged>>
    BY <1>8 DEF ReaderTracks
  <2>2. Decodable(frame) /\ logged = tracked'
    BY <2>1 DEF TrackedInOrder
  <2>3. PICK m \in Message : m = DecodedFrame(frame)
    BY <2>1, <2>2, DecodedFrameIsMessage DEF FromBusAndLoop
  <2>4. /\ Len(tracked') = Len(tracked) + 1 /\ tracked'[Len(tracked) + 1] = DecodedFrame(frame)
        /\ \A i \in 1..Len(tracked) : tracked'[i] = tracked[i]
    BY <1>1, <2>1, <2>3
  <2>5. Len(tracked') = Decodables(arrived', HandledCount')
    BY <1>6, <2>1, <2>2, <2>4
  <2>6. ASSUME NEW k \in 1..HandledCount', Decodable(arrived'[k])
        PROVE  tracked'[Decodables(arrived', k)] = DecodedFrame(arrived'[k])
    <3>1. CASE k \in 1..HandledCount
      <4>1. Decodables(arrived, k) \in 1..Len(tracked)
        <5>1. HandledCount \in Nat /\ Decodable(arrived[k])
          BY <1>1, <1>2, <2>1, <2>6
        <5> QED
          BY <3>1, <5>1, CountGrows DEF TrackedInOrder
      <4> QED
        BY <2>1, <2>4, <2>6, <3>1, <4>1 DEF TrackedInOrder
    <3>2. CASE k = HandledCount + 1
      <4>1. Decodables(arrived, k) = Len(tracked) + 1 /\ arrived[k] = frame
        BY <1>6, <2>1, <2>2, <3>2
      <4> QED
        BY <2>1, <2>4, <4>1
    <3>3. k \in 1..(HandledCount + 1)
      BY <1>6, <2>1
    <3> QED
      BY <1>1, <1>2, <3>1, <3>2, <3>3
  <2> QED
    BY <2>1, <2>2, <2>5, <2>6 DEF TrackedInOrder
<1>9. CASE Sender \/ BusTakes \/ UNCHANGED vars
  <2>1. UNCHANGED readerVars
    BY <1>9 DEF Sender, SenderLooksUp, SenderWrites, SenderFails, BusTakes, vars
  <2> QED
    BY <2>1 DEF readerVars, TrackedInOrder, HandledCount, Decodables, DecodedFrame
<1> QED
  BY <1>3, <1>4, <1>5, <1>7, <1>8, <1>9 DEF Next, Reader

LEMMA IInvKept == Spec => []IInv
<1>1. Init => IInv
  BY CanAssumption, StartsInOrder
<1>2. IInv /\ [Next]_vars => IInv'
  BY CanAssumption, TypesStep, WaitingStep, TrackedStep DEF IInv
<1> QED
  BY <1>1, <1>2, PTL DEF Spec

-----------------------------------------------------------------------------
(* Every variable keeps its type, for any description of the messages that   *)
(* send_message and the reader look up, and the queue stays within its       *)
(* length.                                                                   *)
THEOREM TypesKept == Spec => []TypeOK
<1>1. IInv => TypeOK
  BY DEF IInv
<1> QED
  BY <1>1, IInvKept, PTL

(* The reader thread hands every frame that decodes to the logger and then   *)
(* to the StateTracker, each once and in the order of arrival, however many  *)
(* frames that do not decode come between them and whatever is being sent.   *)
THEOREM FramesHandledInOrder == Spec => []HandledInOrder
<1>1. IInv => HandledInOrder
  <2> SUFFICES ASSUME IInv PROVE HandledInOrder
    OBVIOUS
  <2> DEFINE inHand  == IF reader = "polling" THEN <<>> ELSE <<frame>>
             waiting == inHand \o rx
             handled == Len(arrived) - Len(waiting)
  <2>1. rx \in Seq(BusFrame) /\ Len(rx) \in Nat /\ Len(arrived) \in Nat
    BY DEF IInv, FromBusAndLoop
  <2>2. handled = HandledCount
    BY <2>1 DEF HandledCount
  <2>3. HandledCount >= 0
    BY DEF IInv, WaitingInOrder
  <2>4. ASSUME NEW k \in 1..Len(waiting)
        PROVE  waiting[k] = arrived[HandledCount + k]
    <3>1. CASE reader = "polling"
      <4>1. waiting = rx /\ HandledCount = Len(arrived) - Len(rx)
        BY <2>1, <3>1 DEF HandledCount
      <4> QED
        BY <4>1 DEF IInv, WaitingInOrder
    <3>2. CASE reader # "polling"
      <4>1. /\ Len(waiting) = Len(rx) + 1 /\ waiting[1] = frame
            /\ k # 1 => k - 1 \in 1..Len(rx) /\ waiting[k] = rx[k - 1]
        BY <2>1, <3>2
      <4>2. HandledCount + 1 = Len(arrived) - Len(rx)
        BY <2>1, <3>2 DEF HandledCount
      <4>3. CASE k = 1
        BY <3>2, <4>1, <4>3 DEF IInv, WaitingInOrder
      <4>4. CASE k # 1
        <5>1. rx[k - 1] = arrived[Len(arrived) - Len(rx) + (k - 1)]
          BY <4>1, <4>4 DEF IInv, WaitingInOrder
        <5>2. Len(arrived) - Len(rx) + (k - 1) = HandledCount + k
          <6>1. PICK a \in Nat, b \in Nat : a = Len(arrived) /\ b = Len(rx)
            BY <2>1
          <6>2. HandledCount = a - b - 1 /\ k \in Int
            BY <3>2, <6>1 DEF HandledCount
          <6> QED
            BY <6>1, <6>2
        <5> QED
          BY <4>1, <4>4, <5>1, <5>2
      <4> QED
        BY <4>3, <4>4
    <3> QED
      BY <3>1, <3>2
  <2>5. TrackedInOrder
    BY DEF IInv
  <2> QED
    BY <2>2, <2>3, <2>4, <2>5 DEF HandledInOrder, TrackedInOrder
<1> QED
  BY <1>1, IInvKept, PTL

(* The messages that the control loop sends have signals that are in every   *)
(* frame, in places of their own and with types that are converted both      *)
(* ways; what _encode_can_frame makes of such a message decodes to the same  *)
(* fields.                                                                   *)
THEOREM EncodingKept ==
    ASSUME \A id \in SendIds : WholeSignals(id)
    PROVE  Spec => []EncodingKeepsFields
<1>1. IInv => EncodingKeepsFields
  <2> SUFFICES ASSUME IInv, sender = "writing"
               PROVE  Decoded(sending.id, Encoded(sending.id, sending.fields)) = sending.fields
    BY DEF EncodingKeepsFields
  <2>1. PICK id \in SendIds : sending \in Messages(id)
    BY DEF IInv, FromBusAndLoop
  <2>2. id \in Protos /\ id \in DOMAIN Dbc
    BY CanAssumption DEF CanAssumption
  <2>3. sending.id = id /\ sending.fields \in [FieldsOf(id) -> Numbers]
    BY <2>1, <2>2, CanAssumption, MessageFacts
  <2> QED
    BY <2>2, <2>3, CanAssumption, WholeSignalsKept
<1> QED
  BY <1>1, IInvKept, PTL

(* The lookup that inserts can only harm a message being sent when the bus   *)
(* carries an id that is not in the DBC file: a frame whose message the      *)
(* protobuf pool does not know is skipped without harm, and with a complete  *)
(* file the two threads do not disturb each other.                           *)
THEOREM CrashNeedsUnknownFrame == Spec => []CrashOnUnknown
<1>1. Init => CrashOnUnknown /\ InsertsUnknown
  BY DEF Init, CrashOnUnknown, InsertsUnknown
<1>2. ASSUME IInv, CrashOnUnknown, InsertsUnknown, [Next]_vars
      PROVE  CrashOnUnknown' /\ InsertsUnknown'
  <2>1. CASE FrameArrives
    <3>1. PICK f \in BusFrame : arrived' = Append(arrived, f)
      BY <2>1 DEF FrameArrives, BusFrame
    <3>2. arrived \in Seq(BusFrame)
      BY <1>2 DEF IInv, FromBusAndLoop
    <3>3. /\ Len(arrived) \in Nat /\ Len(arrived') = Len(arrived) + 1
          /\ \A k \in 1..Len(arrived) : arrived'[k] = arrived[k]
      BY <3>1, <3>2
    <3>4. UnknownArrived => UnknownArrived'
      BY <3>3 DEF UnknownArrived
    <3> QED
      BY <1>2, <2>1, <3>4 DEF FrameArrives, senderVars, CrashOnUnknown, InsertsUnknown
  <2>2. CASE Reader
    <3>1. InsertsUnknown'
      <4>1. CASE ReaderReads
        <5>1. reader' = "inserting" => frame'.id \notin table
          BY <4>1 DEF ReaderReads
        <5> QED
          BY <1>2, <5>1 DEF IInv, TypeOK, InsertsUnknown
      <4>2. CASE ReaderInserts \/ ReaderSkips \/ ReaderLogs \/ ReaderTracks
        BY <4>2 DEF ReaderInserts, ReaderSkips, ReaderLogs, ReaderTracks, InsertsUnknown
      <4> QED
        BY <2>2, <4>1, <4>2 DEF Reader
    <3> QED
      BY <1>2, <2>2, <3>1 DEF Reader, ReaderReads, ReaderInserts, ReaderSkips, ReaderLogs,
         ReaderTracks, senderVars, CrashOnUnknown, UnknownArrived
  <2>3. CASE SenderLooksUp
    <3>1. UNCHANGED <<reader, frame, arrived>> /\ (sender' = "crashed" => reader = "inserting")
      BY <2>3 DEF SenderLooksUp, readerVars
    <3>2. reader = "inserting" => UnknownArrived
      <4> SUFFICES ASSUME reader = "inserting" PROVE UnknownArrived
        OBVIOUS
      <4>1. arrived \in Seq(BusFrame) /\ rx \in Seq(BusFrame)
        BY <1>2 DEF IInv, FromBusAndLoop
      <4>2. PICK a \in Nat, w \in Nat : a = Len(arrived) /\ w = Len(rx)
        BY <4>1
      <4>3. HandledCount = a - w - 1 /\ HandledCount >= 0
        BY <1>2, <4>2 DEF HandledCount, IInv, WaitingInOrder
      <4>4. HandledCount + 1 \in 1..Len(arrived)
        BY <4>2, <4>3
      <4>5. frame = arrived[HandledCount + 1] /\ frame.id \notin DOMAIN Dbc
        BY <1>2 DEF IInv, WaitingInOrder, InsertsUnknown
      <4> QED
        BY <4>4, <4>5 DEF UnknownArrived
    <3> QED
      BY <1>2, <3>1, <3>2 DEF CrashOnUnknown, InsertsUnknown, UnknownArrived
  <2>4. CASE SenderWrites \/ SenderFails \/ BusTakes \/ UNCHANGED vars
    BY <1>2, <2>4 DEF SenderWrites, SenderFails, BusTakes, vars, readerVars, senderVars, CrashOnUnknown,
       InsertsUnknown, UnknownArrived
  <2> QED
    BY <1>2, <2>1, <2>2, <2>3, <2>4 DEF Next, Sender
<1>3. IInv /\ CrashOnUnknown /\ InsertsUnknown /\ [Next]_vars => CrashOnUnknown' /\ InsertsUnknown'
  BY <1>2
<1> QED
  BY <1>1, <1>3, IInvKept, PTL DEF Spec
=============================================================================
