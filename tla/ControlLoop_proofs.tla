------------------------- MODULE ControlLoop_proofs -------------------------
(* Proofs about ControlLoop for any set of controllers, any length of the    *)
(* transmit queues and any number of ticks, switches and losses.             *)
EXTENDS ControlLoop, SequenceTheorems, TLAPS

Entry == (Buses \cup {"log"}) \X Parts
FrameOf(entry) == [tick |-> tick, controller |-> command.controller, part |-> entry[2]]

(* Only a tick that is sending has something to send, and a number and a     *)
(* controller to send it with.                                               *)
TickShape ==
    /\ loop # "sending" => todo = <<>>
    /\ loop \in {"stepping", "sending"} => tick > 0
    /\ loop = "sending" => command.controller \in Controllers

(* What is left of a tick for one place is a limit, or speeds before it.     *)
TodoInOrder ==
    \A j, k \in DOMAIN todo :
        j < k /\ todo[j][1] = todo[k][1] => todo[j][2] = "rpm" /\ todo[k][2] = "limit"

(* What is left for a bus is left for the log, later.                        *)
LoggedAfter(s, j) == \E k \in DOMAIN s : k > j /\ s[k] = <<"log", s[j][2]>>
TodoIsLogged == \A j \in DOMAIN todo : todo[j][1] # "log" => LoggedAfter(todo, j)

(* The frame that a bus was given last, queued or carried.                   *)
LastOn(b) == IF tx[b] = <<>> THEN last[b] ELSE tx[b][Len(tx[b])]

(* On a bus, each frame may come after the one before it, and so may what is *)
(* left for the bus, even if some of it is dropped.                          *)
BusInOrder ==
    \A b \in Buses :
        /\ tx[b] # <<>> => Promise!Follows(tx[b][1], last[b])
        /\ \A i \in 1 .. Len(tx[b]) - 1 : Promise!Follows(tx[b][i + 1], tx[b][i])
        /\ LastOn(b).tick <= tick
        /\ loop = "stepping" => LastOn(b).tick < tick
        /\ \A k \in DOMAIN todo :
              todo[k][1] = b => Promise!Follows(FrameOf(todo[k]), LastOn(b))

(* No frame is of a tick that is still to come; and the tick under way       *)
(* speaks for the active controller, unless there was a switch in it.        *)
OfPastTicks ==
    /\ \A b \in Buses : \A f \in Range(tx[b]) : f.tick <= tick
    /\ \A f \in Range(recorded) : f.tick <= tick
    /\ loop = "sending" /\ tick > switchedIn => command.controller = active

(* A frame that a bus was given is in the log, or is left for it.            *)
LeftForLog(f) ==
    /\ loop = "sending" /\ f.tick = tick /\ f.controller = command.controller
    /\ \E k \in DOMAIN todo : todo[k] = <<"log", f.part>>
WillBeRecorded ==
    \A b \in Buses : \A f \in Range(tx[b]) \cup {last[b]} :
        f \in Range(recorded) \cup {Start} \/ LeftForLog(f)

(* What is left of a tick has each speed right before its limit.             *)
TodoPaired ==
    \A k \in DOMAIN todo :
        /\ todo[k][2] = "rpm" => k + 1 \in DOMAIN todo /\ todo[k + 1] = <<todo[k][1], "limit">>
        /\ k > 1 /\ todo[k][2] = "limit" => todo[k - 1] = <<todo[k][1], "rpm">>

(* Of two frames that follow each other on a bus that lost none, the         *)
(* first is a speed if, and only if, the second is its limit.                *)
Paired(f, g) ==
    /\ g.part = "rpm" <=> f.part = "limit"
    /\ f.part = "limit" => f.tick = g.tick

(* On a bus that lost nothing, frames are paired; a speed that has no        *)
(* limit behind it yet will be given it next; and the drives hold a pair, or *)
(* the speed of the frame carried last.                                      *)
BusPaired ==
    \A b \in Buses : NoLosses(b) =>
        /\ tx[b] # <<>> => Paired(tx[b][1], last[b])
        /\ \A i \in 1 .. Len(tx[b]) - 1 : Paired(tx[b][i + 1], tx[b][i])
        /\ LastOn(b).part = "rpm" <=> todo # <<>> /\ todo[1] = <<b, "limit">>
        /\ LastOn(b).part = "rpm" => LastOn(b).tick = tick
        /\ last[b].part = "rpm" => held[b].rpm = last[b].tick
        /\ last[b].part # "rpm" => held[b].rpm = held[b].limit

(* The frames that the tick under way may still give a bus: none, one or two.*)
LeftFor(b) ==
    IF \E j, k \in DOMAIN todo : j < k /\ todo[j][1] = b /\ todo[k][1] = b THEN 2
    ELSE IF \E k \in DOMAIN todo : todo[k][1] = b THEN 1 ELSE 0
StillToSend(b) == IF loop = "stepping" THEN IF valid THEN 2 ELSE 0 ELSE LeftFor(b)

(* While the state is old, what a bus has carried since, its queue and what  *)
(* the tick may still send fit in a queue and one output.                    *)
OutputEnding ==
    \A b \in Buses :
        /\ StateIsRecent => lateFrames[b] = 0
        /\ ~StateIsRecent => lateFrames[b] + Len(tx[b]) + StillToSend(b) <= TxLen + 2

(* The inductive invariant.                                                  *)
IInv == /\ TypeOK /\ TickShape /\ TodoInOrder /\ TodoIsLogged /\ BusInOrder
        /\ OfPastTicks /\ NewControllerCommands /\ WillBeRecorded
        /\ TodoPaired /\ BusPaired /\ OutputEnding

-----------------------------------------------------------------------------
(* The list that a tick sends: the parts for one bus, the other, the log.    *)
LEMMA PartsAreFew ==
    ASSUME NEW kind \in {"speed", "torque", "none"}
    PROVE  /\ PartsOf(kind) \in Seq(Parts) /\ Len(PartsOf(kind)) \in 0..2
           /\ Len(PartsOf(kind)) = 2 => PartsOf(kind)[1] = "rpm" /\ PartsOf(kind)[2] = "limit"
           /\ Len(PartsOf(kind)) = 1 => PartsOf(kind)[1] = "torque"
<1>1. CASE kind = "speed"
  <2>1. PartsOf(kind) = <<"rpm", "limit">>
    BY <1>1 DEF PartsOf
  <2>2. <<"rpm", "limit">> \in Seq(Parts) /\ Len(<<"rpm", "limit">>) = 2
    BY DEF Parts
  <2> QED
    BY <2>1, <2>2
<1>2. CASE kind = "torque"
  <2>1. PartsOf(kind) = <<"torque">>
    BY <1>2 DEF PartsOf
  <2>2. <<"torque">> \in Seq(Parts) /\ Len(<<"torque">>) = 1
    BY DEF Parts
  <2> QED
    BY <2>1, <2>2
<1>3. CASE kind = "none"
  <2>1. PartsOf(kind) = <<>>
    BY <1>3 DEF PartsOf
  <2>2. <<>> \in Seq(Parts) /\ Len(<<>>) = 0
    OBVIOUS
  <2> QED
    BY <2>1, <2>2
<1> QED
  BY <1>1, <1>2, <1>3

LEMMA PlacesInConcat ==
    ASSUME NEW S, NEW s \in Seq(S), NEW t \in Seq(S), NEW m, m = Len(s), NEW l, l = Len(t)
    PROVE  /\ s \o t \in Seq(S) /\ Len(s \o t) = m + l
           /\ \A k \in 1 .. m : (s \o t)[k] = s[k]
           /\ \A k \in 1 .. l : (s \o t)[m + k] = t[k]
<1>1. Len(s) \in Nat /\ Len(t) \in Nat
  BY LenProperties
<1>2. \A k \in 1 .. Len(s) + Len(t) : (s \o t)[k] = IF k <= Len(s) THEN s[k] ELSE t[k - Len(s)]
  BY ConcatProperties
<1>3. \A k \in 1 .. Len(s) : (s \o t)[k] = s[k]
  BY <1>1, <1>2
<1>4. ASSUME NEW k \in 1 .. Len(t)
      PROVE  (s \o t)[Len(s) + k] = t[k]
  <2>1. Len(s) + k \in 1 .. Len(s) + Len(t) /\ ~(Len(s) + k <= Len(s)) /\ (Len(s) + k) - Len(s) = k
    BY <1>1
  <2> QED
    BY <1>2, <2>1
<1> QED
  BY <1>3, <1>4, ConcatProperties

LEMMA SendAndLogIs ==
    ASSUME NEW parts \in Seq(Parts), NEW n \in Nat, n = Len(parts)
    PROVE  /\ SendAndLog(parts) \in Seq(Entry) /\ Len(SendAndLog(parts)) = n + n + n
           /\ \A k \in 1 .. n :
                 /\ SendAndLog(parts)[k] = <<"telem", parts[k]>>
                 /\ SendAndLog(parts)[n + k] = <<"aux", parts[k]>>
                 /\ SendAndLog(parts)[n + n + k] = <<"log", parts[k]>>
<1> DEFINE on(to) == [k \in DOMAIN parts |-> <<to, parts[k]>>]
<1>1. \A to \in Buses \cup {"log"} : on(to) \in Seq(Entry) /\ Len(on(to)) = n
  <2> SUFFICES ASSUME NEW to \in Buses \cup {"log"}
               PROVE  on(to) \in Seq(Entry) /\ Len(on(to)) = n
    OBVIOUS
  <2>1. DOMAIN parts = 1 .. n /\ \A k \in 1 .. n : parts[k] \in Parts
    BY LenProperties, ElementOfSeq
  <2>2. on(to) \in [1 .. n -> Entry]
    BY <2>1 DEF Entry
  <2> QED
    BY <2>2, <2>1, SMT
<1>2. {"telem", "aux", "log"} \subseteq Buses \cup {"log"}
  BY DEF Buses
<1>3. SendAndLog(parts) = on("telem") \o on("aux") \o on("log")
  BY DEF SendAndLog
<1>4. \A to \in Buses \cup {"log"} : \A k \in 1 .. n : on(to)[k] = <<to, parts[k]>>
  BY LenProperties
<1> HIDE DEF on
<1>5. /\ on("telem") \o on("aux") \in Seq(Entry) /\ Len(on("telem") \o on("aux")) = n + n
      /\ \A k \in 1 .. n : (on("telem") \o on("aux"))[k] = on("telem")[k]
      /\ \A k \in 1 .. n : (on("telem") \o on("aux"))[n + k] = on("aux")[k]
  <2>1. /\ on("telem") \in Seq(Entry) /\ on("aux") \in Seq(Entry)
        /\ n = Len(on("telem")) /\ n = Len(on("aux"))
    BY <1>1, <1>2
  <2> DEFINE t == on("telem")
             a == on("aux")
  <2> HIDE DEF t, a
  <2>2. /\ t \o a \in Seq(Entry) /\ Len(t \o a) = n + n
        /\ \A k \in 1 .. n : (t \o a)[k] = t[k]
        /\ \A k \in 1 .. n : (t \o a)[n + k] = a[k]
    BY <2>1, PlacesInConcat DEF t, a
  <2> QED
    BY <2>2 DEF t, a
<1> DEFINE both == on("telem") \o on("aux")
<1> HIDE DEF both
<1>6. /\ SendAndLog(parts) \in Seq(Entry) /\ Len(SendAndLog(parts)) = n + n + n
      /\ \A k \in 1 .. n + n : SendAndLog(parts)[k] = both[k]
      /\ \A k \in 1 .. n : SendAndLog(parts)[n + n + k] = on("log")[k]
  <2>1. /\ both \in Seq(Entry) /\ on("log") \in Seq(Entry)
        /\ n + n = Len(both) /\ n = Len(on("log"))
    BY <1>1, <1>2, <1>5 DEF both
  <2>2. SendAndLog(parts) = both \o on("log")
    BY <1>3 DEF both
  <2> DEFINE l == on("log")
  <2> HIDE DEF l
  <2>3. PICK m : m = n + n
    OBVIOUS
  <2>4. both \in Seq(Entry) /\ l \in Seq(Entry) /\ m = Len(both) /\ n = Len(l)
    BY <2>1, <2>3 DEF l
  <2>5. /\ both \o l \in Seq(Entry) /\ Len(both \o l) = m + n
        /\ \A k \in 1 .. m : (both \o l)[k] = both[k]
        /\ \A k \in 1 .. n : (both \o l)[m + k] = l[k]
    BY <2>4, PlacesInConcat
  <2> QED
    BY <2>2, <2>3, <2>5 DEF l
<1>7. \A k \in 1 .. n : k \in 1 .. n + n /\ n + k \in 1 .. n + n
  OBVIOUS
<1> QED
  <2> SUFFICES ASSUME NEW k \in 1 .. n
               PROVE  /\ SendAndLog(parts)[k] = <<"telem", parts[k]>>
                      /\ SendAndLog(parts)[n + k] = <<"aux", parts[k]>>
                      /\ SendAndLog(parts)[n + n + k] = <<"log", parts[k]>>
    BY <1>6
  <2>1. SendAndLog(parts)[k] = on("telem")[k] /\ SendAndLog(parts)[n + k] = on("aux")[k]
    BY <1>5, <1>6, <1>7 DEF both
  <2> QED
    BY <2>1, <1>2, <1>4, <1>6

(* It sends a speed before its limit, and logs what it sends.                *)
LEMMA SendAndLogOrder ==
    ASSUME NEW kind \in {"speed", "torque", "none"}, NEW s, s = SendAndLog(PartsOf(kind))
    PROVE  /\ s \in Seq(Entry)
           /\ \A j, k \in DOMAIN s :
                 j < k /\ s[j][1] = s[k][1] => s[j][2] = "rpm" /\ s[k][2] = "limit"
           /\ \A j \in DOMAIN s : s[j][1] # "log" => LoggedAfter(s, j)
           /\ \A k \in DOMAIN s :
                 /\ s[k][2] = "rpm" => k + 1 \in DOMAIN s /\ s[k + 1] = <<s[k][1], "limit">>
                 /\ s[k][2] = "limit" => k > 1 /\ s[k - 1] = <<s[k][1], "rpm">>
<1> DEFINE parts == PartsOf(kind)
           n == Len(parts)
<1>1. /\ parts \in Seq(Parts) /\ n \in {0, 1, 2}
      /\ n = 2 => parts[1] = "rpm" /\ parts[2] = "limit"
      /\ n = 1 => parts[1] = "torque"
  BY PartsAreFew
<1> HIDE DEF parts, n
<1>2. /\ s \in Seq(Entry) /\ DOMAIN s = 1 .. n + n + n
      /\ \A k \in 1 .. n : /\ s[k] = <<"telem", parts[k]>>
                           /\ s[n + k] = <<"aux", parts[k]>>
                           /\ s[n + n + k] = <<"log", parts[k]>>
  <2>1. parts \in Seq(Parts) /\ n \in Nat /\ n = Len(parts)
    BY <1>1 DEF n
  <2>2. s = SendAndLog(parts)
    BY DEF parts
  <2> HIDE <1>1
  <2> QED
    BY <2>1, <2>2, SendAndLogIs, LenProperties
<1>3. CASE n = 0
  BY <1>2, <1>3
<1>4. CASE n = 1
  <2>0. parts[1] = "torque"
    BY <1>1, <1>4
  <2>1. s[1] = <<"telem", parts[1]>> /\ s[2] = <<"aux", parts[1]>> /\ s[3] = <<"log", parts[1]>>
    <3>1. 1 \in 1 .. n /\ n + 1 = 2 /\ n + n + 1 = 3
      BY <1>4
    <3> QED
      BY <1>2, <3>1
  <2>2. DOMAIN s = {1, 2, 3}
    BY <1>2, <1>4
  <2> HIDE <1>4
  <2> QED
    BY <2>0, <2>1, <2>2, <1>2 DEF LoggedAfter
<1>5. CASE n = 2
  <2>1. /\ s[1] = <<"telem", "rpm">> /\ s[2] = <<"telem", "limit">>
        /\ s[3] = <<"aux", "rpm">> /\ s[4] = <<"aux", "limit">>
        /\ s[5] = <<"log", "rpm">> /\ s[6] = <<"log", "limit">>
    <3>1. parts[1] = "rpm" /\ parts[2] = "limit" /\ 1 \in 1 .. n /\ 2 \in 1 .. n
      BY <1>1, <1>5
    <3>2. /\ n + 1 = 3 /\ n + 2 = 4 /\ n + n + 1 = 5 /\ n + n + 2 = 6
      BY <1>5
    <3> QED
      BY <1>2, <3>1, <3>2
  <2>2. DOMAIN s = {1, 2, 3, 4, 5, 6}
    BY <1>2, <1>5
  <2> HIDE <1>5
  <2>3. ASSUME NEW j \in DOMAIN s, NEW k \in DOMAIN s, j < k, s[j][1] = s[k][1]
        PROVE  s[j][2] = "rpm" /\ s[k][2] = "limit"
    BY <2>1, <2>2, <2>3
  <2>4. ASSUME NEW j \in DOMAIN s, s[j][1] # "log"
        PROVE  LoggedAfter(s, j)
    BY <2>1, <2>2, <2>4 DEF LoggedAfter
  <2>5. ASSUME NEW k \in DOMAIN s
        PROVE  /\ s[k][2] = "rpm" => k + 1 \in DOMAIN s /\ s[k + 1] = <<s[k][1], "limit">>
               /\ s[k][2] = "limit" => k > 1 /\ s[k - 1] = <<s[k][1], "rpm">>
    BY <2>1, <2>2
  <2> QED
    BY <2>3, <2>4, <2>5, <1>2
<1> QED
  BY <1>1, <1>3, <1>4, <1>5

(* What is left after the first entry, and what is queued after a frame.     *)
LEMMA PlacesInTail ==
    ASSUME NEW S, NEW s \in Seq(S), s # <<>>
    PROVE  /\ Tail(s) \in Seq(S) /\ s[1] = Head(s) /\ Head(s) \in S /\ 1 \in DOMAIN s
           /\ Len(s) \in Nat \ {0} /\ Len(Tail(s)) = Len(s) - 1
           /\ DOMAIN Tail(s) = 1 .. Len(s) - 1
           /\ \A k \in DOMAIN Tail(s) : k + 1 \in DOMAIN s /\ Tail(s)[k] = s[k + 1]
<1>1. Len(s) \in Nat \ {0} /\ DOMAIN s = 1 .. Len(s)
  BY EmptySeq, LenProperties
<1>2. /\ Head(s) \in S /\ Tail(s) \in Seq(S) /\ Len(Tail(s)) = Len(s) - 1
      /\ \A k \in 1 .. Len(Tail(s)) : Tail(s)[k] = s[k + 1]
  BY HeadTailProperties
<1>3. DOMAIN Tail(s) = 1 .. Len(s) - 1
  BY <1>2, LenProperties
<1>4. s[1] = Head(s)
  BY SMT
<1> QED
  BY <1>1, <1>2, <1>3, <1>4

LEMMA PlacesInAppend ==
    ASSUME NEW S, NEW s \in Seq(S), NEW e \in S
    PROVE  /\ Append(s, e) \in Seq(S) /\ Len(s) \in Nat /\ Len(Append(s, e)) = Len(s) + 1
           /\ Append(s, e) # <<>>
           /\ DOMAIN s = 1 .. Len(s) /\ DOMAIN Append(s, e) = 1 .. Len(s) + 1
           /\ \A k \in 1 .. Len(s) : Append(s, e)[k] = s[k]
           /\ Append(s, e)[Len(s) + 1] = e
           /\ Range(Append(s, e)) = Range(s) \cup {e}
<1>1. /\ Append(s, e) \in Seq(S) /\ Len(s) \in Nat /\ Len(Append(s, e)) = Len(s) + 1
      /\ Append(s, e) # <<>> /\ DOMAIN s = 1 .. Len(s)
      /\ \A k \in 1 .. Len(s) : Append(s, e)[k] = s[k]
      /\ Append(s, e)[Len(s) + 1] = e
  BY AppendProperties, LenProperties
<1>2. DOMAIN Append(s, e) = 1 .. Len(s) + 1
  BY <1>1, LenProperties
<1>3. Range(Append(s, e)) = Range(s) \cup {e}
  <2>1. Range(Append(s, e)) = {Append(s, e)[k] : k \in 1 .. Len(s) + 1}
    BY <1>2 DEF Range
  <2>2. Range(s) = {s[k] : k \in 1 .. Len(s)}
    BY <1>1 DEF Range
  <2>3. 1 .. Len(s) + 1 = 1 .. Len(s) \cup {Len(s) + 1}
    BY <1>1
  <2> QED
    BY <2>1, <2>2, <2>3, <1>1
<1> QED
  BY <1>1, <1>2, <1>3

-----------------------------------------------------------------------------
LEMMA EntryIsFrame ==
    ASSUME TypeOK, TickShape, todo # <<>>
    PROVE  /\ loop = "sending" /\ Head(todo) \in Entry /\ todo[1] = Head(todo)
           /\ NewFrame \in Frame /\ NewFrame = FrameOf(todo[1])
<1>1. loop = "sending" /\ tick \in Nat \ {0} /\ command.controller \in Controllers
  BY DEF TypeOK, TickShape
<1>2. Head(todo) \in Entry /\ todo[1] = Head(todo) /\ todo[1][2] \in Parts
  BY PlacesInTail DEF TypeOK, Entry
<1> QED
  BY <1>1, <1>2 DEF NewFrame, FrameOf, Frame

(* A frame that is sent is queued, or it is lost and the queues stay.        *)
Loses(b) == Drops(b) \/ WriteFails(b) \/ EncodingFails

LEMMA SendsOrLoses ==
    ASSUME TypeOK, TickSends, NEW b \in Buses, b = todo[1][1]
    PROVE  /\ Queues(b) \/ Loses(b)
           /\ Queues(b) => /\ HasRoom(b) /\ tx' = [tx EXCEPT ![b] = Append(tx[b], NewFrame)]
                           /\ UNCHANGED <<drops, errors>>
           /\ Loses(b) => /\ tx' = tx /\ (NoLosses(b)' => EncodingFails)
                          /\ NewFrame.part \in {"rpm", "limit"} => ~NoLosses(b)'
           /\ \A c \in Buses : c # b => drops'[c] = drops[c] /\ errors'[c] = errors[c]
           /\ drops' \in [Buses -> Nat] /\ errors' \in [Buses -> Nat]
<1>0. Queues(b) \/ Loses(b)
  BY DEF TickSends, Loses
<1>1. CASE Queues(b)
  BY <1>1 DEF Queues, TypeOK, Loses, Drops, WriteFails, EncodingFails
<1>2. CASE Drops(b)
  BY <1>2 DEF Queues, TypeOK, Loses, Drops, WriteFails, EncodingFails, NoLosses
<1>3. CASE WriteFails(b)
  BY <1>3 DEF Queues, TypeOK, Loses, Drops, WriteFails, EncodingFails, NoLosses
<1>4. CASE EncodingFails
  BY <1>4 DEF Queues, TypeOK, Loses, Drops, WriteFails, EncodingFails, NoLosses, TickSends
<1> QED
  BY <1>0, <1>1, <1>2, <1>3, <1>4 DEF Loses

(* Every action keeps the types and the shape of a tick.                     *)
LEMMA TypeStep ==
    ASSUME LoopAssumption, TypeOK, TickShape, [Next]_vars
    PROVE  TypeOK' /\ TickShape'
<1> USE DEF TypeOK, TickShape
<1> USE DEF env, manager, tickVars, busVars
<1>1. CASE InputsArrive
  BY <1>1 DEF InputsArrive
<1>2. CASE InputsStop \/ StateExpires
  <2>1. losses' \in Nat
    BY <1>2 DEF InputsStop, StateExpires
  <2> QED
    BY <1>2, <2>1 DEF InputsStop, StateExpires
<1>3. CASE RequestReads
  BY <1>3 DEF RequestReads, StateIsRecent
<1>4. CASE SwapController
  <2>1. active' \in Controllers /\ switchedIn' \in 0 .. tick' /\ switches' \in Nat
    BY <1>4 DEF SwapController
  <2> QED
    BY <1>4, <2>1 DEF SwapController
<1>5. CASE RejectSwap
  BY <1>5 DEF RejectSwap
<1>6. CASE TickReadsState
  <2>1. tick' \in Nat /\ tick' > 0 /\ switchedIn' \in 0 .. tick'
    BY <1>6 DEF TickReadsState
  <2> QED
    BY <1>6, <2>1 DEF TickReadsState, StateIsRecent
<1>7. CASE TickStepsController
  <2>1. PICK kind \in Kinds[active] :
            /\ command' = [controller |-> active, kind |-> kind]
            /\ todo' = IF StateUsable THEN SendAndLog(PartsOf(kind)) ELSE <<>>
    BY <1>7 DEF TickStepsController, StepsWith
  <2>2. kind \in {"speed", "torque", "none"}
    BY DEF LoopAssumption
  <2>3. todo' \in Seq(Entry)
    BY <2>1, <2>2, SendAndLogOrder
  <2>4. command' \in [controller : Controllers, kind : {"speed", "torque", "none"}]
    BY <2>1, <2>2
  <2> QED
    BY <1>7, <2>1, <2>3, <2>4 DEF TickStepsController, StepsWith, Entry
<1>8. CASE TickSends
  <2> DEFINE b == todo[1][1]
  <2>1. b \in Buses /\ todo # <<>> /\ NewFrame \in Frame /\ todo' \in Seq(Entry)
    BY <1>8, EntryIsFrame, PlacesInTail DEF TickSends, Entry
  <2>2. tx' \in [Buses -> Seq(Frame)] /\ \A c \in Buses : Len(tx'[c]) <= TxLen
    <3>1. CASE Queues(b)
      <4>1. Append(tx[b], NewFrame) \in Seq(Frame)
            /\ Len(Append(tx[b], NewFrame)) = Len(tx[b]) + 1 /\ Len(tx[b]) \in Nat
        BY <2>1, PlacesInAppend
      <4>2. HasRoom(b) /\ tx' = [tx EXCEPT ![b] = Append(tx[b], NewFrame)]
        BY <1>8, <2>1, <3>1, SendsOrLoses
      <4>3. Len(tx[b]) + 1 <= TxLen
        BY <4>1, <4>2 DEF HasRoom, LoopAssumption
      <4> QED
        BY <4>1, <4>2, <4>3, <2>1
    <3>2. CASE Loses(b)
      BY <1>8, <2>1, <3>2, SendsOrLoses
    <3> QED
      BY <1>8, <2>1, <3>1, <3>2, SendsOrLoses
  <2>3. drops' \in [Buses -> Nat] /\ errors' \in [Buses -> Nat]
    BY <1>8, <2>1, SendsOrLoses
  <2> QED
    BY <1>8, <2>1, <2>2, <2>3 DEF TickSends, Entry
<1>9. CASE TickLogs
  <2>1. todo # <<>> /\ NewFrame \in Frame /\ todo' \in Seq(Entry)
    BY <1>9, EntryIsFrame, PlacesInTail DEF TickLogs, Entry
  <2>2. recorded' \in Seq(Frame)
    BY <1>9, <2>1, PlacesInAppend DEF TickLogs
  <2> QED
    BY <1>9, <2>1, <2>2 DEF TickLogs, Entry
<1>10. CASE TickEnds
  BY <1>10 DEF TickEnds
<1>11. CASE LoopStops
  BY <1>11 DEF LoopStops
<1>12. CASE ControllerThrows
  BY <1>12 DEF ControllerThrows
<1>13. ASSUME NEW b \in Buses, BusCarries(b)
       PROVE  TypeOK' /\ TickShape'
  <2>1. /\ tx[b] \in Seq(Frame) /\ tx[b] # <<>>
        /\ Head(tx[b]) \in Frame /\ Tail(tx[b]) \in Seq(Frame)
        /\ Len(Tail(tx[b])) = Len(tx[b]) - 1 /\ Len(tx[b]) \in Nat
    BY <1>13, PlacesInTail DEF BusCarries
  <2>2. Head(tx[b]).part \in Parts /\ Head(tx[b]).tick \in Nat
    BY <2>1 DEF Frame
  <2>3. tx' \in [Buses -> Seq(Frame)] /\ \A c \in Buses : Len(tx'[c]) <= TxLen
    BY <1>13, <2>1 DEF BusCarries, LoopAssumption
  <2>4. last' \in [Buses -> Frame \cup {Start}]
    BY <1>13, <2>1 DEF BusCarries
  <2>5. held' \in [Buses -> [Parts -> Nat]] /\ lateFrames' \in [Buses -> Nat]
    BY <1>13, <2>2 DEF BusCarries
  <2> QED
    BY <1>13, <2>3, <2>4, <2>5 DEF BusCarries
<1>14. CASE UNCHANGED vars
  BY <1>14 DEF vars
<1> QED
  BY <1>1, <1>2, <1>3, <1>4, <1>5, <1>6, <1>7, <1>8, <1>9, <1>10, <1>11, <1>12,
     <1>13, <1>14 DEF Next, Inputs, Request, Tick

-----------------------------------------------------------------------------
(* What is left of a tick stays in order, and what is left for a bus is left *)
(* for the log: a tick makes a list so, and then only takes its head.        *)
LEMMA TodoStep ==
    ASSUME LoopAssumption, TypeOK, TickShape, TodoInOrder, TodoIsLogged, [Next]_vars
    PROVE  TodoInOrder' /\ TodoIsLogged'
<1>1. CASE TickStepsController
  <2>1. PICK kind \in Kinds[active] :
            todo' = IF StateUsable THEN SendAndLog(PartsOf(kind)) ELSE <<>>
    BY <1>1 DEF TickStepsController, StepsWith
  <2>2. kind \in {"speed", "torque", "none"}
    BY DEF LoopAssumption, TypeOK
  <2>3. CASE todo' = SendAndLog(PartsOf(kind))
    BY <2>2, <2>3, SendAndLogOrder DEF TodoInOrder, TodoIsLogged
  <2>4. CASE todo' = <<>>
    BY <2>4 DEF TodoInOrder, TodoIsLogged
  <2> QED
    BY <2>1, <2>3, <2>4
<1>2. CASE todo # <<>> /\ todo' = Tail(todo)
  <2>1. /\ DOMAIN todo' = 1 .. Len(todo) - 1 /\ Len(todo) \in Nat /\ DOMAIN todo = 1 .. Len(todo)
        /\ \A k \in DOMAIN todo' : k + 1 \in DOMAIN todo /\ todo'[k] = todo[k + 1]
    BY <1>2, PlacesInTail, LenProperties DEF TypeOK
  <2>2. TodoInOrder'
    <3> SUFFICES ASSUME NEW j \in DOMAIN todo', NEW k \in DOMAIN todo', j < k,
                        todo'[j][1] = todo'[k][1]
                 PROVE  todo'[j][2] = "rpm" /\ todo'[k][2] = "limit"
      BY DEF TodoInOrder
    <3>1. j + 1 < k + 1
      BY <2>1
    <3> QED
      BY <2>1, <3>1 DEF TodoInOrder
  <2>3. TodoIsLogged'
    <3> SUFFICES ASSUME NEW j \in DOMAIN todo', todo'[j][1] # "log"
                 PROVE  LoggedAfter(todo', j)
      BY DEF TodoIsLogged
    <3>1. PICK k \in DOMAIN todo : k > j + 1 /\ todo[k] = <<"log", todo[j + 1][2]>>
      BY <2>1 DEF TodoIsLogged, LoggedAfter
    <3>2. k - 1 \in DOMAIN todo' /\ k - 1 > j /\ (k - 1) + 1 = k
      BY <2>1, <3>1
    <3>3. todo'[k - 1] = <<"log", todo'[j][2]>>
      BY <2>1, <3>1, <3>2
    <3> QED
      BY <3>2, <3>3 DEF LoggedAfter
  <2> QED
    BY <2>2, <2>3
<1>3. CASE UNCHANGED todo
  BY <1>3 DEF TodoInOrder, TodoIsLogged, LoggedAfter
<1>4. \/ TickStepsController
      \/ todo # <<>> /\ todo' = Tail(todo)
      \/ UNCHANGED todo
  BY DEF Next, Inputs, Request, Tick, vars, env, manager, tickVars, busVars, InputsArrive,
     InputsStop, StateExpires, RequestReads, SwapController, RejectSwap, TickReadsState, TickSends,
     TickLogs, TickEnds, LoopStops, ControllerThrows, BusCarries
<1> QED
  BY <1>1, <1>2, <1>3, <1>4

-----------------------------------------------------------------------------
(* Each action keeps the order on the buses.                                 *)
LEMMA SendKeepsOrder ==
    ASSUME LoopAssumption, TypeOK, TickShape, TodoInOrder, BusInOrder, TickSends
    PROVE  BusInOrder'
<1>0. PICK b \in Buses : b = todo[1][1]
  BY DEF TickSends
<1> DEFINE s == tx[b]
<1>1. /\ todo # <<>> /\ NewFrame \in Frame /\ NewFrame = FrameOf(todo[1])
      /\ todo' = Tail(todo) /\ last' = last /\ loop = "sending" /\ loop' = "sending"
      /\ tick' = tick /\ command' = command
  BY EntryIsFrame DEF TickSends
<1>2. /\ 1 \in DOMAIN todo /\ Len(todo) \in Nat /\ DOMAIN todo = 1 .. Len(todo)
      /\ \A k \in DOMAIN todo' : k + 1 \in DOMAIN todo /\ todo'[k] = todo[k + 1] /\ 1 < k + 1
  BY <1>1, PlacesInTail, LenProperties DEF TypeOK
<1>3. Promise!Follows(NewFrame, LastOn(b))
  BY <1>0, <1>1, <1>2 DEF BusInOrder
<1>4. ASSUME NEW c \in Buses, tx'[c] = tx[c]
      PROVE  /\ tx'[c] # <<>> => Promise!Follows(tx'[c][1], last'[c])
             /\ \A i \in 1 .. Len(tx'[c]) - 1 : Promise!Follows(tx'[c][i + 1], tx'[c][i])
             /\ LastOn(c)' = LastOn(c) /\ LastOn(c).tick <= tick
             /\ \A k \in DOMAIN todo' :
                   todo'[k][1] = c => Promise!Follows(FrameOf(todo[k + 1]), LastOn(c))
  BY <1>1, <1>2, <1>4 DEF BusInOrder, LastOn
<1>5. CASE Queues(b)
  <2>1. tx'[b] = Append(s, NewFrame) /\ \A c \in Buses : c # b => tx'[c] = tx[c]
    BY <1>0, <1>5, SendsOrLoses DEF TypeOK
  <2>2. s \in Seq(Frame)
    BY DEF TypeOK
  <2> HIDE DEF s
  <2>3. /\ Len(s) \in Nat /\ Len(tx'[b]) = Len(s) + 1 /\ tx'[b] # <<>>
        /\ \A k \in 1 .. Len(s) : tx'[b][k] = s[k]
        /\ tx'[b][Len(s) + 1] = NewFrame
    BY <2>1, <2>2, <1>1, PlacesInAppend
  <2>4. LastOn(b)' = NewFrame
    BY <2>3 DEF LastOn
  <2>5. Promise!Follows(tx'[b][1], last'[b])
    <3>1. CASE s = <<>>
      <4>1. Len(s) = 0 /\ LastOn(b) = last[b]
        BY <3>1 DEF LastOn, s
      <4> QED
        BY <4>1, <2>3, <1>3, <1>1
    <3>2. CASE s # <<>>
      <4>1. 1 \in 1 .. Len(s)
        BY <3>2, <2>2, PlacesInTail
      <4> QED
        BY <4>1, <2>3, <1>1, <3>2 DEF BusInOrder, s
    <3> QED
      BY <3>1, <3>2
  <2>6. ASSUME NEW i \in 1 .. Len(tx'[b]) - 1
        PROVE  Promise!Follows(tx'[b][i + 1], tx'[b][i])
    <3>1. CASE i = Len(s)
      <4>1. s # <<>> /\ tx'[b][i] = s[Len(s)]
        BY <3>1, <2>3, <2>6
      <4> QED
        BY <4>1, <3>1, <2>3, <1>3 DEF LastOn, s
    <3>2. CASE i # Len(s)
      <4>1. i \in 1 .. Len(s) - 1 /\ i \in 1 .. Len(s) /\ i + 1 \in 1 .. Len(s)
        BY <3>2, <2>3, <2>6
      <4> QED
        BY <4>1, <2>3, <1>1 DEF BusInOrder, s
    <3> QED
      BY <3>1, <3>2
  <2>7. ASSUME NEW k \in DOMAIN todo', todo'[k][1] = b
        PROVE  Promise!Follows(FrameOf(todo[k + 1]), NewFrame)
    <3>1. todo[1][2] = "rpm" /\ todo[k + 1][2] = "limit"
      BY <1>0, <1>2, <2>7 DEF TodoInOrder
    <3> QED
      BY <3>1, <1>1 DEF Promise!Follows, FrameOf
  <2>8. NewFrame.tick <= tick
    BY DEF NewFrame, TypeOK
  <2>9. ASSUME NEW c \in Buses
        PROVE  /\ tx'[c] # <<>> => Promise!Follows(tx'[c][1], last'[c])
               /\ \A i \in 1 .. Len(tx'[c]) - 1 : Promise!Follows(tx'[c][i + 1], tx'[c][i])
               /\ LastOn(c)'.tick <= tick
               /\ \A k \in DOMAIN todo' :
                     todo'[k][1] = c => Promise!Follows(FrameOf(todo[k + 1]), LastOn(c)')
    <3>1. CASE c = b
      BY <3>1, <2>4, <2>5, <2>6, <2>7, <2>8
    <3>2. CASE c # b
      BY <3>2, <2>1, <1>4
    <3> QED
      BY <3>1, <3>2
  <2> QED
    BY <2>9, <1>1, <1>2 DEF BusInOrder, FrameOf
<1>6. CASE Loses(b)
  <2>1. tx' = tx
    BY <1>0, <1>6, SendsOrLoses
  <2> QED
    BY <2>1, <1>1, <1>2, <1>4 DEF BusInOrder, FrameOf
<1> QED
  BY <1>0, <1>5, <1>6, SendsOrLoses

LEMMA CarryKeepsOrder ==
    ASSUME TypeOK, BusInOrder, NEW b \in Buses, BusCarries(b)
    PROVE  /\ BusInOrder' /\ last'[b] \in Frame
           /\ Promise!Follows(last'[b], last[b])
<1> DEFINE s == tx[b]
<1>1. /\ s \in Seq(Frame) /\ s # <<>> /\ tx'[b] = Tail(s) /\ last'[b] = Head(s)
      /\ \A c \in Buses : c # b => tx'[c] = tx[c] /\ last'[c] = last[c]
      /\ UNCHANGED <<todo, tick, loop, command>>
  BY DEF BusCarries, TypeOK, tickVars
<1>2. /\ s[1] = Head(s) /\ Head(s) \in Frame /\ Len(s) \in Nat \ {0}
      /\ Len(Tail(s)) = Len(s) - 1 /\ Tail(s) \in Seq(Frame)
      /\ \A k \in 1 .. Len(s) - 1 : Tail(s)[k] = s[k + 1]
  BY <1>1, PlacesInTail
<1> HIDE DEF s
<1>3. Promise!Follows(last'[b], last[b])
  BY <1>1, <1>2 DEF BusInOrder, s
<1>4. LastOn(b)' = LastOn(b)
  <2>1. CASE Len(s) = 1
    <3>1. Len(Tail(s)) = 0
      BY <1>2, <2>1
    <3>2. Tail(s) = <<>>
      BY <3>1, <1>2, EmptySeq
    <3> QED
      BY <3>2, <2>1, <1>1, <1>2 DEF LastOn, s
  <2>2. CASE Len(s) # 1
    <3>1. Len(Tail(s)) \in 1 .. Len(s) - 1 /\ Len(Tail(s)) + 1 = Len(s)
      BY <1>2, <2>2
    <3>2. Tail(s)[Len(Tail(s))] = s[Len(Tail(s)) + 1]
      BY <3>1, <1>2
    <3>3. Tail(s) # <<>>
      BY <3>1, <1>2, EmptySeq
    <3> QED
      BY <3>1, <3>2, <3>3, <1>1 DEF LastOn, s
  <2> QED
    BY <2>1, <2>2
<1>5. Tail(s) # <<>> => Promise!Follows(Tail(s)[1], Head(s))
  <2> SUFFICES ASSUME Tail(s) # <<>> PROVE Promise!Follows(Tail(s)[1], Head(s))
    OBVIOUS
  <2>1. 1 \in 1 .. Len(s) - 1
    BY <1>2, EmptySeq
  <2> QED
    BY <2>1, <1>2 DEF BusInOrder, s
<1>6. ASSUME NEW i \in 1 .. Len(Tail(s)) - 1
      PROVE  Promise!Follows(Tail(s)[i + 1], Tail(s)[i])
  <2>1. i \in 1 .. Len(s) - 1 /\ i + 1 \in 1 .. Len(s) - 1
    BY <1>2
  <2> QED
    BY <2>1, <1>2 DEF BusInOrder, s
<1>7. ASSUME NEW c \in Buses
      PROVE  /\ tx'[c] # <<>> => Promise!Follows(tx'[c][1], last'[c])
             /\ \A i \in 1 .. Len(tx'[c]) - 1 : Promise!Follows(tx'[c][i + 1], tx'[c][i])
             /\ LastOn(c)' = LastOn(c)
  <2>1. CASE c = b
    BY <2>1, <1>1, <1>4, <1>5, <1>6
  <2>2. CASE c # b
    BY <2>2, <1>1 DEF BusInOrder, LastOn
  <2> QED
    BY <2>1, <2>2
<1> QED
  BY <1>1, <1>2, <1>3, <1>7 DEF BusInOrder, FrameOf

LEMMA BusStep ==
    ASSUME LoopAssumption, TypeOK, TickShape, TodoInOrder, BusInOrder, [Next]_vars
    PROVE  BusInOrder'
<1> USE DEF env, manager, tickVars, busVars
<1>1. CASE UNCHANGED <<tx, last, loop, tick, command, todo>>
  BY <1>1 DEF BusInOrder, LastOn, FrameOf
<1>2. CASE TickReadsState
  <2>1. todo' = <<>> /\ tick' = tick + 1 /\ tick \in Nat /\ tx' = tx /\ last' = last
    BY <1>2 DEF TickReadsState, TickShape, TypeOK
  <2>2. \A b \in Buses : LastOn(b).tick \in Nat
    <3> SUFFICES ASSUME NEW b \in Buses PROVE LastOn(b).tick \in Nat
      OBVIOUS
    <3>1. CASE tx[b] = <<>>
      BY <3>1 DEF LastOn, TypeOK, Frame, Start
    <3>2. CASE tx[b] # <<>>
      <4>1. tx[b] \in Seq(Frame) /\ Len(tx[b]) \in 1 .. Len(tx[b])
        BY <3>2, PlacesInTail DEF TypeOK
      <4>2. tx[b][Len(tx[b])] \in Frame
        BY <4>1, ElementOfSeq
      <4> QED
        BY <4>2, <3>2 DEF LastOn, Frame
    <3> QED
      BY <3>1, <3>2
  <2> QED
    BY <2>1, <2>2 DEF BusInOrder, LastOn
<1>3. CASE TickStepsController
  <2>1. loop = "stepping" /\ loop' = "sending" /\ tick' = tick /\ tx' = tx /\ last' = last
    BY <1>3 DEF TickStepsController, StepsWith
  <2>2. \A f : f.tick = tick => \A b \in Buses : Promise!Follows(f, LastOn(b))
    BY <2>1 DEF BusInOrder, Promise!Follows
  <2>3. \A k \in DOMAIN todo' : FrameOf(todo[k])'.tick = tick
    BY <2>1 DEF FrameOf
  <2> QED
    BY <2>1, <2>2, <2>3 DEF BusInOrder, LastOn
<1>4. CASE TickSends
  BY <1>4, SendKeepsOrder
<1>5. CASE TickLogs
  <2>1. /\ \A k \in DOMAIN todo' : k + 1 \in DOMAIN todo /\ todo'[k] = todo[k + 1]
        /\ UNCHANGED <<tx, last, loop, tick, command>>
    BY <1>5, PlacesInTail DEF TickLogs, TypeOK
  <2> QED
    BY <2>1 DEF BusInOrder, LastOn, FrameOf
<1>6. CASE TickEnds \/ LoopStops \/ ControllerThrows
  <2>1. UNCHANGED <<tx, last, tick, command, todo>> /\ loop' # "stepping"
    BY <1>6 DEF TickEnds, LoopStops, ControllerThrows
  <2> QED
    BY <2>1 DEF BusInOrder, LastOn, FrameOf
<1>7. CASE \E b \in Buses : BusCarries(b)
  BY <1>7, CarryKeepsOrder
<1> QED
  BY <1>1, <1>2, <1>3, <1>4, <1>5, <1>6, <1>7
  DEF Next, Inputs, Request, Tick, vars, InputsArrive, InputsStop, StateExpires, RequestReads,
      SwapController, RejectSwap

-----------------------------------------------------------------------------
LEMMA RangeIsTyped ==
    ASSUME NEW S, NEW s \in Seq(S)
    PROVE  /\ Range(s) \subseteq S
           /\ s # <<>> => Head(s) \in Range(s) /\ Range(Tail(s)) \subseteq Range(s)
<1>1. Range(s) \subseteq S
  BY LenProperties DEF Range
<1>2. CASE s # <<>>
  <2>1. \A k \in DOMAIN Tail(s) : k + 1 \in DOMAIN s /\ Tail(s)[k] = s[k + 1]
    BY <1>2, PlacesInTail
  <2>2. 1 \in DOMAIN s /\ s[1] = Head(s)
    BY <1>2, PlacesInTail
  <2> QED
    BY <1>1, <2>1, <2>2 DEF Range
<1> QED
  BY <1>1, <1>2

(* Every frame, queued or recorded, is of a tick that has begun, and of the  *)
(* active controller if its tick began after the last switch.                *)
LEMMA SwitchStep ==
    ASSUME LoopAssumption, TypeOK, TickShape, OfPastTicks, NewControllerCommands, [Next]_vars
    PROVE  OfPastTicks' /\ NewControllerCommands'
<1> USE DEF env, manager, tickVars, busVars
<1> DEFINE New(f) == f.tick \in Nat /\ f.tick <= tick
                       /\ (f.tick > switchedIn => f.controller = active)
<1>1. /\ \A b \in Buses : \A f \in Range(tx[b]) : New(f)
      /\ \A f \in Range(recorded) : New(f)
  <2>1. (\A b \in Buses : Range(tx[b]) \subseteq Frame) /\ Range(recorded) \subseteq Frame
    BY RangeIsTyped DEF TypeOK
  <2>2. \A f \in Frame : f.tick \in Nat
    BY DEF Frame
  <2>3. "telem" \in Buses
    BY DEF Buses
  <2>4. ASSUME NEW f \in Range(recorded) PROVE New(f)
    BY <2>1, <2>2, <2>3, <2>4 DEF OfPastTicks, NewControllerCommands
  <2>5. ASSUME NEW b \in Buses, NEW f \in Range(tx[b]) PROVE New(f)
    BY <2>1, <2>2, <2>5 DEF OfPastTicks, NewControllerCommands
  <2> QED
    BY <2>4, <2>5
<1>2. tick \in Nat /\ switchedIn \in 0 .. tick
  BY DEF TypeOK
<1>3. CASE UNCHANGED <<tx, recorded, loop, tick, command, active, switchedIn>>
  BY <1>3 DEF OfPastTicks, NewControllerCommands
<1>4. CASE SwapController
  <2>1. switchedIn' = tick /\ UNCHANGED <<tx, recorded, loop, tick, command>>
    BY <1>4 DEF SwapController
  <2>2. \A f : New(f) => ~(f.tick > switchedIn')
    BY <2>1, <1>2
  <2> HIDE DEF New
  <2>3. NewControllerCommands'
    BY <2>1, <2>2, <1>1 DEF NewControllerCommands
  <2>4. OfPastTicks'
    BY <2>1, <1>2 DEF OfPastTicks
  <2> QED
    BY <2>3, <2>4
<1>5. CASE TickReadsState
  <2>1. /\ tick' = tick + 1 /\ loop' = "stepping"
        /\ UNCHANGED <<tx, recorded, active, switchedIn>>
    BY <1>5 DEF TickReadsState
  <2>2. \A f : New(f) => f.tick <= tick'
    BY <2>1, <1>2
  <2> HIDE DEF New
  <2>3. OfPastTicks'
    BY <2>1, <2>2, <1>1 DEF OfPastTicks
  <2> QED
    BY <2>1, <2>3 DEF NewControllerCommands
<1>6. CASE TickStepsController
  <2>1. /\ loop' = "sending" /\ command'.controller = active
        /\ UNCHANGED <<tx, recorded, active, switchedIn, tick>>
    BY <1>6 DEF TickStepsController, StepsWith
  <2> QED
    BY <2>1 DEF OfPastTicks, NewControllerCommands
<1>7. CASE TickEnds \/ LoopStops \/ ControllerThrows
  <2>1. loop' # "sending" /\ UNCHANGED <<tx, recorded, active, switchedIn, tick>>
    BY <1>7 DEF TickEnds, LoopStops, ControllerThrows
  <2> QED
    BY <2>1 DEF OfPastTicks, NewControllerCommands
<1>8. todo # <<>> => NewFrame \in Frame /\ New(NewFrame)
  <2> SUFFICES ASSUME todo # <<>> PROVE NewFrame \in Frame /\ New(NewFrame)
    OBVIOUS
  <2>1. NewFrame \in Frame /\ loop = "sending"
    BY EntryIsFrame
  <2>2. NewFrame.tick = tick /\ NewFrame.controller = command.controller
    BY DEF NewFrame
  <2> QED
    BY <2>1, <2>2, <1>2 DEF OfPastTicks
<1>9. CASE TickSends
  <2>1. PICK b \in Buses : b = todo[1][1]
    BY <1>9 DEF TickSends
  <2>2. /\ \A c \in Buses : Range(tx'[c]) \subseteq Range(tx[c]) \cup {NewFrame}
        /\ todo # <<>> /\ UNCHANGED <<recorded, active, switchedIn, tick, loop, command>>
    <3>1. CASE Queues(b)
      <4>1. tx' = [tx EXCEPT ![b] = Append(tx[b], NewFrame)] /\ todo # <<>>
        BY <1>9, <2>1, <3>1, SendsOrLoses DEF TickSends
      <4>2. Range(Append(tx[b], NewFrame)) = Range(tx[b]) \cup {NewFrame}
        BY <4>1, <1>8, PlacesInAppend DEF TypeOK
      <4> QED
        BY <1>9, <4>1, <4>2 DEF TickSends, TypeOK
    <3>2. CASE Loses(b)
      <4>1. tx' = tx
        BY <1>9, <2>1, <3>2, SendsOrLoses
      <4> QED
        BY <1>9, <4>1 DEF TickSends
    <3> QED
      BY <1>9, <2>1, <3>1, <3>2, SendsOrLoses
  <2> HIDE DEF New
  <2>3. \A c \in Buses : \A f \in Range(tx'[c]) : New(f)
    BY <2>2, <1>1, <1>8
  <2> QED
    BY <2>2, <2>3, <1>1 DEF OfPastTicks, NewControllerCommands, New
<1>10. CASE TickLogs
  <2>1. /\ todo # <<>> /\ recorded' = Append(recorded, NewFrame)
        /\ UNCHANGED <<tx, active, switchedIn, tick, loop, command>>
    BY <1>10 DEF TickLogs
  <2>2. Range(recorded') = Range(recorded) \cup {NewFrame}
    BY <2>1, <1>8, PlacesInAppend DEF TypeOK
  <2> HIDE DEF New
  <2>3. \A f \in Range(recorded') : New(f)
    BY <2>1, <2>2, <1>1, <1>8
  <2> QED
    BY <2>1, <2>3, <1>1 DEF OfPastTicks, NewControllerCommands, New
<1>11. ASSUME NEW b \in Buses, BusCarries(b)
       PROVE  OfPastTicks' /\ NewControllerCommands'
  <2>1. /\ tx' = [tx EXCEPT ![b] = Tail(tx[b])] /\ tx[b] # <<>>
        /\ UNCHANGED <<recorded, active, switchedIn, tick, loop, command>>
    BY <1>11 DEF BusCarries
  <2>2. \A c \in Buses : Range(tx'[c]) \subseteq Range(tx[c])
    BY <2>1, RangeIsTyped DEF TypeOK
  <2> QED
    BY <2>1, <2>2 DEF OfPastTicks, NewControllerCommands
<1> QED
  BY <1>3, <1>4, <1>5, <1>6, <1>7, <1>9, <1>10, <1>11
  DEF Next, Inputs, Request, Tick, vars, InputsArrive, InputsStop, StateExpires, RequestReads, RejectSwap

-----------------------------------------------------------------------------
(* What a bus was given is in the log or is left for it.                     *)
LEMMA RecordStep ==
    ASSUME LoopAssumption, TypeOK, TickShape, TodoIsLogged, WillBeRecorded, [Next]_vars
    PROVE  WillBeRecorded'
<1> USE DEF env, manager, tickVars, busVars
<1> DEFINE Given(b) == Range(tx[b]) \cup {last[b]}
           Logged(f) == f \in Range(recorded) \cup {Start}
<1>1. CASE UNCHANGED <<tx, last, recorded, loop, tick, command, todo>>
  BY <1>1 DEF WillBeRecorded, LeftForLog
<1>2. CASE \/ TickReadsState \/ TickStepsController \/ TickEnds
           \/ LoopStops \/ ControllerThrows
  <2>1. UNCHANGED <<tx, last, recorded>> /\ todo = <<>>
    BY <1>2 DEF TickReadsState, TickStepsController, StepsWith, TickEnds, LoopStops,
       ControllerThrows, TickShape
  <2>2. \A f : ~LeftForLog(f)
    BY <2>1 DEF LeftForLog
  <2> QED
    BY <2>1, <2>2 DEF WillBeRecorded
<1>3. ASSUME todo # <<>>, todo' = Tail(todo), UNCHANGED <<loop, tick, command>>,
             NEW f, LeftForLog(f), ~LeftForLog(f)'
      PROVE  todo[1] = <<"log", f.part>>
  <2>1. PICK k \in DOMAIN todo : todo[k] = <<"log", f.part>>
    BY <1>3 DEF LeftForLog
  <2>2. /\ DOMAIN todo' = 1 .. Len(todo) - 1 /\ Len(todo) \in Nat /\ DOMAIN todo = 1 .. Len(todo)
        /\ \A j \in DOMAIN todo' : todo'[j] = todo[j + 1]
    BY <1>3, PlacesInTail, LenProperties DEF TypeOK
  <2>3. ASSUME k # 1 PROVE FALSE
    <3>1. k - 1 \in DOMAIN todo' /\ (k - 1) + 1 = k
      BY <2>2, <2>3
    <3>2. todo'[k - 1] = <<"log", f.part>>
      BY <2>1, <2>2, <3>1
    <3> QED
      BY <3>1, <3>2, <1>3 DEF LeftForLog
  <2> QED
    BY <2>1, <2>3
<1>4. CASE TickSends
  <2>1. PICK b \in Buses : b = todo[1][1]
    BY <1>4 DEF TickSends
  <2>2. /\ todo # <<>> /\ todo' = Tail(todo) /\ loop = "sending" /\ b # "log"
        /\ UNCHANGED <<last, recorded, loop, tick, command>>
    BY <1>4, <2>1 DEF TickSends, Buses
  <2>3. NewFrame \in Frame /\ NewFrame = FrameOf(todo[1])
    BY <2>2, EntryIsFrame
  <2>4. \A c \in Buses : Range(tx'[c]) \subseteq Range(tx[c]) \cup {NewFrame}
    <3>1. CASE Queues(b)
      <4>1. tx' = [tx EXCEPT ![b] = Append(tx[b], NewFrame)]
        BY <1>4, <2>1, <3>1, SendsOrLoses
      <4>2. Range(Append(tx[b], NewFrame)) = Range(tx[b]) \cup {NewFrame}
        BY <2>3, PlacesInAppend DEF TypeOK
      <4> QED
        BY <4>1, <4>2 DEF TypeOK
    <3>2. CASE Loses(b)
      BY <1>4, <2>1, <3>2, SendsOrLoses
    <3> QED
      BY <1>4, <2>1, <3>1, <3>2, SendsOrLoses
  <2>5. PICK g : g = NewFrame
    OBVIOUS
  <2>6. LeftForLog(g)'
    <3>1. PICK k \in DOMAIN todo : k > 1 /\ todo[k] = <<"log", todo[1][2]>>
      BY <2>1, <2>2, PlacesInTail DEF TodoIsLogged, LoggedAfter, TypeOK
    <3>2. /\ DOMAIN todo' = 1 .. Len(todo) - 1 /\ Len(todo) \in Nat /\ DOMAIN todo = 1 .. Len(todo)
          /\ \A j \in DOMAIN todo' : todo'[j] = todo[j + 1]
      BY <2>2, PlacesInTail, LenProperties DEF TypeOK
    <3>3. k - 1 \in DOMAIN todo' /\ (k - 1) + 1 = k
      BY <3>1, <3>2
    <3>4. todo'[k - 1] = <<"log", todo[1][2]>>
      BY <3>1, <3>2, <3>3
    <3> QED
      BY <2>2, <2>5, <3>3, <3>4 DEF LeftForLog, NewFrame
  <2>7. \A f : LeftForLog(f) => LeftForLog(f)'
    BY <1>3, <2>1, <2>2
  <2> QED
    BY <2>2, <2>4, <2>5, <2>6, <2>7 DEF WillBeRecorded
<1>5. CASE TickLogs
  <2>1. /\ todo # <<>> /\ todo' = Tail(todo) /\ todo[1][1] = "log" /\ loop = "sending"
        /\ recorded' = Append(recorded, NewFrame)
        /\ UNCHANGED <<tx, last, loop, tick, command>>
    BY <1>5 DEF TickLogs
  <2>2. Range(recorded') = Range(recorded) \cup {NewFrame}
    BY <2>1, EntryIsFrame, PlacesInAppend DEF TypeOK
  <2>3. \A b \in Buses : Given(b) \subseteq Frame \cup {Start}
    BY RangeIsTyped DEF TypeOK
  <2>4. ASSUME NEW f \in Frame \cup {Start}, LeftForLog(f), ~LeftForLog(f)'
        PROVE  f = NewFrame
    <3>0. todo[1] = <<"log", f.part>>
      BY <2>1, <2>4, <1>3
    <3>1. f.part = todo[1][2] /\ f.tick = tick /\ f.controller = command.controller
      BY <2>4, <3>0 DEF LeftForLog
    <3>2. f = [tick |-> f.tick, controller |-> f.controller, part |-> f.part]
      BY DEF Frame, Start
    <3> QED
      BY <3>1, <3>2 DEF NewFrame
  <2> QED
    BY <2>1, <2>2, <2>3, <2>4 DEF WillBeRecorded
<1>6. ASSUME NEW b \in Buses, BusCarries(b)
      PROVE  WillBeRecorded'
  <2>1. /\ tx' = [tx EXCEPT ![b] = Tail(tx[b])] /\ tx[b] # <<>>
        /\ last' = [last EXCEPT ![b] = Head(tx[b])]
        /\ UNCHANGED <<recorded, tick, loop, command, todo>>
    BY <1>6 DEF BusCarries
  <2>2. \A c \in Buses : Range(tx'[c]) \cup {last'[c]} \subseteq Given(c)
    BY <2>1, RangeIsTyped DEF TypeOK
  <2> QED
    BY <2>1, <2>2 DEF WillBeRecorded, LeftForLog
<1> QED
  BY <1>1, <1>2, <1>4, <1>5, <1>6
  DEF Next, Inputs, Request, Tick, vars, InputsArrive, InputsStop, StateExpires, RequestReads,
      SwapController, RejectSwap

-----------------------------------------------------------------------------
(* Speeds stay right before their limits in what is left of a tick, and what *)
(* a tick makes begins with no limit.                                        *)
LEMMA TodoPairs ==
    ASSUME LoopAssumption, TypeOK, TickShape, TodoPaired, [Next]_vars
    PROVE  /\ TodoPaired'
           /\ TickStepsController /\ todo' # <<>> => todo'[1][2] # "limit"
<1>1. CASE TickStepsController
  <2>1. PICK kind \in Kinds[active] :
            todo' = IF StateUsable THEN SendAndLog(PartsOf(kind)) ELSE <<>>
    BY <1>1 DEF TickStepsController, StepsWith
  <2>2. kind \in {"speed", "torque", "none"}
    BY DEF LoopAssumption, TypeOK
  <2>3. CASE todo' = SendAndLog(PartsOf(kind))
    <3>1. /\ todo' \in Seq(Entry)
          /\ \A k \in DOMAIN todo' :
                /\ todo'[k][2] = "rpm" =>
                      k + 1 \in DOMAIN todo' /\ todo'[k + 1] = <<todo'[k][1], "limit">>
                /\ todo'[k][2] = "limit" => k > 1 /\ todo'[k - 1] = <<todo'[k][1], "rpm">>
      BY <2>2, <2>3, SendAndLogOrder
    <3>2. todo' # <<>> => 1 \in DOMAIN todo'
      BY <3>1, PlacesInTail
    <3> QED
      BY <3>1, <3>2 DEF TodoPaired
  <2>4. CASE todo' = <<>>
    BY <2>4 DEF TodoPaired
  <2> QED
    BY <2>1, <2>3, <2>4
<1>2. CASE todo # <<>> /\ todo' = Tail(todo) /\ ~TickStepsController
  <2>1. /\ DOMAIN todo' = 1 .. Len(todo) - 1 /\ Len(todo) \in Nat /\ DOMAIN todo = 1 .. Len(todo)
        /\ \A k \in DOMAIN todo' : k + 1 \in DOMAIN todo /\ todo'[k] = todo[k + 1]
    BY <1>2, PlacesInTail, LenProperties DEF TypeOK
  <2>2. ASSUME NEW k \in DOMAIN todo', todo'[k][2] = "rpm"
        PROVE  k + 1 \in DOMAIN todo' /\ todo'[k + 1] = <<todo'[k][1], "limit">>
    <3>1. (k + 1) + 1 \in DOMAIN todo /\ todo[(k + 1) + 1] = <<todo[k + 1][1], "limit">>
      BY <2>1, <2>2 DEF TodoPaired
    <3>2. k + 1 \in DOMAIN todo'
      BY <2>1, <3>1
    <3> QED
      BY <2>1, <3>1, <3>2
  <2>3. ASSUME NEW k \in DOMAIN todo', k > 1, todo'[k][2] = "limit"
        PROVE  todo'[k - 1] = <<todo'[k][1], "rpm">>
    <3>1. k + 1 > 1 /\ (k + 1) - 1 = k /\ k - 1 \in DOMAIN todo' /\ (k - 1) + 1 = k
      BY <2>1, <2>3
    <3>2. todo[(k + 1) - 1] = <<todo[k + 1][1], "rpm">>
      BY <2>1, <2>3, <3>1 DEF TodoPaired
    <3> QED
      BY <2>1, <3>1, <3>2
  <2> QED
    BY <2>2, <2>3, <1>2 DEF TodoPaired
<1>3. CASE UNCHANGED todo /\ ~TickStepsController
  BY <1>3 DEF TodoPaired
<1>4. \/ TickStepsController
      \/ todo # <<>> /\ todo' = Tail(todo)
      \/ UNCHANGED todo
  BY DEF Next, Inputs, Request, Tick, vars, env, manager, tickVars, busVars, InputsArrive,
     InputsStop, StateExpires, RequestReads, SwapController, RejectSwap, TickReadsState, TickSends,
     TickLogs, TickEnds, LoopStops, ControllerThrows, BusCarries
<1> QED
  BY <1>1, <1>2, <1>3, <1>4

(* After the head of a tick's list is taken, a limit is next only if its     *)
(* speed was that head.                                                      *)
LEMMA LimitAfterSpeed ==
    ASSUME TypeOK, TodoPaired, todo # <<>>, todo' = Tail(todo), NEW place
    PROVE  (todo' # <<>> /\ todo'[1] = <<place, "limit">>) <=> todo[1] = <<place, "rpm">>
<1>1. /\ DOMAIN todo = 1 .. Len(todo) /\ Len(todo) \in Nat \ {0} /\ 1 \in DOMAIN todo
      /\ Len(todo') = Len(todo) - 1 /\ DOMAIN todo' = 1 .. Len(todo')
      /\ todo' # <<>> => 1 \in DOMAIN todo'
      /\ \A k \in DOMAIN todo' : todo'[k] = todo[k + 1]
  <2>1. todo \in Seq(Entry) /\ todo' \in Seq(Entry)
    BY PlacesInTail DEF TypeOK, Entry
  <2> QED
    BY <2>1, PlacesInTail, LenProperties
<1>2. ASSUME todo' # <<>>, todo'[1] = <<place, "limit">>
      PROVE  todo[1] = <<place, "rpm">>
  <2>1. 1 \in DOMAIN todo' /\ 2 \in DOMAIN todo /\ todo[2] = <<place, "limit">>
    BY <1>1, <1>2, PlacesInTail
  <2>2. todo[2][1] = place /\ todo[2][2] = "limit"
    BY <2>1
  <2>3. \A k \in DOMAIN todo : k > 1 /\ todo[k][2] = "limit" => todo[k - 1] = <<todo[k][1], "rpm">>
    BY DEF TodoPaired
  <2>4. todo[2 - 1] = <<todo[2][1], "rpm">>
    BY <2>1, <2>2, <2>3
  <2>5. 2 - 1 = 1
    OBVIOUS
  <2> QED
    BY <2>2, <2>4, <2>5
<1>3. ASSUME todo[1] = <<place, "rpm">>
      PROVE  todo' # <<>> /\ todo'[1] = <<place, "limit">>
  <2>1. 1 + 1 \in DOMAIN todo /\ todo[1 + 1] = <<place, "limit">>
    BY <1>1, <1>3 DEF TodoPaired
  <2>2. 1 \in DOMAIN todo' /\ todo' # <<>>
    <3>1. Len(todo') >= 1
      BY <1>1, <2>1
    <3>2. Len(<<>>) = 0
      OBVIOUS
    <3>3. todo' # <<>>
      BY <3>1, <3>2
    <3> QED
      BY <3>3, <1>1
  <2> QED
    BY <2>1, <2>2, <1>1
<1> QED
  BY <1>2, <1>3

(* A bus that has room is given a frame that pairs with the one before it.   *)
LEMMA SendKeepsPairs ==
    ASSUME LoopAssumption, TypeOK, TickShape, TodoPaired, BusPaired, TickSends
    PROVE  BusPaired'
<1>0. PICK b \in Buses : b = todo[1][1]
  BY DEF TickSends
<1> DEFINE s == tx[b]
<1>1. /\ todo # <<>> /\ NewFrame \in Frame /\ NewFrame.tick = tick /\ NewFrame.part = todo[1][2]
      /\ todo' = Tail(todo) /\ last' = last /\ held' = held /\ tick' = tick
      /\ todo[1] = <<b, todo[1][2]>>
  <2>1. todo[1] \in Entry
    BY EntryIsFrame DEF TickSends
  <2> QED
    BY <1>0, <2>1, EntryIsFrame DEF TickSends, NewFrame, Entry
<1>2. ASSUME NEW c \in Buses, c # b
      PROVE  /\ tx'[c] = tx[c] /\ (NoLosses(c)' => NoLosses(c)) /\ LastOn(c)' = LastOn(c)
             /\ ~ (todo[1] = <<c, "limit">>) /\ ~ (todo' # <<>> /\ todo'[1] = <<c, "limit">>)
  <2>1. todo[1] # <<c, "limit">> /\ todo[1] # <<c, "rpm">>
    BY <1>1, <1>2
  <2>2. tx'[c] = tx[c]
    BY <1>0, <1>2, SendsOrLoses DEF TypeOK
  <2>3. NoLosses(c)' => NoLosses(c)
    BY <1>0, <1>2, SendsOrLoses DEF TickSends, NoLosses
  <2> QED
    BY <1>1, <2>1, <2>2, <2>3, LimitAfterSpeed DEF LastOn
<1>t. known' = known /\ NewFrame.part \in Parts
  BY <1>1 DEF TickSends, Frame
<1>3. CASE Loses(b)
  <2>1. tx' = tx /\ (NewFrame.part \in {"rpm", "limit"} => ~NoLosses(b)')
    BY <1>0, <1>3, SendsOrLoses
  <2>2. CASE NewFrame.part \in {"rpm", "limit"}
    BY <1>1, <1>2, <2>1, <2>2 DEF BusPaired
  <2>3. CASE NewFrame.part = "torque"
    <3>1. \A c \in Buses : ~ (todo[1] = <<c, "limit">>) /\ ~ (todo' # <<>> /\ todo'[1] = <<c, "limit">>)
      <4>1. todo[1] = <<b, "torque">>
        BY <1>1, <2>3
      <4>2. \A c \in Buses : todo[1] # <<c, "rpm">> /\ todo[1] # <<c, "limit">>
        BY <4>1
      <4> QED
        BY <1>1, <4>2, LimitAfterSpeed
    <3>2. NoLosses(b)' => NoLosses(b)
      BY <1>0, <1>3, <1>t, SendsOrLoses DEF EncodingFails, NoLosses
    <3> QED
      BY <1>1, <1>2, <2>1, <3>1, <3>2 DEF BusPaired, LastOn
  <2> QED
    BY <1>t, <2>2, <2>3 DEF Parts
<1>4. CASE Queues(b) /\ NoLosses(b)
  <2>1. tx'[b] = Append(s, NewFrame)
    BY <1>0, <1>4, SendsOrLoses DEF TypeOK
  <2>2. s \in Seq(Frame)
    BY DEF TypeOK
  <2> HIDE DEF s
  <2>3. /\ Len(s) \in Nat /\ Len(tx'[b]) = Len(s) + 1 /\ tx'[b] # <<>>
        /\ \A k \in 1 .. Len(s) : tx'[b][k] = s[k]
        /\ tx'[b][Len(s) + 1] = NewFrame
    BY <2>1, <2>2, <1>1, PlacesInAppend
  <2>4. LastOn(b)' = NewFrame
    BY <2>3 DEF LastOn
  <2>5. Paired(NewFrame, LastOn(b))
    <3>1. LastOn(b).part = "rpm" <=> todo[1][2] = "limit"
      BY <1>1, <1>4 DEF BusPaired
    <3> QED
      BY <3>1, <1>1, <1>4 DEF BusPaired, Paired
  <2>6. Paired(tx'[b][1], last'[b])
    <3>1. CASE s = <<>>
      <4>1. Len(s) = 0 /\ LastOn(b) = last[b]
        BY <3>1 DEF LastOn, s
      <4> QED
        BY <4>1, <2>3, <2>5, <1>1
    <3>2. CASE s # <<>>
      <4>1. 1 \in 1 .. Len(s)
        BY <3>2, <2>2, PlacesInTail
      <4> QED
        BY <4>1, <2>3, <1>1, <1>4, <3>2 DEF BusPaired, s
    <3> QED
      BY <3>1, <3>2
  <2>7. ASSUME NEW i \in 1 .. Len(tx'[b]) - 1
        PROVE  Paired(tx'[b][i + 1], tx'[b][i])
    <3>1. CASE i = Len(s)
      <4>1. s # <<>> /\ tx'[b][i] = s[Len(s)]
        BY <3>1, <2>3, <2>7
      <4> QED
        BY <4>1, <3>1, <2>3, <2>5 DEF LastOn, s
    <3>2. CASE i # Len(s)
      <4>1. i \in 1 .. Len(s) - 1 /\ i \in 1 .. Len(s) /\ i + 1 \in 1 .. Len(s)
        BY <3>2, <2>3, <2>7
      <4> QED
        BY <4>1, <2>3, <1>4 DEF BusPaired, s
    <3> QED
      BY <3>1, <3>2
  <2>8. NewFrame.part = "rpm" <=> todo' # <<>> /\ todo'[1] = <<b, "limit">>
    <3>1. (todo' # <<>> /\ todo'[1] = <<b, "limit">>) <=> todo[1] = <<b, "rpm">>
      BY <1>1, LimitAfterSpeed
    <3>2. PICK part : part = NewFrame.part
      OBVIOUS
    <3>3. todo[1] = <<b, part>>
      BY <1>1, <3>2
    <3> QED
      BY <3>1, <3>2, <3>3
  <2>9. /\ last'[b].part = "rpm" => held'[b].rpm = last'[b].tick
        /\ last'[b].part # "rpm" => held'[b].rpm = held'[b].limit
    BY <1>1, <1>4 DEF BusPaired
  <2>10. LastOn(b)'.tick = tick'
    BY <2>4, <1>1
  <2>11. ASSUME NEW c \in Buses, NoLosses(c)'
         PROVE  /\ tx'[c] # <<>> => Paired(tx'[c][1], last'[c])
                /\ \A i \in 1 .. Len(tx'[c]) - 1 : Paired(tx'[c][i + 1], tx'[c][i])
                /\ LastOn(c)'.part = "rpm" <=> todo' # <<>> /\ todo'[1] = <<c, "limit">>
                /\ LastOn(c)'.part = "rpm" => LastOn(c)'.tick = tick'
                /\ last'[c].part = "rpm" => held'[c].rpm = last'[c].tick
                /\ last'[c].part # "rpm" => held'[c].rpm = held'[c].limit
    <3>1. CASE c = b
      BY <3>1, <2>3, <2>4, <2>6, <2>7, <2>8, <2>9, <2>10
    <3>2. CASE c # b
      BY <3>2, <2>11, <1>1, <1>2 DEF BusPaired
    <3> QED
      BY <3>1, <3>2
  <2> QED
    BY <2>11 DEF BusPaired
<1>5. CASE Queues(b) /\ ~NoLosses(b)
  <2>1. ~NoLosses(b)'
    BY <1>0, <1>5, <1>t, SendsOrLoses DEF NoLosses
  <2> QED
    BY <1>1, <1>2, <2>1 DEF BusPaired
<1> QED
  BY <1>0, <1>3, <1>4, <1>5, SendsOrLoses

LEMMA CarryKeepsPairs ==
    ASSUME TypeOK, BusPaired, NEW b \in Buses, BusCarries(b)
    PROVE  BusPaired'
<1> DEFINE s == tx[b]
<1>1. /\ s \in Seq(Frame) /\ s # <<>> /\ tx'[b] = Tail(s) /\ last'[b] = Head(s)
      /\ \A c \in Buses : c # b =>
            tx'[c] = tx[c] /\ last'[c] = last[c] /\ held'[c] = held[c]
      /\ UNCHANGED <<todo, tick, drops, errors, known>>
  BY DEF BusCarries, TypeOK, tickVars
<1>2. /\ s[1] = Head(s) /\ Head(s) \in Frame /\ Len(s) \in Nat \ {0}
      /\ Len(Tail(s)) = Len(s) - 1 /\ Tail(s) \in Seq(Frame)
      /\ \A k \in 1 .. Len(s) - 1 : Tail(s)[k] = s[k + 1]
  BY <1>1, PlacesInTail
<1>3. /\ Head(s).part \in Parts
      /\ held'[b][Head(s).part] = Head(s).tick
      /\ \A p \in Parts : p # Head(s).part => held'[b][p] = held[b][p]
  BY <1>2 DEF BusCarries, TypeOK, Frame
<1>n. \A c \in Buses : NoLosses(c)' = NoLosses(c)
  BY <1>1 DEF NoLosses
<1>4. CASE NoLosses(b)
  <2> HIDE DEF s
  <2>1. Paired(Head(s), last[b])
    BY <1>1, <1>2, <1>4 DEF BusPaired, s
  <2>2. LastOn(b)' = LastOn(b)
    <3>1. CASE Len(s) = 1
      <4>1. Len(Tail(s)) = 0
        BY <1>2, <3>1
      <4>2. Tail(s) = <<>>
        BY <4>1, <1>2, EmptySeq
      <4> QED
        BY <4>2, <3>1, <1>1, <1>2 DEF LastOn, s
    <3>2. CASE Len(s) # 1
      <4>1. Len(Tail(s)) \in 1 .. Len(s) - 1 /\ Len(Tail(s)) + 1 = Len(s)
        BY <1>2, <3>2
      <4>2. Tail(s)[Len(Tail(s))] = s[Len(Tail(s)) + 1]
        BY <4>1, <1>2
      <4>3. Tail(s) # <<>>
        BY <4>1, <1>2, EmptySeq
      <4> QED
        BY <4>1, <4>2, <4>3, <1>1 DEF LastOn, s
    <3> QED
      BY <3>1, <3>2
  <2>3. Tail(s) # <<>> => Paired(Tail(s)[1], Head(s))
    <3> SUFFICES ASSUME Tail(s) # <<>> PROVE Paired(Tail(s)[1], Head(s))
      OBVIOUS
    <3>1. 1 \in 1 .. Len(s) - 1
      BY <1>2, EmptySeq
    <3> QED
      BY <3>1, <1>2, <1>4 DEF BusPaired, s
  <2>4. ASSUME NEW i \in 1 .. Len(Tail(s)) - 1
        PROVE  Paired(Tail(s)[i + 1], Tail(s)[i])
    <3>1. i \in 1 .. Len(s) - 1 /\ i + 1 \in 1 .. Len(s) - 1
      BY <1>2
    <3> QED
      BY <3>1, <1>2, <1>4 DEF BusPaired, s
  <2>5. /\ last'[b].part = "rpm" => held'[b].rpm = last'[b].tick
        /\ last'[b].part # "rpm" => held'[b].rpm = held'[b].limit
    <3>0. {"rpm", "limit", "torque"} = Parts
      BY DEF Parts
    <3>1. CASE Head(s).part = "rpm"
      BY <3>1, <1>1, <1>3
    <3>2. CASE Head(s).part = "limit"
      <4>1. held[b].rpm = last[b].tick /\ Head(s).tick = last[b].tick
        BY <3>2, <2>1, <1>4 DEF BusPaired, Paired
      <4> QED
        BY <3>0, <3>2, <4>1, <1>1, <1>3
    <3>3. CASE Head(s).part = "torque"
      <4>1. held[b].rpm = held[b].limit
        BY <3>3, <2>1, <1>4 DEF BusPaired, Paired
      <4> QED
        BY <3>0, <3>3, <4>1, <1>1, <1>3
    <3> QED
      BY <3>0, <3>1, <3>2, <3>3, <1>3
  <2>6. \A c \in Buses : c # b => LastOn(c)' = LastOn(c)
    BY <1>1 DEF LastOn
  <2>7. ASSUME NEW c \in Buses, NoLosses(c)'
        PROVE  /\ tx'[c] # <<>> => Paired(tx'[c][1], last'[c])
               /\ \A i \in 1 .. Len(tx'[c]) - 1 : Paired(tx'[c][i + 1], tx'[c][i])
               /\ LastOn(c)'.part = "rpm" <=> todo' # <<>> /\ todo'[1] = <<c, "limit">>
               /\ LastOn(c)'.part = "rpm" => LastOn(c)'.tick = tick'
               /\ last'[c].part = "rpm" => held'[c].rpm = last'[c].tick
               /\ last'[c].part # "rpm" => held'[c].rpm = held'[c].limit
    <3>1. CASE c = b
      <4>1. /\ LastOn(b).part = "rpm" <=> todo # <<>> /\ todo[1] = <<b, "limit">>
            /\ LastOn(b).part = "rpm" => LastOn(b).tick = tick
        BY <1>4 DEF BusPaired
      <4> QED
        BY <3>1, <4>1, <1>1, <2>2, <2>3, <2>4, <2>5
    <3>2. CASE c # b
      BY <3>2, <2>6, <2>7, <1>1, <1>n DEF BusPaired
    <3> QED
      BY <3>1, <3>2
  <2> QED
    BY <2>7 DEF BusPaired
<1>5. CASE ~NoLosses(b)
  <2>1. \A c \in Buses : c # b => LastOn(c)' = LastOn(c)
    BY <1>1 DEF LastOn
  <2> QED
    BY <1>1, <1>5, <1>n, <2>1 DEF BusPaired
<1> QED
  BY <1>4, <1>5

LEMMA PairStep ==
    ASSUME LoopAssumption, TypeOK, TickShape, TodoPaired, BusPaired, [Next]_vars
    PROVE  TodoPaired' /\ BusPaired'
<1> USE DEF env, manager, tickVars, busVars
<1>0. TodoPaired'
  BY TodoPairs
<1>1. CASE UNCHANGED <<tx, last, tick, todo, drops, errors, known, held>>
  BY <1>0, <1>1 DEF BusPaired, LastOn, NoLosses
<1>2. CASE TickReadsState
  <2>1. todo = <<>> /\ todo' = todo /\ UNCHANGED <<tx, last, drops, errors, known, held>>
    BY <1>2 DEF TickReadsState, TickShape
  <2> QED
    BY <1>0, <2>1 DEF BusPaired, LastOn, NoLosses
<1>3. CASE TickStepsController
  <2>1. todo = <<>> /\ UNCHANGED <<tx, last, tick, drops, errors, known, held>>
    BY <1>3 DEF TickStepsController, StepsWith, TickShape
  <2>2. \A b \in Buses : ~ (todo' # <<>> /\ todo'[1] = <<b, "limit">>)
    BY <1>3, TodoPairs
  <2> QED
    BY <1>0, <2>1, <2>2 DEF BusPaired, LastOn, NoLosses
<1>4. CASE TickSends
  BY <1>0, <1>4, SendKeepsPairs
<1>5. CASE TickLogs
  <2>1. /\ todo # <<>> /\ todo' = Tail(todo) /\ todo[1][1] = "log"
        /\ UNCHANGED <<tx, last, tick, drops, errors, known, held>>
    BY <1>5 DEF TickLogs
  <2>2. ASSUME NEW b \in Buses
        PROVE  todo[1] # <<b, "limit">> /\ ~ (todo' # <<>> /\ todo'[1] = <<b, "limit">>)
    <3>1. b # "log"
      BY DEF Buses
    <3>2. todo[1] # <<b, "limit">> /\ todo[1] # <<b, "rpm">>
      BY <2>1, <3>1
    <3> QED
      BY <2>1, <3>2, LimitAfterSpeed
  <2> QED
    BY <1>0, <2>1, <2>2 DEF BusPaired, LastOn, NoLosses
<1>6. CASE \E b \in Buses : BusCarries(b)
  BY <1>0, <1>6, CarryKeepsPairs
<1> QED
  BY <1>1, <1>2, <1>3, <1>4, <1>5, <1>6
  DEF Next, Inputs, Request, Tick, vars, InputsArrive, InputsStop, StateExpires, RequestReads,
      SwapController, RejectSwap, StateExpires, TickEnds, LoopStops, ControllerThrows

-----------------------------------------------------------------------------
(* Taking the head of a tick's list leaves one frame less for its place, and *)
(* no more for any other.                                                    *)
LEMMA HeadIsOneLess ==
    ASSUME TypeOK, TodoInOrder, todo # <<>>, todo' = Tail(todo), NEW place
    PROVE  /\ LeftFor(place)' <= LeftFor(place)
           /\ todo[1][1] = place => LeftFor(place)' <= LeftFor(place) - 1
<1>1. /\ DOMAIN todo' = 1 .. Len(todo) - 1 /\ Len(todo) \in Nat /\ DOMAIN todo = 1 .. Len(todo)
      /\ 1 \in DOMAIN todo
      /\ \A k \in DOMAIN todo' : k + 1 \in DOMAIN todo /\ todo'[k] = todo[k + 1]
  BY PlacesInTail, LenProperties DEF TypeOK
<1>2. ASSUME LeftFor(place)' = 2
      PROVE  LeftFor(place) = 2 /\ todo[1][1] # place
  <2>1. PICK j \in DOMAIN todo', k \in DOMAIN todo' :
            j < k /\ todo'[j][1] = place /\ todo'[k][1] = place
    BY <1>2 DEF LeftFor
  <2>2. /\ j + 1 \in DOMAIN todo /\ k + 1 \in DOMAIN todo /\ j + 1 < k + 1 /\ 1 < j + 1
        /\ todo[j + 1][1] = place /\ todo[k + 1][1] = place
    BY <1>1, <2>1
  <2>3. todo[j + 1][2] = "rpm"
    BY <2>2 DEF TodoInOrder
  <2>4. todo[1][1] = place => todo[j + 1][2] = "limit"
    BY <1>1, <2>2 DEF TodoInOrder
  <2> QED
    BY <2>2, <2>3, <2>4 DEF LeftFor
<1>3. ASSUME LeftFor(place)' = 1
      PROVE  LeftFor(place) \in {1, 2} /\ (todo[1][1] = place => LeftFor(place) = 2)
  <2>1. PICK k \in DOMAIN todo' : todo'[k][1] = place
    BY <1>3 DEF LeftFor
  <2>2. k + 1 \in DOMAIN todo /\ 1 < k + 1 /\ todo[k + 1][1] = place
    BY <1>1, <2>1
  <2> QED
    BY <1>1, <2>2 DEF LeftFor
<1>4. todo[1][1] = place => LeftFor(place) \in {1, 2}
  BY <1>1 DEF LeftFor
<1>5. LeftFor(place)' \in {0, 1, 2} /\ LeftFor(place) \in {0, 1, 2}
  BY DEF LeftFor
<1> QED
  BY <1>2, <1>3, <1>4, <1>5

LEMMA EndStep ==
    ASSUME LoopAssumption, TypeOK, TickShape, TodoInOrder, OutputEnding, [Next]_vars
    PROVE  OutputEnding'
<1> USE DEF env, manager, tickVars, busVars
<1>1. \A b \in Buses : /\ StillToSend(b) \in {0, 1, 2} /\ LeftFor(b) \in {0, 1, 2}
                       /\ LeftFor(b)' \in {0, 1, 2}
                       /\ Len(tx[b]) \in Nat /\ Len(tx[b]) <= TxLen
                       /\ lateFrames[b] \in Nat /\ TxLen \in Nat
  BY LenProperties DEF StillToSend, LeftFor, TypeOK, LoopAssumption
<1>2. todo = <<>> => \A b \in Buses : LeftFor(b) = 0
  BY DEF LeftFor
<1>3. CASE UNCHANGED <<StateIsRecent, lateFrames, tx, loop, valid, todo>>
  BY <1>3 DEF OutputEnding, StillToSend, LeftFor
<1>4. CASE InputsArrive
  BY <1>4 DEF InputsArrive, OutputEnding, StateIsRecent
<1>12. CASE InputsStop
  BY <1>12, <1>3 DEF InputsStop, StateIsRecent
<1>5. CASE StateExpires
  <2>1. StateIsRecent /\ ~StateIsRecent' /\ UNCHANGED <<lateFrames, tx, loop, valid, todo>>
    BY <1>5 DEF StateExpires, StateIsRecent
  <2>2. \A b \in Buses : StillToSend(b)' = StillToSend(b)
    BY <2>1 DEF StillToSend, LeftFor
  <2> QED
    BY <2>1, <2>2, <1>1 DEF OutputEnding
<1>6. CASE TickReadsState
  <2>1. /\ todo = <<>> /\ loop # "stepping" /\ loop' = "stepping" /\ (valid' <=> StateIsRecent)
        /\ UNCHANGED <<StateIsRecent, lateFrames, tx, todo>>
    BY <1>6 DEF TickReadsState, TickShape, StateIsRecent
  <2>2. \A b \in Buses : StillToSend(b) = 0 /\ (~StateIsRecent => StillToSend(b)' = 0)
    BY <2>1, <1>2 DEF StillToSend
  <2> QED
    BY <2>1, <2>2 DEF OutputEnding
<1>7. CASE TickStepsController
  <2>1. /\ loop = "stepping" /\ loop' = "sending" /\ (~valid => todo' = <<>>)
        /\ UNCHANGED <<StateIsRecent, lateFrames, tx>>
    BY <1>7 DEF TickStepsController, StepsWith, StateUsable, StateIsRecent
  <2>2. ~valid => \A b \in Buses : LeftFor(b)' = 0
    BY <2>1 DEF LeftFor
  <2>3. \A b \in Buses : StillToSend(b)' <= StillToSend(b)
    BY <2>1, <2>2, <1>1 DEF StillToSend
  <2>4. \A b \in Buses : StillToSend(b)' \in {0, 1, 2}
    BY <2>1, <1>1 DEF StillToSend
  <2> QED
    BY <2>1, <2>3, <2>4, <1>1 DEF OutputEnding
<1>8. CASE TickSends
  <2>1. PICK c \in Buses : c = todo[1][1]
    BY <1>8 DEF TickSends
  <2>2. /\ todo # <<>> /\ todo' = Tail(todo) /\ loop = "sending" /\ loop' = "sending"
        /\ UNCHANGED <<StateIsRecent, lateFrames>> /\ NewFrame \in Frame
    BY <1>8, EntryIsFrame DEF TickSends, StateIsRecent
  <2>3. \A b \in Buses : /\ Len(tx'[b]) \in Nat
                         /\ b = c => Len(tx'[b]) <= Len(tx[b]) + 1
                         /\ b # c => Len(tx'[b]) = Len(tx[b])
    <3>1. CASE Queues(c)
      <4>1. tx' = [tx EXCEPT ![c] = Append(tx[c], NewFrame)]
        BY <1>8, <2>1, <3>1, SendsOrLoses
      <4>2. Len(Append(tx[c], NewFrame)) = Len(tx[c]) + 1
        BY <2>2, PlacesInAppend DEF TypeOK
      <4> QED
        BY <4>1, <4>2, <1>1 DEF TypeOK
    <3>2. CASE Loses(c)
      BY <1>8, <2>1, <3>2, <1>1, SendsOrLoses
    <3> QED
      BY <1>8, <2>1, <3>1, <3>2, SendsOrLoses
  <2>4. ASSUME NEW b \in Buses
        PROVE  /\ StateIsRecent' => lateFrames'[b] = 0
               /\ ~StateIsRecent' => lateFrames'[b] + Len(tx'[b]) + StillToSend(b)' <= TxLen + 2
    <3>1. /\ Len(tx[b]) \in Nat /\ LeftFor(b) \in {0, 1, 2} /\ LeftFor(b)' \in {0, 1, 2}
          /\ lateFrames[b] \in Nat /\ TxLen \in Nat
      BY <1>1
    <3>2. /\ StateIsRecent => lateFrames[b] = 0
          /\ ~StateIsRecent => lateFrames[b] + Len(tx[b]) + StillToSend(b) <= TxLen + 2
      BY DEF OutputEnding
    <3>3. /\ StillToSend(b) = LeftFor(b) /\ StillToSend(b)' = LeftFor(b)'
          /\ LeftFor(b)' <= LeftFor(b)
          /\ b = c => LeftFor(b)' <= LeftFor(b) - 1
      BY <2>1, <2>2, HeadIsOneLess DEF StillToSend
    <3>4. Len(tx'[b]) \in Nat /\ Len(tx'[b]) + LeftFor(b)' <= Len(tx[b]) + LeftFor(b)
      <4>0. LeftFor(b) \in Int /\ LeftFor(b)' \in Int /\ Len(tx'[b]) \in Nat
        BY <2>3, <3>1
      <4>1. CASE b = c
        <5>1. Len(tx'[b]) <= Len(tx[b]) + 1
          BY <2>3, <4>1
        <5>2. LeftFor(b)' <= LeftFor(b) - 1
          BY <3>3, <4>1
        <5> QED
          BY <3>1, <4>0, <5>1, <5>2
      <4>2. CASE b # c
        <5>1. Len(tx'[b]) = Len(tx[b])
          BY <2>3, <4>2
        <5> QED
          BY <3>1, <3>3, <4>0, <5>1
      <4> QED
        BY <4>0, <4>1, <4>2
    <3>5. lateFrames[b] + Len(tx[b]) + LeftFor(b) <= TxLen + 2 =>
             lateFrames[b] + Len(tx'[b]) + LeftFor(b)' <= TxLen + 2
      <4>1. PICK l \in Nat, k \in Nat, n \in Nat, m \in Nat :
                l = LeftFor(b) /\ k = LeftFor(b)' /\ n = Len(tx[b]) /\ m = Len(tx'[b])
        BY <3>1, <3>4
      <4>2. m + k <= n + l
        BY <3>4, <4>1
      <4>3. lateFrames[b] \in Nat /\ TxLen \in Nat
        BY <3>1
      <4>4. lateFrames[b] + n + l <= TxLen + 2 => lateFrames[b] + m + k <= TxLen + 2
        BY <4>2, <4>3
      <4> QED
        BY <4>1, <4>4
    <3>6. StateIsRecent' = StateIsRecent /\ lateFrames' = lateFrames
      BY <2>2
    <3> QED
      BY <3>2, <3>3, <3>5, <3>6
  <2> QED
    BY <2>4 DEF OutputEnding
<1>9. CASE TickLogs
  <2>1. /\ todo # <<>> /\ todo' = Tail(todo) /\ loop = "sending" /\ loop' = "sending"
        /\ UNCHANGED <<StateIsRecent, lateFrames, tx>>
    BY <1>9 DEF TickLogs, StateIsRecent
  <2>2. \A b \in Buses : /\ StillToSend(b) = LeftFor(b) /\ StillToSend(b)' = LeftFor(b)'
                         /\ LeftFor(b)' <= LeftFor(b)
    BY <2>1, HeadIsOneLess DEF StillToSend
  <2> QED
    BY <2>1, <2>2, <1>1 DEF OutputEnding
<1>10. CASE TickEnds \/ LoopStops \/ ControllerThrows
  <2>1. /\ todo = <<>> /\ loop' # "stepping"
        /\ UNCHANGED <<StateIsRecent, lateFrames, tx, todo>>
    BY <1>10 DEF TickEnds, LoopStops, ControllerThrows, TickShape, StateIsRecent
  <2>2. \A b \in Buses : StillToSend(b)' = 0
    BY <2>1 DEF StillToSend, LeftFor
  <2> QED
    BY <2>1, <2>2, <1>1 DEF OutputEnding
<1>11. ASSUME NEW c \in Buses, BusCarries(c)
       PROVE  OutputEnding'
  <2>1. /\ tx[c] # <<>> /\ tx' = [tx EXCEPT ![c] = Tail(@)]
        /\ lateFrames' = IF StateIsRecent THEN lateFrames ELSE [lateFrames EXCEPT ![c] = @ + 1]
        /\ UNCHANGED <<StateIsRecent, loop, valid, todo>>
    BY <1>11 DEF BusCarries, StateIsRecent
  <2>2. Len(tx'[c]) = Len(tx[c]) - 1 /\ \A b \in Buses : b # c => tx'[b] = tx[b]
    BY <2>1, PlacesInTail DEF TypeOK
  <2>3. \A b \in Buses : StillToSend(b)' = StillToSend(b)
    BY <2>1 DEF StillToSend, LeftFor
  <2>4. ~StateIsRecent => \A b \in Buses : lateFrames'[b] = lateFrames[b] + (IF b = c THEN 1 ELSE 0)
    BY <2>1, <1>1 DEF TypeOK
  <2> QED
    BY <2>1, <2>2, <2>3, <2>4, <1>1 DEF OutputEnding
<1> QED
  BY <1>3, <1>4, <1>5, <1>6, <1>7, <1>8, <1>9, <1>10, <1>11, <1>12
  DEF Next, Inputs, Request, Tick, vars, RequestReads, SwapController, RejectSwap, StateIsRecent

-----------------------------------------------------------------------------
(* The invariant holds at first, and each step keeps it.                     *)
LEMMA IInvInit ==
    ASSUME LoopAssumption, FilesAssumption, Init
    PROVE  IInv
<1>1. \A b \in Buses : tx[b] = <<>> /\ LastOn(b).tick = 0
  BY DEF Init, LastOn, Start
<1>2. DOMAIN todo = {} /\ tick = 0 /\ loop = "top" /\ todo = <<>> /\ recorded = <<>>
  BY DEF Init
<1>3. Range(recorded) = {} /\ \A b \in Buses : Range(tx[b]) = {}
  BY <1>1, <1>2 DEF Range
<1>4. TypeOK
  <2>1. /\ todo \in Seq((Buses \cup {"log"}) \X Parts) /\ recorded \in Seq(Frame)
        /\ tx \in [Buses -> Seq(Frame)] /\ \A b \in Buses : Len(tx[b]) <= TxLen
    BY DEF Init, LoopAssumption
  <2>2. held \in [Buses -> [Parts -> Nat]] /\ last \in [Buses -> Frame \cup {Start}]
    BY DEF Init
  <2>6. known \subseteq Parts
    BY DEF Init, FilesAssumption
  <2>3. /\ drops \in [Buses -> Nat] /\ errors \in [Buses -> Nat] /\ lateFrames \in [Buses -> Nat]
        /\ command = NoCommand /\ active \in Controllers
    BY DEF Init, LoopAssumption
  <2>4. inputs \in {"coming", "recent", "old"} /\ judgedOn \in BOOLEAN /\ valid \in BOOLEAN
    BY Zenon DEF Init
  <2>5. /\ request \in {"idle", "judging"} /\ loop \in {"top", "stepping", "sending", "ended"}
        /\ tick \in Nat /\ switchedIn \in 0 .. tick /\ switches \in Nat /\ losses \in Nat
    BY DEF Init
  <2> QED
    BY <2>1, <2>2, <2>3, <2>4, <2>5, <2>6 DEF TypeOK
<1>5. TickShape /\ TodoInOrder /\ TodoIsLogged
  BY <1>2 DEF TickShape, TodoInOrder, TodoIsLogged
<1>6. BusInOrder
  BY <1>1, <1>2 DEF BusInOrder
<1>7. OfPastTicks /\ NewControllerCommands
  BY <1>2, <1>3 DEF OfPastTicks, NewControllerCommands
<1>8. WillBeRecorded
  BY <1>3 DEF WillBeRecorded, Init
<1>9. TodoPaired /\ BusPaired
  <2>1. TodoPaired
    BY <1>2 DEF TodoPaired
  <2>2. ASSUME NEW b \in Buses
        PROVE  /\ tx[b] = <<>> /\ Len(tx[b]) = 0 /\ LastOn(b).part # "rpm" /\ last[b].part # "rpm"
               /\ held[b].rpm = held[b].limit
    BY <1>1, <2>2 DEF Init, LastOn, Start, Parts
  <2> QED
    BY <1>2, <2>1, <2>2 DEF BusPaired
<1>10. OutputEnding
  <2>1. \A b \in Buses : Len(tx[b]) = 0 /\ lateFrames[b] = 0 /\ StillToSend(b) = 0
    BY <1>1, <1>2 DEF Init, StillToSend, LeftFor
  <2> QED
    BY <2>1 DEF OutputEnding, LoopAssumption
<1> QED
  BY <1>4, <1>5, <1>6, <1>7, <1>8, <1>9, <1>10 DEF IInv

LEMMA IInvStep ==
    ASSUME LoopAssumption, IInv, [Next]_vars
    PROVE  IInv'
BY TypeStep, TodoStep, BusStep, SwitchStep, RecordStep, PairStep, EndStep DEF IInv

LEMMA IInvKept == Spec => []IInv
<1>1. Init => IInv
  BY IInvInit, LoopAssumption, FilesAssumption
<1>2. IInv /\ [Next]_vars => IInv'
  BY IInvStep, LoopAssumption
<1> QED
  BY <1>1, <1>2, PTL DEF Spec

(* Every variable of the control loop keeps its type: queues never hold more *)
(* frames than they have room for, and every frame is one of a tick.         *)
THEOREM TypesKept == Spec => []TypeOK
<1>1. IInv => TypeOK
  BY DEF IInv
<1> QED
  BY <1>1, IInvKept, PTL

(* A tick that begins after a switch speaks for the new controller, on both  *)
(* buses and in the log.                                                     *)
THEOREM SwitchTakesEffect == Spec => []NewControllerCommands
<1>1. IInv => NewControllerCommands
  BY DEF IInv
<1> QED
  BY <1>1, IInvKept, PTL

(* Between ticks, what a bus carried or will carry is in the log.            *)
THEOREM CommandsRecorded == Spec => []CommandsAreRecorded
<1>1. IInv => CommandsAreRecorded
  BY DEF IInv, WillBeRecorded, LeftForLog, CommandsAreRecorded
<1> QED
  BY <1>1, IInvKept, PTL

(* On a bus whose counters are still 0, with both messages in the DBC file,  *)
(* nothing parts speeds from their limits.                                   *)
THEOREM PairsPartOnlyByLosses == Spec => []OnlyLossesSplitPairs
<1>1. IInv => OnlyLossesSplitPairs
  <2> SUFFICES ASSUME IInv, NEW b \in Buses, NoLosses(b), held[b].rpm # held[b].limit,
                      NEW next,
                      next = tx[b] \o (IF todo # <<>> /\ todo[1][1] = b THEN <<NewFrame>> ELSE <<>>)
               PROVE  next # <<>> /\ Head(next).part = "limit" /\ Head(next).tick = held[b].rpm
    BY DEF OnlyLossesSplitPairs
  <2>1. last[b].part = "rpm" /\ held[b].rpm = last[b].tick
    BY DEF IInv, BusPaired
  <2>2. tx[b] \in Seq(Frame)
    BY DEF IInv, TypeOK
  <2>3. PICK more \in Seq(Frame) :
            more = IF todo # <<>> /\ todo[1][1] = b THEN <<NewFrame>> ELSE <<>>
    <3>1. CASE todo # <<>> /\ todo[1][1] = b
      <4>1. PICK g \in Frame : g = NewFrame
        BY <3>1, EntryIsFrame DEF IInv
      <4>2. <<g>> \in Seq(Frame)
        OBVIOUS
      <4> QED
        BY <3>1, <4>1, <4>2
    <3>2. CASE ~ (todo # <<>> /\ todo[1][1] = b)
      <4>1. <<>> \in Seq(Frame)
        OBVIOUS
      <4> QED
        BY <3>2, <4>1
    <3> QED
      BY <3>1, <3>2
  <2>4. next = tx[b] \o more
    BY <2>3
  <2>5. CASE tx[b] # <<>>
    <3>1. Paired(tx[b][1], last[b])
      BY <2>5 DEF IInv, BusPaired
    <3>2. 1 \in 1 .. Len(tx[b]) /\ Len(tx[b]) \in Nat /\ Len(more) \in Nat
      BY <2>2, <2>3, <2>5, PlacesInTail, LenProperties
    <3>3. /\ next \in Seq(Frame) /\ Len(next) = Len(tx[b]) + Len(more) /\ next[1] = tx[b][1]
      <4>1. PICK t \in Seq(Frame) : t = tx[b]
        BY <2>2
      <4>2. next = t \o more /\ 1 \in 1 .. Len(t)
        BY <2>4, <3>2, <4>1
      <4>3. /\ t \o more \in Seq(Frame) /\ Len(t \o more) = Len(t) + Len(more)
            /\ (t \o more)[1] = t[1]
        BY <4>2, PlacesInConcat
      <4> QED
        BY <4>1, <4>2, <4>3
    <3>4. next # <<>>
      BY <3>2, <3>3
    <3>5. Head(next) = tx[b][1]
      BY <3>3, <3>4, PlacesInTail
    <3> QED
      BY <3>1, <3>4, <3>5, <2>1 DEF Paired
  <2>6. CASE tx[b] = <<>>
    <3>1. LastOn(b) = last[b]
      BY <2>6 DEF LastOn
    <3>2. todo # <<>> /\ todo[1] = <<b, "limit">> /\ last[b].tick = tick
      BY <2>1, <3>1 DEF IInv, BusPaired
    <3>3. more = <<NewFrame>>
      BY <2>3, <3>2
    <3>4. next = more
      BY <2>3, <2>4, <2>6, ConcatEmptySeq
    <3>5. next # <<>> /\ Head(next) = NewFrame
      <4>1. PICK g \in Frame : g = NewFrame
        BY <3>2, EntryIsFrame DEF IInv
      <4>2. next = <<g>> /\ next \in Seq(Frame)
        BY <3>3, <3>4, <4>1
      <4>3. next # <<>> /\ next[1] = g
        <5>1. <<g>>[1] = g /\ <<g>> # <<>>
          OBVIOUS
        <5> QED
          BY <4>2, <5>1
      <4>4. Head(next) = next[1]
        BY <4>2, <4>3, PlacesInTail
      <4> QED
        BY <4>1, <4>3, <4>4
    <3> QED
      BY <3>2, <3>5, <2>1 DEF NewFrame
  <2> QED
    BY <2>5, <2>6
<1> QED
  BY <1>1, IInvKept, PTL

(* Once the state has expired, a bus carries no more than what its queue     *)
(* held and one output, until inputs come in again.                          *)
THEOREM OutputEnds == Spec => []OutputEndsWithState
<1>1. IInv => OutputEndsWithState
  <2> SUFFICES ASSUME IInv, NEW b \in Buses
               PROVE  lateFrames[b] <= TxLen + 2
    BY DEF OutputEndsWithState
  <2>1. /\ Len(tx[b]) \in Nat /\ lateFrames[b] \in Nat /\ TxLen \in Nat
        /\ StillToSend(b) \in {0, 1, 2}
    BY LenProperties, LoopAssumption DEF IInv, TypeOK, StillToSend, LeftFor, LoopAssumption
  <2> QED
    BY <2>1 DEF IInv, OutputEnding
<1> QED
  BY <1>1, IInvKept, PTL

(* The control loop implements the promise to the drives: commands on a bus  *)
(* only get newer, a tick speaks for one controller, speeds come first.      *)
THEOREM LoopIsDriveCommands == Spec => ImplementsDriveCommands
<1>1. Init => Promise!Init
  BY DEF Init, Promise!Init, Start, Promise!Start
<1>2. IInv /\ [Next]_vars => [Promise!Next]_last
  <2> SUFFICES ASSUME IInv, [Next]_vars
               PROVE  Promise!Next \/ UNCHANGED last
    OBVIOUS
  <2>1. ASSUME NEW b \in Buses, BusCarries(b)
        PROVE  Promise!Next
    <3>1. last'[b] \in Frame /\ Promise!Follows(last'[b], last[b])
      BY <2>1, CarryKeepsOrder DEF IInv
    <3>2. last' = [last EXCEPT ![b] = last'[b]]
      BY <2>1 DEF BusCarries, IInv, TypeOK
    <3>3. Promise!Command(b)
      BY <3>1, <3>2 DEF Promise!Command, Promise!Frame, Promise!Parts, Frame, Parts
    <3> QED
      BY <3>3 DEF Promise!Next
  <2>2. CASE \A b \in Buses : ~BusCarries(b)
    BY <2>2 DEF Next, Inputs, Request, Tick, vars, env, manager, tickVars, busVars,
       InputsArrive, InputsStop, StateExpires, RequestReads, SwapController, RejectSwap,
       TickReadsState, TickStepsController, StepsWith, TickSends, TickLogs, TickEnds,
       LoopStops, ControllerThrows
  <2> QED
    BY <2>1, <2>2
<1> QED
  BY <1>1, <1>2, IInvKept, PTL DEF Spec, ImplementsDriveCommands, Promise!Spec
=============================================================================
