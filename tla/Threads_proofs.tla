--------------------------- MODULE Threads_proofs ---------------------------
(* Proofs about the threads of the process beside the tick of the control    *)
(* loop: who starts and joins them (DrivebrainApp), for any period, any      *)
(* duration of a tick and any steps of run() that throw; and the io thread   *)
(* with the receive thread of the simulator (IoReceivers, SimComms), for any *)
(* number of ports, messages and errors.                                     *)
EXTENDS DrivebrainApp, SimComms, SequenceTheorems, FiniteSetTheorems, TLAPS

(* The main thread makes the singletons before the threads, and waits for    *)
(* the threads before it destroys one.                                       *)
MainFirstAndLast ==
    /\ phase = "boot" => /\ loop = "none" /\ ioThread = "none"
                         /\ published = {BootSteps[k] : k \in 1 .. boot - 1} \cap Singletons
    /\ phase \in {"joining", "joining_io"} => published = Singletons
    /\ loop \in {"checking", "ticking"} => phase \in {"joining", "over"}
    /\ ioThread \in {"running", "stopping"} => phase \in {"joining", "joining_io", "over"}

(* next_tick is a period or more after the tick before the last began; and a *)
(* tick does not end with next_tick behind: so waiting for it makes up the   *)
(* period over any two ticks, whatever time the waits and the ticks take.    *)
NextTickIsAhead ==
    /\ loop = "none" => due = 0 /\ sinceStart = Period /\ sincePrevious = Period
    /\ loop = "checking" => /\ due >= -MaxLate /\ due + sinceStart >= 0
                            /\ due + sincePrevious >= Period
    /\ loop = "ticking" => /\ due >= Period - MaxLate - sinceStart /\ sinceStart <= MaxTick
                           /\ due + sincePrevious >= Period

AppIInv == AppTypeOK /\ MainFirstAndLast /\ NextTickIsAhead

-----------------------------------------------------------------------------
LEMMA TenSteps ==
    /\ Len(BootSteps) = 10
    /\ Singletons \subseteq {BootSteps[k] : k \in 1..10}
<1>1. Len(BootSteps) = 10
  BY DEF BootSteps
<1>2. /\ BootSteps[1] = "logger" /\ BootSteps[2] = "foxglove" /\ BootSteps[3] = "tracker"
      /\ BootSteps[5] = "interface" /\ BootSteps[10] = "manager"
  BY DEF BootSteps
<1> QED
  BY <1>1, <1>2 DEF Singletons

LEMMA AppIInvInit ==
    ASSUME AppAssumption, AppInit
    PROVE  AppIInv
<1>1. AppTypeOK
  <2>1. running \in BOOLEAN /\ interrupted \in BOOLEAN /\ threw \in BOOLEAN
    BY Zenon DEF AppInit
  <2>2. sinceStart \in Nat /\ sincePrevious \in Nat /\ due \in -(MaxTick + MaxLate)..Period /\ boot \in 1..(Len(BootSteps) + 1)
    BY TenSteps DEF AppInit, AppAssumption
  <2> QED
    BY <2>1, <2>2 DEF AppInit, AppTypeOK
<1>2. MainFirstAndLast
  BY DEF AppInit, MainFirstAndLast
<1>3. NextTickIsAhead
  BY DEF AppInit, NextTickIsAhead
<1> QED
  BY <1>1, <1>2, <1>3 DEF AppIInv

-----------------------------------------------------------------------------
(* The main thread.                                                          *)
LEMMA MainStep ==
    ASSUME AppAssumption, AppIInv, Alive, Main
    PROVE  AppIInv'
<1> USE DEF AppIInv
<1>1. CASE BootStep
  <2>1. AppTypeOK'
    BY <1>1, TenSteps DEF BootStep, AppTypeOK, timing
  <2>2. published' = {BootSteps[k] : k \in 1 .. boot' - 1} \cap Singletons
    <3>1. boot \in 1..10 /\ boot' - 1 = boot
      BY <1>1, TenSteps DEF BootStep, AppTypeOK
    <3>2. published' = ({BootSteps[k] : k \in 1 .. boot - 1} \cap Singletons)
                          \cup ({BootSteps[boot]} \cap Singletons)
      BY <1>1 DEF BootStep, MainFirstAndLast
    <3>3. {BootSteps[k] : k \in 1 .. boot} = {BootSteps[k] : k \in 1 .. boot - 1} \cup {BootSteps[boot]}
      BY <3>1
    <3> QED
      BY <3>1, <3>2, <3>3
  <2>3. MainFirstAndLast'
    BY <1>1, <2>2 DEF BootStep, MainFirstAndLast
  <2>4. NextTickIsAhead'
    BY <1>1 DEF BootStep, NextTickIsAhead, timing
  <2> QED
    BY <2>1, <2>3, <2>4
<1>2. CASE BootThrows
  BY <1>2 DEF BootThrows, AppTypeOK, MainFirstAndLast, NextTickIsAhead, timing
<1>3. CASE StartThreads
  <2>1. published = Singletons
    <3>1. boot - 1 = 10
      BY <1>3, TenSteps DEF StartThreads, AppTypeOK
    <3> QED
      BY <1>3, <3>1, TenSteps DEF StartThreads, MainFirstAndLast
  <2>2. MainFirstAndLast' /\ AppTypeOK'
    BY <1>3, <2>1 DEF StartThreads, MainFirstAndLast, AppTypeOK, timing
  <2>3. NextTickIsAhead'
    BY <1>3 DEF StartThreads, NextTickIsAhead, MainFirstAndLast, timing, AppAssumption
  <2> QED
    BY <2>2, <2>3
<1>4. CASE JoinLoop
  BY <1>4 DEF JoinLoop, AppTypeOK, MainFirstAndLast, NextTickIsAhead, timing
<1>5. CASE JoinIo
  BY <1>5 DEF JoinIo, AppTypeOK, MainFirstAndLast, NextTickIsAhead, timing
<1>6. CASE DestroyLogger \/ DestroyFoxglove \/ DestroyMembers
  BY <1>6 DEF DestroyLogger, DestroyFoxglove, DestroyMembers, Destroys, Ends, AppTypeOK,
     MainFirstAndLast, NextTickIsAhead, timing
<1> QED
  BY <1>1, <1>2, <1>3, <1>4, <1>5, <1>6 DEF Main

(* The control loop.                                                         *)
LEMMA LoopStep ==
    ASSUME AppAssumption, AppIInv, Alive, Loop
    PROVE  AppIInv' /\ (loop = "checking" /\ loop' = "ticking" => sincePrevious >= Period)
<1> USE DEF AppIInv
<1>1. /\ due \in Int /\ sinceStart \in Nat /\ sincePrevious \in Nat
      /\ Period \in Nat /\ Period > 0 /\ MaxTick \in Nat /\ MaxLate \in Nat
  BY DEF AppTypeOK, AppAssumption
<1>2. CASE TickBegins
  BY <1>1, <1>2 DEF TickBegins, AppTypeOK, MainFirstAndLast, NextTickIsAhead, timing
<1>3. CASE TickEnds
  BY <1>1, <1>3 DEF TickEnds, NextDue, AppTypeOK, MainFirstAndLast, NextTickIsAhead
<1>4. CASE TickThrows
  BY <1>1, <1>4 DEF TickThrows, AppTypeOK, MainFirstAndLast, NextTickIsAhead, timing
<1>5. CASE TimePasses
  BY <1>1, <1>5 DEF TimePasses, AppTypeOK, MainFirstAndLast, NextTickIsAhead
<1> QED
  BY <1>2, <1>3, <1>4, <1>5 DEF Loop

LEMMA AppIInvStep ==
    ASSUME AppAssumption, AppIInv, [AppNext]_processVars
    PROVE  AppIInv' /\ [loop = "checking" /\ loop' = "ticking" => sincePrevious >= Period]_<<loop, timing>>
<1>1. CASE Alive /\ Main
  <2>1. loop = "checking" => loop' = loop
    BY <1>1 DEF Main, BootStep, BootThrows, StartThreads, JoinLoop, JoinIo, DestroyLogger,
       DestroyFoxglove, DestroyMembers, Destroys, AppIInv, MainFirstAndLast
  <2> QED
    BY <1>1, <2>1, MainStep
<1>2. CASE Alive /\ Loop
  BY <1>2, LoopStep
<1>3. CASE Alive /\ (WriterJoined \/ IoEnds \/ Interrupt \/ ReaderAsserts)
  BY <1>3 DEF WriterJoined, IoEnds, Interrupt, ReaderAsserts, Ends, AppIInv, AppTypeOK, MainFirstAndLast,
     NextTickIsAhead, timing
<1>4. CASE UNCHANGED processVars
  BY <1>4 DEF processVars, timing, AppIInv, AppTypeOK, MainFirstAndLast, NextTickIsAhead
<1> QED
  BY <1>1, <1>2, <1>3, <1>4 DEF AppNext

LEMMA AppIInvKept == AppSpec => []AppIInv
<1>1. AppInit => AppIInv
  BY AppIInvInit, AppAssumption
<1>2. AppIInv /\ [AppNext]_processVars => AppIInv'
  BY AppIInvStep, AppAssumption
<1> QED
  BY <1>1, <1>2, PTL DEF AppSpec

-----------------------------------------------------------------------------
(* Every variable keeps its type: next_tick is never further behind than a   *)
(* tick may take and a wake-up may be late, nor further ahead than a period. *)
THEOREM AppTypesKept == AppSpec => []AppTypeOK
<1>1. AppIInv => AppTypeOK
  BY DEF AppIInv
<1> QED
  BY <1>1, AppIInvKept, PTL

(* The control loop and the io thread find the singletons they call          *)
(* instance() of, wherever run() throws or is interrupted.                   *)
THEOREM SingletonsOutliveThreads == AppSpec => []ThreadsFindSingletons
<1>1. AppIInv => ThreadsFindSingletons
  BY DEF AppIInv, MainFirstAndLast, ThreadsFindSingletons, Alive, Singletons
<1> QED
  BY <1>1, AppIInvKept, PTL

(* Of three ticks the last begins at least loop_time after the first,        *)
(* however long a tick takes and however late the loop wakes.                *)
THEOREM TicksSpaced == AppSpec => TicksAreSpaced
<1>1. AppIInv /\ [AppNext]_processVars => [loop = "checking" /\ loop' = "ticking" => sincePrevious >= Period]_<<loop, timing>>
  BY AppIInvStep, AppAssumption
<1> QED
  BY <1>1, AppIInvKept, PTL DEF AppSpec, TicksAreSpaced

-----------------------------------------------------------------------------
(* A port has one read at most in the io_context or at work. A handler has   *)
(* work from one port, a failed read has nothing in it. Only a port that is  *)
(* open is read.                                                             *)
Busy == io \in {"handling", "tracking", "thrown"}

OneReadEach ==
    /\ \A k \in DOMAIN ready : ready[k].source \in open
    /\ Busy => current \in open
    /\ \A k \in DOMAIN ready : ready[k].source \notin armed /\ (Busy => ready[k].source # current)
    /\ \A j, k \in DOMAIN ready : j # k => ready[j].source # ready[k].source
    /\ \A k \in DOMAIN ready : ready[k].error => ready[k].read = <<>>
    /\ Busy => current \notin armed
    /\ ~Busy => work = <<>>
    /\ io = "tracking" => work # <<>> /\ Handled(Head(work))

(* What is in a read came from its port.                                     *)
ReadsAreOfPort ==
    /\ \A i \in DOMAIN work : work[i].source = current
    /\ \A k \in DOMAIN ready : \A i \in DOMAIN ready[k].read :
          ready[k].read[i].source = ready[k].source
    /\ \A source \in Sources : \A k \in DOMAIN incoming[source] :
          \A i \in DOMAIN incoming[source][k] : incoming[source][k][i].source = source

(* The messages of a port wait in the order of arrival: within a read, those *)
(* that the io_context has before those that the system has.                 *)
Ascending(read) == \A i, j \in DOMAIN read : i < j => read[i].n < read[j].n
Before(read, next) == \A i \in DOMAIN read, j \in DOMAIN next : read[i].n < next[j].n

PortsInOrder ==
    /\ Ascending(work) /\ \A k \in DOMAIN ready : Ascending(ready[k].read)
    /\ \A k \in DOMAIN incoming[current] : Before(work, incoming[current][k])
    /\ \A j \in DOMAIN ready : \A k \in DOMAIN incoming[ready[j].source] :
          Before(ready[j].read, incoming[ready[j].source][k])
    /\ \A source \in Sources : \A k \in DOMAIN incoming[source] :
          /\ Ascending(incoming[source][k])
          /\ \A j \in 1 .. k - 1 : Before(incoming[source][j], incoming[source][k])

ArrivedIsNumbered ==
    /\ \A k \in DOMAIN arrived : arrived[k].n = k
    /\ \A source \in Sources : Waiting(source) \subseteq Range(arrived)

(* The message in hand has been logged and not tracked.                      *)
Logged(k) == logged[k].source \in Sources
LoggedInHand ==
    LET all == IoCount(logged, Len(logged)) IN
    /\ io \in {"polling", "handling", "ended"} => all = IoCount(tracked, Len(tracked))
    /\ io = "tracking" =>
          /\ all = IoCount(tracked, Len(tracked)) + 1
          /\ \A k \in DOMAIN logged : Logged(k) /\ IoCount(logged, k) = all => logged[k] = Head(work)

(* What the receive thread has is its own; once close() has returned it does *)
(* not receive any more.                                                     *)
SimIsApart ==
    /\ \A k \in DOMAIN frames : frames[k].source = "sim"
    /\ frame.source = "sim"
    /\ closer # "idle" => ~simRunning
    /\ closer = "closed" => sim \in {"none", "checking", "done"}

IInv ==
    /\ TypeOK /\ OneReadEach /\ ReadsAreOfPort /\ PortsInOrder /\ ArrivedIsNumbered
    /\ SourcesInOrder /\ IoLogsInStateOrder /\ LoggedInHand /\ SimIsApart

-----------------------------------------------------------------------------
(* Sequences by position.                                                    *)
LEMMA Appended ==
    ASSUME NEW S, NEW s \in Seq(S), NEW x \in S
    PROVE  /\ Append(s, x) \in Seq(S) /\ Len(Append(s, x)) = Len(s) + 1 /\ Len(s) \in Nat
           /\ Append(s, x)[Len(s) + 1] = x
           /\ \A k \in DOMAIN s : Append(s, x)[k] = s[k]
           /\ DOMAIN s = 1..Len(s) /\ DOMAIN Append(s, x) = 1..(Len(s) + 1)
<1>1. Len(s) \in Nat /\ DOMAIN s = 1..Len(s) /\ Append(s, x) \in Seq(S)
      /\ Len(Append(s, x)) = Len(s) + 1
  OBVIOUS
<1> QED
  BY <1>1, AppendProperties, LenProperties

LEMMA Beheaded ==
    ASSUME NEW S, NEW s \in Seq(S), s # <<>>
    PROVE  /\ Head(s) \in S /\ Tail(s) \in Seq(S) /\ Len(s) \in Nat \ {0} /\ Len(Tail(s)) = Len(s) - 1
           /\ Head(s) = s[1]
           /\ \A k \in 1 .. Len(s) - 1 : Tail(s)[k] = s[k + 1]
           /\ DOMAIN s = 1..Len(s) /\ DOMAIN Tail(s) = 1 .. Len(s) - 1
<1>1. Len(s) \in Nat /\ Len(s) # 0 /\ DOMAIN s = 1..Len(s)
  BY EmptySeq, LenProperties
<1>2. Head(s) \in S /\ Tail(s) \in Seq(S) /\ Len(Tail(s)) = Len(s) - 1
  BY HeadTailProperties
<1>3. \A k \in 1 .. Len(s) - 1 : Tail(s)[k] = s[k + 1]
  BY <1>1, HeadTailProperties
<1>4. Head(s) = s[1]
  OBVIOUS
<1> QED
  BY <1>1, <1>2, <1>3, <1>4, LenProperties

LEMMA Joined ==
    ASSUME NEW S, NEW s \in Seq(S), NEW t \in Seq(S)
    PROVE  /\ s \o t \in Seq(S) /\ Len(s \o t) = Len(s) + Len(t) /\ Len(s) \in Nat /\ Len(t) \in Nat
           /\ \A k \in DOMAIN s : (s \o t)[k] = s[k]
           /\ \A k \in DOMAIN t : (s \o t)[Len(s) + k] = t[k]
           /\ DOMAIN s = 1..Len(s) /\ DOMAIN t = 1..Len(t) /\ DOMAIN (s \o t) = 1..(Len(s) + Len(t))
<1>1. Len(s) \in Nat /\ Len(t) \in Nat /\ DOMAIN s = 1..Len(s) /\ DOMAIN t = 1..Len(t)
  BY LenProperties
<1>2. s \o t \in Seq(S) /\ Len(s \o t) = Len(s) + Len(t)
  BY ConcatProperties
<1>3. \A k \in 1 .. Len(s) + Len(t) : (s \o t)[k] = IF k <= Len(s) THEN s[k] ELSE t[k - Len(s)]
  BY ConcatProperties
<1>4. ASSUME NEW k \in DOMAIN t PROVE (s \o t)[Len(s) + k] = t[k]
  <2>1. Len(s) + k \in 1 .. Len(s) + Len(t) /\ ~(Len(s) + k <= Len(s)) /\ (Len(s) + k) - Len(s) = k
    BY <1>1
  <2> QED
    BY <1>3, <2>1
<1>5. ASSUME NEW k \in DOMAIN s PROVE (s \o t)[k] = s[k]
  BY <1>1, <1>3
<1> QED
  BY <1>1, <1>2, <1>4, <1>5, LenProperties

LEMMA AppendedByPlace ==
    ASSUME NEW S, NEW s \in Seq(S), NEW x \in S
    PROVE  \A k \in DOMAIN Append(s, x) : \/ k \in DOMAIN s /\ Append(s, x)[k] = s[k]
                                          \/ k = Len(s) + 1 /\ Append(s, x)[k] = x
<1>1. PICK len \in Nat : len = Len(s)
  OBVIOUS
<1>2. /\ DOMAIN s = 1..len /\ DOMAIN Append(s, x) = 1..(len + 1) /\ Append(s, x)[len + 1] = x
      /\ \A k \in 1..len : Append(s, x)[k] = s[k]
  BY <1>1, Appended
<1>3. ASSUME NEW k \in 1..(len + 1)
      PROVE  (k \in 1..len /\ Append(s, x)[k] = s[k]) \/ (k = len + 1 /\ Append(s, x)[k] = x)
  <2>1. k = len + 1 \/ k \in 1..len
    BY <1>1
  <2> QED
    BY <1>2, <2>1
<1>4. SUFFICES ASSUME NEW k \in DOMAIN Append(s, x)
               PROVE  \/ k \in DOMAIN s /\ Append(s, x)[k] = s[k]
                      \/ k = Len(s) + 1 /\ Append(s, x)[k] = x
  OBVIOUS
<1>5. k \in 1..(len + 1)
  BY <1>2
<1> QED
  BY <1>1, <1>2, <1>3, <1>5

LEMMA BeheadedByPlace ==
    ASSUME NEW S, NEW s \in Seq(S), s # <<>>
    PROVE  /\ Head(s) = s[1] /\ 1 \in DOMAIN s
           /\ \A k \in DOMAIN Tail(s) : k \in Nat \ {0} /\ k + 1 \in DOMAIN s /\ Tail(s)[k] = s[k + 1]
<1>1. PICK len \in Nat \ {0} : len = Len(s)
  BY Beheaded
<1> QED
  BY <1>1, Beheaded

(* What waits, by position.                                                  *)
WaitingIn(w, completed, reads, source) ==
    FromSource(Range(w), source)
        \cup FromSource(In({done.read : done \in Range(completed)}), source)
        \cup In(Range(reads))

LEMMA ByPlace ==
    ASSUME NEW w, NEW completed, NEW reads, NEW source, NEW msg
    PROVE  msg \in WaitingIn(w, completed, reads, source)
           <=> \/ msg.source = source /\ \E i \in DOMAIN w : msg = w[i]
               \/ msg.source = source /\ \E k \in DOMAIN completed : \E i \in DOMAIN completed[k].read :
                     msg = completed[k].read[i]
               \/ \E k \in DOMAIN reads : \E i \in DOMAIN reads[k] : msg = reads[k][i]
<1>1. msg \in FromSource(Range(w), source) <=> msg.source = source /\ \E i \in DOMAIN w : msg = w[i]
  BY DEF FromSource, Range
<1>2. ASSUME NEW rs
      PROVE  msg \in In(rs) <=> \E read \in rs : \E i \in DOMAIN read : msg = read[i]
  <2>1. \A read \in rs : msg \in Range(read) <=> \E i \in DOMAIN read : msg = read[i]
    BY DEF Range
  <2>2. msg \in In(rs) <=> \E read \in rs : msg \in Range(read)
    BY DEF In
  <2> QED
    BY <2>1, <2>2
<1>3. (\E read \in {done.read : done \in Range(completed)} : \E i \in DOMAIN read : msg = read[i])
         <=> \E k \in DOMAIN completed : \E i \in DOMAIN completed[k].read : msg = completed[k].read[i]
  BY DEF Range
<1>4. (\E read \in Range(reads) : \E i \in DOMAIN read : msg = read[i])
         <=> \E k \in DOMAIN reads : \E i \in DOMAIN reads[k] : msg = reads[k][i]
  BY DEF Range
<1>5. \A rs : msg \in FromSource(rs, source) <=> msg \in rs /\ msg.source = source
  BY DEF FromSource
<1> QED
  BY <1>1, <1>2, <1>3, <1>4, <1>5, Zenon DEF WaitingIn

LEMMA WaitingByPlace ==
    ASSUME NEW source, NEW msg
    PROVE  msg \in Waiting(source) <=>
              \/ msg.source = source /\ \E i \in DOMAIN work : msg = work[i]
              \/ msg.source = source /\ \E k \in DOMAIN ready : \E i \in DOMAIN ready[k].read :
                    msg = ready[k].read[i]
              \/ \E k \in DOMAIN incoming[source] : \E i \in DOMAIN incoming[source][k] :
                    msg = incoming[source][k][i]
<1>1. Waiting(source) = WaitingIn(work, ready, incoming[source], source)
  BY DEF Waiting, WaitingIn
<1>2. ASSUME NEW w, NEW completed, NEW reads
      PROVE  msg \in WaitingIn(w, completed, reads, source)
                <=> \/ msg.source = source /\ \E i \in DOMAIN w : msg = w[i]
                    \/ msg.source = source /\ \E k \in DOMAIN completed : \E i \in DOMAIN completed[k].read :
                          msg = completed[k].read[i]
                    \/ \E k \in DOMAIN reads : \E i \in DOMAIN reads[k] : msg = reads[k][i]
  BY ByPlace
<1> QED
  BY <1>1, <1>2

-----------------------------------------------------------------------------
(* Types.                                                                    *)
LEMMA IInvInit ==
    ASSUME Init
    PROVE  IInv
<1> USE DEF Init, ReceiversInit
<1>1. TypeOK
  <2>1. NoFrame \in Message
    BY ReceiversAssumption DEF NoFrame, NewMessage, Message
  <2>2. ReceiversTypeOK
    <3>1. incoming \in [Sources -> Seq(Seq(Message))]
      BY DEF Sources
    <3>2. open \subseteq Sources /\ armed \subseteq open /\ failed \subseteq open /\ current \in Sources
      BY DEF Sources
    <3>3. ready \in Seq(Completed) /\ work \in Seq(Message)
      BY EmptySeq
    <3>4. arrived \in Seq(Message) /\ logged \in Seq(Message) /\ tracked \in Seq(Message)
      BY EmptySeq
    <3> QED
      BY <3>1, <3>2, <3>3, <3>4, Zenon DEF ReceiversTypeOK
  <2>3. starts \in 0..MaxStarts
    BY MaxStartsAssumption
  <2> QED
    BY <2>1, <2>2, <2>3 DEF TypeOK
<1>2. OneReadEach /\ ReadsAreOfPort
  BY DEF OneReadEach, ReadsAreOfPort, Busy
<1>3. PortsInOrder
  BY DEF PortsInOrder, Ascending, Before, Sources
<1>4. ASSUME NEW source \in Sources PROVE Waiting(source) = {}
  <2>1. DOMAIN work = {} /\ DOMAIN ready = {} /\ DOMAIN incoming[source] = {}
    OBVIOUS
  <2>2. \A msg : msg \notin Waiting(source)
    BY <2>1, WaitingByPlace
  <2> QED
    BY <2>2
<1>5. ArrivedIsNumbered
  BY <1>4 DEF ArrivedIsNumbered
<1>6. SourcesInOrder
  BY <1>4 DEF SourcesInOrder, FromSource, Range
<1>7. \A k : IoCount(<<>>, 0) = 0
  BY FS_EmptySet DEF IoCount
<1>8. IoLogsInStateOrder /\ LoggedInHand
  BY <1>7 DEF IoLogsInStateOrder, LoggedInHand
<1>9. SimIsApart
  BY DEF SimIsApart, NoFrame, NewMessage
<1> QED
  BY <1>1, <1>2, <1>3, <1>5, <1>6, <1>8, <1>9 DEF IInv

LEMMA ArrivesInOrder ==
    ASSUME TypeOK, NEW source \in Sources, Arrive(source)
    PROVE  \E read \in Seq(Message) :
              /\ \A i \in DOMAIN read : read[i].source = source /\ read[i].n = Len(arrived) + i
              /\ incoming' = [incoming EXCEPT ![source] = Append(@, read)]
              /\ arrived' = arrived \o read
<1>0. PICK size \in ReadSizes(source) : \E kinds \in [1..size -> Kinds(source)] :
         LET read == [k \in 1..size |-> NewMessage(source, kinds[k], Len(arrived) + k)]
         IN  /\ Len(arrived) + size <= MaxArrivals
             /\ incoming' = [incoming EXCEPT ![source] = Append(@, read)]
             /\ arrived' = arrived \o read
  BY DEF Arrive
<1>1. PICK kinds \in [1..size -> Kinds(source)] :
         LET read == [k \in 1..size |-> NewMessage(source, kinds[k], Len(arrived) + k)]
         IN  /\ Len(arrived) + size <= MaxArrivals
             /\ incoming' = [incoming EXCEPT ![source] = Append(@, read)]
             /\ arrived' = arrived \o read
  BY <1>0
<1> DEFINE read == [k \in 1..size |-> NewMessage(source, kinds[k], Len(arrived) + k)]
<1>2. size \in Nat
  BY DEF ReadSizes
<1>3. PICK have \in Nat : have = Len(arrived)
  BY DEF TypeOK, ReceiversTypeOK
<1>4. ASSUME NEW k \in 1..size PROVE NewMessage(source, kinds[k], Len(arrived) + k) \in Message
  <2>1. have + k \in 0..MaxArrivals
    BY <1>1, <1>2, <1>3, ReceiversAssumption
  <2>2. kinds[k] \in {"whole", "cut", "other", "invalid", "none"}
    BY DEF Kinds
  <2> QED
    BY <2>1, <2>2, <1>3 DEF NewMessage, Message
<1>5. read \in Seq(Message)
  BY <1>2, <1>4
<1>6. \A i \in DOMAIN read : read[i].source = source /\ read[i].n = Len(arrived) + i
  BY DEF NewMessage
<1> QED
  BY <1>1, <1>5, <1>6

LEMMA FrameIsNumbered ==
    ASSUME TypeOK, FrameArrives
    PROVE  \E msg \in Message : /\ msg.source = "sim" /\ msg.n = Len(arrived) + 1
                                /\ frames' = Append(frames, msg) /\ arrived' = Append(arrived, msg)
<1>1. PICK kind \in {"whole", "invalid"} :
         LET msg == NewMessage("sim", kind, Len(arrived) + 1)
         IN  frames' = Append(frames, msg) /\ arrived' = Append(arrived, msg)
  BY DEF FrameArrives
<1>2. PICK have \in Nat : have = Len(arrived)
  BY DEF TypeOK, ReceiversTypeOK
<1>3. have + 1 \in 0..MaxArrivals
  BY <1>2, ReceiversAssumption DEF FrameArrives
<1> DEFINE msg == NewMessage("sim", kind, Len(arrived) + 1)
<1>4. msg \in Message /\ msg.source = "sim" /\ msg.n = Len(arrived) + 1
  BY <1>2, <1>3 DEF NewMessage, Message
<1> QED
  BY <1>1, <1>4

LEMMA FramesInOrder ==
    ASSUME TypeOK, FrameArrives
    PROVE  \E more \in Seq(Message) :
              /\ \A i \in DOMAIN more : more[i].source = "sim" /\ more[i].n = Len(arrived) + i
              /\ arrived' = arrived \o more
<1>1. PICK msg \in Message : msg.source = "sim" /\ msg.n = Len(arrived) + 1 /\ arrived' = Append(arrived, msg)
  BY FrameIsNumbered
<1>2. arrived \in Seq(Message)
  BY DEF TypeOK, ReceiversTypeOK
<1>3. arrived' = arrived \o <<msg>>
  BY <1>1, <1>2, AppendIsConcat
<1>4. <<msg>> \in Seq(Message) /\ DOMAIN <<msg>> = {1} /\ <<msg>>[1] = msg
  OBVIOUS
<1> QED
  BY <1>1, <1>3, <1>4

LEMMA TypesStep ==
    ASSUME TypeOK, OneReadEach, [Next]_vars
    PROVE  TypeOK'
<1>0. ReceiversTypeOK
  BY DEF TypeOK
<1>1. CASE \E source \in Sources : Arrive(source) /\ UNCHANGED simVars
  <2>1. PICK source \in Sources : Arrive(source) /\ UNCHANGED simVars
    BY <1>1
  <2>2. PICK read \in Seq(Message) : /\ incoming' = [incoming EXCEPT ![source] = Append(@, read)]
                                     /\ arrived' = arrived \o read
    BY <2>1, ArrivesInOrder
  <2>3. incoming' \in [Sources -> Seq(Seq(Message))]
    <3>1. Append(incoming[source], read) \in Seq(Seq(Message))
      BY <1>0, Appended DEF ReceiversTypeOK
    <3> QED
      BY <1>0, <2>2, <3>1 DEF ReceiversTypeOK
  <2>4. arrived' \in Seq(Message)
    BY <1>0, <2>2, Joined DEF ReceiversTypeOK
  <2>5. UNCHANGED <<open, failed, ioVars, appVars, sinkVars, simVars>>
    BY <2>1 DEF Arrive
  <2> QED
    BY <1>0, <2>3, <2>4, <2>5 DEF TypeOK, ReceiversTypeOK, ioVars, appVars, sinkVars, simVars
<1>2. CASE \E source \in Sources : Complete(source) /\ UNCHANGED simVars
  <2>1. PICK source \in Sources : Complete(source) /\ UNCHANGED simVars
    BY <1>2
  <2>2. Head(incoming[source]) \in Seq(Message) /\ Tail(incoming[source]) \in Seq(Seq(Message))
    BY <1>0, <2>1, Beheaded DEF ReceiversTypeOK, Complete
  <2>3. incoming' \in [Sources -> Seq(Seq(Message))]
    BY <1>0, <2>1, <2>2 DEF ReceiversTypeOK, Complete
  <2>4. ready' \in Seq(Completed)
    <3>1. [source |-> source, error |-> FALSE, read |-> Head(incoming[source])] \in Completed
      BY <2>2 DEF Completed
    <3> QED
      BY <1>0, <2>1, <3>1, Appended DEF ReceiversTypeOK, Complete
  <2>5. armed' \subseteq open
    BY <1>0, <2>1 DEF ReceiversTypeOK, Complete
  <2> QED
    BY <1>0, <2>1, <2>3, <2>4, <2>5 DEF TypeOK, ReceiversTypeOK, Complete, appVars, sinkVars, simVars
<1>3. CASE \E source \in Sources : Fail(source) /\ UNCHANGED simVars
  <2>1. PICK source \in Sources : Fail(source) /\ UNCHANGED simVars
    BY <1>3
  <2>4. ready' \in Seq(Completed)
    <3>1. [source |-> source, error |-> TRUE, read |-> <<>>] \in Completed
      BY DEF Completed
    <3> QED
      BY <1>0, <2>1, <3>1, Appended DEF ReceiversTypeOK, Fail
  <2>5. armed' \subseteq open /\ failed' \subseteq open
    BY <1>0, <2>1 DEF ReceiversTypeOK, Fail
  <2> QED
    BY <1>0, <2>1, <2>4, <2>5 DEF TypeOK, ReceiversTypeOK, Fail, appVars, sinkVars, simVars
<1>4. CASE (IoRuns \/ IoGivesUp) /\ UNCHANGED simVars
  <2>1. Head(ready) \in Completed /\ Tail(ready) \in Seq(Completed)
    BY <1>0, <1>4, Beheaded DEF ReceiversTypeOK, IoRuns, IoGivesUp
  <2>2. Head(ready).source \in Sources /\ Head(ready).read \in Seq(Message)
    BY <2>1 DEF Completed
  <2> QED
    BY <1>0, <1>4, <2>1, <2>2 DEF TypeOK, ReceiversTypeOK, IoRuns, IoGivesUp, netVars, appVars,
       sinkVars, simVars
<1>5. CASE IoSkips /\ UNCHANGED simVars
  <2>1. Tail(work) \in Seq(Message)
    BY <1>0, <1>5, Beheaded DEF ReceiversTypeOK, IoSkips
  <2> QED
    BY <1>0, <1>5, <2>1 DEF TypeOK, ReceiversTypeOK, IoSkips, netVars, appVars, sinkVars, simVars
<1>6. CASE IoLogs /\ UNCHANGED simVars
  <2>1. Append(logged, Head(work)) \in Seq(Message)
    BY <1>0, <1>6, Beheaded, Appended DEF ReceiversTypeOK, IoLogs
  <2> QED
    BY <1>0, <1>6, <2>1 DEF TypeOK, ReceiversTypeOK, IoLogs, netVars, appVars, simVars
<1>7. CASE IoTracks /\ UNCHANGED simVars
  <2>1. Append(tracked, Head(work)) \in Seq(Message) /\ Tail(work) \in Seq(Message)
    BY <1>0, <1>7, Beheaded, Appended DEF ReceiversTypeOK, OneReadEach, IoTracks
  <2> QED
    BY <1>0, <1>7, <2>1 DEF TypeOK, ReceiversTypeOK, IoTracks, netVars, appVars, simVars
<1>8. CASE IoRearms /\ UNCHANGED simVars
  BY <1>0, <1>8 DEF TypeOK, ReceiversTypeOK, OneReadEach, Busy, IoRearms, netVars, appVars,
     sinkVars, simVars
<1>9. CASE (IoThrows \/ IoReturns) /\ UNCHANGED simVars
  BY <1>0, <1>9 DEF TypeOK, ReceiversTypeOK, IoThrows, IoReturns, netVars, appVars, sinkVars, simVars
<1>10. CASE (AppStopsIo \/ AppJoinsIo) /\ UNCHANGED simVars
  BY <1>0, <1>10 DEF TypeOK, ReceiversTypeOK, AppStopsIo, AppJoinsIo, netVars, ioVars, sinkVars, simVars
<1>11. CASE FrameArrives
  <2>1. PICK msg \in Message : frames' = Append(frames, msg) /\ arrived' = Append(arrived, msg)
    BY <1>11, FrameIsNumbered
  <2>2. frames' \in Seq(Message) /\ arrived' \in Seq(Message)
    BY <1>0, <2>1, Appended DEF TypeOK, ReceiversTypeOK
  <2>3. ReceiversTypeOK'
    BY <1>0, <1>11, <2>2 DEF ReceiversTypeOK, FrameArrives, netVars, ioVars, appVars, sinkVars
  <2> QED
    BY <1>11, <2>2, <2>3 DEF TypeOK, FrameArrives
<1>12. CASE Start \/ SimChecks \/ SimTimesOut \/ CloseClears \/ CloseJoins
  <2>1. UNCHANGED receiverVars => ReceiversTypeOK'
    BY <1>0 DEF ReceiversTypeOK, receiverVars, netVars, ioVars, appVars, sinkVars
  <2>2. starts' \in 0..MaxStarts
    BY <1>12, MaxStartsAssumption DEF TypeOK, Start, SimChecks, SimTimesOut, CloseClears, CloseJoins
  <2> QED
    BY <1>12, <2>1, <2>2 DEF TypeOK, Start, SimChecks, SimTimesOut, CloseClears, CloseJoins
<1>13. CASE SimReceives
  <2>1. Head(frames) \in Message /\ Tail(frames) \in Seq(Message)
    BY <1>13, Beheaded DEF TypeOK, SimReceives
  <2>2. ReceiversTypeOK'
    BY <1>0, <1>13 DEF ReceiversTypeOK, SimReceives, receiverVars, netVars, ioVars, appVars, sinkVars
  <2> QED
    BY <1>13, <2>1, <2>2 DEF TypeOK, SimReceives
<1>14. CASE SimLogs \/ SimTracks
  <2>1. Append(logged, frame) \in Seq(Message) /\ Append(tracked, frame) \in Seq(Message)
    BY <1>0, Appended DEF TypeOK, ReceiversTypeOK
  <2>2. ReceiversTypeOK'
    BY <1>0, <1>14, <2>1 DEF ReceiversTypeOK, SimLogs, SimTracks, netVars, ioVars, appVars
  <2> QED
    BY <1>14, <2>2 DEF TypeOK, SimLogs, SimTracks
<1>15. CASE UNCHANGED vars
  BY <1>0, <1>15 DEF TypeOK, ReceiversTypeOK, vars, receiverVars, netVars, ioVars, appVars, sinkVars,
     simVars
<1>16. ReceiversNext /\ UNCHANGED simVars => TypeOK'
  BY <1>1, <1>2, <1>3, <1>4, <1>5, <1>6, <1>7, <1>8, <1>9, <1>10 DEF ReceiversNext, Io
<1> QED
  BY <1>11, <1>12, <1>13, <1>14, <1>15, <1>16 DEF Next, SimThread

(* Which actions touch what: the rest of the process leaves the reads alone. *)
LEMMA Elsewhere ==
    ASSUME \/ FrameArrives \/ Start \/ SimThread \/ CloseClears \/ CloseJoins \/ UNCHANGED vars
           \/ AppStopsIo \/ AppJoinsIo
    PROVE  UNCHANGED <<open, incoming, armed, ready, io, current, work>>
BY DEF FrameArrives, Start, SimThread, SimChecks, SimTimesOut, SimReceives, SimLogs, SimTracks,
   CloseClears, CloseJoins, AppStopsIo, AppJoinsIo, vars, receiverVars, netVars, ioVars

LEMMA OneReadStep ==
    ASSUME TypeOK, OneReadEach, [Next]_vars
    PROVE  OneReadEach'
<1>0. ReceiversTypeOK
  BY DEF TypeOK
<1>1. CASE UNCHANGED <<open, armed, ready, io, current, work>>
  BY <1>1 DEF OneReadEach, Busy
<1>2. CASE \E source \in Sources : Complete(source) \/ Fail(source)
  <2>1. PICK source \in Sources : Complete(source) \/ Fail(source)
    BY <1>2
  <2>2. PICK done \in Completed : /\ ready' = Append(ready, done) /\ done.source = source
                                  /\ done.error => done.read = <<>>
    <3>1. CASE Complete(source)
      <4>1. Head(incoming[source]) \in Seq(Message)
        BY <1>0, <3>1, Beheaded DEF ReceiversTypeOK, Complete
      <4> DEFINE done == [source |-> source, error |-> FALSE, read |-> Head(incoming[source])]
      <4>2. done \in Completed
        BY <4>1 DEF Completed
      <4>3. ready' = Append(ready, done)
        BY <3>1 DEF Complete
      <4> QED
        BY <4>2, <4>3
    <3>2. CASE Fail(source)
      <4>1. <<>> \in Seq(Message)
        BY EmptySeq
      <4> DEFINE done == [source |-> source, error |-> TRUE, read |-> <<>>]
      <4>2. done \in Completed
        BY <4>1 DEF Completed
      <4>3. ready' = Append(ready, done)
        BY <3>2 DEF Fail
      <4> QED
        BY <4>2, <4>3
    <3> QED
      BY <2>1, <3>1, <3>2
  <2>3. source \in armed /\ armed' = armed \ {source} /\ UNCHANGED <<open, io, current, work>>
    BY <2>1 DEF Complete, Fail, appVars, sinkVars
  <2>4. PICK len \in Nat : len = Len(ready)
    BY <1>0 DEF ReceiversTypeOK
  <2>5. /\ DOMAIN ready = 1..len /\ DOMAIN ready' = 1 .. len + 1 /\ ready'[len + 1] = done
        /\ \A k \in 1..len : ready'[k] = ready[k]
    BY <1>0, <2>2, <2>4, Appended DEF ReceiversTypeOK
  <2>6. \A k \in DOMAIN ready' : (k \in DOMAIN ready /\ ready'[k] = ready[k]) \/ (k = len + 1 /\ ready'[k] = done)
    BY <2>4, <2>5
  <2>7. source \in open /\ (Busy => source # current)
    BY <1>0, <2>3 DEF OneReadEach, ReceiversTypeOK
  <2>8. Busy' = Busy
    BY <2>3 DEF Busy
  <2>9. \A k \in DOMAIN ready' : /\ ready'[k].source \in open /\ ready'[k].source \notin armed'
                                 /\ Busy => ready'[k].source # current
                                 /\ ready'[k].error => ready'[k].read = <<>>
    BY <2>2, <2>3, <2>6, <2>7 DEF OneReadEach
  <2>10. \A j, k \in DOMAIN ready' : j # k => ready'[j].source # ready'[k].source
    BY <2>2, <2>3, <2>6 DEF OneReadEach
  <2> QED
    BY <2>3, <2>8, <2>9, <2>10 DEF OneReadEach
<1>3. CASE IoRuns \/ IoGivesUp
  <2>1. PICK len \in Nat \ {0} : len = Len(ready)
    BY <1>0, <1>3, Beheaded DEF ReceiversTypeOK, IoRuns, IoGivesUp
  <2>2. /\ DOMAIN ready = 1..len /\ DOMAIN ready' = 1 .. len - 1 /\ Head(ready) = ready[1]
        /\ \A k \in 1 .. len - 1 : ready'[k] = ready[k + 1]
    BY <1>0, <1>3, <2>1, Beheaded DEF ReceiversTypeOK, IoRuns, IoGivesUp
  <2>3. \A k \in DOMAIN ready' : k + 1 \in DOMAIN ready /\ ready'[k] = ready[k + 1] /\ k + 1 # 1 /\ k \in Nat
    BY <2>1, <2>2
  <2>4. 1 \in DOMAIN ready
    BY <2>1, <2>2
  <2>5. UNCHANGED <<open, armed>> /\ ~Busy
    BY <1>3 DEF IoRuns, IoGivesUp, Busy, netVars
  <2>6. \A k \in DOMAIN ready' : /\ ready'[k].source \in open /\ ready'[k].source \notin armed'
                                 /\ ready'[k].source # ready[1].source
                                 /\ ready'[k].error => ready'[k].read = <<>>
    BY <2>3, <2>4, <2>5 DEF OneReadEach
  <2>7. \A j, k \in DOMAIN ready' : j # k => ready'[j].source # ready'[k].source
    <3> SUFFICES ASSUME NEW j \in DOMAIN ready', NEW k \in DOMAIN ready', j # k
                 PROVE  ready'[j].source # ready'[k].source
      OBVIOUS
    <3>1. j + 1 # k + 1
      BY <2>3
    <3> QED
      BY <2>3, <3>1 DEF OneReadEach
  <2>8. CASE IoRuns
    <3>1. current' = ready[1].source /\ io' = "handling"
      BY <2>2, <2>8 DEF IoRuns
    <3>2. ready[1].source \in open /\ ready[1].source \notin armed
      BY <2>4 DEF OneReadEach
    <3> QED
      BY <2>5, <2>6, <2>7, <3>1, <3>2 DEF OneReadEach, Busy
  <2>9. CASE IoGivesUp
    <3>1. UNCHANGED <<io, current, work>>
      BY <2>9 DEF IoGivesUp
    <3> QED
      BY <2>5, <2>6, <2>7, <3>1 DEF OneReadEach, Busy
  <2> QED
    BY <1>3, <2>8, <2>9
<1>4. CASE IoSkips \/ IoLogs \/ IoTracks \/ IoThrows
  <2>1. UNCHANGED <<open, armed, ready, current>>
    BY <1>4 DEF IoSkips, IoLogs, IoTracks, IoThrows, netVars
  <2>2. Busy /\ Busy'
    BY <1>4 DEF IoSkips, IoLogs, IoTracks, IoThrows, Busy
  <2>3. io' = "tracking" => work' # <<>> /\ Handled(Head(work'))
    BY <1>4 DEF IoSkips, IoLogs, IoTracks, IoThrows
  <2> QED
    BY <2>1, <2>2, <2>3 DEF OneReadEach
<1>5. CASE IoRearms
  <2>1. Busy /\ ~Busy' /\ work = <<>> /\ io' # "tracking"
    BY <1>5 DEF IoRearms, Busy
  <2> QED
    BY <1>5, <2>1 DEF IoRearms, OneReadEach, netVars
<1>6. CASE IoReturns
  <2>1. ~Busy /\ ~Busy' /\ io' # "tracking"
    BY <1>6 DEF IoReturns, Busy
  <2> QED
    BY <1>6, <2>1 DEF IoReturns, OneReadEach, netVars
<1>7. ASSUME NEW source \in Sources, Arrive(source) PROVE OneReadEach'
  BY <1>1, <1>7 DEF Arrive, ioVars
<1> QED
  BY <1>1, <1>2, <1>3, <1>4, <1>5, <1>6, <1>7, Elsewhere DEF Next, ReceiversNext, Io

LEMMA ReadsStep ==
    ASSUME TypeOK, OneReadEach, ReadsAreOfPort, [Next]_vars
    PROVE  ReadsAreOfPort'
<1>0. ReceiversTypeOK
  BY DEF TypeOK
<1>1. CASE UNCHANGED <<incoming, ready, current, work>>
  BY <1>1 DEF ReadsAreOfPort
<1>2. ASSUME NEW source \in Sources, Arrive(source) PROVE ReadsAreOfPort'
  <2>1. PICK read \in Seq(Message) :
           /\ \A i \in DOMAIN read : read[i].source = source
           /\ incoming' = [incoming EXCEPT ![source] = Append(@, read)]
    BY <1>2, ArrivesInOrder
  <2>2. incoming[source] \in Seq(Seq(Message))
    BY <1>0 DEF ReceiversTypeOK
  <2>3. \A k \in DOMAIN Append(incoming[source], read) :
           (k \in DOMAIN incoming[source] /\ Append(incoming[source], read)[k] = incoming[source][k])
              \/ Append(incoming[source], read)[k] = read
    BY <2>2, Appended
  <2>4. \A other \in Sources : incoming'[other] =
           IF other = source THEN Append(incoming[source], read) ELSE incoming[other]
    BY <1>0, <2>1 DEF ReceiversTypeOK
  <2>5. \A other \in Sources : \A k \in DOMAIN incoming'[other] :
           \A i \in DOMAIN incoming'[other][k] : incoming'[other][k][i].source = other
    BY <2>1, <2>3, <2>4 DEF ReadsAreOfPort
  <2> QED
    BY <1>2, <2>5 DEF ReadsAreOfPort, Arrive, ioVars
<1>3. ASSUME NEW source \in Sources, Complete(source) PROVE ReadsAreOfPort'
  <2>1. incoming[source] \in Seq(Seq(Message)) /\ incoming[source] # <<>>
    BY <1>0, <1>3 DEF ReceiversTypeOK, Complete
  <2>2. PICK done : /\ ready' = Append(ready, done) /\ done.source = source
                    /\ done.read = incoming[source][1] /\ done \in Completed
    <3>1. Head(incoming[source]) = incoming[source][1] /\ Head(incoming[source]) \in Seq(Message)
      BY <2>1, Beheaded
    <3> DEFINE done == [source |-> source, error |-> FALSE, read |-> Head(incoming[source])]
    <3>2. ready' = Append(ready, done) /\ done \in Completed
      BY <1>3, <3>1 DEF Complete, Completed
    <3> QED
      BY <3>1, <3>2
  <2>3. \A k \in DOMAIN ready' : (k \in DOMAIN ready /\ ready'[k] = ready[k]) \/ ready'[k] = done
    BY <1>0, <2>2, Appended DEF ReceiversTypeOK
  <2>4. \A k \in DOMAIN Tail(incoming[source]) :
           k + 1 \in DOMAIN incoming[source] /\ Tail(incoming[source])[k] = incoming[source][k + 1]
    BY <2>1, BeheadedByPlace
  <2>5. \A other \in Sources : incoming'[other] =
           IF other = source THEN Tail(incoming[source]) ELSE incoming[other]
    BY <1>0, <1>3 DEF ReceiversTypeOK, Complete
  <2>6. \A other \in Sources : \A k \in DOMAIN incoming'[other] :
           \A i \in DOMAIN incoming'[other][k] : incoming'[other][k][i].source = other
    <3> SUFFICES ASSUME NEW other \in Sources, NEW k \in DOMAIN incoming'[other]
                 PROVE  \A i \in DOMAIN incoming'[other][k] : incoming'[other][k][i].source = other
      OBVIOUS
    <3>1. \E old \in DOMAIN incoming[other] : incoming'[other][k] = incoming[other][old]
      BY <2>4, <2>5
    <3> QED
      BY <3>1 DEF ReadsAreOfPort
  <2>7. 1 \in DOMAIN incoming[source]
    BY <2>1, Beheaded
  <2>8. \A k \in DOMAIN ready' : \A i \in DOMAIN ready'[k].read : ready'[k].read[i].source = ready'[k].source
    BY <2>2, <2>3, <2>7 DEF ReadsAreOfPort
  <2> QED
    BY <1>3, <2>6, <2>8 DEF ReadsAreOfPort, Complete
<1>4. ASSUME NEW source \in Sources, Fail(source) PROVE ReadsAreOfPort'
  <2> DEFINE done == [source |-> source, error |-> TRUE, read |-> <<>>]
  <2>1. done \in Completed /\ ready' = Append(ready, done)
    <3>1. <<>> \in Seq(Message)
      BY EmptySeq
    <3> QED
      BY <1>4, <3>1 DEF Fail, Completed
  <2>2. \A k \in DOMAIN ready' : (k \in DOMAIN ready /\ ready'[k] = ready[k]) \/ ready'[k] = done
    BY <1>0, <2>1, AppendedByPlace DEF ReceiversTypeOK
  <2> QED
    BY <1>4, <2>2 DEF ReadsAreOfPort, Fail
<1>5. CASE IoRuns \/ IoGivesUp
  <2>1. /\ Head(ready) = ready[1] /\ 1 \in DOMAIN ready
        /\ \A k \in DOMAIN ready' : k + 1 \in DOMAIN ready /\ ready'[k] = ready[k + 1]
    BY <1>0, <1>5, BeheadedByPlace DEF ReceiversTypeOK, IoRuns, IoGivesUp
  <2>2. incoming' = incoming
    BY <1>5 DEF IoRuns, IoGivesUp, netVars
  <2>3. CASE IoRuns
    BY <2>1, <2>2, <2>3 DEF IoRuns, ReadsAreOfPort
  <2>4. CASE IoGivesUp
    BY <2>1, <2>2, <2>4 DEF IoGivesUp, ReadsAreOfPort
  <2> QED
    BY <1>5, <2>3, <2>4
<1>6. CASE IoSkips \/ IoTracks
  <2>1. work # <<>> /\ work' = Tail(work) /\ UNCHANGED <<incoming, ready, current>>
    BY <1>6 DEF IoSkips, IoTracks, OneReadEach, netVars
  <2>2. \A k \in DOMAIN work' : k + 1 \in DOMAIN work /\ work'[k] = work[k + 1]
    BY <1>0, <2>1, Beheaded DEF ReceiversTypeOK
  <2> QED
    BY <2>1, <2>2 DEF ReadsAreOfPort
<1>7. CASE IoLogs \/ IoRearms \/ IoThrows \/ IoReturns
  BY <1>1, <1>7 DEF IoLogs, IoRearms, IoThrows, IoReturns, netVars
<1> QED
  BY <1>1, <1>2, <1>3, <1>4, <1>5, <1>6, <1>7, Elsewhere DEF Next, ReceiversNext, Io

-----------------------------------------------------------------------------
(* Order. All that waits has arrived, and so is numbered below what arrives. *)
LEMMA WaitingBelow ==
    ASSUME TypeOK, ArrivedIsNumbered, NEW source \in Sources, NEW msg \in Waiting(source)
    PROVE  msg.n \in 1..Len(arrived)
<1>1. PICK k \in DOMAIN arrived : msg = arrived[k]
  BY DEF ArrivedIsNumbered, Range
<1> QED
  BY <1>1 DEF ArrivedIsNumbered, TypeOK, ReceiversTypeOK

LEMMA OrderStep ==
    ASSUME TypeOK, OneReadEach, ReadsAreOfPort, PortsInOrder, ArrivedIsNumbered, [Next]_vars
    PROVE  PortsInOrder'
<1>0. ReceiversTypeOK
  BY DEF TypeOK
<1>1. CASE UNCHANGED <<incoming, ready, current, work>>
  BY <1>1 DEF PortsInOrder, Ascending, Before
<1>2. ASSUME NEW source \in Sources, Arrive(source) PROVE PortsInOrder'
  <2>1. PICK read \in Seq(Message) :
           /\ \A i \in DOMAIN read : read[i].source = source /\ read[i].n = Len(arrived) + i
           /\ incoming' = [incoming EXCEPT ![source] = Append(@, read)]
    BY <1>2, ArrivesInOrder
  <2>2. PICK have \in Nat : have = Len(arrived)
    BY <1>0 DEF ReceiversTypeOK
  <2>3. /\ incoming[source] \in Seq(Seq(Message)) /\ \A k \in DOMAIN read : k \in Nat \ {0}
        /\ UNCHANGED <<ready, current, work>>
    BY <1>0, <1>2 DEF ReceiversTypeOK, Arrive, ioVars
  <2>4. \A other \in Sources : incoming'[other] =
           IF other = source THEN Append(incoming[source], read) ELSE incoming[other]
    BY <1>0, <2>1 DEF ReceiversTypeOK
  <2>5. \A other \in Sources : \A k \in DOMAIN incoming'[other] :
           \/ k \in DOMAIN incoming[other] /\ incoming'[other][k] = incoming[other][k]
           \/ other = source /\ incoming'[other][k] = read
    <3>1. \A k \in DOMAIN Append(incoming[source], read) :
             \/ k \in DOMAIN incoming[source] /\ Append(incoming[source], read)[k] = incoming[source][k]
             \/ Append(incoming[source], read)[k] = read
      BY <2>3, AppendedByPlace
    <3> QED
      BY <2>4, <3>1
  <2>6. Ascending(read)
    BY <2>1, <2>2, <2>3 DEF Ascending
  <2>7. ASSUME NEW old, \A i \in DOMAIN old : old[i] \in Waiting(source)
        PROVE  Before(old, read)
    <3>1. \A i \in DOMAIN old : old[i].n \in 1..have
      BY <2>2, <2>7, WaitingBelow
    <3> QED
      BY <2>1, <2>2, <2>3, <3>1 DEF Before
  <2>8. current = source => Before(work, read)
    BY <2>7, WaitingByPlace DEF ReadsAreOfPort
  <2>9. \A j \in DOMAIN ready : ready[j].source = source => Before(ready[j].read, read)
    BY <2>7, WaitingByPlace DEF ReadsAreOfPort
  <2>10. \A j \in DOMAIN incoming[source] : Before(incoming[source][j], read)
    BY <2>7, WaitingByPlace
  <2>11. \A k \in DOMAIN incoming'[current] : Before(work, incoming'[current][k])
    BY <1>0, <2>5, <2>8 DEF PortsInOrder, ReceiversTypeOK
  <2>12. \A j \in DOMAIN ready : \A k \in DOMAIN incoming'[ready[j].source] :
            Before(ready[j].read, incoming'[ready[j].source][k])
    <3>1. \A j \in DOMAIN ready : ready[j].source \in Sources
      BY <1>0 DEF ReceiversTypeOK, OneReadEach
    <3> QED
      BY <2>5, <2>9, <3>1 DEF PortsInOrder
  <2>13. ASSUME NEW other \in Sources, NEW k \in DOMAIN incoming'[other]
         PROVE  /\ Ascending(incoming'[other][k])
                /\ \A j \in 1 .. k - 1 : Before(incoming'[other][j], incoming'[other][k])
    <3>1. CASE other # source
      BY <2>4, <2>13, <3>1 DEF PortsInOrder
    <3>2. CASE other = source
      <4>1. PICK len \in Nat : len = Len(incoming[source])
        BY <2>3
      <4>2. /\ DOMAIN incoming[source] = 1..len /\ DOMAIN incoming'[source] = 1..(len + 1)
            /\ incoming'[source][len + 1] = read
            /\ \A j \in 1..len : incoming'[source][j] = incoming[source][j]
        <5>1. incoming'[source] = Append(incoming[source], read)
          BY <2>4
        <5>2. /\ DOMAIN incoming[source] = 1..len /\ DOMAIN Append(incoming[source], read) = 1..(len + 1)
              /\ Append(incoming[source], read)[len + 1] = read
              /\ \A j \in 1..len : Append(incoming[source], read)[j] = incoming[source][j]
          BY <2>3, <4>1, Appended
        <5> QED
          BY <5>1, <5>2
      <4>3. CASE k = len + 1
        <5>1. \A j \in 1 .. k - 1 : j \in 1..len
          BY <4>1, <4>3
        <5> QED
          BY <2>6, <2>10, <3>2, <4>2, <4>3, <5>1
      <4>4. CASE k # len + 1
        <5>1. k \in 1..len /\ \A j \in 1 .. k - 1 : j \in 1..len
          BY <3>2, <4>1, <4>2, <4>4
        <5>2. /\ Ascending(incoming[source][k])
              /\ \A j \in 1 .. k - 1 : Before(incoming[source][j], incoming[source][k])
          BY <4>2, <5>1 DEF PortsInOrder
        <5> QED
          BY <3>2, <4>2, <5>1, <5>2
      <4> QED
        BY <4>3, <4>4
    <3> QED
      BY <3>1, <3>2
  <2> QED
    BY <2>3, <2>11, <2>12, <2>13 DEF PortsInOrder, Ascending
<1>3. ASSUME NEW source \in Sources, Complete(source) PROVE PortsInOrder'
  <2>1. incoming[source] \in Seq(Seq(Message)) /\ incoming[source] # <<>>
    BY <1>0, <1>3 DEF ReceiversTypeOK, Complete
  <2>2. PICK done \in Completed : /\ ready' = Append(ready, done) /\ done.source = source
                                  /\ done.read = incoming[source][1]
    <3>1. Head(incoming[source]) = incoming[source][1] /\ Head(incoming[source]) \in Seq(Message)
      BY <2>1, Beheaded
    <3> DEFINE done == [source |-> source, error |-> FALSE, read |-> Head(incoming[source])]
    <3>2. ready' = Append(ready, done) /\ done \in Completed
      BY <1>3, <3>1 DEF Complete, Completed
    <3> QED
      BY <3>1, <3>2
  <2>3. \A k \in DOMAIN ready' : (k \in DOMAIN ready /\ ready'[k] = ready[k]) \/ ready'[k] = done
    BY <1>0, <2>2, AppendedByPlace DEF ReceiversTypeOK
  <2>4. /\ 1 \in DOMAIN incoming[source]
        /\ \A k \in DOMAIN Tail(incoming[source]) :
              /\ k \in Nat \ {0} /\ k + 1 \in DOMAIN incoming[source]
              /\ Tail(incoming[source])[k] = incoming[source][k + 1]
    BY <2>1, BeheadedByPlace
  <2>5. \A other \in Sources : incoming'[other] =
           IF other = source THEN Tail(incoming[source]) ELSE incoming[other]
    BY <1>0, <1>3 DEF ReceiversTypeOK, Complete
  <2>6. UNCHANGED <<current, work>>
    BY <1>3 DEF Complete
  <2>7. \A other \in Sources : \A k \in DOMAIN incoming'[other] :
           \E old \in DOMAIN incoming[other] : incoming'[other][k] = incoming[other][old]
    BY <2>4, <2>5
  <2>8. \A k \in DOMAIN incoming'[current] : Before(work, incoming'[current][k])
    BY <1>0, <2>7 DEF PortsInOrder, ReceiversTypeOK
  <2>9. \A j \in DOMAIN ready' : Ascending(ready'[j].read)
    BY <2>2, <2>3, <2>4 DEF PortsInOrder
  <2>10. ASSUME NEW j \in DOMAIN ready', NEW k \in DOMAIN incoming'[ready'[j].source]
         PROVE  Before(ready'[j].read, incoming'[ready'[j].source][k])
    <3>1. CASE j \in DOMAIN ready /\ ready'[j] = ready[j]
      <4>1. ready[j].source \in Sources
        BY <1>0, <3>1 DEF ReceiversTypeOK, OneReadEach
      <4>2. PICK old \in DOMAIN incoming[ready[j].source] :
               incoming'[ready[j].source][k] = incoming[ready[j].source][old]
        BY <2>7, <3>1, <4>1
      <4> QED
        BY <3>1, <4>2 DEF PortsInOrder
    <3>2. CASE ready'[j] = done
      <4>1. /\ k \in Nat \ {0} /\ k + 1 \in DOMAIN incoming[source]
            /\ incoming'[source][k] = incoming[source][k + 1]
        BY <2>2, <2>4, <2>5, <3>2
      <4>2. 1 \in 1 .. (k + 1) - 1
        BY <4>1
      <4>3. Before(incoming[source][1], incoming[source][k + 1])
        BY <4>1, <4>2 DEF PortsInOrder
      <4> QED
        BY <2>2, <3>2, <4>1, <4>3
    <3> QED
      BY <2>3, <3>1, <3>2
  <2>11. ASSUME NEW other \in Sources, NEW k \in DOMAIN incoming'[other]
         PROVE  /\ Ascending(incoming'[other][k])
                /\ \A j \in 1 .. k - 1 : Before(incoming'[other][j], incoming'[other][k])
    <3>1. CASE other # source
      BY <2>5, <2>11, <3>1 DEF PortsInOrder
    <3>2. CASE other = source
      <4>1. PICK len \in Nat \ {0} : len = Len(incoming[source])
        BY <2>1, Beheaded
      <4>2. /\ DOMAIN incoming[source] = 1..len /\ DOMAIN incoming'[source] = 1 .. len - 1
            /\ \A j \in 1 .. len - 1 : incoming'[source][j] = incoming[source][j + 1]
        BY <2>1, <2>5, <4>1, Beheaded
      <4>3. /\ k \in 1 .. len - 1 /\ k + 1 \in 1..len
            /\ \A j \in 1 .. k - 1 : j \in 1 .. len - 1 /\ j + 1 \in 1 .. (k + 1) - 1
        BY <3>2, <4>1, <4>2
      <4>4. /\ Ascending(incoming[source][k + 1])
            /\ \A j \in 1 .. (k + 1) - 1 : Before(incoming[source][j], incoming[source][k + 1])
        BY <4>2, <4>3 DEF PortsInOrder
      <4> QED
        BY <3>2, <4>2, <4>3, <4>4
    <3> QED
      BY <3>1, <3>2
  <2>12. Ascending(work)
    BY DEF PortsInOrder
  <2> QED
    BY <2>6, <2>8, <2>9, <2>10, <2>11, <2>12 DEF PortsInOrder
<1>4. ASSUME NEW source \in Sources, Fail(source) PROVE PortsInOrder'
  <2> DEFINE done == [source |-> source, error |-> TRUE, read |-> <<>>]
  <2>1. done \in Completed /\ ready' = Append(ready, done)
    <3>1. <<>> \in Seq(Message)
      BY EmptySeq
    <3> QED
      BY <1>4, <3>1 DEF Fail, Completed
  <2>2. \A k \in DOMAIN ready' : (k \in DOMAIN ready /\ ready'[k] = ready[k]) \/ ready'[k].read = <<>>
    <3>1. \A k \in DOMAIN ready' : (k \in DOMAIN ready /\ ready'[k] = ready[k]) \/ ready'[k] = done
      BY <1>0, <2>1, AppendedByPlace DEF ReceiversTypeOK
    <3> QED
      BY <3>1
  <2>3. Ascending(<<>>) /\ \A next : Before(<<>>, next)
    BY DEF Ascending, Before
  <2>4. UNCHANGED <<incoming, current, work>>
    BY <1>4 DEF Fail
  <2> HIDE DEF done
  <2> QED
    BY <2>2, <2>3, <2>4 DEF PortsInOrder
<1>5. CASE IoRuns \/ IoGivesUp
  <2>1. /\ Head(ready) = ready[1] /\ 1 \in DOMAIN ready
        /\ \A k \in DOMAIN ready' : k + 1 \in DOMAIN ready /\ ready'[k] = ready[k + 1]
    BY <1>0, <1>5, BeheadedByPlace DEF ReceiversTypeOK, IoRuns, IoGivesUp
  <2>2. incoming' = incoming
    BY <1>5 DEF IoRuns, IoGivesUp, netVars
  <2>3. CASE IoRuns
    <3>1. current' = ready[1].source /\ work' = ready[1].read
      BY <2>1, <2>3 DEF IoRuns
    <3> QED
      BY <2>1, <2>2, <3>1 DEF PortsInOrder
  <2>4. CASE IoGivesUp
    BY <2>1, <2>2, <2>4 DEF IoGivesUp, PortsInOrder
  <2> QED
    BY <1>5, <2>3, <2>4
<1>6. CASE IoSkips \/ IoTracks
  <2>1. work # <<>> /\ work' = Tail(work) /\ UNCHANGED <<incoming, ready, current>>
    BY <1>6 DEF IoSkips, IoTracks, OneReadEach, netVars
  <2>2. \A k \in DOMAIN work' : k \in Nat /\ k + 1 \in DOMAIN work /\ work'[k] = work[k + 1]
    BY <1>0, <2>1, BeheadedByPlace DEF ReceiversTypeOK
  <2>3. Ascending(work')
    <3>1. \A i, j \in DOMAIN work' : i < j => i + 1 < j + 1
      BY <2>2
    <3> QED
      BY <2>2, <3>1 DEF PortsInOrder, Ascending
  <2>4. \A next : Before(work, next) => Before(work', next)
    BY <2>2 DEF Before
  <2> QED
    BY <2>1, <2>3, <2>4 DEF PortsInOrder
<1>7. CASE IoLogs \/ IoRearms \/ IoThrows \/ IoReturns
  BY <1>1, <1>7 DEF IoLogs, IoRearms, IoThrows, IoReturns, netVars
<1> QED
  BY <1>1, <1>2, <1>3, <1>4, <1>5, <1>6, <1>7, Elsewhere DEF Next, ReceiversNext, Io

-----------------------------------------------------------------------------
(* What an action does to what waits. The next state, by position.           *)
LEMMA NextByPlace ==
    ASSUME NEW source, NEW msg
    PROVE  msg \in Waiting(source)' <=>
              \/ msg.source = source /\ \E i \in DOMAIN work' : msg = work'[i]
              \/ msg.source = source /\ \E k \in DOMAIN ready' : \E i \in DOMAIN ready'[k].read :
                    msg = ready'[k].read[i]
              \/ \E k \in DOMAIN incoming'[source] : \E i \in DOMAIN incoming'[source][k] :
                    msg = incoming'[source][k][i]
<1>1. Waiting(source)' = WaitingIn(work', ready', incoming'[source], source)
  BY DEF Waiting, WaitingIn
<1>2. ASSUME NEW w, NEW completed, NEW reads
      PROVE  msg \in WaitingIn(w, completed, reads, source)
                <=> \/ msg.source = source /\ \E i \in DOMAIN w : msg = w[i]
                    \/ msg.source = source /\ \E k \in DOMAIN completed : \E i \in DOMAIN completed[k].read :
                          msg = completed[k].read[i]
                    \/ \E k \in DOMAIN reads : \E i \in DOMAIN reads[k] : msg = reads[k][i]
  BY ByPlace
<1> QED
  BY <1>1, <1>2

LEMMA ArriveWaits ==
    ASSUME TypeOK, NEW from \in Sources, Arrive(from), NEW read \in Seq(Message),
           incoming' = [incoming EXCEPT ![from] = Append(@, read)],
           NEW source \in Sources, NEW msg
    PROVE  msg \in Waiting(source)' <=> msg \in Waiting(source) \/ (source = from /\ msg \in Range(read))
<1>0. ReceiversTypeOK
  BY DEF TypeOK
<1>1. UNCHANGED <<work, ready>>
  BY DEF Arrive, ioVars
<1>2. CASE source # from
  <2>1. incoming'[source] = incoming[source]
    BY <1>0, <1>2 DEF ReceiversTypeOK
  <2> QED
    BY <1>1, <1>2, <2>1, WaitingByPlace, NextByPlace
<1>3. CASE source = from
  <2>1. incoming'[source] = Append(incoming[source], read) /\ incoming[source] \in Seq(Seq(Message))
    BY <1>0, <1>3 DEF ReceiversTypeOK
  <2> DEFINE new == Append(incoming[source], read)
  <2>2. PICK len \in Nat : len = Len(incoming[source])
    BY <2>1
  <2>3. /\ DOMAIN incoming[source] = 1..len /\ DOMAIN new = 1..(len + 1) /\ new[len + 1] = read
        /\ \A k \in 1..len : new[k] = incoming[source][k]
    BY <2>1, <2>2, Appended
  <2>4. \A k \in DOMAIN new : \/ k \in DOMAIN incoming[source] /\ new[k] = incoming[source][k]
                              \/ new[k] = read
    BY <2>1, AppendedByPlace
  <2> HIDE DEF new
  <2>5. \A k \in DOMAIN incoming[source] : k \in DOMAIN new /\ new[k] = incoming[source][k]
    BY <2>2, <2>3
  <2>6. len + 1 \in DOMAIN new
    BY <2>2, <2>3
  <2>7. (\E k \in DOMAIN new : \E i \in DOMAIN new[k] : msg = new[k][i])
           <=> \/ \E k \in DOMAIN incoming[source] : \E i \in DOMAIN incoming[source][k] :
                     msg = incoming[source][k][i]
               \/ \E i \in DOMAIN read : msg = read[i]
    BY <2>3, <2>4, <2>5, <2>6
  <2>8. incoming'[source] = new
    BY <2>1 DEF new
  <2>9. msg \in Range(read) <=> \E i \in DOMAIN read : msg = read[i]
    BY DEF Range
  <2> QED
    BY <1>1, <1>3, <2>7, <2>8, <2>9, WaitingByPlace, NextByPlace
<1> QED
  BY <1>2, <1>3

LEMMA CompleteWaits ==
    ASSUME TypeOK, ReadsAreOfPort, NEW from \in Sources, Complete(from), NEW source \in Sources, NEW msg
    PROVE  msg \in Waiting(source)' <=> msg \in Waiting(source)
<1>0. ReceiversTypeOK
  BY DEF TypeOK
<1>1. incoming[from] \in Seq(Seq(Message)) /\ incoming[from] # <<>> /\ work' = work
  BY <1>0 DEF ReceiversTypeOK, Complete
<1>2. PICK done \in Completed : /\ ready' = Append(ready, done) /\ done.source = from
                                /\ done.read = incoming[from][1]
  <2>1. Head(incoming[from]) = incoming[from][1] /\ Head(incoming[from]) \in Seq(Message)
    BY <1>1, Beheaded
  <2> DEFINE done == [source |-> from, error |-> FALSE, read |-> Head(incoming[from])]
  <2>2. ready' = Append(ready, done) /\ done \in Completed
    BY <2>1 DEF Complete, Completed
  <2> QED
    BY <2>1, <2>2
<1>3. PICK len \in Nat : len = Len(ready)
  BY <1>0 DEF ReceiversTypeOK
<1>4. /\ DOMAIN ready = 1..len /\ DOMAIN ready' = 1..(len + 1) /\ ready'[len + 1] = done
      /\ \A k \in 1..len : ready'[k] = ready[k]
  BY <1>0, <1>2, <1>3, Appended DEF ReceiversTypeOK
<1>5. /\ \A k \in DOMAIN ready' : (k \in DOMAIN ready /\ ready'[k] = ready[k]) \/ ready'[k] = done
      /\ \A k \in DOMAIN ready : k \in DOMAIN ready' /\ ready'[k] = ready[k]
      /\ len + 1 \in DOMAIN ready' /\ ready'[len + 1] = done
  BY <1>3, <1>4
<1>6. (\E k \in DOMAIN ready' : \E i \in DOMAIN ready'[k].read : msg = ready'[k].read[i])
         <=> \/ \E k \in DOMAIN ready : \E i \in DOMAIN ready[k].read : msg = ready[k].read[i]
             \/ \E i \in DOMAIN incoming[from][1] : msg = incoming[from][1][i]
  BY <1>2, <1>5
<1>7. 1 \in DOMAIN incoming[from] /\ \A i \in DOMAIN incoming[from][1] : incoming[from][1][i].source = from
  BY <1>1, BeheadedByPlace DEF ReadsAreOfPort
<1>8. CASE source # from
  <2>1. incoming'[source] = incoming[source]
    BY <1>0, <1>8 DEF ReceiversTypeOK, Complete
  <2> QED
    BY <1>1, <1>6, <1>7, <1>8, <2>1, WaitingByPlace, NextByPlace
<1>9. CASE source = from
  <2>1. incoming'[source] = Tail(incoming[source])
    BY <1>0, <1>9 DEF ReceiversTypeOK, Complete
  <2>2. PICK have \in Nat \ {0} : have = Len(incoming[source])
    BY <1>1, <1>9, Beheaded
  <2>3. /\ DOMAIN incoming[source] = 1..have /\ DOMAIN incoming'[source] = 1 .. have - 1
        /\ \A k \in 1 .. have - 1 : incoming'[source][k] = incoming[source][k + 1]
    BY <1>1, <1>9, <2>1, <2>2, Beheaded
  <2>4. \A k \in DOMAIN incoming'[source] : /\ k + 1 \in DOMAIN incoming[source]
                                            /\ incoming'[source][k] = incoming[source][k + 1]
    BY <2>2, <2>3
  <2>5. \A k \in DOMAIN incoming[source] :
           k = 1 \/ (k - 1 \in DOMAIN incoming'[source] /\ incoming'[source][k - 1] = incoming[source][k])
    <3> SUFFICES ASSUME NEW k \in 1..have, k # 1
                 PROVE  k - 1 \in 1 .. have - 1 /\ (k - 1) + 1 = k
      BY <2>3
    <3> QED
      BY <2>2
  <2>6. (\E k \in DOMAIN incoming[source] : \E i \in DOMAIN incoming[source][k] : msg = incoming[source][k][i])
           <=> \/ \E k \in DOMAIN incoming'[source] : \E i \in DOMAIN incoming'[source][k] :
                     msg = incoming'[source][k][i]
               \/ \E i \in DOMAIN incoming[source][1] : msg = incoming[source][1][i]
    BY <1>7, <1>9, <2>4, <2>5
  <2> QED
    BY <1>1, <1>6, <1>7, <1>9, <2>6, WaitingByPlace, NextByPlace
<1> QED
  BY <1>8, <1>9

LEMMA PollWaits ==
    ASSUME TypeOK, OneReadEach,
           IoRuns \/ IoGivesUp \/ (\E from \in Sources : Fail(from)),
           NEW source \in Sources, NEW msg
    PROVE  msg \in Waiting(source)' <=> msg \in Waiting(source)
<1>0. ReceiversTypeOK
  BY DEF TypeOK
<1>1. CASE \E from \in Sources : Fail(from)
  <2>1. PICK from \in Sources : Fail(from)
    BY <1>1
  <2> DEFINE done == [source |-> from, error |-> TRUE, read |-> <<>>]
  <2>2. done \in Completed /\ ready' = Append(ready, done) /\ UNCHANGED <<incoming, work>>
    <3>1. <<>> \in Seq(Message)
      BY EmptySeq
    <3> QED
      BY <2>1, <3>1 DEF Fail, Completed
  <2>3. PICK len \in Nat : len = Len(ready)
    BY <1>0 DEF ReceiversTypeOK
  <2>4. /\ DOMAIN ready = 1..len /\ DOMAIN ready' = 1..(len + 1)
        /\ \A k \in 1..len : ready'[k] = ready[k]
    BY <1>0, <2>2, <2>3, Appended DEF ReceiversTypeOK
  <2>5. \A k \in DOMAIN ready' : (k \in DOMAIN ready /\ ready'[k] = ready[k]) \/ DOMAIN ready'[k].read = {}
    <3>1. \A k \in DOMAIN ready' : (k \in DOMAIN ready /\ ready'[k] = ready[k]) \/ ready'[k] = done
      BY <1>0, <2>2, AppendedByPlace DEF ReceiversTypeOK
    <3> QED
      BY <3>1
  <2>6. \A k \in DOMAIN ready : k \in DOMAIN ready' /\ ready'[k] = ready[k]
    BY <2>3, <2>4
  <2> QED
    BY <2>2, <2>5, <2>6, WaitingByPlace, NextByPlace
<1>2. CASE IoRuns \/ IoGivesUp
  <2>1. PICK len \in Nat \ {0} : len = Len(ready)
    BY <1>0, <1>2, Beheaded DEF ReceiversTypeOK, IoRuns, IoGivesUp
  <2>2. /\ DOMAIN ready = 1..len /\ DOMAIN ready' = 1 .. len - 1 /\ Head(ready) = ready[1]
        /\ \A k \in 1 .. len - 1 : ready'[k] = ready[k + 1]
    BY <1>0, <1>2, <2>1, Beheaded DEF ReceiversTypeOK, IoRuns, IoGivesUp
  <2>3. \A k \in DOMAIN ready' : k + 1 \in DOMAIN ready /\ ready'[k] = ready[k + 1]
    BY <2>1, <2>2
  <2>4. \A k \in DOMAIN ready : k = 1 \/ (k - 1 \in DOMAIN ready' /\ ready'[k - 1] = ready[k])
    <3> SUFFICES ASSUME NEW k \in 1..len, k # 1
                 PROVE  k - 1 \in 1 .. len - 1 /\ (k - 1) + 1 = k
      BY <2>2
    <3> QED
      BY <2>1
  <2>5. 1 \in DOMAIN ready /\ incoming' = incoming /\ work = <<>>
    BY <1>2, <2>1, <2>2 DEF IoRuns, IoGivesUp, netVars, OneReadEach, Busy
  <2>6. (\E k \in DOMAIN ready : \E i \in DOMAIN ready[k].read : msg = ready[k].read[i])
           <=> \/ \E k \in DOMAIN ready' : \E i \in DOMAIN ready'[k].read : msg = ready'[k].read[i]
               \/ \E i \in DOMAIN ready[1].read : msg = ready[1].read[i]
    BY <2>3, <2>4, <2>5
  <2>7. CASE IoRuns
    <3>1. work' = ready[1].read
      BY <2>2, <2>7 DEF IoRuns
    <3>2. ~\E i \in DOMAIN work : msg = work[i]
      BY <2>5
    <3> QED
      BY <2>5, <2>6, <3>1, <3>2, WaitingByPlace, NextByPlace
  <2>8. CASE IoGivesUp
    <3>1. ready[1].read = <<>> /\ work' = work
      BY <2>2, <2>5, <2>8 DEF IoGivesUp, OneReadEach
    <3>2. ~\E i \in DOMAIN ready[1].read : msg = ready[1].read[i]
      BY <3>1
    <3> QED
      BY <2>5, <2>6, <3>1, <3>2, WaitingByPlace, NextByPlace
  <2> QED
    BY <1>2, <2>7, <2>8
<1> QED
  BY <1>1, <1>2

LEMMA HandleWaits ==
    ASSUME TypeOK, OneReadEach, IoSkips \/ IoTracks, NEW source \in Sources, NEW msg
    PROVE  msg \in Waiting(source) <=>
              msg \in Waiting(source)' \/ (msg = Head(work) /\ msg.source = source)
<1>0. work \in Seq(Message) /\ work # <<>> /\ work' = Tail(work) /\ UNCHANGED <<incoming, ready>>
  BY DEF TypeOK, ReceiversTypeOK, IoSkips, IoTracks, OneReadEach, netVars
<1>1. PICK len \in Nat \ {0} : len = Len(work)
  BY <1>0, Beheaded
<1>2. /\ DOMAIN work = 1..len /\ DOMAIN work' = 1 .. len - 1 /\ Head(work) = work[1]
      /\ \A k \in 1 .. len - 1 : work'[k] = work[k + 1]
  BY <1>0, <1>1, Beheaded
<1>3. \A k \in DOMAIN work' : k + 1 \in DOMAIN work /\ work'[k] = work[k + 1]
  BY <1>1, <1>2
<1>4. \A k \in DOMAIN work : k = 1 \/ (k - 1 \in DOMAIN work' /\ work'[k - 1] = work[k])
  <2> SUFFICES ASSUME NEW k \in 1..len, k # 1
               PROVE  k - 1 \in 1 .. len - 1 /\ (k - 1) + 1 = k
    BY <1>2
  <2> QED
    BY <1>1
<1>5. 1 \in DOMAIN work
  BY <1>1, <1>2
<1>6. (\E k \in DOMAIN work : msg = work[k]) <=> (\E k \in DOMAIN work' : msg = work'[k]) \/ msg = Head(work)
  BY <1>2, <1>3, <1>4, <1>5
<1> QED
  BY <1>0, <1>6, WaitingByPlace, NextByPlace

LEMMA HeadIsFirst ==
    ASSUME TypeOK, OneReadEach, PortsInOrder, ReadsAreOfPort, IoSkips \/ IoTracks,
           NEW source, source = current, NEW next \in Waiting(source)'
    PROVE  Head(work).n < next.n
<1>0. work \in Seq(Message) /\ work # <<>> /\ work' = Tail(work) /\ UNCHANGED <<incoming, ready, current>>
  BY DEF TypeOK, ReceiversTypeOK, IoSkips, IoTracks, OneReadEach, netVars
<1>1. /\ Head(work) = work[1] /\ 1 \in DOMAIN work
      /\ \A k \in DOMAIN work' : k \in Nat \ {0} /\ k + 1 \in DOMAIN work /\ work'[k] = work[k + 1]
  BY <1>0, BeheadedByPlace
<1>2. CASE \E i \in DOMAIN work' : next = work'[i]
  <2>1. PICK i \in DOMAIN work' : next = work'[i]
    BY <1>2
  <2>2. 1 < i + 1
    BY <1>1
  <2> QED
    BY <1>1, <2>1, <2>2 DEF PortsInOrder, Ascending
<1>3. CASE next.source = source /\ \E k \in DOMAIN ready' : \E i \in DOMAIN ready'[k].read : next = ready'[k].read[i]
  <2>1. PICK k \in DOMAIN ready : \E i \in DOMAIN ready[k].read : next = ready[k].read[i]
    BY <1>0, <1>3
  <2>2. ready[k].source = current
    BY <1>3, <2>1 DEF ReadsAreOfPort
  <2>3. Busy
    BY DEF IoSkips, IoTracks, Busy
  <2> QED
    BY <2>1, <2>2, <2>3 DEF OneReadEach
<1>4. CASE \E k \in DOMAIN incoming'[source] : \E i \in DOMAIN incoming'[source][k] :
              next = incoming'[source][k][i]
  <2>1. PICK k \in DOMAIN incoming[current] : \E i \in DOMAIN incoming[current][k] : next = incoming[current][k][i]
    BY <1>0, <1>4
  <2>2. Before(work, incoming[current][k])
    BY <2>1 DEF PortsInOrder
  <2> QED
    BY <1>1, <2>1, <2>2 DEF Before
<1> QED
  BY <1>2, <1>3, <1>4, NextByPlace

LEMMA NumberedStep ==
    ASSUME TypeOK, OneReadEach, ReadsAreOfPort, ArrivedIsNumbered, [Next]_vars
    PROVE  ArrivedIsNumbered'
<1>0. ReceiversTypeOK
  BY DEF TypeOK
<1>1. ASSUME arrived' = arrived,
             \A source \in Sources : \A msg : msg \in Waiting(source)' => msg \in Waiting(source)
      PROVE  ArrivedIsNumbered'
  BY <1>1 DEF ArrivedIsNumbered
<1>2. ASSUME NEW more \in Seq(Message), arrived' = arrived \o more,
             \A i \in DOMAIN more : more[i].n = Len(arrived) + i,
             \A source \in Sources : \A msg : msg \in Waiting(source)' =>
                msg \in Waiting(source) \/ msg \in Range(more)
      PROVE  ArrivedIsNumbered'
  <2>1. PICK have \in Nat, add \in Nat : have = Len(arrived) /\ add = Len(more)
    <3>1. Len(arrived) \in Nat /\ Len(more) \in Nat
      BY <1>0 DEF ReceiversTypeOK
    <3> QED
      BY <3>1
  <2>2. /\ DOMAIN arrived = 1..have /\ DOMAIN more = 1..add /\ DOMAIN arrived' = 1..(have + add)
        /\ \A k \in 1..have : arrived'[k] = arrived[k]
        /\ \A k \in 1..add : arrived'[have + k] = more[k]
    BY <1>0, <1>2, <2>1, Joined DEF ReceiversTypeOK
  <2>3. ASSUME NEW k \in DOMAIN arrived' PROVE arrived'[k].n = k
    <3>1. CASE k \in 1..have
      BY <2>2, <3>1 DEF ArrivedIsNumbered
    <3>2. CASE k \notin 1..have
      <4>1. k - have \in 1..add /\ have + (k - have) = k
        BY <2>1, <2>2, <3>2
      <4> QED
        BY <1>2, <2>1, <2>2, <4>1
    <3> QED
      BY <3>1, <3>2
  <2>4. \A k \in 1..have : k \in 1..(have + add)
    BY <2>1
  <2>5. \A k \in 1..add : have + k \in 1..(have + add)
    BY <2>1
  <2>6. \A msg : msg \in Range(arrived) \/ msg \in Range(more) => msg \in Range(arrived')
    BY <2>2, <2>4, <2>5 DEF Range
  <2> QED
    BY <1>2, <2>3, <2>6 DEF ArrivedIsNumbered
<1>3. ASSUME NEW source \in Sources, Arrive(source) PROVE ArrivedIsNumbered'
  <2>1. PICK read \in Seq(Message) :
           /\ \A i \in DOMAIN read : read[i].source = source /\ read[i].n = Len(arrived) + i
           /\ incoming' = [incoming EXCEPT ![source] = Append(@, read)]
           /\ arrived' = arrived \o read
    BY <1>3, ArrivesInOrder
  <2>2. \A other \in Sources : \A msg : msg \in Waiting(other)' => msg \in Waiting(other) \/ msg \in Range(read)
    BY <1>3, <2>1, ArriveWaits
  <2> QED
    BY <1>2, <2>1, <2>2
<1>4. ASSUME NEW source \in Sources, Complete(source) PROVE ArrivedIsNumbered'
  BY <1>1, <1>4, CompleteWaits DEF Complete
<1>5. CASE IoRuns \/ IoGivesUp \/ \E source \in Sources : Fail(source)
  BY <1>1, <1>5, PollWaits DEF IoRuns, IoGivesUp, Fail
<1>6. CASE IoSkips \/ IoTracks
  BY <1>1, <1>6, HandleWaits DEF IoSkips, IoTracks
<1>7. ASSUME UNCHANGED <<incoming, ready, work>>
      PROVE  \A source \in Sources : \A msg : msg \in Waiting(source)' <=> msg \in Waiting(source)
  BY <1>7 DEF Waiting
<1>8. CASE IoLogs \/ IoRearms \/ IoThrows \/ IoReturns
  BY <1>1, <1>7, <1>8 DEF IoLogs, IoRearms, IoThrows, IoReturns, netVars
<1>9. CASE FrameArrives
  BY <1>2, <1>7, <1>9, FramesInOrder, Elsewhere
<1>10. CASE \/ Start \/ SimThread \/ CloseClears \/ CloseJoins \/ UNCHANGED vars
            \/ AppStopsIo \/ AppJoinsIo
  <2>1. arrived' = arrived
    BY <1>10 DEF Start, SimThread, SimChecks, SimTimesOut, SimReceives, SimLogs, SimTracks,
       CloseClears, CloseJoins, AppStopsIo, AppJoinsIo, vars, receiverVars
  <2> QED
    BY <1>1, <1>7, <1>10, <2>1, Elsewhere
<1> QED
  BY <1>3, <1>4, <1>5, <1>6, <1>8, <1>9, <1>10 DEF Next, ReceiversNext, Io

-----------------------------------------------------------------------------
(* What is tracked. The order of one source:                                 *)
SourceInOrder(source) ==
    /\ \A i, j \in DOMAIN tracked :
          i < j /\ tracked[i].source = source /\ tracked[j].source = source
              => tracked[i].n < tracked[j].n
    /\ \A msg : msg.source = source =>
          (msg \in Range(tracked) <=> msg \in Range(arrived) /\ Handled(msg) /\ msg \notin Waiting(source))
    /\ \A msg \in Range(tracked) : msg.source = source =>
          \A next \in Waiting(source) : msg.n < next.n

LEMMA SourceBySource == SourcesInOrder <=> \A source \in Sources : SourceInOrder(source)
<1> SUFFICES ASSUME NEW source \in Sources
             PROVE  /\ FromSource(Range(tracked), source) =
                          {msg \in FromSource(Range(arrived), source) : Handled(msg)} \ Waiting(source)
                       <=> \A msg : msg.source = source =>
                              (msg \in Range(tracked) <=> msg \in Range(arrived) /\ Handled(msg)
                                                             /\ msg \notin Waiting(source))
                    /\ (\A msg \in FromSource(Range(tracked), source), next \in Waiting(source) : msg.n < next.n)
                       <=> \A msg \in Range(tracked) : msg.source = source =>
                              \A next \in Waiting(source) : msg.n < next.n
  BY DEF SourcesInOrder, SourceInOrder
<1>1. \A msgs, msg : msg \in FromSource(msgs, source) <=> msg \in msgs /\ msg.source = source
  BY DEF FromSource
<1> QED
  BY <1>1

LEMMA NextBySource == SourcesInOrder' <=> \A source \in Sources : SourceInOrder(source)'
<1> SUFFICES ASSUME NEW source \in Sources
             PROVE  /\ FromSource(Range(tracked'), source) =
                          {msg \in FromSource(Range(arrived'), source) : Handled(msg)} \ Waiting(source)'
                       <=> \A msg : msg.source = source =>
                              (msg \in Range(tracked') <=> msg \in Range(arrived') /\ Handled(msg)
                                                              /\ msg \notin Waiting(source)')
                    /\ (\A msg \in FromSource(Range(tracked'), source), next \in Waiting(source)' : msg.n < next.n)
                       <=> \A msg \in Range(tracked') : msg.source = source =>
                              \A next \in Waiting(source)' : msg.n < next.n
  BY DEF SourcesInOrder, SourceInOrder
<1>1. \A msgs, msg : msg \in FromSource(msgs, source) <=> msg \in msgs /\ msg.source = source
  BY DEF FromSource
<1> QED
  BY <1>1

(* Only what is not handled leaves the queues without being tracked.         *)
LEMMA KeepsOrder ==
    ASSUME NEW source \in Sources, SourceInOrder(source), UNCHANGED <<arrived, tracked>>,
           \A msg : msg \in Waiting(source)' => msg \in Waiting(source),
           \A msg : msg \in Waiting(source) => msg \in Waiting(source)' \/ ~Handled(msg)
    PROVE  SourceInOrder(source)'
BY DEF SourceInOrder

LEMMA ArrivalKeepsOrder ==
    ASSUME TypeOK, ArrivedIsNumbered, NEW source \in Sources, SourceInOrder(source),
           NEW more \in Seq(Message), arrived' = arrived \o more, tracked' = tracked,
           \A i \in DOMAIN more : more[i].n = Len(arrived) + i,
           \A msg : msg.source = source =>
              (msg \in Waiting(source)' <=> msg \in Waiting(source) \/ msg \in Range(more)),
           \A msg : msg \in Waiting(source)' => msg.source = source
    PROVE  SourceInOrder(source)'
<1>0. ReceiversTypeOK
  BY DEF TypeOK
<1>1. PICK have \in Nat, add \in Nat : have = Len(arrived) /\ add = Len(more)
  <2>1. Len(arrived) \in Nat /\ Len(more) \in Nat
    BY <1>0 DEF ReceiversTypeOK
  <2> QED
    BY <2>1
<1>2. /\ DOMAIN arrived = 1..have /\ DOMAIN more = 1..add /\ DOMAIN arrived' = 1..(have + add)
      /\ \A k \in 1..have : arrived'[k] = arrived[k]
      /\ \A k \in 1..add : arrived'[have + k] = more[k]
  BY <1>0, <1>1, Joined DEF ReceiversTypeOK
<1>3. \A msg : msg \in Range(arrived') <=> msg \in Range(arrived) \/ msg \in Range(more)
  <2>1. \A k \in 1..(have + add) : k \in 1..have \/ (k - have \in 1..add /\ have + (k - have) = k)
    BY <1>1
  <2>2. \A k \in 1..have : k \in 1..(have + add)
    BY <1>1
  <2>3. \A k \in 1..add : have + k \in 1..(have + add)
    BY <1>1
  <2>4. \A msg : msg \in Range(arrived) \/ msg \in Range(more) => msg \in Range(arrived')
    BY <1>2, <2>2, <2>3 DEF Range
  <2>5. ASSUME NEW k \in DOMAIN arrived'
        PROVE  arrived'[k] \in Range(arrived) \/ arrived'[k] \in Range(more)
    BY <1>2, <2>1 DEF Range
  <2> QED
    BY <2>4, <2>5 DEF Range
<1>4. \A msg \in Range(arrived) : msg.n \in 1..have
  BY <1>2 DEF ArrivedIsNumbered, Range
<1>5. \A msg \in Range(more) : msg.n \in Nat /\ msg.n > have
  <2>1. \A k \in 1..add : have + k \in Nat /\ have + k > have
    BY <1>1
  <2> QED
    BY <1>1, <1>2, <2>1 DEF Range
<1>6. \A msg \in Range(arrived), next \in Range(more) : msg.n < next.n
  BY <1>1, <1>4, <1>5
<1>7. \A msg : msg \in Range(arrived) => msg \notin Range(more)
  BY <1>1, <1>4, <1>5
<1>8. \A msg : msg.source = source =>
         (msg \in Range(tracked') <=> msg \in Range(arrived') /\ Handled(msg) /\ msg \notin Waiting(source)')
  BY <1>3, <1>7 DEF SourceInOrder
<1>9. \A msg \in Range(tracked') : msg.source = source =>
         \A next \in Waiting(source)' : msg.n < next.n
  BY <1>6 DEF SourceInOrder
<1> QED
  BY <1>8, <1>9 DEF SourceInOrder

LEMMA OthersTrack ==
    ASSUME TypeOK, NEW source \in Sources, SourceInOrder(source),
           NEW msg \in Message, msg.source # source, tracked' = Append(tracked, msg), arrived' = arrived,
           \A next : next \in Waiting(source)' <=> next \in Waiting(source)
    PROVE  SourceInOrder(source)'
<1>0. tracked \in Seq(Message)
  BY DEF TypeOK, ReceiversTypeOK
<1>1. \A k \in DOMAIN tracked' : (k \in DOMAIN tracked /\ tracked'[k] = tracked[k]) \/ tracked'[k] = msg
  BY <1>0, AppendedByPlace
<1>2. \A k \in DOMAIN tracked : k \in DOMAIN tracked' /\ tracked'[k] = tracked[k]
  <2>1. PICK len \in Nat : len = Len(tracked)
    BY <1>0
  <2>2. /\ DOMAIN tracked = 1..len /\ DOMAIN tracked' = 1..(len + 1)
        /\ \A k \in 1..len : tracked'[k] = tracked[k]
    BY <1>0, <2>1, Appended
  <2> QED
    BY <2>1, <2>2
<1>3. \A next : next.source = source => (next \in Range(tracked') <=> next \in Range(tracked))
  BY <1>1, <1>2 DEF Range
<1> QED
  BY <1>1, <1>3 DEF SourceInOrder

LEMMA TracksInOrder ==
    ASSUME TypeOK, OneReadEach, ReadsAreOfPort, PortsInOrder, ArrivedIsNumbered, IoTracks,
           NEW source \in Sources, source = current, SourceInOrder(source)
    PROVE  SourceInOrder(source)'
<1>0. work \in Seq(Message) /\ work # <<>> /\ tracked \in Seq(Message) /\ Handled(Head(work))
  BY DEF TypeOK, ReceiversTypeOK, IoTracks, OneReadEach
<1>1. PICK msg \in Message : msg = Head(work) /\ msg = work[1] /\ 1 \in DOMAIN work
  BY <1>0, Beheaded, BeheadedByPlace
<1>2. msg.source = source /\ tracked' = Append(tracked, msg) /\ arrived' = arrived /\ Handled(msg)
  BY <1>0, <1>1 DEF ReadsAreOfPort, IoTracks
<1>3. msg \in Waiting(source) /\ msg \in Range(arrived)
  BY <1>1, <1>2, WaitingByPlace DEF ArrivedIsNumbered
<1>4. \A next : next \in Waiting(source) <=> next \in Waiting(source)' \/ next = msg
  BY <1>1, <1>2, HandleWaits
<1>5. \A next \in Waiting(source)' : msg.n < next.n
  BY <1>1, HeadIsFirst
<1>6. msg \notin Waiting(source)'
  <2>1. ~(msg.n < msg.n)
    BY <1>1 DEF Message
  <2> QED
    BY <1>5, <2>1
<1>7. PICK len \in Nat : len = Len(tracked)
  BY <1>0
<1>8. /\ DOMAIN tracked = 1..len /\ DOMAIN tracked' = 1..(len + 1) /\ tracked'[len + 1] = msg
      /\ \A k \in 1..len : tracked'[k] = tracked[k]
  BY <1>0, <1>2, <1>7, Appended
<1>9. \A i, j \in DOMAIN tracked' : i < j => i \in 1..len /\ (j \in 1..len \/ j = len + 1)
  BY <1>7, <1>8
<1>10. \A i \in 1..len : tracked[i].source = source => tracked[i].n < msg.n
  BY <1>3, <1>8 DEF SourceInOrder, Range
<1>11. \A i, j \in DOMAIN tracked' :
          i < j /\ tracked'[i].source = source /\ tracked'[j].source = source
              => tracked'[i].n < tracked'[j].n
  BY <1>8, <1>9, <1>10 DEF SourceInOrder
<1>12. \A next : next \in Range(tracked') <=> next \in Range(tracked) \/ next = msg
  <2>1. len + 1 \in 1..(len + 1) /\ \A k \in 1..len : k \in 1..(len + 1)
    BY <1>7
  <2>2. \A k \in 1..(len + 1) : k \in 1..len \/ k = len + 1
    BY <1>7
  <2> QED
    BY <1>8, <2>1, <2>2 DEF Range
<1>13. \A next : next.source = source =>
          (next \in Range(tracked') <=> next \in Range(arrived') /\ Handled(next) /\ next \notin Waiting(source)')
  BY <1>2, <1>3, <1>4, <1>6, <1>12 DEF SourceInOrder
<1>14. \A other \in Range(tracked') : other.source = source =>
          \A next \in Waiting(source)' : other.n < next.n
  BY <1>4, <1>5, <1>12 DEF SourceInOrder
<1> QED
  BY <1>11, <1>13, <1>14 DEF SourceInOrder

LEMMA SourcesStep ==
    ASSUME TypeOK, OneReadEach, ReadsAreOfPort, PortsInOrder, ArrivedIsNumbered, SourcesInOrder,
           SimIsApart, [Next]_vars
    PROVE  SourcesInOrder'
<1>0. ReceiversTypeOK
  BY DEF TypeOK
<1>s. \A source \in Sources : SourceInOrder(source)
  BY SourceBySource
<1> SUFFICES ASSUME NEW source \in Sources PROVE SourceInOrder(source)'
  BY NextBySource
<1>1. CASE UNCHANGED <<incoming, ready, work, arrived, tracked>>
  <2>1. \A msg : msg \in Waiting(source)' <=> msg \in Waiting(source)
    BY <1>1 DEF Waiting
  <2> QED
    BY <1>1, <1>s, <2>1, KeepsOrder
<1>2. ASSUME NEW from \in Sources, Arrive(from) PROVE SourceInOrder(source)'
  <2>1. PICK read \in Seq(Message) :
           /\ \A i \in DOMAIN read : read[i].source = from /\ read[i].n = Len(arrived) + i
           /\ incoming' = [incoming EXCEPT ![from] = Append(@, read)]
           /\ arrived' = arrived \o read
    BY <1>2, ArrivesInOrder
  <2>2. \A msg : msg \in Waiting(source)' <=> msg \in Waiting(source) \/ (source = from /\ msg \in Range(read))
    BY <1>2, <2>1, ArriveWaits
  <2>3. \A msg \in Range(read) : msg.source = from
    BY <2>1 DEF Range
  <2>4. \A msg \in Waiting(source)' : msg.source = source
    BY <2>2, <2>3, WaitingByPlace DEF ReadsAreOfPort
  <2>5. tracked' = tracked
    BY <1>2 DEF Arrive, sinkVars
  <2> QED
    BY <1>s, <2>1, <2>2, <2>3, <2>4, <2>5, ArrivalKeepsOrder
<1>3. ASSUME NEW from \in Sources, Complete(from) PROVE SourceInOrder(source)'
  <2>1. UNCHANGED <<arrived, tracked>>
    BY <1>3 DEF Complete, sinkVars
  <2> QED
    BY <1>s, <1>3, <2>1, CompleteWaits, KeepsOrder
<1>4. CASE IoRuns \/ IoGivesUp \/ \E from \in Sources : Fail(from)
  <2>1. UNCHANGED <<arrived, tracked>>
    BY <1>4 DEF IoRuns, IoGivesUp, Fail, sinkVars
  <2> QED
    BY <1>s, <1>4, <2>1, PollWaits, KeepsOrder
<1>5. CASE IoSkips
  <2>1. UNCHANGED <<arrived, tracked>> /\ ~Handled(Head(work))
    BY <1>5 DEF IoSkips, sinkVars
  <2> QED
    BY <1>s, <1>5, <2>1, HandleWaits, KeepsOrder
<1>6. CASE IoTracks /\ source = current
  BY <1>s, <1>6, TracksInOrder
<1>7. CASE IoTracks /\ source # current
  <2>1. work \in Seq(Message) /\ work # <<>>
    BY <1>0, <1>7 DEF ReceiversTypeOK, IoTracks, OneReadEach
  <2>2. PICK msg \in Message : msg = Head(work) /\ msg = work[1] /\ 1 \in DOMAIN work
    BY <2>1, Beheaded, BeheadedByPlace
  <2>3. msg.source # source /\ tracked' = Append(tracked, msg) /\ arrived' = arrived
    BY <1>7, <2>2 DEF ReadsAreOfPort, IoTracks
  <2>4. \A next : next \in Waiting(source)' <=> next \in Waiting(source)
    BY <1>7, <2>2, <2>3, HandleWaits
  <2> QED
    BY <1>s, <2>3, <2>4, OthersTrack
<1>8. CASE IoLogs \/ IoRearms \/ IoThrows \/ IoReturns
  BY <1>1, <1>8 DEF IoLogs, IoRearms, IoThrows, IoReturns, netVars, sinkVars
<1>9. source # "sim"
  BY ReceiversAssumption DEF Sources, VN
<1>10. CASE FrameArrives
  <2>1. PICK more \in Seq(Message) :
           /\ \A i \in DOMAIN more : more[i].source = "sim" /\ more[i].n = Len(arrived) + i
           /\ arrived' = arrived \o more
    BY <1>10, FramesInOrder
  <2>2. \A next \in Range(more) : next.source = "sim"
    BY <2>1 DEF Range
  <2>3. \A next : next \in Waiting(source)' <=> next \in Waiting(source)
    BY <1>10, Elsewhere DEF Waiting
  <2>4. \A next \in Waiting(source) : next.source = source
    BY WaitingByPlace DEF ReadsAreOfPort
  <2>5. tracked' = tracked
    BY <1>10 DEF FrameArrives, sinkVars
  <2> QED
    BY <1>s, <1>9, <2>1, <2>2, <2>3, <2>4, <2>5, ArrivalKeepsOrder
<1>11. CASE SimTracks
  <2>1. frame \in Message /\ tracked' = Append(tracked, frame) /\ arrived' = arrived
    BY <1>11 DEF SimTracks, TypeOK
  <2>2. \A next : next \in Waiting(source)' <=> next \in Waiting(source)
    BY <1>11, Elsewhere DEF Waiting, SimThread
  <2> QED
    BY <1>s, <1>9, <2>1, <2>2, OthersTrack DEF SimIsApart
<1>12. CASE \/ Start \/ SimChecks \/ SimTimesOut \/ SimReceives \/ SimLogs
            \/ CloseClears \/ CloseJoins \/ UNCHANGED vars \/ AppStopsIo \/ AppJoinsIo
  <2>1. UNCHANGED <<arrived, tracked>>
    BY <1>12 DEF Start, SimChecks, SimTimesOut, SimReceives, SimLogs,
       CloseClears, CloseJoins, AppStopsIo, AppJoinsIo, vars, receiverVars, sinkVars
  <2> QED
    BY <1>1, <1>12, <2>1, Elsewhere DEF SimThread
<1> QED
  BY <1>2, <1>3, <1>4, <1>5, <1>6, <1>7, <1>8, <1>10, <1>11, <1>12 DEF Next, SimThread, ReceiversNext, Io

-----------------------------------------------------------------------------
(* Counting the messages of the io thread.                                   *)
LEMMA IoCountStep ==
    ASSUME NEW msgs, NEW k \in Nat
    PROVE  /\ IoCount(msgs, 0) = 0 /\ IoCount(msgs, k) \in Nat
           /\ IoCount(msgs, k + 1) = IF msgs[k + 1].source \in Sources THEN IoCount(msgs, k) + 1
                                     ELSE IoCount(msgs, k)
<1> DEFINE those(m) == {j \in 1..m : msgs[j].source \in Sources}
<1>1. those(0) = {}
  OBVIOUS
<1>2. IsFiniteSet(those(k))
  <2>1. IsFiniteSet(1..k)
    BY FS_Interval
  <2> QED
    BY <2>1, FS_Subset
<1>3. those(k + 1) = IF msgs[k + 1].source \in Sources THEN those(k) \cup {k + 1} ELSE those(k)
  <2>1. \A j : j \in 1..(k + 1) <=> j \in 1..k \/ j = k + 1
    OBVIOUS
  <2> QED
    BY <2>1
<1>4. k + 1 \notin those(k)
  OBVIOUS
<1> HIDE DEF those
<1>5. Cardinality(those(k) \cup {k + 1}) = Cardinality(those(k)) + 1
  BY <1>2, <1>4, FS_AddElement
<1>6. Cardinality(those(0)) = 0 /\ Cardinality(those(k)) \in Nat
  BY <1>1, <1>2, FS_EmptySet, FS_CardinalityType
<1>7. Cardinality(those(k + 1)) = IF msgs[k + 1].source \in Sources
                                  THEN Cardinality(those(k)) + 1 ELSE Cardinality(those(k))
  BY <1>3, <1>5
<1> USE DEF those
<1> QED
  BY <1>6, <1>7 DEF IoCount

LEMMA IoCountGrows ==
    ASSUME NEW msgs, NEW m \in Nat, NEW k \in 0..m
    PROVE  IoCount(msgs, k) <= IoCount(msgs, m)
<1> DEFINE those(n) == {j \in 1..n : msgs[j].source \in Sources}
<1>1. IsFiniteSet(those(m)) /\ those(k) \subseteq those(m)
  <2>1. IsFiniteSet(1..m)
    BY FS_Interval
  <2> QED
    BY <2>1, FS_Subset
<1> HIDE DEF those
<1>2. Cardinality(those(k)) <= Cardinality(those(m))
  BY <1>1, FS_Subset
<1> USE DEF those
<1> QED
  BY <1>2 DEF IoCount

LEMMA IoCountAppended ==
    ASSUME NEW msgs \in Seq(Message), NEW msg \in Message
    PROVE  /\ \A k \in DOMAIN msgs : /\ IoCount(Append(msgs, msg), k) = IoCount(msgs, k)
                                     /\ IoCount(msgs, k) \in 0..IoCount(msgs, Len(msgs))
           /\ IoCount(msgs, Len(msgs)) \in Nat
           /\ IoCount(Append(msgs, msg), Len(Append(msgs, msg))) =
                 IF msg.source \in Sources THEN IoCount(msgs, Len(msgs)) + 1 ELSE IoCount(msgs, Len(msgs))
<1> DEFINE new == Append(msgs, msg)
<1>1. PICK len \in Nat : len = Len(msgs)
  OBVIOUS
<1>2. /\ DOMAIN msgs = 1..len /\ Len(new) = len + 1 /\ new[len + 1] = msg
      /\ \A k \in 1..len : new[k] = msgs[k]
  BY <1>1, Appended
<1> HIDE DEF new
<1>3. ASSUME NEW k \in 0..len
      PROVE  IoCount(new, k) = IoCount(msgs, k)
  <2>1. {j \in 1..k : new[j].source \in Sources} = {j \in 1..k : msgs[j].source \in Sources}
    <3>1. \A j \in 1..k : new[j] = msgs[j]
      BY <1>1, <1>2
    <3> QED
      BY <3>1
  <2> QED
    BY <2>1 DEF IoCount
<1>4. ASSUME NEW k \in 0..len
      PROVE  IoCount(msgs, k) \in 0..IoCount(msgs, len)
  <2>1. IoCount(msgs, k) \in Nat /\ IoCount(msgs, len) \in Nat
    <3>1. k \in Nat
      BY <1>1
    <3> QED
      BY <1>1, <3>1, IoCountStep
  <2>2. IoCount(msgs, k) <= IoCount(msgs, len)
    BY <1>1, IoCountGrows
  <2> QED
    BY <2>1, <2>2
<1>5. IoCount(msgs, len) \in Nat
  BY <1>1, IoCountStep
<1>6. IoCount(new, len + 1) = IF msg.source \in Sources THEN IoCount(msgs, len) + 1 ELSE IoCount(msgs, len)
  <2>1. IoCount(new, len) = IoCount(msgs, len)
    BY <1>1, <1>3
  <2> QED
    BY <1>1, <1>2, <2>1, IoCountStep
<1>7. \A k \in DOMAIN msgs : IoCount(new, k) = IoCount(msgs, k) /\ IoCount(msgs, k) \in 0..IoCount(msgs, len)
  BY <1>1, <1>2, <1>3, <1>4
<1> QED
  BY <1>1, <1>2, <1>5, <1>6, <1>7 DEF new

LEMMA LogStep ==
    ASSUME TypeOK, OneReadEach, ReadsAreOfPort, SimIsApart, IoLogsInStateOrder, LoggedInHand, [Next]_vars
    PROVE  IoLogsInStateOrder' /\ LoggedInHand'
<1>0. logged \in Seq(Message) /\ tracked \in Seq(Message)
  BY DEF TypeOK, ReceiversTypeOK
<1>1. PICK a, b \in Nat : a = IoCount(logged, Len(logged)) /\ b = IoCount(tracked, Len(tracked))
  <2>1. Len(logged) \in Nat /\ Len(tracked) \in Nat
    BY <1>0
  <2>2. IoCount(logged, Len(logged)) \in Nat /\ IoCount(tracked, Len(tracked)) \in Nat
    BY <2>1, IoCountStep
  <2> QED
    BY <2>2
<1>2. CASE /\ UNCHANGED <<logged, tracked>>
           /\ io' = "tracking" => io = "tracking" /\ work' = work
           /\ io' \in {"polling", "handling", "ended"} => io \in {"polling", "handling", "ended"}
  BY <1>2 DEF IoLogsInStateOrder, LoggedInHand, IoCount, Logged
<1>s. "sim" \notin Sources
  BY ReceiversAssumption DEF Sources, VN
<1>3. CASE IoLogs
  <2>1. work \in Seq(Message) /\ work # <<>> /\ current \in Sources
    BY <1>3 DEF TypeOK, ReceiversTypeOK, IoLogs
  <2>2. PICK msg \in Message : msg = Head(work) /\ msg.source \in Sources
    BY <2>1, BeheadedByPlace, Beheaded DEF ReadsAreOfPort
  <2>3. logged' = Append(logged, msg) /\ io = "handling" /\ io' = "tracking" /\ UNCHANGED <<tracked, work>>
    BY <1>3, <2>2 DEF IoLogs
  <2>4. a = b
    BY <1>1, <2>3 DEF LoggedInHand
  <2>5. /\ \A k \in DOMAIN logged : IoCount(logged', k) = IoCount(logged, k) /\ IoCount(logged, k) \in 0..a
        /\ IoCount(logged', Len(logged')) = a + 1
    BY <1>0, <1>1, <2>2, <2>3, IoCountAppended
  <2>6. \A k \in DOMAIN logged' : \/ k \in DOMAIN logged /\ logged'[k] = logged[k]
                                  \/ k = Len(logged') /\ logged'[k] = msg
    BY <1>0, <2>3, AppendedByPlace, Appended
  <2>7. \A j \in DOMAIN tracked : IoCount(tracked, j) \in 0..b
    BY <1>0, <1>1, <2>2, IoCountAppended
  <2>8. ASSUME NEW i \in DOMAIN logged', NEW j \in DOMAIN tracked', Logged(i)', tracked'[j].source \in Sources,
               IoCount(logged', i) = IoCount(tracked', j)
        PROVE  logged'[i] = tracked'[j]
    <3>1. CASE i = Len(logged')
      <4>1. a + 1 \in 0..b
        BY <2>3, <2>5, <2>7, <2>8, <3>1
      <4> QED
        BY <1>1, <2>4, <4>1
    <3>2. CASE i \in DOMAIN logged /\ logged'[i] = logged[i]
      BY <2>3, <2>5, <2>8, <3>2 DEF IoLogsInStateOrder, Logged
    <3> QED
      BY <2>6, <3>1, <3>2
  <2>9. ASSUME NEW k \in DOMAIN logged', IoCount(logged', k) = a + 1 PROVE logged'[k] = Head(work')
    <3>1. CASE k \in DOMAIN logged
      <4>1. a + 1 \in 0..a
        BY <2>5, <2>9, <3>1
      <4> QED
        BY <1>1, <4>1
    <3> QED
      BY <2>2, <2>3, <2>6, <3>1
  <2>10. IoCount(tracked', Len(tracked')) = b
    BY <1>1, <2>3
  <2>11. IoLogsInStateOrder'
    <3>1. (a + 1) - b \in 0..1
      BY <1>1, <2>4
    <3> QED
      BY <2>5, <2>8, <2>10, <3>1 DEF IoLogsInStateOrder, Logged
  <2>12. LoggedInHand'
    BY <2>3, <2>4, <2>5, <2>9, <2>10 DEF LoggedInHand, Logged
  <2> QED
    BY <2>11, <2>12
<1>4. CASE IoTracks
  <2>1. work \in Seq(Message) /\ work # <<>> /\ current \in Sources
    BY <1>4 DEF TypeOK, ReceiversTypeOK, IoTracks, OneReadEach
  <2>2. PICK msg \in Message : msg = Head(work) /\ msg.source \in Sources
    BY <2>1, BeheadedByPlace, Beheaded DEF ReadsAreOfPort
  <2>3. tracked' = Append(tracked, msg) /\ io = "tracking" /\ io' = "handling" /\ UNCHANGED logged
    BY <1>4, <2>2 DEF IoTracks
  <2>4. a = b + 1 /\ \A k \in DOMAIN logged : Logged(k) /\ IoCount(logged, k) = a => logged[k] = msg
    BY <1>1, <2>2, <2>3 DEF LoggedInHand
  <2>5. /\ \A k \in DOMAIN tracked : IoCount(tracked', k) = IoCount(tracked, k)
        /\ IoCount(tracked', Len(tracked')) = b + 1
    BY <1>0, <1>1, <2>2, <2>3, IoCountAppended
  <2>6. \A k \in DOMAIN tracked' : \/ k \in DOMAIN tracked /\ tracked'[k] = tracked[k]
                                   \/ k = Len(tracked') /\ tracked'[k] = msg
    BY <1>0, <2>3, AppendedByPlace, Appended
  <2>7. ASSUME NEW i \in DOMAIN logged', NEW j \in DOMAIN tracked', Logged(i)', tracked'[j].source \in Sources,
               IoCount(logged', i) = IoCount(tracked', j)
        PROVE  logged'[i] = tracked'[j]
    <3>1. CASE j = Len(tracked') /\ tracked'[j] = msg
      BY <2>3, <2>4, <2>5, <2>7, <3>1 DEF Logged
    <3>2. CASE j \in DOMAIN tracked /\ tracked'[j] = tracked[j]
      BY <2>3, <2>5, <2>7, <3>2 DEF IoLogsInStateOrder, Logged
    <3> QED
      BY <2>6, <3>1, <3>2
  <2>8. IoCount(logged', Len(logged')) = a
    BY <1>1, <2>3
  <2>9. IoLogsInStateOrder'
    <3>1. a - (b + 1) \in 0..1
      BY <1>1, <2>4
    <3> QED
      BY <2>5, <2>7, <2>8, <3>1 DEF IoLogsInStateOrder, Logged
  <2>10. LoggedInHand'
    BY <2>3, <2>4, <2>5, <2>8 DEF LoggedInHand
  <2> QED
    BY <2>9, <2>10
<1>5. CASE SimLogs /\ ~destroyed
  <2>1. PICK msg \in Message : msg = frame /\ msg.source \notin Sources
    BY <1>s DEF TypeOK, SimIsApart
  <2>2. logged' = Append(logged, msg) /\ UNCHANGED <<tracked, io, work>>
    BY <1>5, <2>1 DEF SimLogs, ioVars
  <2>3. /\ \A k \in DOMAIN logged : IoCount(logged', k) = IoCount(logged, k)
        /\ IoCount(logged', Len(logged')) = a
    BY <1>0, <1>1, <2>1, <2>2, IoCountAppended
  <2>4. \A k \in DOMAIN logged' : (k \in DOMAIN logged /\ logged'[k] = logged[k]) \/ ~Logged(k)'
    BY <1>0, <2>1, <2>2, AppendedByPlace DEF Logged
  <2>5. IoLogsInStateOrder'
    BY <1>1, <2>2, <2>3, <2>4 DEF IoLogsInStateOrder, Logged
  <2>6. LoggedInHand'
    BY <1>1, <2>2, <2>3, <2>4 DEF LoggedInHand, Logged
  <2> QED
    BY <2>5, <2>6
<1>6. CASE SimTracks
  <2>1. PICK msg \in Message : msg = frame /\ msg.source \notin Sources
    BY <1>s DEF TypeOK, SimIsApart
  <2>2. tracked' = Append(tracked, msg) /\ UNCHANGED <<logged, io, work>>
    BY <1>6, <2>1 DEF SimTracks, ioVars
  <2>3. /\ \A k \in DOMAIN tracked : IoCount(tracked', k) = IoCount(tracked, k)
        /\ IoCount(tracked', Len(tracked')) = b
    BY <1>0, <1>1, <2>1, <2>2, IoCountAppended
  <2>4. \A k \in DOMAIN tracked' : \/ k \in DOMAIN tracked /\ tracked'[k] = tracked[k]
                                   \/ tracked'[k].source \notin Sources
    BY <1>0, <2>1, <2>2, AppendedByPlace
  <2>5. IoLogsInStateOrder'
    BY <1>1, <2>2, <2>3, <2>4 DEF IoLogsInStateOrder
  <2>6. LoggedInHand'
    BY <1>1, <2>2, <2>3 DEF LoggedInHand, Logged
  <2> QED
    BY <2>5, <2>6
<1>7. CASE SimLogs /\ destroyed
  BY <1>2, <1>7 DEF SimLogs, ioVars
<1>8. CASE IoRuns \/ IoGivesUp \/ IoSkips \/ IoRearms \/ IoThrows \/ IoReturns
  BY <1>2, <1>8 DEF IoRuns, IoGivesUp, IoSkips, IoRearms, IoThrows, IoReturns, sinkVars
<1>9. ASSUME NEW source \in Sources, Arrive(source) \/ Complete(source) \/ Fail(source)
      PROVE  IoLogsInStateOrder' /\ LoggedInHand'
  BY <1>2, <1>9 DEF Arrive, Complete, Fail, ioVars, sinkVars
<1>10. CASE \/ FrameArrives \/ Start \/ SimChecks \/ SimTimesOut \/ SimReceives
            \/ CloseClears \/ CloseJoins \/ UNCHANGED vars \/ AppStopsIo \/ AppJoinsIo
  BY <1>2, <1>10 DEF FrameArrives, Start, SimChecks, SimTimesOut, SimReceives,
     CloseClears, CloseJoins, AppStopsIo, AppJoinsIo, vars, receiverVars, ioVars, sinkVars
<1> QED
  BY <1>3, <1>4, <1>5, <1>6, <1>7, <1>8, <1>9, <1>10 DEF Next, SimThread, ReceiversNext, Io

(* The receive thread.                                                       *)
LEMMA SimStep ==
    ASSUME TypeOK, SimIsApart, [Next]_vars
    PROVE  SimIsApart'
<1>1. CASE FrameArrives
  <2>1. PICK msg \in Message : msg.source = "sim" /\ frames' = Append(frames, msg)
    BY <1>1, FrameIsNumbered
  <2>2. \A k \in DOMAIN frames' : frames'[k].source = "sim"
    <3>1. \A k \in DOMAIN frames' : (k \in DOMAIN frames /\ frames'[k] = frames[k]) \/ frames'[k] = msg
      BY <2>1, AppendedByPlace DEF TypeOK
    <3> QED
      BY <2>1, <3>1 DEF SimIsApart
  <2> QED
    BY <1>1, <2>2 DEF FrameArrives, SimIsApart
<1>2. CASE SimReceives
  <2>1. frames \in Seq(Message) /\ frames # <<>>
    BY <1>2 DEF TypeOK, SimReceives
  <2>2. /\ Head(frames) = frames[1] /\ 1 \in DOMAIN frames
        /\ \A k \in DOMAIN Tail(frames) : k + 1 \in DOMAIN frames /\ Tail(frames)[k] = frames[k + 1]
    BY <2>1, BeheadedByPlace
  <2>3. frame'.source = "sim" /\ \A k \in DOMAIN frames' : frames'[k].source = "sim"
    BY <1>2, <2>2 DEF SimReceives, SimIsApart
  <2>4. closer # "closed"
    BY <1>2 DEF SimReceives, SimIsApart
  <2> QED
    BY <1>2, <2>3, <2>4 DEF SimReceives, SimIsApart
<1>3. CASE Start \/ SimChecks \/ SimTimesOut \/ CloseClears \/ CloseJoins
  BY <1>3 DEF Start, SimChecks, SimTimesOut, CloseClears, CloseJoins, SimIsApart, TypeOK
<1>4. CASE SimLogs \/ SimTracks
  BY <1>4 DEF SimLogs, SimTracks, SimIsApart
<1>5. CASE UNCHANGED simVars
  BY <1>5 DEF simVars, SimIsApart
<1> QED
  BY <1>1, <1>2, <1>3, <1>4, <1>5 DEF Next, SimThread, vars

-----------------------------------------------------------------------------
LEMMA IInvStep == IInv /\ [Next]_vars => IInv'
BY TypesStep, OneReadStep, ReadsStep, OrderStep, NumberedStep, SourcesStep, LogStep, SimStep DEF IInv

LEMMA IInvKept == Spec => []IInv
<1>1. Init => IInv
  BY IInvInit
<1> QED
  BY <1>1, IInvStep, PTL DEF Spec

(* The variables of the receivers and of the simulator keep their types.     *)
THEOREM TypesKept == Spec => []TypeOK
<1>1. IInv => TypeOK
  BY DEF IInv
<1> QED
  BY <1>1, IInvKept, PTL

(* The messages of a port are tracked once, in the order of arrival, before  *)
(* all that wait.                                                            *)
THEOREM EachSourceInOrder == Spec => []SourcesInOrder
<1>1. IInv => SourcesInOrder
  BY DEF IInv
<1> QED
  BY <1>1, IInvKept, PTL

(* The io thread logs its messages in the order in which it tracks them.     *)
THEOREM IoThreadLogsInOrder == Spec => []IoLogsInStateOrder
<1>1. IInv => IoLogsInStateOrder
  BY DEF IInv
<1> QED
  BY <1>1, IInvKept, PTL

(* Once close() has returned, no step logs or tracks a frame.                *)
THEOREM ClosedStaysQuiet == Spec => ClosedIsQuiet
<1>1. ASSUME IInv, [Next]_vars, closer = "closed"
      PROVE  AddsNoFrame(logged, logged') /\ AddsNoFrame(tracked, tracked')
  <2>1. AddsNoFrame(logged, logged) /\ AddsNoFrame(tracked, tracked)
    BY DEF AddsNoFrame
  <2>2. CASE UNCHANGED <<logged, tracked>>
    BY <2>1, <2>2
  <2>3. CASE IoLogs \/ IoTracks
    <3>1. /\ work \in Seq(Message) /\ work # <<>> /\ current \in Sources
          /\ logged \in Seq(Message) /\ tracked \in Seq(Message)
      BY <1>1, <2>3 DEF IInv, TypeOK, ReceiversTypeOK, IoLogs, IoTracks, OneReadEach
    <3>2. "sim" \notin Sources
      BY ReceiversAssumption DEF Sources, VN
    <3>3. PICK msg \in Message : msg = Head(work) /\ msg.source # "sim"
      BY <1>1, <3>1, <3>2, BeheadedByPlace, Beheaded DEF IInv, ReadsAreOfPort
    <3>4. ASSUME NEW msgs \in Seq(Message)
          PROVE  AddsNoFrame(msgs, Append(msgs, msg))
      <4>1. \A k \in DOMAIN Append(msgs, msg) : k \in DOMAIN msgs \/ Append(msgs, msg)[k] = msg
        BY AppendedByPlace
      <4> QED
        BY <3>3, <4>1 DEF AddsNoFrame
    <3> QED
      BY <2>1, <2>3, <3>1, <3>3, <3>4 DEF IoLogs, IoTracks
  <2>4. ~SimLogs /\ ~SimTracks
    BY <1>1 DEF IInv, SimIsApart, SimLogs, SimTracks
  <2>5. ASSUME NEW source \in Sources, Arrive(source) \/ Complete(source) \/ Fail(source)
        PROVE  UNCHANGED <<logged, tracked>>
    BY <2>5 DEF Arrive, Complete, Fail, sinkVars
  <2>6. CASE \/ IoRuns \/ IoGivesUp \/ IoSkips \/ IoRearms \/ IoReturns \/ IoThrows \/ AppStopsIo \/ AppJoinsIo
             \/ FrameArrives \/ Start \/ SimChecks \/ SimTimesOut \/ SimReceives \/ CloseClears \/ CloseJoins
             \/ UNCHANGED vars
    BY <2>2, <2>6 DEF IoRuns, IoGivesUp, IoSkips, IoRearms, IoReturns, IoThrows, AppStopsIo, AppJoinsIo,
       FrameArrives, Start, SimChecks, SimTimesOut, SimReceives, CloseClears, CloseJoins, vars,
       receiverVars, sinkVars
  <2> QED
    BY <1>1, <2>2, <2>3, <2>4, <2>5, <2>6 DEF Next, SimThread, ReceiversNext, Io
<1>2. IInv /\ [Next]_vars => [closer = "closed" => /\ AddsNoFrame(logged, logged')
                                                   /\ AddsNoFrame(tracked, tracked')]_vars
  BY <1>1
<1> QED
  BY <1>2, IInvKept, PTL DEF Spec, ClosedIsQuiet

-----------------------------------------------------------------------------
(* The io thread is the same in both modules. As the application sees it:    *)
IoSeen == IF io \in {"thrown", "ended"} THEN "done" ELSE IF stopped THEN "stopping" ELSE "running"

(* it is stopped at most once and does not come back.                        *)
IoGoesOn(before, after) ==
    \/ after = before
    \/ before = "running" /\ after = "stopping"
    \/ before \in {"running", "stopping"} /\ after = "done"

(* Every step of the receivers is a step, or none, of the io thread of       *)
(* DrivebrainApp, and the logger is deleted when that thread is done.        *)
THEOREM IoIsAsAppSees ==
    Spec => /\ [][IoGoesOn(IoSeen, IoSeen')]_vars
            /\ [](destroyed => IoSeen = "done")
<1>1. ASSUME [Next]_vars
      PROVE  IoGoesOn(IoSeen, IoSeen') /\ ((destroyed => IoSeen = "done") => (destroyed' => IoSeen' = "done"))
  <2>1. CASE UNCHANGED <<io, stopped, destroyed>>
    BY <2>1 DEF IoSeen, IoGoesOn
  <2>2. CASE IoRuns \/ IoLogs \/ IoTracks \/ IoRearms \/ IoThrows \/ IoReturns
    BY <2>2 DEF IoRuns, IoLogs, IoTracks, IoRearms, IoThrows, IoReturns, appVars, IoSeen, IoGoesOn
  <2>3. CASE AppStopsIo \/ AppJoinsIo
    BY <2>3 DEF AppStopsIo, AppJoinsIo, ioVars, IoSeen, IoGoesOn
  <2>4. ASSUME NEW source \in Sources, Arrive(source) \/ Complete(source) \/ Fail(source)
        PROVE  UNCHANGED <<io, stopped, destroyed>>
    BY <2>4 DEF Arrive, Complete, Fail, ioVars, appVars
  <2>5. CASE \/ IoGivesUp \/ IoSkips \/ FrameArrives \/ Start \/ SimThread \/ CloseClears \/ CloseJoins
             \/ UNCHANGED vars
    BY <2>1, <2>5 DEF IoGivesUp, IoSkips, FrameArrives, Start, SimThread, SimChecks, SimTimesOut,
       SimReceives, SimLogs, SimTracks, CloseClears, CloseJoins, vars, receiverVars, ioVars, appVars
  <2> QED
    BY <1>1, <2>1, <2>2, <2>3, <2>4, <2>5 DEF Next, ReceiversNext, Io
<1>2. Init => (destroyed => IoSeen = "done")
  BY DEF Init, ReceiversInit
<1>3. [Next]_vars => [IoGoesOn(IoSeen, IoSeen')]_vars
  BY <1>1
<1>4. (destroyed => IoSeen = "done") /\ [Next]_vars => (destroyed => IoSeen = "done")'
  BY <1>1
<1> QED
  BY <1>2, <1>3, <1>4, PTL DEF Spec

(* DrivebrainApp asks no more of it: its io thread goes on in the same way,  *)
(* and it is done, or was never started, when the logger is deleted.         *)
THEOREM AppSeesIo ==
    AppSpec => /\ [][ioThread # "none" => IoGoesOn(ioThread, ioThread')]_processVars
               /\ [](phase \in {"joining_writer", "logger_gone", "foxglove_gone"} => ioThread \in {"none", "done"})
<1>1. AppIInv => (phase \in {"joining_writer", "logger_gone", "foxglove_gone"} => ioThread \in {"none", "done"})
  BY DEF AppIInv, AppTypeOK, MainFirstAndLast
<1>2. ASSUME AppIInv, [AppNext]_processVars, ioThread # "none"
      PROVE  IoGoesOn(ioThread, ioThread')
  <2>1. CASE JoinLoop \/ IoEnds
    BY <2>1 DEF JoinLoop, IoEnds, IoGoesOn
  <2>2. CASE StartThreads
    BY <1>2, <2>2 DEF StartThreads, AppIInv, MainFirstAndLast
  <2>3. CASE \/ BootStep \/ BootThrows \/ JoinIo \/ DestroyLogger \/ WriterJoined
             \/ DestroyFoxglove \/ DestroyMembers
    BY <2>3 DEF BootStep, BootThrows, JoinIo, DestroyLogger, WriterJoined, DestroyFoxglove, DestroyMembers,
       Destroys, IoGoesOn
  <2>4. CASE Loop \/ Interrupt \/ ReaderAsserts \/ UNCHANGED processVars
    BY <2>4 DEF Loop, TickBegins, TickEnds, TickThrows, TimePasses, Interrupt, ReaderAsserts,
       processVars, IoGoesOn
  <2> QED
    BY <1>2, <2>1, <2>2, <2>3, <2>4 DEF AppNext, Main
<1>3. AppIInv /\ [AppNext]_processVars => [ioThread # "none" => IoGoesOn(ioThread, ioThread')]_processVars
  BY <1>2
<1> QED
  BY <1>1, <1>3, AppIInvKept, PTL DEF AppSpec
=============================================================================
