---------------------------- MODULE IoReceivers -----------------------------
(* What runs on the one io thread of the application: the UDP receivers      *)
(* (comms::ETHRecvComms) and the VectorNav driver (comms::VNDriver), each    *)
(* with one read under way in the io_context; a completed read is queued,    *)
(* and the thread runs its handler, which gives each message of the read to  *)
(* core::log and then to the StateTracker, and asks for the next read.       *)
(*                                                                           *)
(* A read is the sequence of its messages: a datagram is one message, whole  *)
(* or undecodable; the bytes of a serial read hold any number of packets.    *)
EXTENDS Integers, SequencesExt

CONSTANTS Ports,       \* the UDP receivers
          MaxArrivals, \* bound: messages that arrive
          MaxErrors    \* bound: reads that fail

VN == "vn"   \* the serial port of the VectorNav
Sources == Ports \cup {VN}

ASSUME ReceiversAssumption ==
    Ports \cap {VN, "sim"} = {} /\ MaxArrivals \in Nat /\ MaxErrors \in Nat

(* whole: decodes. cut: an undecodable datagram. other: a packet of another  *)
(* type or format.                                                           *)
Kinds(source) == IF source = VN THEN {"whole", "other"} ELSE {"whole", "cut"}

(* The result of ParseFromArray is ignored, so an undecodable datagram is    *)
(* handled as well; a packet of another format is not.                       *)
Handled(msg) == msg.kind \in {"whole", "cut"}

VARIABLES
    open,      \* the sources whose port could be opened
    incoming,  \* of each source, the reads the system has for it
    armed,     \* sources with a read under way in the io_context
    ready,     \* completed reads, in the queue of the io_context
    io,        \* where the io thread is
    current,   \* the source whose handler runs
    work,      \* the messages it has left
    stopped,   \* io_context::stop was called
    destroyed, \* the application has deleted the logger
    failed,    \* history: sources with a failed read
    arrived,   \* history: all messages in the order of arrival
    logged,    \* history: what core::log was given
    tracked    \* history: what the StateTracker was given

netVars  == <<open, incoming, failed>>
ioVars   == <<armed, ready, io, current, work>>
appVars  == <<stopped, destroyed>>
sinkVars == <<logged, tracked>>
receiverVars == <<netVars, ioVars, appVars, sinkVars, arrived>>

(* After boot. The VectorNav driver opens its port and starts, or neither;   *)
(* the write that configures the device has no effect here.                  *)
ReceiversInit ==
    /\ open \in {Sources, Ports}
    /\ incoming = [source \in Sources |-> <<>>]
    /\ armed = open
    /\ ready = <<>> /\ io = "polling" /\ current = VN /\ work = <<>>
    /\ stopped = FALSE /\ destroyed = FALSE
    /\ failed = {} /\ arrived = <<>> /\ logged = <<>> /\ tracked = <<>>

-----------------------------------------------------------------------------
NewMessage(source, kind, n) == [source |-> source, kind |-> kind, n |-> n]

(* One datagram arrives, or the bytes of one or two packets.                 *)
ReadSizes(source) == IF source = VN THEN {1, 2} ELSE {1}

Arrive(source) ==
    /\ source \in open
    /\ \E size \in ReadSizes(source) : \E kinds \in [1..size -> Kinds(source)] :
          LET read == [k \in 1..size |-> NewMessage(source, kinds[k], Len(arrived) + k)]
          IN  /\ Len(arrived) + size <= MaxArrivals
              /\ incoming' = [incoming EXCEPT ![source] = Append(@, read)]
              /\ arrived' = arrived \o read
    /\ UNCHANGED <<open, failed, ioVars, appVars, sinkVars>>

Complete(source) ==
    /\ source \in armed /\ incoming[source] # <<>>
    /\ ready' = Append(ready, [source |-> source, error |-> FALSE, read |-> Head(incoming[source])])
    /\ incoming' = [incoming EXCEPT ![source] = Tail(@)]
    /\ armed' = armed \ {source}
    /\ UNCHANGED <<open, failed, io, current, work, appVars, sinkVars, arrived>>

Fail(source) ==
    /\ source \in armed /\ Cardinality(failed) < MaxErrors
    /\ ready' = Append(ready, [source |-> source, error |-> TRUE, read |-> <<>>])
    /\ armed' = armed \ {source} /\ failed' = failed \cup {source}
    /\ UNCHANGED <<open, incoming, io, current, work, appVars, sinkVars, arrived>>

-----------------------------------------------------------------------------
IoRuns ==
    /\ io = "polling" /\ ~stopped /\ ready # <<>> /\ ~Head(ready).error
    /\ current' = Head(ready).source /\ work' = Head(ready).read
    /\ ready' = Tail(ready) /\ io' = "handling"
    /\ UNCHANGED <<netVars, armed, appVars, sinkVars, arrived>>

(* A handler that is given an error returns and asks for no further read.    *)
(* Mutant: it ends the io thread.                                            *)
IoEndsOnError ==
    /\ io = "polling" /\ ~stopped /\ ready # <<>> /\ Head(ready).error
    /\ ready' = Tail(ready) /\ io' = "ended"
    /\ UNCHANGED <<netVars, armed, current, work, appVars, sinkVars, arrived>>

IoGivesUp ==
    /\ io = "polling" /\ ~stopped /\ ready # <<>> /\ Head(ready).error
    /\ ready' = Tail(ready)
    /\ UNCHANGED <<netVars, armed, io, current, work, appVars, sinkVars, arrived>>

(* Mutant: a packet of another format ends the handling of its read.         *)
IoSkipsRead ==
    /\ io = "handling" /\ work # <<>> /\ ~Handled(Head(work))
    /\ work' = <<>>
    /\ UNCHANGED <<netVars, armed, ready, io, current, appVars, sinkVars, arrived>>

IoSkips ==
    /\ io = "handling" /\ work # <<>> /\ ~Handled(Head(work))
    /\ work' = Tail(work)
    /\ UNCHANGED <<netVars, armed, ready, io, current, appVars, sinkVars, arrived>>

IoLogs ==
    /\ io = "handling" /\ work # <<>> /\ Handled(Head(work))
    /\ logged' = Append(logged, Head(work))
    /\ io' = "tracking"
    /\ UNCHANGED <<netVars, armed, ready, current, work, appVars, tracked, arrived>>

(* Mutant: the last message of the read is tracked first.                    *)
IoTracksLast ==
    /\ io = "tracking"
    /\ tracked' = Append(tracked, Last(work)) /\ work' = Front(work)
    /\ io' = "handling"
    /\ UNCHANGED <<netVars, armed, ready, current, appVars, logged, arrived>>

IoTracks ==
    /\ io = "tracking"
    /\ tracked' = Append(tracked, Head(work)) /\ work' = Tail(work)
    /\ io' = "handling"
    /\ UNCHANGED <<netVars, armed, ready, current, appVars, logged, arrived>>

(* _start_receive, once the messages are handled.                            *)
IoRearms ==
    /\ io = "handling" /\ work = <<>>
    /\ armed' = armed \cup {current}
    /\ io' = "polling"
    /\ UNCHANGED <<netVars, ready, current, work, appVars, sinkVars, arrived>>

(* An exception of a handler leaves io_context::run, and the thread ends.    *)
IoThrows ==
    /\ io \in {"handling", "tracking"} /\ work # <<>>
    /\ io' = "thrown"
    /\ UNCHANGED <<netVars, armed, ready, current, work, appVars, sinkVars, arrived>>

(* io_context::run returns once stopped, or with nothing left to wait for.   *)
IoReturns ==
    /\ io = "polling" /\ (stopped \/ (armed = {} /\ ready = <<>>))
    /\ io' = "ended"
    /\ UNCHANGED <<netVars, armed, ready, current, work, appVars, sinkVars, arrived>>

(* The end of run(), and the destructor of the application.                  *)
AppStopsIo ==
    /\ ~stopped /\ stopped' = TRUE
    /\ UNCHANGED <<netVars, ioVars, destroyed, sinkVars, arrived>>

AppJoinsIo ==
    /\ stopped /\ io \in {"ended", "thrown"} /\ ~destroyed
    /\ destroyed' = TRUE
    /\ UNCHANGED <<netVars, ioVars, stopped, sinkVars, arrived>>

Io == \/ IoRuns \/ IoGivesUp \/ IoSkips \/ IoLogs \/ IoTracks \/ IoRearms \/ IoReturns

ReceiversNext ==
    \/ \E source \in Sources : Arrive(source) \/ Complete(source) \/ Fail(source)
    \/ Io \/ IoThrows \/ AppStopsIo \/ AppJoinsIo

-----------------------------------------------------------------------------
(* Every variable of the receivers keeps its type.                           *)
Message   == [source : Sources \cup {"sim"}, kind : {"whole", "cut", "other", "invalid", "none"},
              n : 0..MaxArrivals]
Completed == [source : Sources, error : BOOLEAN, read : Seq(Message)]

ReceiversTypeOK ==
    /\ open \subseteq Sources /\ armed \subseteq open /\ failed \subseteq open
    /\ incoming \in [Sources -> Seq(Seq(Message))] /\ ready \in Seq(Completed)
    /\ io \in {"polling", "handling", "tracking", "thrown", "ended"}
    /\ current \in Sources /\ work \in Seq(Message)
    /\ stopped \in BOOLEAN /\ destroyed \in BOOLEAN
    /\ arrived \in Seq(Message) /\ logged \in Seq(Message) /\ tracked \in Seq(Message)

(* What has arrived from a source and is not handled yet: at work, completed *)
(* or with the system.                                                       *)
FromSource(msgs, source) == {msg \in msgs : msg.source = source}
In(reads) == UNION {Range(read) : read \in reads}

Waiting(source) ==
    FromSource(Range(work), source)
        \cup FromSource(In({done.read : done \in Range(ready)}), source)
        \cup In(Range(incoming[source]))

(* The messages of a source are tracked once and in the order of arrival,    *)
(* and those it has left are still waiting, after all that were tracked:     *)
(* also when reads of other sources fail, a handler throws, or the thread is *)
(* stopped between two messages. (n is the place of a message in arrived.)   *)
SourcesInOrder ==
    \A source \in Sources :
        /\ \A i, j \in DOMAIN tracked :
              i < j /\ tracked[i].source = source /\ tracked[j].source = source
                  => tracked[i].n < tracked[j].n
        /\ FromSource(Range(tracked), source) =
              {msg \in FromSource(Range(arrived), source) : Handled(msg)} \ Waiting(source)
        /\ \A msg \in FromSource(Range(tracked), source), next \in Waiting(source) : msg.n < next.n

(* The recording has the messages of the io thread in the order in which the *)
(* state took them, whatever their sources: the nth that was logged is the   *)
(* nth tracked, and at most one is logged and not tracked. It is the one     *)
(* thread that gives this order, not a lock.                                 *)
IoCount(msgs, k) == Cardinality({j \in 1..k : msgs[j].source \in Sources})

IoLogsInStateOrder ==
    /\ \A i \in DOMAIN logged, j \in DOMAIN tracked :
          logged[i].source \in Sources /\ tracked[j].source \in Sources
              /\ IoCount(logged, i) = IoCount(tracked, j) => logged[i] = tracked[j]
    /\ IoCount(logged, Len(logged)) - IoCount(tracked, Len(tracked)) \in 0..1

(* For the liveness of module SimComms: message n has arrived and is one to  *)
(* handle; it is tracked; or its own source failed or its thread ended.      *)
HasArrived(n) == n <= Len(arrived) /\ Handled(arrived[n])
IsTracked(n) == \E k \in DOMAIN tracked : tracked[k].n = n
IsExcused(n) == \/ stopped \/ io = "thrown"
                \/ n <= Len(arrived) /\ arrived[n].source \in failed
=============================================================================
