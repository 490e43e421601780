------------------------- MODULE MCAPLogger_proofs --------------------------
(* Proofs about MCAPLogger for any number of threads, messages and sessions. *)
EXTENDS MCAPLogger, SequenceTheorems, WellFoundedInduction, TLAPS

(* The writer's batch is empty except while it writes.                       *)
BatchOnlyWhileWriting == writer = "writing" <=> writeBuffer # <<>>

(* While nothing is logged and nothing is being stopped, no writer exists;   *)
(* while it logs, no request is under way and a writer was spawned.          *)
WriterFollowsLogging ==
    /\ control = "idle" /\ ~logging /\ Published => writer = "none"
    /\ logging => control = "idle"
    /\ logging /\ Published => writer # "none"
    /\ running => writer # "done"

(* A writer that has left its loop has written what stop_logging waits for.  *)
LeftAfterWriting ==
    /\ stopMark <= Len(accepted)
    /\ writer \in {"none", "done"} => Len(written) >= stopMark

(* A recording's number is at most one more than a number stoi can read for  *)
(* each session, so that the directory has a largest number.                 *)
DiskBounded == \A d \in disk : d <= MaxInt + sessions

(* A stop request joins a writer that exists, unless the logger is gone.     *)
WriterToJoin == control \in {"notify", "join"} /\ main # "gone" => writer # "none"

(* From log_params(_initial_params) until the recording is closed, a message *)
(* of the session's own open_new_mcap is accepted; if it is written already, *)
(* it is in this recording, and it is written once the writer has left.      *)
ConfigOnItsWay ==
    file # NoFile /\ control # "params" =>
        \E i \in 1..Len(accepted) :
            /\ accepted[i].opens = sessions
            /\ i <= Len(written) => landed[i] = file
            /\ writer = "done" \/ control = "close" => i <= Len(written)

(* Every write has found some recording, or none, open.                      *)
LandedWithWritten == Len(landed) = Len(written)

(* A writer, and a request that is about to start one, have a recording open.*)
RecordingIsOpen ==
    /\ control \in {"params", "init"} => file # NoFile
    /\ writer # "none" => file # NoFile

(* The inductive invariant.                                                  *)
IInv == /\ TypeOK /\ DiskBounded /\ NothingLost /\ BatchOnlyWhileWriting
        /\ WriterHasFileToItself /\ WriterFollowsLogging /\ LeftAfterWriting
        /\ WriterToJoin /\ ConfigOnItsWay /\ LandedWithWritten

-----------------------------------------------------------------------------
(* What pushing, taking and writing do to a sequence cut in three.           *)
LEMMA Singleton ==
    ASSUME NEW S, NEW m \in S
    PROVE  <<m>> \in Seq(S) /\ Len(<<m>>) = 1 /\ <<m>>[1] = m
  OBVIOUS

LEMMA AppendToLast ==
    ASSUME NEW S, NEW s \in Seq(S), NEW t \in Seq(S), NEW m \in S
    PROVE  s \o Append(t, m) = Append(s \o t, m)
<1>1. s \o Append(t, m) = s \o (t \o <<m>>)
  BY AppendIsConcat
<1>2. s \o (t \o <<m>>) = (s \o t) \o <<m>>
  BY ConcatAssociative, Singleton
<1>3. (s \o t) \o <<m>> = Append(s \o t, m)
  BY AppendIsConcat, ConcatProperties
<1> QED
  BY <1>1, <1>2, <1>3

LEMMA HeadThenTail ==
    ASSUME NEW S, NEW b \in Seq(S), b # <<>>
    PROVE  b = <<Head(b)>> \o Tail(b)
<1>1. /\ Head(b) \in S /\ Tail(b) \in Seq(S) /\ Len(Tail(b)) = Len(b) - 1
      /\ \A k \in 1..Len(Tail(b)) : Tail(b)[k] = b[k + 1]
  BY HeadTailProperties
<1>2. Len(b) \in Nat \ {0}
  BY EmptySeq
<1>3. /\ <<Head(b)>> \o Tail(b) \in Seq(S)
      /\ Len(<<Head(b)>> \o Tail(b)) = Len(b)
      /\ \A k \in 1..Len(b) : (<<Head(b)>> \o Tail(b))[k] =
              IF k <= 1 THEN <<Head(b)>>[k] ELSE Tail(b)[k - 1]
  BY <1>1, <1>2, Singleton, ConcatProperties
<1>4. \A k \in 1..Len(b) : b[k] = (<<Head(b)>> \o Tail(b))[k]
  <2> SUFFICES ASSUME NEW k \in 1..Len(b)
               PROVE  b[k] = (<<Head(b)>> \o Tail(b))[k]
    OBVIOUS
  <2>1. CASE k = 1
    BY <2>1, <1>3, Singleton, <1>1
  <2>2. CASE k # 1
    <3>1. k - 1 \in 1..Len(Tail(b)) /\ (k - 1) + 1 = k
      BY <2>2, <1>1, <1>2
    <3>2. Tail(b)[k - 1] = b[k]
      BY <3>1, <1>1
    <3> QED
      BY <3>2, <2>2, <1>3, <1>2
  <2> QED
    BY <2>1, <2>2
<1> QED
  BY <1>3, <1>4, SeqEqual

(* Moving the head of the middle part to the end of the first part.          *)
LEMMA MoveHead ==
    ASSUME NEW S, NEW w \in Seq(S), NEW h \in S, NEW t \in Seq(S), NEW i \in Seq(S)
    PROVE  Append(w, h) \o t \o i = w \o (<<h>> \o t) \o i
<1>1. Append(w, h) = w \o <<h>>
  BY AppendIsConcat
<1>2. (w \o <<h>>) \o t = w \o (<<h>> \o t)
  BY ConcatAssociative, Singleton
<1> QED
  BY <1>1, <1>2

(* The head and tail of a concatenation are those of its first part.         *)
LEMMA HeadOfConcat ==
    ASSUME NEW S, NEW b \in Seq(S), NEW i \in Seq(S), b # <<>>
    PROVE  /\ b \o i \in Seq(S) /\ b \o i # <<>>
           /\ Head(b \o i) = Head(b)
           /\ Tail(b \o i) = Tail(b) \o i
<1>1. Head(b) \in S /\ Tail(b) \in Seq(S) /\ b = <<Head(b)>> \o Tail(b)
  BY HeadTailProperties, HeadThenTail
<1>2. b \o i \in Seq(S) /\ b \o i # <<>>
  BY ConcatProperties, ConcatEqualIffEmpty
<1>3. Head(b \o i) = Head(b)
  <2>1. Len(b) \in Nat \ {0} /\ Len(i) \in Nat
    BY EmptySeq, LenProperties
  <2>2. (b \o i)[1] = b[1]
    BY <2>1, ConcatProperties
  <2> QED
    BY <2>2, SMT
<1>4. Tail(b \o i) = Tail(b) \o i
  <2>1. b \o i = <<Head(b)>> \o Tail(b \o i)
    BY <1>2, <1>3, HeadThenTail
  <2>2. b \o i = <<Head(b)>> \o (Tail(b) \o i)
    BY <1>1, ConcatAssociative, Singleton
  <2>3. Tail(b \o i) \in Seq(S) /\ Tail(b) \o i \in Seq(S) /\ <<Head(b)>> \in Seq(S)
    BY <1>1, <1>2, HeadTailProperties, ConcatProperties, Singleton
  <2> QED
    BY <2>1, <2>2, <2>3, ConcatSimplifications
<1> QED
  BY <1>2, <1>3, <1>4

-----------------------------------------------------------------------------
(* A bounded set of numbers has a largest element, so get_logfile_name's     *)
(* running maximum is one of the numbers and above all the others.           *)
LEMMA NumberIsNew ==
    ASSUME LoggerAssumption, TypeOK, DiskBounded
    PROVE  /\ NextNumber \in Nat \ {0}
           /\ NextNumber <= MaxInt + sessions + 1
           /\ NextNumber \notin disk
<1> DEFINE numbers == disk \cup {0}
           bounds == {b \in Nat : \A d \in numbers : d <= b}
<1>1. numbers \subseteq Int /\ sessions \in Nat /\ MaxInt \in Nat
  BY DEF TypeOK, Recording, Fallback, LoggerAssumption
<1>2. MaxInt + sessions \in bounds
  BY <1>1 DEF DiskBounded
<1>3. PICK least \in bounds : \A b \in bounds : ~ (b < least)
  <2> DEFINE below == {ss \in Nat \X Nat : ss[1] < ss[2]}
  <2>1. IsWellFoundedOn(below, Nat)
    BY NatLessThanWellFounded, SMT DEF OpToRel
  <2>2. bounds \subseteq Nat /\ bounds # {}
    BY <1>2
  <2>3. \A x, y \in bounds : y < x => <<y, x>> \in below
    BY <2>2
  <2> HIDE DEF bounds, below
  <2>4. \E x \in bounds : \A y \in bounds : ~ (<<y, x>> \in below)
    BY <2>1, <2>2, WFMin
  <2> QED
    BY <2>3, <2>4
<1>4. least \in numbers
  <2> SUFFICES ASSUME least \notin numbers PROVE FALSE
    OBVIOUS
  <2>1. least - 1 \in bounds
    BY <1>1
  <2> QED
    BY <2>1, <1>3
<1>5. \A d \in numbers : Max(numbers) >= d
  BY <1>1, <1>4 DEF Max
<1>6. Max(numbers) \in numbers
  BY <1>1, <1>4 DEF Max
<1>7. NextNumber = Max(numbers) + 1
  BY DEF NextNumber
<1> HIDE DEF numbers
<1>8. 0 \in numbers /\ disk \subseteq numbers
  BY DEF numbers
<1>9. \A d \in numbers : d <= MaxInt + sessions
  BY <1>2
<1>10. Max(numbers) \in Int /\ Max(numbers) >= 0 /\ Max(numbers) <= MaxInt + sessions
  BY <1>1, <1>5, <1>6, <1>8, <1>9
<1>11. NextNumber \notin disk
  BY <1>5, <1>7, <1>8, <1>10
<1> QED
  BY <1>1, <1>7, <1>10, <1>11

-----------------------------------------------------------------------------
LEMMA InitHolds ==
    ASSUME LoggerAssumption, Init
    PROVE  IInv
<1>1. stamp \in [Loggers -> 0..MaxMsgs] /\ sessions \in 0..MaxSessions /\ clock \in 0..MaxMsgs
  BY DEF Init, LoggerAssumption
<1>2. TypeOK
  <2>1. \A q \in {inputBuffer, writeBuffer, accepted, written} : q = <<>>
    BY DEF Init
  <2>2. disk \subseteq Recording /\ logName \in Recording /\ file \in Recording
    BY DEF Init, LoggerAssumption, Recording, NoFile
  <2> QED
    <3>1. \A q \in {inputBuffer, writeBuffer, accepted, written} : q \in Seq(Message)
      <4>1. <<>> \in Seq(Message)
        BY EmptySeq
      <4> QED
        BY <2>1, <4>1, Zenon
    <3>2. landed \in Seq(Recording) /\ stopMark \in Nat
      BY DEF Init
    <3> QED
      BY <1>1, <2>2, <3>1, <3>2 DEF Init, TypeOK
<1>3. DiskBounded
  BY DEF Init, DiskBounded, LoggerAssumption
<1>4. NothingLost
  BY DEF Init, NothingLost
<1>5. Len(<<>>) = 0
  OBVIOUS
<1> QED
  BY <1>2, <1>3, <1>4, <1>5 DEF Init, IInv, BatchOnlyWhileWriting, WriterHasFileToItself,
     WriterFollowsLogging, LeftAfterWriting, WriterToJoin, ConfigOnItsWay, LandedWithWritten

(* Pushing a message keeps the queue's types and order, and can only turn a  *)
(* waiting writer into a running one.                                        *)
LEMMA PushKeeps ==
    ASSUME TypeOK, NothingLost, NEW m \in Message, Push(m)
    PROVE  /\ \A q \in {inputBuffer, writeBuffer, accepted, written}' : q \in Seq(Message)
           /\ (landed \in Seq(Recording))'
           /\ NothingLost'
           /\ Len(accepted') = Len(accepted) + 1
<1>1. /\ inputBuffer \in Seq(Message) /\ writeBuffer \in Seq(Message)
      /\ accepted \in Seq(Message) /\ written \in Seq(Message)
  BY DEF TypeOK
<1>2. /\ inputBuffer' = Append(inputBuffer, m) /\ accepted' = Append(accepted, m)
      /\ writeBuffer' = writeBuffer /\ written' = written /\ landed' = landed
  BY DEF Push
<1>3. /\ inputBuffer' \in Seq(Message)
      /\ accepted' \in Seq(Message) /\ Len(accepted') = Len(accepted) + 1
  BY <1>1, <1>2, AppendProperties
<1>4. NothingLost'
  <2>1. written \o writeBuffer \in Seq(Message)
    BY <1>1, ConcatProperties
  <2>2. (written \o writeBuffer) \o Append(inputBuffer, m)
          = Append((written \o writeBuffer) \o inputBuffer, m)
    BY <1>1, <2>1, AppendToLast
  <2> QED
    BY <1>2, <2>2 DEF NothingLost
<1> QED
  BY <1>1, <1>2, <1>3, <1>4 DEF TypeOK

(* The messages the two kinds of caller push are messages.                   *)
LEMMA PushedIsMessage ==
    ASSUME LoggerAssumption, TypeOK
    PROVE  /\ \A l \in Loggers : [by |-> l, time |-> stamp[l], opens |-> 0] \in Message
           /\ [by |-> Control, time |-> clock, opens |-> sessions] \in Message
BY DEF TypeOK, Message, LoggerAssumption

(* What one write does to the queues.                                        *)
LEMMA WriteKeeps ==
    ASSUME TypeOK, NothingLost, BatchOnlyWhileWriting, WriterWrites
    PROVE  /\ \A q \in {inputBuffer, writeBuffer, accepted, written}' : q \in Seq(Message)
           /\ (landed \in Seq(Recording))'
           /\ NothingLost'
           /\ BatchOnlyWhileWriting'
           /\ Len(written') = Len(written) + 1
<1>1. /\ inputBuffer \in Seq(Message) /\ writeBuffer \in Seq(Message)
      /\ accepted \in Seq(Message) /\ written \in Seq(Message)
      /\ landed \in Seq(Recording) /\ file \in Recording
  BY DEF TypeOK
<1>2. writeBuffer # <<>>
  BY DEF WriterWrites, BatchOnlyWhileWriting
<1>3. /\ inputBuffer' = inputBuffer /\ accepted' = accepted
      /\ written' = Append(written, Head(writeBuffer))
      /\ landed' = Append(landed, file)
      /\ writeBuffer' = Tail(writeBuffer)
      /\ writer' = IF Len(writeBuffer) = 1 THEN "check" ELSE "writing"
  BY DEF WriterWrites
<1>4. /\ Head(writeBuffer) \in Message /\ Tail(writeBuffer) \in Seq(Message)
      /\ Len(Tail(writeBuffer)) = Len(writeBuffer) - 1
  BY <1>1, <1>2, HeadTailProperties
<1>5. /\ written' \in Seq(Message) /\ Len(written') = Len(written) + 1
      /\ landed' \in Seq(Recording)
  BY <1>1, <1>3, <1>4, AppendProperties
<1>6. NothingLost'
  <2> DEFINE h == Head(writeBuffer)
             t == Tail(writeBuffer)
  <2>1. Append(written, h) \o t \o inputBuffer = written \o writeBuffer \o inputBuffer
    <3>1. writeBuffer = <<h>> \o t /\ h \in Message /\ t \in Seq(Message)
      BY <1>1, <1>2, <1>4, HeadThenTail
    <3> HIDE DEF h, t
    <3>2. Append(written, h) \o t \o inputBuffer = written \o (<<h>> \o t) \o inputBuffer
      BY <1>1, <3>1, MoveHead
    <3> QED
      BY <3>1, <3>2
  <2>2. accepted' = written \o writeBuffer \o inputBuffer
    BY <1>3 DEF NothingLost
  <2>3. (written \o writeBuffer \o inputBuffer)'
          = Append(written, h) \o t \o inputBuffer
    BY <1>3
  <2> QED
    BY <2>1, <2>2, <2>3 DEF NothingLost
<1>7. BatchOnlyWhileWriting'
  <2>1. Len(writeBuffer) \in Nat \ {0}
    BY <1>1, <1>2, EmptySeq
  <2>2. Tail(writeBuffer) # <<>> <=> Len(writeBuffer) # 1
    BY <2>1, <1>4, EmptySeq
  <2> QED
    BY <2>2, <1>3 DEF BatchOnlyWhileWriting
<1> QED
  BY <1>1, <1>3, <1>4, <1>5, <1>6, <1>7

(* Taking the input buffer as the next batch reorders nothing.               *)
LEMMA TakeKeeps ==
    ASSUME TypeOK, NothingLost, BatchOnlyWhileWriting, WriterTakes
    PROVE  /\ NothingLost' /\ BatchOnlyWhileWriting'
           /\ writeBuffer \o inputBuffer = (writeBuffer \o inputBuffer)'
<1>1. /\ inputBuffer \in Seq(Message) /\ written \in Seq(Message)
      /\ writeBuffer = <<>> /\ inputBuffer # <<>>
  BY DEF TypeOK, WriterTakes, BatchOnlyWhileWriting
<1>2. /\ writeBuffer' = inputBuffer /\ inputBuffer' = <<>> /\ writer' = "writing"
      /\ accepted' = accepted /\ written' = written
  BY DEF WriterTakes
<1>3. /\ <<>> \o inputBuffer = inputBuffer /\ inputBuffer \o <<>> = inputBuffer
      /\ written \o <<>> = written
      /\ (written \o inputBuffer) \o <<>> = written \o inputBuffer
  BY <1>1, ConcatEmptySeq, ConcatProperties
<1> QED
  BY <1>1, <1>2, <1>3 DEF NothingLost, BatchOnlyWhileWriting

-----------------------------------------------------------------------------
LEMMA TypeStep ==
    ASSUME LoggerAssumption, IInv, [Next]_vars
    PROVE  TypeOK' /\ DiskBounded'
<1> USE DEF IInv
<1> DEFINE Queues == \A q \in {inputBuffer, writeBuffer, accepted, written} : q \in Seq(Message)
           Landed == landed \in Seq(Recording)
           Writers == writer \in {"none", "check", "parking", "waiting", "writing", "done"}
           Rest == /\ control \in {"idle", "params", "init", "notify", "join", "close"}
                   /\ main \in {"boot", "alive", "unlinked", "flagged", "joining", "gone"}
                   /\ logging \in BOOLEAN /\ running \in BOOLEAN
                   /\ clock \in 0..MaxMsgs
                   /\ stamp \in [Loggers -> 0..MaxMsgs]
                   /\ stopMark \in Nat
           Files == /\ logName \in Recording /\ file \in Recording
                    /\ disk \subseteq Recording
                    /\ sessions \in 0..MaxSessions
<1>1. TypeOK = (Queues /\ Landed /\ Writers /\ Rest /\ Files)
  BY DEF TypeOK
<1>2. Queues /\ Landed /\ Writers /\ Rest /\ Files
  BY <1>1
<1>3. UNCHANGED files => Files' /\ DiskBounded'
  BY <1>2 DEF files, DiskBounded
<1>4. UNCHANGED buffers => Queues' /\ Landed'
  BY <1>2 DEF buffers
<1>5. (writer' = Notified) => Writers'
  BY <1>2 DEF Notified
<1>6. (UNCHANGED writer) => Writers'
  BY <1>2
<1>7. TypeOK' = (Queues' /\ Landed' /\ Writers' /\ Rest' /\ Files')
  BY DEF TypeOK
<1> HIDE DEF Queues, Landed
<1>8. CASE UNCHANGED vars
  BY <1>8, <1>2, <1>3, <1>4, <1>6, <1>7 DEF vars, flags, calls
<1>9. ASSUME NEW l \in Loggers, BeginLog(l) PROVE TypeOK' /\ DiskBounded'
  <2>1. clock + 1 \in 0..MaxMsgs
    BY <1>9, <1>2 DEF BeginLog, LoggerAssumption
  <2>2. Rest'
    BY <1>9, <1>2, <2>1 DEF BeginLog, flags
  <2> QED
    BY <1>9, <2>2, <1>2, <1>3, <1>4, <1>6, <1>7 DEF BeginLog
<1>10. ASSUME NEW l \in Loggers, PushMsg(l) PROVE TypeOK' /\ DiskBounded'
  <2>1. Queues' /\ Landed' /\ writer' = Notified
    BY <1>10, PushKeeps, PushedIsMessage DEF PushMsg, Push, Queues, Landed
  <2>2. Rest' /\ UNCHANGED files
    BY <1>10, <1>2, LoggerAssumption DEF PushMsg, flags, LoggerAssumption
  <2> QED
    BY <2>1, <2>2, <1>3, <1>5, <1>7
<1>11. CASE WriterTakes
  <2>1. Queues' /\ Landed'
    BY <1>11, <1>2 DEF WriterTakes, Queues, Landed
  <2> QED
    BY <1>11, <2>1, <1>2, <1>3, <1>7 DEF WriterTakes, flags, calls
<1>12. CASE WriterWrites
  <2>1. Queues' /\ Landed'
    BY <1>12, WriteKeeps DEF Queues, Landed
  <2> QED
    BY <1>12, <2>1, <1>2, <1>3, <1>7 DEF WriterWrites, flags, calls
<1>13. CASE WriterExits \/ WriterParks \/ WriterBlocks \/ SpuriousWake
  BY <1>13, <1>2, <1>3, <1>4, <1>7
     DEF WriterExits, WriterParks, WriterBlocks, SpuriousWake, flags, calls
<1>14. LogfileNames \subseteq Recording /\ \A name \in LogfileNames : name <= MaxInt + (sessions + 1)
  <2>1. NextNumber \in Nat /\ NextNumber <= MaxInt + (sessions + 1)
    BY <1>2, NumberIsNew DEF LoggerAssumption
  <2>2. Fallback \in Recording /\ Fallback <= MaxInt + (sessions + 1)
    BY <1>2 DEF Recording, Fallback, LoggerAssumption
  <2> QED
    BY <2>1, <2>2 DEF LogfileNames, Recording
<1>15. CASE OpenSucceeds
  <2>1. Files' /\ DiskBounded'
    BY <1>15, <1>2, <1>14 DEF OpenSucceeds, DiskBounded, LoggerAssumption, Recording, Fallback
  <2> QED
    BY <1>15, <2>1, <1>2, <1>4, <1>6, <1>7 DEF OpenSucceeds, flags, calls
<1>16. CASE OpenFails
  <2>1. Files' /\ DiskBounded'
    BY <1>16, <1>2, <1>14 DEF OpenFails, DiskBounded, LoggerAssumption, Recording, Fallback, NoFile
  <2> QED
    BY <1>16, <2>1, <1>2, <1>4, <1>6, <1>7 DEF OpenFails, flags, calls
<1>17. CASE LogInitialParams
  <2>1. Queues' /\ Landed' /\ writer' = Notified
    BY <1>17, PushKeeps, PushedIsMessage DEF LogInitialParams, Push, Queues, Landed
  <2> QED
    BY <1>17, <2>1, <1>2, <1>3, <1>5, <1>7 DEF LogInitialParams, flags, calls
<1>18. CASE InitLogging
  BY <1>18, <1>2, <1>3, <1>4, <1>7 DEF InitLogging, calls
<1>19. CASE StopSetsFlags
  <2>1. Len(accepted) \in Nat
    BY <1>2 DEF Queues
  <2> QED
    BY <1>19, <2>1, <1>2, <1>3, <1>4, <1>6, <1>7 DEF StopSetsFlags, calls
<1>20. CASE StopNotifies \/ DestroyNotifies
  BY <1>20, <1>2, <1>3, <1>4, <1>5, <1>7 DEF StopNotifies, DestroyNotifies, flags, calls
<1>21. CASE StopJoins \/ DestroyJoins
  BY <1>21, <1>2, <1>3, <1>4, <1>7 DEF StopJoins, DestroyJoins, flags, calls
<1>22. CASE CloseActiveMcap
  <2>1. Files' /\ DiskBounded'
    BY <1>22, <1>2 DEF CloseActiveMcap, DiskBounded, Recording, NoFile
  <2> QED
    BY <1>22, <2>1, <1>2, <1>4, <1>6, <1>7 DEF CloseActiveMcap, flags, calls
<1>23. CASE DestroyUnlinks \/ DestroySetsFlags
  BY <1>23, <1>2, <1>3, <1>4, <1>6, <1>7 DEF DestroyUnlinks, DestroySetsFlags, flags, calls
<1> QED
  BY <1>8, <1>9, <1>10, <1>11, <1>12, <1>13, <1>15, <1>16, <1>17, <1>18, <1>19, <1>20,
     <1>21, <1>22, <1>23 DEF Next, Log, Writer, Request, Destroy

LEMMA QueueStep ==
    ASSUME LoggerAssumption, IInv, [Next]_vars
    PROVE  NothingLost' /\ BatchOnlyWhileWriting'
<1> USE DEF IInv
<1>1. UNCHANGED buffers => NothingLost'
  BY DEF buffers, NothingLost
<1>2. UNCHANGED writeBuffer /\ (writer' = "writing" <=> writer = "writing")
        => BatchOnlyWhileWriting'
  BY DEF BatchOnlyWhileWriting
<1>3. CASE UNCHANGED vars
  BY <1>3, <1>1, <1>2 DEF vars, buffers
<1>4. ASSUME NEW l \in Loggers, BeginLog(l) PROVE NothingLost' /\ BatchOnlyWhileWriting'
  BY <1>4, <1>1, <1>2 DEF BeginLog, buffers
<1>5. ASSUME NEW l \in Loggers, PushMsg(l) PROVE NothingLost' /\ BatchOnlyWhileWriting'
  <2>1. PICK m \in Message : Push(m)
    BY <1>5, PushedIsMessage DEF PushMsg
  <2>2. NothingLost'
    BY <2>1, PushKeeps
  <2> QED
    BY <2>1, <2>2, <1>2 DEF Push, Notified
<1>6. CASE LogInitialParams
  <2>1. PICK m \in Message : Push(m)
    BY <1>6, PushedIsMessage DEF LogInitialParams
  <2>2. NothingLost'
    BY <2>1, PushKeeps
  <2> QED
    BY <2>1, <2>2, <1>2 DEF Push, Notified
<1>7. CASE WriterTakes
  BY <1>7, TakeKeeps
<1>8. CASE WriterWrites
  BY <1>8, WriteKeeps
<1>9. CASE WriterExits \/ WriterParks \/ WriterBlocks \/ SpuriousWake
  BY <1>9, <1>1, <1>2
     DEF WriterExits, WriterParks, WriterBlocks, SpuriousWake, buffers
<1>10. CASE InitLogging
  BY <1>10, <1>1, <1>2 DEF InitLogging, WriterHasFileToItself, buffers
<1>11. CASE OpenSucceeds \/ OpenFails \/ StopSetsFlags \/ CloseActiveMcap
            \/ DestroyUnlinks \/ DestroySetsFlags
  BY <1>11, <1>1, <1>2 DEF OpenSucceeds, OpenFails, StopSetsFlags, CloseActiveMcap,
     DestroyUnlinks, DestroySetsFlags, buffers
<1>12. CASE StopNotifies \/ DestroyNotifies \/ StopJoins \/ DestroyJoins
  BY <1>12, <1>1, <1>2 DEF StopNotifies, DestroyNotifies, StopJoins, DestroyJoins,
     Notified, buffers
<1> QED
  BY <1>3, <1>4, <1>5, <1>6, <1>7, <1>8, <1>9, <1>10, <1>11, <1>12
     DEF Next, Log, Writer, Request, Destroy

LEMMA ControlStep ==
    ASSUME LoggerAssumption, IInv, [Next]_vars
    PROVE  /\ WriterHasFileToItself' /\ WriterFollowsLogging' /\ LeftAfterWriting'
           /\ WriterToJoin'
<1> USE DEF IInv
<1> DEFINE Goal == /\ WriterHasFileToItself' /\ WriterFollowsLogging' /\ LeftAfterWriting'
                   /\ WriterToJoin'
<1>1. /\ Len(accepted) \in Nat /\ Len(written) \in Nat
      /\ stopMark \in Nat
      /\ running \in BOOLEAN /\ logging \in BOOLEAN
  BY DEF TypeOK
<1> USE DEF WriterHasFileToItself, WriterFollowsLogging, LeftAfterWriting, WriterToJoin,
        Published
<1>2. CASE UNCHANGED vars
  BY <1>2 DEF vars, buffers, flags
<1>3. ASSUME NEW l \in Loggers, BeginLog(l) PROVE Goal
  BY <1>3 DEF BeginLog, buffers, flags
<1>4. ASSUME NEW m \in Message, Push(m), control' = control \/ control' = "init",
             control = "params" \/ control' = control,
             main' = main, logging' = logging, running' = running, stopMark' = stopMark
      PROVE  Goal
  <2>1. Len(accepted') = Len(accepted) + 1 /\ written' = written /\ writer' = Notified
    BY <1>4, PushKeeps DEF Push
  <2> QED
    BY <1>4, <2>1, <1>1 DEF Notified
<1>5. ASSUME NEW l \in Loggers, PushMsg(l) PROVE Goal
  BY <1>5, <1>4, PushedIsMessage DEF PushMsg, flags
<1>6. CASE LogInitialParams
  BY <1>6, <1>4, PushedIsMessage DEF LogInitialParams, flags
<1>7. CASE WriterTakes
  BY <1>7, <1>1 DEF WriterTakes, flags
<1>8. CASE WriterWrites
  <2>1. Len(written') = Len(written) + 1
    BY <1>8, WriteKeeps
  <2> QED
    BY <1>8, <2>1, <1>1 DEF WriterWrites, flags
<1>9. CASE WriterExits
  <2>1. accepted = written
    <3>1. writeBuffer = <<>> /\ inputBuffer = <<>>
      BY <1>9 DEF WriterExits, BatchOnlyWhileWriting
    <3>2. written \o <<>> = written
      BY ConcatEmptySeq DEF TypeOK
    <3> QED
      BY <3>1, <3>2 DEF NothingLost
  <2> QED
    BY <1>9, <2>1, <1>1 DEF WriterExits, buffers, flags
<1>10. CASE WriterParks \/ WriterBlocks \/ SpuriousWake
  BY <1>10 DEF WriterParks, WriterBlocks, SpuriousWake, buffers, flags
<1>11. CASE OpenSucceeds \/ OpenFails
  BY <1>11 DEF OpenSucceeds, OpenFails, buffers, flags
<1>12. CASE InitLogging
  BY <1>12 DEF InitLogging, buffers
<1>13. CASE StopSetsFlags
  BY <1>13, <1>1 DEF StopSetsFlags, buffers
<1>14. CASE StopNotifies \/ DestroyNotifies
  BY <1>14 DEF StopNotifies, DestroyNotifies, Notified, buffers, flags
<1>15. CASE StopJoins \/ DestroyJoins
  BY <1>15 DEF StopJoins, DestroyJoins, buffers, flags
<1>16. CASE CloseActiveMcap
  BY <1>16 DEF CloseActiveMcap, buffers, flags
<1>17. CASE DestroyUnlinks \/ DestroySetsFlags
  BY <1>17 DEF DestroyUnlinks, DestroySetsFlags, buffers, flags
<1> QED
  BY <1>2, <1>3, <1>5, <1>6, <1>7, <1>8, <1>9, <1>10, <1>11, <1>12, <1>13, <1>14,
     <1>15, <1>16, <1>17 DEF Next, Log, Writer, Request, Destroy

(* What is accepted begins with what is written.                             *)
LEMMA AcceptedBeginsWithWritten ==
    ASSUME TypeOK, NothingLost
    PROVE  /\ Len(accepted) \in Nat /\ Len(written) \in Nat
           /\ Len(written) <= Len(accepted)
           /\ \A i \in 1..Len(written) : accepted[i] = written[i]
           /\ (writeBuffer = <<>> /\ inputBuffer = <<>>) => Len(written) = Len(accepted)
<1>1. /\ written \in Seq(Message) /\ writeBuffer \in Seq(Message)
      /\ inputBuffer \in Seq(Message) /\ accepted \in Seq(Message)
  BY DEF TypeOK
<1>2. PICK first \in Seq(Message) : first = written \o writeBuffer
  BY <1>1, ConcatProperties
<1>3. /\ Len(written) \in Nat /\ Len(writeBuffer) \in Nat /\ Len(inputBuffer) \in Nat
      /\ Len(first) \in Nat
  BY <1>1, LenProperties
<1>4. /\ Len(first) = Len(written) + Len(writeBuffer)
      /\ \A i \in 1..Len(written) : first[i] = written[i]
  BY <1>1, <1>2, <1>3, ConcatProperties
<1>5. accepted = first \o inputBuffer
  BY <1>2 DEF NothingLost
<1>6. /\ Len(accepted) = Len(first) + Len(inputBuffer)
      /\ \A i \in 1..Len(first) : accepted[i] = first[i]
  BY <1>1, <1>3, <1>5, ConcatProperties
<1>7. (writeBuffer = <<>> => Len(writeBuffer) = 0) /\ (inputBuffer = <<>> => Len(inputBuffer) = 0)
  OBVIOUS
<1> QED
  BY <1>3, <1>4, <1>6, <1>7

LEMMA ConfigStep ==
    ASSUME LoggerAssumption, IInv, [Next]_vars
    PROVE  ConfigOnItsWay' /\ LandedWithWritten'
<1> USE DEF IInv, ConfigOnItsWay, LandedWithWritten
<1> DEFINE Goal == ConfigOnItsWay' /\ LandedWithWritten'
<1>1. /\ accepted \in Seq(Message) /\ written \in Seq(Message) /\ landed \in Seq(Recording)
      /\ file \in Recording
  BY DEF TypeOK
<1>2. /\ Len(accepted) \in Nat /\ Len(written) \in Nat /\ Len(written) <= Len(accepted)
  BY AcceptedBeginsWithWritten
<1>3. ASSUME UNCHANGED <<buffers, file, sessions>>,
             control' = "params" => control = "params",
             control = "params" => control' = "params",
             writer' = "done" \/ control' = "close" => writer = "done" \/ control = "close"
      PROVE  Goal
  BY <1>3 DEF buffers
<1>4. CASE UNCHANGED vars
  BY <1>4, <1>3 DEF vars, files
<1>5. ASSUME NEW l \in Loggers, BeginLog(l) PROVE Goal
  BY <1>5, <1>3 DEF BeginLog, files
<1>6. ASSUME NEW m \in Message, Push(m), UNCHANGED <<file, sessions>>
      PROVE  /\ Len(accepted') = Len(accepted) + 1 /\ Len(written') = Len(written)
             /\ \A i \in 1..Len(accepted) : accepted'[i] = accepted[i]
             /\ accepted'[Len(accepted) + 1] = m
             /\ landed' = landed /\ (writer' = "done" <=> writer = "done")
             /\ LandedWithWritten'
  <2>1. accepted' = Append(accepted, m) /\ written' = written /\ landed' = landed
    BY <1>6 DEF Push
  <2>2. writer' = Notified
    BY <1>6 DEF Push
  <2>3. writer' = "done" <=> writer = "done"
    BY <2>2 DEF Notified
  <2> QED
    BY <2>1, <2>3, <1>1, <1>2, AppendProperties
<1>7. ASSUME NEW l \in Loggers, PushMsg(l) PROVE Goal
  <2>1. PICK m \in Message : Push(m)
    BY <1>7, PushedIsMessage DEF PushMsg
  <2>2. UNCHANGED <<file, sessions, control>>
    BY <1>7 DEF PushMsg, files
  <2> QED
    BY <2>1, <2>2, <1>6, <1>2
<1>8. CASE LogInitialParams
  <2>1. PICK m \in Message : Push(m) /\ m.opens = sessions
    BY <1>8, PushedIsMessage DEF LogInitialParams
  <2>2. UNCHANGED <<file, sessions>> /\ control' = "init" /\ control = "params"
    BY <1>8 DEF LogInitialParams, files
  <2>3. writer # "done"
    BY <2>2 DEF WriterHasFileToItself
  <2> QED
    BY <2>1, <2>2, <2>3, <1>6, <1>2
<1>9. CASE WriterTakes
  BY <1>9 DEF WriterTakes, files
<1>10. CASE WriterWrites
  <2>1. /\ written' = Append(written, Head(writeBuffer)) /\ landed' = Append(landed, file)
        /\ accepted' = accepted /\ UNCHANGED <<control, file, sessions>>
        /\ writer' # "done"
    BY <1>10 DEF WriterWrites, files
  <2>2. Len(written') = Len(written) + 1
    BY <1>10, WriteKeeps
  <2>3. /\ Len(landed') = Len(landed) + 1
        /\ \A i \in 1..Len(landed) : landed'[i] = landed[i]
        /\ landed'[Len(landed) + 1] = file
    BY <2>1, <1>1, AppendProperties
  <2> QED
    BY <2>1, <2>2, <2>3, <1>2
<1>11. CASE WriterExits
  <2>1. Len(written) = Len(accepted)
    BY <1>11, AcceptedBeginsWithWritten DEF WriterExits, BatchOnlyWhileWriting
  <2> QED
    BY <1>11, <2>1, <1>2 DEF WriterExits, buffers, files
<1>12. CASE WriterParks \/ WriterBlocks \/ SpuriousWake
  BY <1>12, <1>3 DEF WriterParks, WriterBlocks, SpuriousWake, files
<1>13. CASE OpenSucceeds \/ OpenFails
  BY <1>13 DEF OpenSucceeds, OpenFails, buffers
<1>14. CASE InitLogging
  BY <1>14, <1>3 DEF InitLogging, files
<1>15. CASE StopSetsFlags
  BY <1>15, <1>3 DEF StopSetsFlags, files
<1>16. CASE StopNotifies \/ DestroyNotifies
  BY <1>16, <1>3 DEF StopNotifies, DestroyNotifies, Notified, files
<1>17. CASE StopJoins
  <2>1. writer = "done"
    BY <1>17 DEF StopJoins, WriterToJoin
  <2> QED
    BY <1>17, <2>1 DEF StopJoins, buffers, files
<1>18. CASE DestroyJoins
  BY <1>18, <1>3 DEF DestroyJoins, files
<1>19. CASE CloseActiveMcap
  BY <1>19 DEF CloseActiveMcap, buffers
<1>20. CASE DestroyUnlinks \/ DestroySetsFlags
  BY <1>20, <1>3 DEF DestroyUnlinks, DestroySetsFlags, files
<1> QED
  BY <1>4, <1>5, <1>7, <1>8, <1>9, <1>10, <1>11, <1>12, <1>13, <1>14, <1>15, <1>16,
     <1>17, <1>18, <1>19, <1>20 DEF Next, Log, Writer, Request, Destroy

LEMMA Invariance == Spec => []IInv
<1>1. Init => IInv
  BY InitHolds, LoggerAssumption
<1>2. IInv /\ [Next]_vars => IInv'
  BY TypeStep, QueueStep, ControlStep, ConfigStep, LoggerAssumption DEF IInv
<1> QED
  BY <1>1, <1>2, PTL DEF Spec

-----------------------------------------------------------------------------
(* Every variable keeps its type.                                            *)
THEOREM TypesKept == Spec => []TypeOK
BY Invariance, PTL DEF IInv

(* No message accepted by log_msg or log_params is lost, doubled or          *)
(* reordered on its way to the file, whatever starts, stops and destroys.    *)
THEOREM QueueKept == Spec => []NothingLost
BY Invariance, PTL DEF IInv

(* open_new_mcap and close_active_mcap never run beside a log writer.        *)
THEOREM FileNotShared == Spec => []WriterHasFileToItself
BY Invariance, PTL DEF IInv

(* The stop that ends the first session, the one that clears _running, drains*)
(* what was accepted before it. A later session's writer may have left long  *)
(* before its stop; what it leaves is the next theorem's.                    *)
THEOREM StopWaitsForWrites == Spec => []StopDrains
<1>1. IInv => StopDrains
  BY DEF IInv, StopDrains, LeftAfterWriting, WriterHasFileToItself
<1> QED
  BY <1>1, Invariance, PTL

(* In every session, a restarted one too, the log writer leaves its loop only*)
(* when all that was accepted until then has been written.                   *)
THEOREM WriterLeavesNothing ==
    Spec => [][writer # "done" /\ writer' = "done" => written = accepted]_vars
<1>1. IInv /\ [Next]_vars => [writer # "done" /\ writer' = "done" => written = accepted]_vars
  <2> SUFFICES ASSUME IInv, Next, writer # "done", writer' = "done"
               PROVE  written = accepted
    BY DEF vars
  <2>1. WriterExits
    BY DEF Next, Log, BeginLog, PushMsg, Push, Notified, Writer, WriterTakes, WriterParks,
       WriterBlocks, SpuriousWake, WriterWrites, Request, OpenSucceeds, OpenFails,
       LogInitialParams, InitLogging, StopSetsFlags, StopNotifies, StopJoins, CloseActiveMcap,
       Destroy, DestroyUnlinks, DestroySetsFlags, DestroyNotifies, DestroyJoins
  <2>2. inputBuffer = <<>> /\ writeBuffer = <<>>
    BY <2>1 DEF WriterExits, IInv, BatchOnlyWhileWriting
  <2>3. written \in Seq(Message) /\ accepted = written \o <<>> \o <<>>
    BY <2>2 DEF IInv, TypeOK, NothingLost
  <2> QED
    BY <2>3, ConcatEmptySeq
<1> QED
  BY <1>1, Invariance, PTL DEF Spec

(* A recording holds its own configuration when it is closed: the parameters *)
(* that open_new_mcap pushed have been written, and into this very file.     *)
THEOREM ConfigIsRecorded == Spec => []ConfigRecorded
<1>1. IInv => ConfigRecorded
  <2> SUFFICES ASSUME IInv, control = "close", file # NoFile
               PROVE  \E i \in DOMAIN written : written[i].opens = sessions /\ landed[i] = file
    BY DEF ConfigRecorded
  <2>1. PICK i \in 1..Len(accepted) : /\ accepted[i].opens = sessions
                                      /\ i <= Len(written) /\ landed[i] = file
    BY DEF IInv, ConfigOnItsWay
  <2>2. i \in 1..Len(written) /\ accepted[i] = written[i]
    BY <2>1, AcceptedBeginsWithWritten DEF IInv
  <2>3. DOMAIN written = 1..Len(written)
    BY LenProperties DEF IInv, TypeOK
  <2> QED
    BY <2>1, <2>2, <2>3
<1> QED
  BY <1>1, Invariance, PTL

(* Whatever is logged meanwhile, whenever logging is stopped, started or     *)
(* destroyed: as long as no recording fails to open, each message that is    *)
(* written is written to a recording. Only the ignored result of             *)
(* open_new_mcap sends messages nowhere.                                     *)
THEOREM WritesLandUnlessOpenFails ==
    Spec /\ [][~OpenFails]_vars => []AcceptedLandsInFile
<1>1. Init => RecordingIsOpen /\ AcceptedLandsInFile
  BY DEF Init, RecordingIsOpen, AcceptedLandsInFile
<1>2. ASSUME IInv, RecordingIsOpen, AcceptedLandsInFile, [Next]_vars, [~OpenFails]_vars
      PROVE  RecordingIsOpen' /\ AcceptedLandsInFile'
  <2>1. CASE UNCHANGED vars
    BY <1>2, <2>1 DEF vars, buffers, files, RecordingIsOpen, AcceptedLandsInFile
  <2>2. CASE WriterWrites
    <3>1. /\ landed' = Append(landed, file) /\ writer = "writing" /\ writer' # "none"
          /\ UNCHANGED <<control, file>>
      BY <2>2 DEF WriterWrites, files
    <3>2. landed \in Seq(Recording) /\ file \in Recording /\ file # NoFile
      BY <1>2, <3>1 DEF IInv, TypeOK, RecordingIsOpen
    <3>3. \A i \in DOMAIN landed' : \/ landed'[i] = file
                                    \/ i \in DOMAIN landed /\ landed'[i] = landed[i]
      BY <3>1, <3>2
    <3> QED
      BY <1>2, <3>1, <3>2, <3>3 DEF RecordingIsOpen, AcceptedLandsInFile
  <2>3. CASE OpenSucceeds
    <3>1. file' \in LogfileNames /\ UNCHANGED <<landed, writer>>
      BY <2>3 DEF OpenSucceeds, buffers
    <3>2. NextNumber # NoFile /\ Fallback # NoFile
      BY <1>2, LoggerAssumption, NumberIsNew DEF IInv, NextNumber, Fallback, NoFile
    <3> QED
      BY <1>2, <3>1, <3>2 DEF LogfileNames, RecordingIsOpen, AcceptedLandsInFile
  <2>4. CASE CloseActiveMcap
    BY <1>2, <2>4 DEF CloseActiveMcap, buffers, IInv, WriterHasFileToItself, RecordingIsOpen,
       AcceptedLandsInFile
  <2>5. CASE InitLogging
    BY <1>2, <2>5 DEF InitLogging, buffers, files, RecordingIsOpen, AcceptedLandsInFile
  <2>6. CASE OpenFails
    BY <1>2, <2>1, <2>6
  <2>7. CASE \/ \E l \in Loggers : Log(l)
             \/ WriterTakes \/ WriterExits \/ WriterParks \/ WriterBlocks \/ SpuriousWake
             \/ LogInitialParams \/ StopSetsFlags \/ StopNotifies \/ StopJoins
             \/ Destroy
    <3>1. /\ UNCHANGED <<landed, file>>
          /\ control' \in {"params", "init"} => control \in {"params", "init"}
          /\ writer' # "none" => writer # "none"
      BY <2>7 DEF Log, BeginLog, PushMsg, Push, Notified, WriterTakes, WriterExits, WriterParks,
         WriterBlocks, SpuriousWake, LogInitialParams, StopSetsFlags, StopNotifies, StopJoins,
         Destroy, DestroyUnlinks, DestroySetsFlags, DestroyNotifies, DestroyJoins, buffers, files
    <3> QED
      BY <1>2, <3>1 DEF RecordingIsOpen, AcceptedLandsInFile
  <2> QED
    BY <1>2, <2>1, <2>2, <2>3, <2>4, <2>5, <2>6, <2>7 DEF Next, Writer, Request
<1>3. /\ IInv /\ RecordingIsOpen /\ AcceptedLandsInFile /\ [Next]_vars /\ [~OpenFails]_vars
      => RecordingIsOpen' /\ AcceptedLandsInFile'
  BY <1>2
<1> QED
  BY <1>1, <1>3, Invariance, PTL DEF Spec

(* The status tells the truth about the writer until logging is stopped or   *)
(* the logger destroyed for the first time: it is the false _running of a    *)
(* restart that makes it lie.                                                *)
THEOREM StatusTrueAtFirst == Spec => [](running => LoggingMeansWriterAlive)
<1>1. IInv => (running => LoggingMeansWriterAlive)
  BY DEF IInv, WriterFollowsLogging, LoggingMeansWriterAlive
<1> QED
  BY <1>1, Invariance, PTL

(* No recording is written over one of an earlier session or boot, as long   *)
(* as the directory can be listed.                                           *)
THEOREM RecordingsKept == ASSUME ~ListingMayFail PROVE Spec => NewRecordingIsNew
<1>1. IInv /\ [Next]_vars => [file' \notin {file, NoFile} => file' \notin disk]_<<file, disk>>
  <2> SUFFICES ASSUME IInv, Next, file' \notin {file, NoFile}
               PROVE  file' \notin disk
    BY DEF vars, files
  <2>1. OpenSucceeds
    BY DEF Next, Log, Writer, Request, Destroy, BeginLog, PushMsg, WriterTakes, WriterExits,
       WriterParks, WriterBlocks, SpuriousWake, WriterWrites, OpenFails, LogInitialParams,
       InitLogging, StopSetsFlags, StopNotifies, StopJoins, CloseActiveMcap, DestroyUnlinks,
       DestroySetsFlags, DestroyNotifies, DestroyJoins, files, vars
  <2>2. file' = NextNumber
    BY <2>1 DEF OpenSucceeds, LogfileNames
  <2> QED
    BY <2>2, NumberIsNew, LoggerAssumption DEF IInv
<1> QED
  BY <1>1, Invariance, PTL DEF Spec, NewRecordingIsNew

(* The logger implements the log it promises its callers: pushing accepts a  *)
(* message, writing records the oldest accepted one, and every other step of *)
(* the writer, the requests and the destructor changes neither.              *)
THEOREM LoggerIsMessageLog == Spec => ImplementsMessageLog
<1> DEFINE pending == writeBuffer \o inputBuffer
<1>1. Init => Log0!Init
  BY DEF Init, Log0!Init
<1>2. IInv /\ [Next]_vars => [Log0!Next]_<<pending, written>>
  <2> SUFFICES ASSUME IInv, [Next]_vars
               PROVE  Log0!Next \/ UNCHANGED <<pending, written>>
    OBVIOUS
  <2> USE LoggerAssumption
  <2>1. TypeOK /\ NothingLost /\ BatchOnlyWhileWriting
    BY DEF IInv
  <2>2. /\ inputBuffer \in Seq(Message) /\ writeBuffer \in Seq(Message)
    BY <2>1 DEF TypeOK
  <2>3. UNCHANGED buffers => UNCHANGED <<pending, written>>
    BY DEF buffers
  <2>4. ASSUME NEW m \in Message, Push(m) PROVE Log0!Accept
    <3>1. pending' = writeBuffer \o Append(inputBuffer, m) /\ written' = written
      BY <2>4 DEF Push
    <3>2. pending' = Append(pending, m)
      BY <3>1, <2>2, AppendToLast
    <3> QED
      BY <3>1, <3>2 DEF Log0!Accept
  <2>5. ASSUME WriterWrites PROVE Log0!Record
    <3>1. writeBuffer # <<>>
      BY <2>1, <2>5 DEF WriterWrites, BatchOnlyWhileWriting
    <3>2. /\ pending # <<>> /\ Head(pending) = Head(writeBuffer)
          /\ Tail(pending) = Tail(writeBuffer) \o inputBuffer
      BY <2>2, <3>1, HeadOfConcat
    <3>3. /\ written' = Append(written, Head(writeBuffer))
          /\ pending' = Tail(writeBuffer) \o inputBuffer
      BY <2>5 DEF WriterWrites
    <3> QED
      BY <3>2, <3>3 DEF Log0!Record
  <2>6. ASSUME WriterTakes PROVE UNCHANGED <<pending, written>>
    BY <2>1, <2>6, TakeKeeps DEF WriterTakes
  <2>7. (\E m \in Message : Push(m)) \/ WriterWrites \/ WriterTakes \/ UNCHANGED buffers
    BY <2>1, PushedIsMessage DEF Next, Log, Writer, Request, Destroy, BeginLog, PushMsg,
       WriterExits, WriterParks, WriterBlocks, SpuriousWake, OpenSucceeds, OpenFails,
       LogInitialParams, InitLogging, StopSetsFlags, StopNotifies, StopJoins, CloseActiveMcap,
       DestroyUnlinks, DestroySetsFlags, DestroyNotifies, DestroyJoins, vars
  <2> QED
    BY <2>3, <2>4, <2>5, <2>6, <2>7 DEF Log0!Next
<1> QED
  BY <1>1, <1>2, Invariance, PTL DEF Spec, ImplementsMessageLog, Log0!Spec
=============================================================================
