----------------------------- MODULE MessageLog -----------------------------
(* What the logger promises the threads that log: a message it accepted is   *)
(* recorded exactly once, in the order of acceptance. Threads, locks,        *)
(* batches and flags do not exist at this level.                             *)
EXTENDS Sequences

CONSTANT Message

VARIABLES pending,   \* accepted, not yet handed to the file writer
          recorded   \* handed to the file writer, oldest first

Init == /\ pending = <<>>
        /\ recorded = <<>>

Accept == /\ \E m \in Message : pending' = Append(pending, m)
          /\ UNCHANGED recorded

Record == /\ pending # <<>>
          /\ recorded' = Append(recorded, Head(pending))
          /\ pending' = Tail(pending)

Next == Accept \/ Record

Spec == Init /\ [][Next]_<<pending, recorded>>
=============================================================================
