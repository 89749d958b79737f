----------------------------- MODULE SpeechHistory -----------------------------
(***************************************************************************)
(* What a test is promised about NVDA's speech: an unbounded history since *)
(* the last clear, a count of cancellations, and two reads.  An index read *)
(* is a position in the history; a read from an index returns everything   *)
(* from there on, and may leave out old entries only if it still returns   *)
(* the newest Capacity of them.  SpeechTap is shown to implement this.     *)
(***************************************************************************)
EXTENDS Integers, Sequences

CONSTANTS Capacity,         \* entries a read is sure to return
          Utterances        \* what NVDA can be asked to say

VARIABLES history,          \* every entry since the last clear, oldest first
          cancels,          \* cancellations since the last clear
          cursor,           \* the last index a test read
          answer            \* the last reply to a read

vars == <<history, cancels, cursor, answer>>

Init == /\ history = <<>>
        /\ cancels = 0
        /\ cursor = 0
        /\ answer = <<>>

Speak == /\ \E u \in Utterances :
              history' = Append(history, [id |-> u, cancelled |-> FALSE])
         /\ UNCHANGED <<cancels, cursor, answer>>

CountCancel == /\ cancels' = cancels + 1
               /\ UNCHANGED <<history, cursor, answer>>

MarkLast == /\ history # <<>>
            /\ history' = [history EXCEPT ![Len(history)].cancelled = TRUE]
            /\ UNCHANGED <<cancels, cursor, answer>>

Clear == /\ history' = <<>>
         /\ cancels' = 0
         /\ UNCHANGED <<cursor, answer>>

ReadIndex == /\ cursor' = Len(history)
             /\ UNCHANGED <<history, cancels, answer>>

ReadSince(index) ==
  /\ \E from \in index .. (index + Len(history)) :
       /\ from = index \/ from + Capacity <= Len(history)
       /\ answer' = SubSeq(history, from + 1, Len(history))
  /\ UNCHANGED <<history, cancels, cursor>>

Next == \/ Speak
        \/ CountCancel
        \/ MarkLast
        \/ Clear
        \/ ReadIndex
        \/ ReadSince(0)
        \/ ReadSince(cursor)

Spec == Init /\ [][Next]_vars
================================================================================
