------------------------------- MODULE SpeechTap -------------------------------
(***************************************************************************)
(* speech_tap.py: what NVDA asks to say, captured on NVDA's main thread    *)
(* and read on the RPC server's thread.  The log has a lock of its own     *)
(* (CappedLog); _LOCK guards the count of cancellations and is held by     *)
(* speech_clear over both of its statements.                               *)
(*                                                                         *)
(* Two handlers are not one step: _on_speech_canceled counts under _LOCK   *)
(* and marks the log after it, and speech_clear empties the log before it  *)
(* zeroes the count.  Everything else each thread does is one locked step. *)
(***************************************************************************)
EXTENDS CappedLog, FiniteSets

CONSTANTS MaxUtterances,    \* bound: sequences NVDA queues for speech
          MaxCancellations  \* bound: cancellations counted at one time

ASSUME BoundsAssumption == MaxUtterances \in Nat /\ MaxCancellations \in Nat

VARIABLES log,              \* _SEQUENCES
          cancellations,    \* _CANCELLATIONS
          installed,        \* _INSTALLED: the callbacks are registered
          marking,          \* the main thread has counted and not yet marked
          clearing,         \* the RPC thread holds _LOCK in speech_clear
          cursor,           \* the last reply to speech_index, kept by the host
          answer,           \* the last reply to speech_since
          uttered,          \* how many sequences were captured: names them
          history           \* ghost: every entry since the last clear

vars == <<log, cancellations, installed, marking, clearing, cursor, answer,
          uttered, history>>

Entry == [id : 1..MaxUtterances, cancelled : BOOLEAN]

TypeOK == /\ log \in [items : Seq(Entry), dropped : Nat]
          /\ cancellations \in Nat
          /\ installed \in BOOLEAN
          /\ marking \in BOOLEAN
          /\ clearing \in BOOLEAN
          /\ cursor \in Nat
          /\ answer \in Seq(Entry)
          /\ uttered \in 0..MaxUtterances
          /\ history \in Seq(Entry)

Init == /\ log = EmptyLog
        /\ cancellations = 0
        /\ installed = FALSE
        /\ marking = FALSE
        /\ clearing = FALSE
        /\ cursor = 0
        /\ answer = <<>>
        /\ uttered = 0
        /\ history = <<>>
--------------------------------------------------------------------------------
(* The main thread.                                                        *)

Install == /\ ~marking
           /\ ~installed
           /\ installed' = TRUE
           /\ UNCHANGED <<log, cancellations, marking, clearing, cursor, answer,
                          uttered, history>>

Uninstall == /\ ~marking
             /\ installed
             /\ installed' = FALSE
             /\ UNCHANGED <<log, cancellations, marking, clearing, cursor,
                            answer, uttered, history>>

\* _on_speech_queued; an empty sequence is ignored and changes nothing.
SpeechQueued ==
  LET entry == [id |-> uttered + 1, cancelled |-> FALSE]
  IN  /\ installed
      /\ ~marking
      /\ uttered < MaxUtterances
      /\ log' = Appended(log, entry)
      /\ history' = Append(history, entry)
      /\ uttered' = uttered + 1
      /\ UNCHANGED <<cancellations, installed, marking, clearing, cursor, answer>>

\* A count that does not wait for _LOCK.
CountUnlocked == /\ installed
                 /\ ~marking
                 /\ cancellations < MaxCancellations
                 /\ cancellations' = cancellations + 1
                 /\ marking' = TRUE
                 /\ UNCHANGED <<log, installed, clearing, cursor, answer,
                                uttered, history>>

\* _on_speech_canceled, its first half: waits for _LOCK.
CountCancellation == /\ installed
                     /\ ~marking
                     /\ ~clearing
                     /\ cancellations < MaxCancellations
                     /\ cancellations' = cancellations + 1
                     /\ marking' = TRUE
                     /\ UNCHANGED <<log, installed, clearing, cursor, answer,
                                    uttered, history>>

\* _on_speech_canceled, its second half, outside _LOCK.
MarkCancelled ==
  /\ marking
  /\ log' = LastMarked(log)
  /\ history' = IF log.items = <<>>
                THEN history
                ELSE [history EXCEPT ![Len(history)].cancelled = TRUE]
  /\ marking' = FALSE
  /\ UNCHANGED <<cancellations, installed, clearing, cursor, answer, uttered>>
--------------------------------------------------------------------------------
(* The RPC thread.                                                         *)

\* speech_index
SpeechIndex == /\ ~clearing
               /\ cursor' = IndexOf(log)
               /\ UNCHANGED <<log, cancellations, installed, marking, clearing,
                              answer, uttered, history>>

\* speech_since(index)
SpeechSince(index) == /\ ~clearing
                      /\ answer' = Since(log, index)
                      /\ UNCHANGED <<log, cancellations, installed, marking,
                                     clearing, cursor, uttered, history>>

\* speech_clear, under _LOCK: first the log, then the count.
ClearLog == /\ ~clearing
            /\ log' = Cleared(log)
            /\ history' = <<>>
            /\ clearing' = TRUE
            /\ UNCHANGED <<cancellations, installed, marking, cursor, answer,
                           uttered>>

ZeroCount == /\ clearing
             /\ cancellations' = 0
             /\ clearing' = FALSE
             /\ UNCHANGED <<log, installed, marking, cursor, answer, uttered,
                            history>>
--------------------------------------------------------------------------------
MainThread == Install \/ Uninstall \/ SpeechQueued \/ CountCancellation
              \/ MarkCancelled

RpcThread == SpeechIndex \/ SpeechSince(0) \/ SpeechSince(cursor) \/ ClearLog
             \/ ZeroCount

Next == MainThread \/ RpcThread

Spec == Init /\ [][Next]_vars
--------------------------------------------------------------------------------
(* Properties.                                                             *)

\* A log l holds the newest end of the sequence past, at its true position.
NewestOf(l, past) ==
  /\ l.dropped + Len(l.items) = Len(past)
  /\ Len(l.items) <= Capacity
  /\ \A k \in 1..Len(l.items) : l.items[k] = past[l.dropped + k]
  /\ l.dropped > 0 => Len(l.items) = Capacity

\* Entries are told apart by their ids, which are never used twice.
Marked(entries) ==
  {entries[k].id : k \in {j \in DOMAIN entries : entries[j].cancelled}}

(* The log never holds more entries marked as cancelled than the count a   *)
(* test reads: counting comes before marking in _on_speech_canceled, and   *)
(* speech_clear drops the marks before it drops the count.                 *)
CancelledWithinCount == Cardinality(Marked(log.items)) <= cancellations

(* What the log holds is exactly the newest end of the history, at its     *)
(* true position: neither an eviction nor a clear that races with capture  *)
(* shifts an index, loses an entry early, or brings an old one back.       *)
LogIsNewestHistory == NewestOf(log, history)

(* A test sees the tap as an unbounded history with an atomic clear.       *)
History == INSTANCE SpeechHistory
             WITH Utterances <- 1..MaxUtterances,
                  cancels    <- IF clearing THEN 0 ELSE cancellations

ImplementsHistory == History!Spec
================================================================================
