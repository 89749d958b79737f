------------------------------- MODULE CappedLog -------------------------------
(***************************************************************************)
(* capped_log.py: the size-capped log behind the spy's three taps (speech, *)
(* braille, NVDA log).  Every method runs under the log's own lock, so     *)
(* each one is a single function from the log to a new log or to a reply.  *)
(* A log keeps its newest entries in `items' and counts in `dropped' how   *)
(* many older ones it has let go.                                          *)
(***************************************************************************)
EXTENDS Integers, Sequences

CONSTANT Capacity           \* DEFAULT_CAPACITY, or the constructor's argument

ASSUME CapacityAssumption == Capacity \in Nat

EmptyLog == [items |-> <<>>, dropped |-> 0]

\* The position of the newest entry, not of the next one.
IndexOfNewest(log) == log.dropped + Len(log.items) - 1

IndexOf(log) == log.dropped + Len(log.items)

\* An eviction that is not counted.
AppendedUncounted(log, entry) ==
  LET all == Append(log.items, entry)
  IN  [log EXCEPT !.items = IF Len(all) > Capacity THEN Tail(all) ELSE all]

Appended(log, entry) ==
  LET all      == Append(log.items, entry)
      overflow == Len(all) - Capacity
  IN  IF overflow > 0
      THEN [items   |-> SubSeq(all, overflow + 1, Len(all)),
            dropped |-> log.dropped + overflow]
      ELSE [log EXCEPT !.items = all]

Since(log, index) ==
  LET start == IF index > log.dropped THEN index - log.dropped ELSE 0
  IN  SubSeq(log.items, start + 1, Len(log.items))

\* mark_last(cancelled=True), the one call of mark_last in the spy.
LastMarked(log) ==
  IF log.items = <<>>
  THEN log
  ELSE [log EXCEPT !.items[Len(log.items)].cancelled = TRUE]

\* A clear that goes on counting from where the log was.
ClearedInPlace(log) == [items |-> <<>>, dropped |-> IndexOf(log)]

Cleared(log) == EmptyLog
================================================================================
