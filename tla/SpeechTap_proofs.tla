--------------------------- MODULE SpeechTap_proofs ----------------------------
(***************************************************************************)
(* Theorems about SpeechTap for every capacity and every bound, checked by *)
(* TLAPS.                                                                  *)
(***************************************************************************)
EXTENDS SpeechTap, CappedLog_proofs, FiniteSetTheorems, SequenceTheorems, TLAPS

--------------------------------------------------------------------------------
(* What the log's operations return.                                       *)

LogType == [items : Seq(Entry), dropped : Nat]

LEMMA AppendedIsTyped ==
  ASSUME NEW l \in LogType, NEW e \in Entry
  PROVE  Appended(l, e) \in LogType
  BY AppendedFacts DEF LogType, LogsOf

\* An append keeps the newest end, whether or not it evicts.
LEMMA AppendedKeepsNewest ==
  ASSUME NEW l \in LogType, NEW past \in Seq(Entry), NEW e \in Entry,
         NewestOf(l, past)
  PROVE  NewestOf(Appended(l, e), Append(past, e))
<1> DEFINE items == l.items
           all == Append(items, e)
           longer == Append(past, e)
           a == Appended(l, e)
<1>1. /\ items \in Seq(Entry) /\ l.dropped \in Nat
      /\ Len(items) \in Nat /\ Len(past) \in Nat /\ Capacity \in Nat
  BY CapacityAssumption DEF LogType
<1>2. /\ all \in Seq(Entry) /\ Len(all) = Len(items) + 1
      /\ \A k \in 1..Len(items) : all[k] = items[k]
      /\ all[Len(items) + 1] = e
  BY <1>1, AppendFacts
<1>3. /\ Len(longer) = Len(past) + 1
      /\ \A k \in 1..Len(past) : longer[k] = past[k]
      /\ longer[Len(past) + 1] = e
  BY AppendFacts
<1>4. /\ l.dropped + Len(items) = Len(past) /\ Len(items) <= Capacity
      /\ \A k \in 1..Len(items) : items[k] = past[l.dropped + k]
      /\ l.dropped > 0 => Len(items) = Capacity
  BY DEF NewestOf
\* The lengths alone.
<1>n. /\ l.dropped \in Nat /\ Len(items) \in Nat /\ Len(past) \in Nat /\ Capacity \in Nat
      /\ Len(all) = Len(items) + 1 /\ Len(longer) = Len(past) + 1
      /\ l.dropped + Len(items) = Len(past) /\ Len(items) <= Capacity
      /\ l.dropped > 0 => Len(items) = Capacity
  BY <1>1, <1>2, <1>3, <1>4
\* What the operator returns.
<1>5. Len(all) > Capacity => /\ a.items = SubSeq(all, 1 + 1, Len(all))
                             /\ a.dropped = l.dropped + 1
  <2> SUFFICES ASSUME Len(all) > Capacity
               PROVE  a = [items   |-> SubSeq(all, 1 + 1, Len(all)),
                           dropped |-> l.dropped + 1]
    OBVIOUS
  <2>1. Len(all) - Capacity = 1
    <3> HIDE DEF all, items
    <3> QED BY <1>n
  <2>2. a = [items   |-> SubSeq(all, (Len(all) - Capacity) + 1, Len(all)),
             dropped |-> l.dropped + (Len(all) - Capacity)]
    <3>1. Len(all) - Capacity > 0
      BY <2>1
    <3> QED BY <3>1, Zenon DEF Appended
  <2> HIDE DEF all, a
  <2> QED BY <2>1, <2>2
<1>6. ~(Len(all) > Capacity) => a.items = all /\ a.dropped = l.dropped
  BY <1>1, <1>2 DEF Appended, LogType
<1>7. Len(all) > Capacity =>
        /\ Len(a.items) = Len(all) - 1
        /\ \A k \in 1..(Len(all) - 1) : a.items[k] = all[1 + k]
  <2>1. Len(all) > Capacity => 1 <= Len(all)
    BY <1>1, <1>2
  <2> HIDE DEF all, a
  <2> QED BY <1>2, <1>5, <2>1, SuffixFacts
<1> HIDE DEF items, all, longer, a
<1>d. Len(all) > Capacity => a.dropped = l.dropped + 1
  BY <1>5
<1>m. Len(all) > Capacity => Len(a.items) = Len(all) - 1
  BY <1>7
<1>8. \A k \in 1..Len(all) : all[k] = longer[l.dropped + k]
  <2> SUFFICES ASSUME NEW k \in 1..Len(all)
               PROVE  all[k] = longer[l.dropped + k]
    OBVIOUS
  <2>1. CASE k \in 1..Len(items)
    <3>1. l.dropped + k \in 1..Len(past)
      BY <1>n, <2>1
    <3> QED BY <1>2, <1>3, <1>4, <2>1, <3>1
  <2>2. CASE k = Len(items) + 1
    <3>1. l.dropped + k = Len(past) + 1
      BY <1>n, <2>2
    <3> QED BY <1>2, <1>3, <2>2, <3>1
  <2>3. k \in 1..Len(items) \/ k = Len(items) + 1
    BY <1>n
  <2> QED BY <2>1, <2>2, <2>3
<1>9. CASE Len(all) > Capacity
  <2>1. /\ Len(all) = Capacity + 1 /\ Len(a.items) = Capacity
        /\ a.dropped + Len(a.items) = Len(longer)
    <3>1. Len(all) = Capacity + 1 /\ Len(items) = Capacity
      BY <1>n, <1>9
    <3>2. Len(a.items) = Capacity
      BY <1>m, <1>9, <1>n, <3>1
    <3>3. (l.dropped + 1) + Capacity = Len(longer)
      BY <1>n, <3>1
    <3> QED BY <1>d, <1>9, <3>1, <3>2, <3>3
  <2>2. ASSUME NEW k \in 1..Len(a.items)
        PROVE  a.items[k] = longer[a.dropped + k]
    <3>1. k \in 1..(Len(all) - 1) /\ 1 + k \in 1..Len(all)
      BY <1>n, <2>1
    <3>2. a.items[k] = longer[l.dropped + (1 + k)]
      BY <1>7, <1>8, <1>9, <3>1
    <3>3. l.dropped + (1 + k) = a.dropped + k
      <4>1. a.dropped = l.dropped + 1 /\ k \in Nat
        BY <1>d, <1>9, <1>n, <3>1
      <4>2. l.dropped \in Nat
        BY <1>1
      <4> QED BY <4>1, <4>2
    <3> QED BY <3>2, <3>3
  <2>3. NewestOf(a, longer)
    BY <1>1, <2>1, <2>2 DEF NewestOf
  <2> QED BY <2>3 DEF a, longer
<1>10. CASE ~(Len(all) > Capacity)
  <2>1. /\ a.dropped + Len(a.items) = Len(longer) /\ Len(a.items) <= Capacity
        /\ a.dropped > 0 => Len(a.items) = Capacity
    BY <1>n, <1>6, <1>10
  <2>2. NewestOf(a, longer)
    BY <1>6, <1>8, <1>10, <2>1 DEF NewestOf
  <2> QED BY <2>2 DEF a, longer
<1> QED BY <1>9, <1>10

\* A read from an index is a suffix of the past, cut no shorter than Capacity.
LEMMA SinceIsSuffix ==
  ASSUME NEW l \in LogType, NEW past \in Seq(Entry), NewestOf(l, past),
         NEW i \in Nat
  PROVE  /\ Since(l, i) \in Seq(Entry)
         /\ \E from \in i .. (i + Len(past)) :
              /\ from = i \/ from + Capacity <= Len(past)
              /\ Since(l, i) = SubSeq(past, from + 1, Len(past))
<1> DEFINE items == l.items
           start == IF i > l.dropped THEN i - l.dropped ELSE 0
           from == l.dropped + start
           left == SubSeq(items, start + 1, Len(items))
           right == SubSeq(past, from + 1, Len(past))
<1>1. /\ items \in Seq(Entry) /\ l.dropped \in Nat
      /\ Len(items) \in Nat /\ Len(past) \in Nat /\ Capacity \in Nat
      /\ start \in Nat /\ from \in Nat
  BY CapacityAssumption DEF LogType
<1>2. /\ l.dropped + Len(items) = Len(past)
      /\ \A k \in 1..Len(items) : items[k] = past[l.dropped + k]
      /\ l.dropped > 0 => Len(items) = Capacity
  BY DEF NewestOf
<1>3. from \in i .. (i + Len(past)) /\ (from = i \/ from + Capacity <= Len(past))
  BY <1>1, <1>2
<1> HIDE DEF items, start
<1>n. /\ l.dropped \in Nat /\ Len(items) \in Nat /\ Len(past) \in Nat
      /\ start \in Nat /\ from = l.dropped + start
      /\ l.dropped + Len(items) = Len(past)
  BY <1>1, <1>2
<1>4. /\ left \in Seq(Entry)
      /\ Len(left) = IF start <= Len(items) THEN Len(items) - start ELSE 0
      /\ \A k \in 1..(Len(items) - start) : left[k] = items[start + k]
  BY <1>1, SuffixFacts
<1>5. /\ right \in Seq(Entry)
      /\ Len(right) = IF from <= Len(past) THEN Len(past) - from ELSE 0
      /\ \A k \in 1..(Len(past) - from) : right[k] = past[from + k]
  BY <1>1, SuffixFacts
<1>6. left = right
  <2>1. Len(left) = Len(right)
    <3>1. Len(left) = IF start <= Len(items) THEN Len(items) - start ELSE 0
      BY <1>4
    <3>2. Len(right) = IF from <= Len(past) THEN Len(past) - from ELSE 0
      BY <1>5
    <3> HIDE DEF left, right, from
    <3>3. start <= Len(items) <=> from <= Len(past)
      BY <1>n
    <3>4. Len(items) - start = Len(past) - from
      BY <1>n
    <3> QED BY <3>1, <3>2, <3>3, <3>4
  <2>2. \A k \in 1..Len(left) : left[k] = right[k]
    <3> SUFFICES ASSUME NEW k \in 1..Len(left)
                 PROVE  left[k] = right[k]
      OBVIOUS
    <3>0. Len(left) = IF start <= Len(items) THEN Len(items) - start ELSE 0
      BY <1>4
    <3> HIDE DEF left, right, from
    <3>a. k \in Nat /\ 1 <= k /\ k <= Len(items) - start
      BY <1>n, <3>0
    <3>1. /\ k \in 1..(Len(items) - start) /\ k \in 1..(Len(past) - from)
          /\ start + k \in 1..Len(items)
          /\ l.dropped + (start + k) = from + k
      BY <1>n, <3>a
    <3> QED BY <1>2, <1>4, <1>5, <3>1
  <2> QED BY <1>4, <1>5, <2>1, <2>2, SeqEqual
<1>7. Since(l, i) = left
  BY DEF Since, items, start
<1> QED BY <1>3, <1>4, <1>6, <1>7
--------------------------------------------------------------------------------
LEMMA MarkedEntryIsTyped ==
  ASSUME NEW f \in Entry
  PROVE  [f EXCEPT !.cancelled = TRUE] \in Entry
  BY Zenon DEF Entry

LEMMA LastMarkedIsTyped ==
  ASSUME NEW l \in LogType
  PROVE  LastMarked(l) \in LogType
<1>1. CASE l.items = <<>>
  BY <1>1 DEF LastMarked
<1>2. CASE l.items # <<>>
  <2> DEFINE n == Len(l.items)
             marked == [l.items EXCEPT ![n].cancelled = TRUE]
  <2>1. l.items \in Seq(Entry) /\ l.dropped \in Nat /\ n \in 1..Len(l.items)
    BY <1>2 DEF LogType
  <2>2. [l.items[n] EXCEPT !.cancelled = TRUE] \in Entry
    BY <2>1, ElementOfSeq, MarkedEntryIsTyped
  <2>3. marked = [l.items EXCEPT ![n] = [l.items[n] EXCEPT !.cancelled = TRUE]]
    BY <2>1
  <2>4. marked \in Seq(Entry)
    BY <2>1, <2>2, <2>3, ExceptSeq
  <2>5. LastMarked(l) = [items |-> marked, dropped |-> l.dropped]
    BY <1>2 DEF LastMarked, LogType
  <2> QED BY <2>1, <2>4, <2>5 DEF LogType
<1> QED BY <1>1, <1>2

\* Marking the newest entry of the log marks the newest entry of the history.
LEMMA MarkKeepsNewest ==
  ASSUME NEW l \in LogType, NEW past \in Seq(Entry), NewestOf(l, past),
         l.items # <<>>
  PROVE  LET p == [past EXCEPT ![Len(past)].cancelled = TRUE]
         IN  p \in Seq(Entry) /\ Len(p) = Len(past) /\ NewestOf(LastMarked(l), p)
<1> DEFINE n == Len(l.items)
           m == Len(past)
           p == [past EXCEPT ![m].cancelled = TRUE]
           q == [l.items EXCEPT ![n].cancelled = TRUE]
           x == [l.items[n] EXCEPT !.cancelled = TRUE]
<1>1. /\ l.items \in Seq(Entry) /\ l.dropped \in Nat
      /\ n \in 1..n /\ m \in 1..m /\ n \in Nat /\ m \in Nat /\ l.dropped + n = m
      /\ l.items[n] = past[m]
      /\ \A k \in 1..n : l.items[k] = past[l.dropped + k]
      /\ n <= Capacity /\ (l.dropped > 0 => n = Capacity)
  BY DEF LogType, NewestOf
<1>2. x \in Entry
  BY <1>1, ElementOfSeq, MarkedEntryIsTyped
<1>3. q = [l.items EXCEPT ![n] = x] /\ p = [past EXCEPT ![m] = x]
  BY <1>1
<1>4. /\ q \in Seq(Entry) /\ Len(q) = n
      /\ \A k \in 1..n : q[k] = IF k = n THEN x ELSE l.items[k]
  BY <1>1, <1>2, <1>3, ExceptSeq
<1>5. /\ p \in Seq(Entry) /\ Len(p) = m
      /\ \A k \in 1..m : p[k] = IF k = m THEN x ELSE past[k]
  BY <1>1, <1>2, <1>3, ExceptSeq
<1>6. LastMarked(l) = [items |-> q, dropped |-> l.dropped]
  BY DEF LastMarked, LogType
<1>7. \A k \in 1..n : q[k] = p[l.dropped + k]
  <2> SUFFICES ASSUME NEW k \in 1..n
               PROVE  q[k] = p[l.dropped + k]
    OBVIOUS
  <2>1. l.dropped + k \in 1..m /\ (k = n <=> l.dropped + k = m)
    <3>1. /\ l.dropped \in Nat /\ n \in Nat /\ m \in Nat /\ l.dropped + n = m
      BY <1>1
    <3> HIDE DEF n, m
    <3> QED BY <3>1
  <2> HIDE DEF p, q, x
  <2> QED BY <1>1, <1>4, <1>5, <2>1
<1>8. NewestOf(LastMarked(l), p)
  <2>1. LastMarked(l).items = q /\ LastMarked(l).dropped = l.dropped
    BY <1>6
  <2> HIDE DEF p, q
  <2> QED BY <1>1, <1>4, <1>5, <1>7, <2>1 DEF NewestOf
<1> QED BY <1>5, <1>8
--------------------------------------------------------------------------------
(* The log is the newest end of the history in every reachable state.      *)

Inv == TypeOK /\ LogIsNewestHistory

LEMMA InvInit == Init => Inv
<1> SUFFICES ASSUME Init PROVE Inv
  OBVIOUS
<1>1. log = [items |-> <<>>, dropped |-> 0] /\ history = <<>>
  BY DEF Init, EmptyLog
<1>2. TypeOK
  <2>1. log \in [items : Seq(Entry), dropped : Nat]
    BY <1>1
  <2>2. history \in Seq(Entry) /\ answer \in Seq(Entry)
    BY DEF Init
  <2>3. uttered \in 0..MaxUtterances /\ cancellations \in Nat /\ cursor \in Nat
    BY BoundsAssumption DEF Init
  <2>4. installed \in BOOLEAN /\ marking \in BOOLEAN /\ clearing \in BOOLEAN
    BY DEF Init
  <2> QED BY <2>1, <2>2, <2>3, <2>4 DEF TypeOK
<1>3. LogIsNewestHistory
  BY <1>1, CapacityAssumption DEF LogIsNewestHistory, NewestOf
<1> QED BY <1>2, <1>3 DEF Inv

LEMMA InvStep == Inv /\ [Next]_vars => Inv'
<1> SUFFICES ASSUME Inv, [Next]_vars PROVE Inv'
  OBVIOUS
<1> USE DEF Inv
<1>t. /\ log \in LogType /\ history \in Seq(Entry) /\ NewestOf(log, history)
      /\ cancellations \in Nat /\ cursor \in Nat /\ answer \in Seq(Entry)
      /\ uttered \in 0..MaxUtterances
      /\ installed \in BOOLEAN /\ marking \in BOOLEAN /\ clearing \in BOOLEAN
  BY DEF TypeOK, LogIsNewestHistory, LogType
<1>1. CASE Install
  BY <1>1, <1>t DEF Install, TypeOK, LogIsNewestHistory, LogType, NewestOf
<1>2. CASE Uninstall
  BY <1>2, <1>t DEF Uninstall, TypeOK, LogIsNewestHistory, LogType, NewestOf
<1>3. CASE SpeechQueued
  <2> DEFINE e == [id |-> uttered + 1, cancelled |-> FALSE]
  <2>1. e \in Entry /\ uttered' \in 0..MaxUtterances
    BY <1>3, <1>t, BoundsAssumption DEF SpeechQueued, Entry
  <2>2. log' = Appended(log, e) /\ history' = Append(history, e)
    BY <1>3 DEF SpeechQueued
  <2>3. log' \in LogType /\ history' \in Seq(Entry)
    BY <1>t, <2>1, <2>2, AppendedIsTyped
  <2>4. NewestOf(log', history')
    BY <1>t, <2>1, <2>2, AppendedKeepsNewest
  <2> QED BY <1>3, <1>t, <2>1, <2>3, <2>4
          DEF SpeechQueued, TypeOK, LogIsNewestHistory, LogType, NewestOf
<1>4. CASE CountCancellation
  BY <1>4, <1>t DEF CountCancellation, TypeOK, LogIsNewestHistory, LogType, NewestOf
<1>5. CASE MarkCancelled
  <2>1. log' \in LogType
    BY <1>5, <1>t, LastMarkedIsTyped DEF MarkCancelled
  <2>2. history' \in Seq(Entry) /\ NewestOf(log', history')
    <3>1. CASE log.items = <<>>
      BY <1>5, <1>t, <3>1 DEF MarkCancelled, LastMarked
    <3>2. CASE log.items # <<>>
      BY <1>5, <1>t, <3>2, MarkKeepsNewest DEF MarkCancelled
    <3> QED BY <3>1, <3>2
  <2> QED BY <1>5, <1>t, <2>1, <2>2
          DEF MarkCancelled, TypeOK, LogIsNewestHistory, LogType, NewestOf
<1>6. CASE SpeechIndex
  <2>1. cursor' \in Nat
    BY <1>6, <1>t DEF SpeechIndex, IndexOf, LogType
  <2> QED BY <1>6, <1>t, <2>1
          DEF SpeechIndex, TypeOK, LogIsNewestHistory, LogType, NewestOf
<1>7. ASSUME NEW i \in {0, cursor}, SpeechSince(i)
      PROVE  Inv'
  <2>1. answer' \in Seq(Entry)
    BY <1>7, <1>t, SinceIsSuffix DEF SpeechSince
  <2> QED BY <1>7, <1>t, <2>1
          DEF SpeechSince, TypeOK, LogIsNewestHistory, LogType, NewestOf
<1>8. CASE ClearLog
  <2>1. log' = [items |-> <<>>, dropped |-> 0] /\ history' = <<>>
    BY <1>8 DEF ClearLog, Cleared, EmptyLog
  <2>2. NewestOf(log', history')
    BY <2>1, CapacityAssumption DEF NewestOf
  <2> QED BY <1>8, <1>t, <2>1, <2>2
          DEF ClearLog, TypeOK, LogIsNewestHistory, LogType, NewestOf
<1>9. CASE ZeroCount
  BY <1>9, <1>t DEF ZeroCount, TypeOK, LogIsNewestHistory, LogType, NewestOf
<1>10. CASE UNCHANGED vars
  BY <1>10, <1>t DEF vars, TypeOK, LogIsNewestHistory, LogType, NewestOf
<1> QED BY <1>1, <1>2, <1>3, <1>4, <1>5, <1>6, <1>7, <1>8, <1>9, <1>10
        DEF Next, MainThread, RpcThread

(* Every reachable state is typed, and the log is the newest end of what   *)
(* was said since the last clear: no index is ever shifted.                *)
THEOREM LogIsAlwaysNewest == Spec => [](TypeOK /\ LogIsNewestHistory)
<1>1. Init => Inv
  BY InvInit
<1>2. Inv /\ [Next]_vars => Inv'
  BY InvStep
<1> QED BY <1>1, <1>2, PTL DEF Spec, Inv
--------------------------------------------------------------------------------
(* To a test, the tap is the unbounded history SpeechHistory specifies:    *)
(* the two halves of speech_clear are one step, because no cancellation    *)
(* can be counted between them, and every read is a suffix of the history. *)
THEOREM TapImplementsHistory == Spec => ImplementsHistory
<1>1. Init => History!Init
  BY DEF Init, History!Init
<1>2. Inv /\ [Next]_vars => [History!Next]_(History!vars)
  <2> SUFFICES ASSUME Inv, [Next]_vars
               PROVE  History!Next \/ UNCHANGED History!vars
    OBVIOUS
  <2>t. /\ log \in LogType /\ history \in Seq(Entry) /\ NewestOf(log, history)
        /\ cursor \in Nat
    BY DEF Inv, TypeOK, LogIsNewestHistory, LogType
  <2>1. CASE Install
    BY <2>1 DEF Install, History!vars
  <2>2. CASE Uninstall
    BY <2>2 DEF Uninstall, History!vars
  <2>3. CASE SpeechQueued
    <3>1. uttered + 1 \in 1..MaxUtterances
      BY <2>3, BoundsAssumption DEF SpeechQueued, Inv, TypeOK
    <3>2. History!Speak
      BY <2>3, <3>1 DEF SpeechQueued, History!Speak
    <3> QED BY <3>2 DEF History!Next
  <2>4. CASE CountCancellation
    BY <2>4 DEF CountCancellation, History!CountCancel, History!Next
  <2>5. CASE MarkCancelled
    <3>1. CASE log.items = <<>>
      BY <2>5, <3>1 DEF MarkCancelled, History!vars
    <3>2. CASE log.items # <<>>
      <4>1. history # <<>>
        BY <2>t, <3>2 DEF NewestOf, LogType
      <4>2. History!MarkLast
        BY <2>5, <3>2, <4>1 DEF MarkCancelled, History!MarkLast
      <4> QED BY <4>2 DEF History!Next
    <3> QED BY <3>1, <3>2
  <2>6. CASE SpeechIndex
    <3>1. cursor' = Len(history)
      BY <2>6, <2>t DEF SpeechIndex, IndexOf, NewestOf
    <3>2. History!ReadIndex
      BY <2>6, <3>1 DEF SpeechIndex, History!ReadIndex
    <3> QED BY <3>2 DEF History!Next
  <2>7. ASSUME NEW i \in {0, cursor}, SpeechSince(i)
        PROVE  History!Next
    <3>1. i \in Nat /\ answer' = Since(log, i)
      BY <2>7, <2>t DEF SpeechSince
    <3>2. \E from \in i .. (i + Len(history)) :
            /\ from = i \/ from + Capacity <= Len(history)
            /\ answer' = SubSeq(history, from + 1, Len(history))
      BY <2>t, <3>1, SinceIsSuffix
    <3>3. History!ReadSince(i)
      BY <2>7, <3>2 DEF SpeechSince, History!ReadSince
    <3> QED BY <2>7, <3>3 DEF History!Next
  <2>8. CASE ClearLog
    BY <2>8 DEF ClearLog, History!Clear, History!Next
  <2>9. CASE ZeroCount
    BY <2>9 DEF ZeroCount, History!vars
  <2>10. CASE UNCHANGED vars
    BY <2>10 DEF vars, History!vars
  <2> QED BY <2>1, <2>2, <2>3, <2>4, <2>5, <2>6, <2>7, <2>8, <2>9, <2>10
          DEF Next, MainThread, RpcThread
<1>3. Spec => []Inv
  BY InvInit, InvStep, PTL DEF Spec
<1> QED BY <1>1, <1>2, <1>3, PTL DEF Spec, ImplementsHistory, History!Spec
--------------------------------------------------------------------------------
(* The cancelled entries never outnumber the count.  What makes it         *)
(* inductive: between counting and marking the count is one ahead, unless  *)
(* a clear has emptied the log meanwhile; and while speech_clear holds     *)
(* _LOCK the log holds no mark at all.                                     *)
CountInv ==
  /\ Cardinality(Marked(log.items)) <= cancellations
  /\ marking /\ log.items # <<>> =>
       Cardinality(Marked(log.items)) + 1 <= cancellations
  /\ clearing => Marked(log.items) = {}
  /\ clearing /\ marking => log.items = <<>>

LEMMA MarkedIsFinite ==
  ASSUME NEW items \in Seq(Entry)
  PROVE  /\ Marked(items) \subseteq 1..MaxUtterances
         /\ IsFiniteSet(Marked(items))
         /\ Cardinality(Marked(items)) \in Nat
<1>1. Marked(items) \subseteq 1..MaxUtterances
  <2> SUFFICES ASSUME NEW k \in DOMAIN items
               PROVE  items[k].id \in 1..MaxUtterances
    BY Zenon DEF Marked
  <2>1. items[k] \in Entry
    BY ElementOfSeq
  <2> QED BY <2>1 DEF Entry
<1>2. IsFiniteSet(1..MaxUtterances)
  BY FS_Interval, BoundsAssumption
<1> QED BY <1>1, <1>2, FS_Subset, FS_CardinalityType

\* An unmarked entry adds no mark, and an eviction only removes marks.
LEMMA AppendAddsNoMark ==
  ASSUME NEW l \in LogType, NEW e \in Entry, ~e.cancelled
  PROVE  Marked(Appended(l, e).items) \subseteq Marked(l.items)
<1> DEFINE all == Append(l.items, e)
           overflow == Len(all) - Capacity
<1>1. /\ l.items \in Seq(Entry) /\ Len(l.items) \in Nat /\ all \in Seq(Entry)
      /\ Len(all) = Len(l.items) + 1 /\ Capacity \in Nat /\ overflow \in Int
      /\ \A k \in 1..Len(l.items) : all[k] = l.items[k]
      /\ all[Len(l.items) + 1] = e
  BY AppendFacts, CapacityAssumption DEF LogType
<1>2. ASSUME NEW k \in 1..Len(all), all[k].cancelled
      PROVE  k \in DOMAIN l.items /\ all[k] = l.items[k]
  BY <1>1, <1>2
<1>3. CASE overflow > 0
  <2>1. Appended(l, e).items = SubSeq(all, overflow + 1, Len(all))
    BY <1>3 DEF Appended
  <2>2. \A k \in DOMAIN SubSeq(all, overflow + 1, Len(all)) :
          \E j \in 1..Len(all) : SubSeq(all, overflow + 1, Len(all))[k] = all[j]
    <3> DEFINE kept == SubSeq(all, overflow + 1, Len(all))
    <3> HIDE DEF all
    <3>0. overflow \in Nat /\ overflow <= Len(all)
      <4>1. Len(all) \in Nat /\ Capacity \in Nat /\ overflow = Len(all) - Capacity
        BY <1>1
      <4> QED BY <1>3, <4>1
    <3> HIDE DEF overflow
    <3>1. /\ kept \in Seq(Entry)
          /\ Len(kept) = IF overflow <= Len(all) THEN Len(all) - overflow ELSE 0
          /\ \A k \in 1..(Len(all) - overflow) : kept[k] = all[overflow + k]
      BY <1>1, <3>0, SuffixFacts
    <3> HIDE DEF kept
    <3>2. DOMAIN kept = 1..Len(kept) /\ Len(kept) \in Nat
      BY <3>1
    <3>4. ASSUME NEW k \in 1..Len(kept)
          PROVE  kept[k] = all[overflow + k] /\ overflow + k \in 1..Len(all)
      <4>1. Len(kept) = Len(all) - overflow /\ Len(all) \in Nat
        BY <1>1, <3>1, <3>0
      <4>2. k \in 1..(Len(all) - overflow)
        BY <4>1
      <4>3. overflow + k \in 1..Len(all)
        BY <3>0, <4>1, <4>2
      <4> QED BY <3>1, <4>2, <4>3
    <3> QED BY <3>2, <3>4 DEF kept
  <2> DEFINE kept == SubSeq(all, overflow + 1, Len(all))
  <2> HIDE DEF kept, all
  <2>3. ASSUME NEW k \in DOMAIN kept, kept[k].cancelled
        PROVE  kept[k].id \in Marked(l.items)
    <3>1. PICK j \in 1..Len(all) : kept[k] = all[j]
      BY <2>2 DEF kept
    <3>2. j \in DOMAIN l.items /\ all[j] = l.items[j]
      BY <1>2, <2>3, <3>1
    <3> QED BY <2>3, <3>1, <3>2 DEF Marked
  <2>4. Marked(kept) \subseteq Marked(l.items)
    BY Zenon, <2>3 DEF Marked
  <2> QED BY <2>1, <2>4 DEF kept
<1>4. CASE ~(overflow > 0)
  <2>1. Appended(l, e).items = all
    BY <1>4 DEF Appended, LogType
  <2> QED BY <1>1, <1>2, <2>1 DEF Marked
<1> QED BY <1>3, <1>4

\* Marking the newest entry adds one mark at most.
LEMMA MarkAddsOne ==
  ASSUME NEW l \in LogType
  PROVE  Cardinality(Marked(LastMarked(l).items))
           <= Cardinality(Marked(l.items)) + (IF l.items = <<>> THEN 0 ELSE 1)
<1>1. CASE l.items = <<>>
  BY <1>1, MarkedIsFinite DEF LastMarked, LogType
<1>2. CASE l.items # <<>>
  <2> DEFINE n == Len(l.items)
             x == [l.items[n] EXCEPT !.cancelled = TRUE]
             q == [l.items EXCEPT ![n].cancelled = TRUE]
  <2>1. l.items \in Seq(Entry) /\ n \in 1..n /\ x \in Entry
    BY <1>2, ElementOfSeq, MarkedEntryIsTyped DEF LogType
  <2>2. q = [l.items EXCEPT ![n] = x]
    BY <2>1
  <2>3. /\ q \in Seq(Entry) /\ Len(q) = n
        /\ \A k \in 1..n : q[k] = IF k = n THEN x ELSE l.items[k]
    BY <2>1, <2>2, ExceptSeq
  <2>4. LastMarked(l).items = q
    BY <1>2 DEF LastMarked, LogType
  <2>5. Marked(q) \subseteq Marked(l.items) \cup {x.id}
    <3> HIDE DEF x, q
    <3> QED BY <2>1, <2>3 DEF Marked
  <2>6. /\ IsFiniteSet(Marked(l.items)) /\ Cardinality(Marked(l.items)) \in Nat
        /\ IsFiniteSet(Marked(q)) /\ Cardinality(Marked(q)) \in Nat
    BY <2>1, <2>3, MarkedIsFinite
  <2>7. /\ IsFiniteSet(Marked(l.items) \cup {x.id})
        /\ Cardinality(Marked(l.items) \cup {x.id}) <= Cardinality(Marked(l.items)) + 1
    <3> DEFINE S == Marked(l.items)
               y == x.id
    <3> HIDE DEF S, y
    <3>1. IsFiniteSet(S) /\ Cardinality(S) \in Nat
      BY <2>6 DEF S
    <3>2. /\ IsFiniteSet(S \cup {y})
          /\ Cardinality(S \cup {y})
               = IF y \in S THEN Cardinality(S) ELSE Cardinality(S) + 1
      BY <3>1, FS_AddElement
    <3>3. Cardinality(S \cup {y}) <= Cardinality(S) + 1
      BY <3>1, <3>2
    <3> QED BY <3>2, <3>3 DEF S, y
  <2>8. Cardinality(Marked(q)) <= Cardinality(Marked(l.items) \cup {x.id})
    BY <2>5, <2>7, FS_Subset
  <2>9. Cardinality(Marked(l.items) \cup {x.id}) \in Nat
    BY <2>7, FS_CardinalityType
  <2> HIDE DEF x, q
  <2> QED BY <1>2, <2>4, <2>6, <2>7, <2>8, <2>9
<1> QED BY <1>1, <1>2

LEMMA CountInvStep == Inv /\ Inv' /\ CountInv /\ [Next]_vars => CountInv'
<1> SUFFICES ASSUME Inv, Inv', CountInv, [Next]_vars
             PROVE  CountInv'
  OBVIOUS
<1> DEFINE M == Marked(log.items)
<1>t. /\ log \in LogType /\ log' \in LogType
      /\ log.items \in Seq(Entry) /\ log'.items \in Seq(Entry)
      /\ cancellations \in Nat
      /\ IsFiniteSet(M) /\ Cardinality(M) \in Nat
      /\ IsFiniteSet(M') /\ Cardinality(M') \in Nat
  BY MarkedIsFinite DEF Inv, TypeOK, LogType
<1>1. CASE UNCHANGED <<log, cancellations, marking, clearing>>
  BY <1>1 DEF CountInv
<1>2. CASE SpeechQueued
  <2> DEFINE e == [id |-> uttered + 1, cancelled |-> FALSE]
  <2>1. e \in Entry /\ ~e.cancelled /\ log' = Appended(log, e)
    BY <1>2, BoundsAssumption DEF SpeechQueued, Entry, Inv, TypeOK
  <2>2. M' \subseteq M
    BY <1>t, <2>1, AppendAddsNoMark
  <2>3. Cardinality(M') <= Cardinality(M)
    BY <1>t, <2>2, FS_Subset
  <2>4. ~marking /\ ~marking' /\ clearing' = clearing /\ cancellations' = cancellations
    BY <1>2 DEF SpeechQueued
  <2>5. Cardinality(M') <= cancellations'
    BY <1>t, <2>3, <2>4 DEF CountInv
  <2>6. clearing' => M' = {}
    BY <2>2, <2>4 DEF CountInv
  <2> QED BY <2>4, <2>5, <2>6 DEF CountInv
<1>3. CASE CountCancellation
  <2>1. /\ log' = log /\ ~clearing' /\ cancellations' = cancellations + 1
    BY <1>3 DEF CountCancellation
  <2>2. Cardinality(M') = Cardinality(M) /\ Cardinality(M) <= cancellations
    BY <2>1 DEF CountInv
  <2>3. Cardinality(M') + 1 <= cancellations' /\ Cardinality(M') <= cancellations'
    BY <1>t, <2>1, <2>2
  <2> QED BY <2>1, <2>3 DEF CountInv
<1>4. CASE MarkCancelled
  <2>1. /\ log' = LastMarked(log) /\ marking /\ ~marking' /\ clearing' = clearing
        /\ cancellations' = cancellations
    BY <1>4 DEF MarkCancelled
  <2>2. CASE log.items = <<>>
    BY <2>1, <2>2 DEF LastMarked, CountInv
  <2>3. CASE log.items # <<>>
    <3>1. Cardinality(M') <= Cardinality(M) + 1
      BY <1>t, <2>1, <2>3, MarkAddsOne
    <3>2. Cardinality(M) + 1 <= cancellations /\ ~clearing'
      BY <2>1, <2>3 DEF CountInv
    <3>3. Cardinality(M') <= cancellations'
      BY <1>t, <2>1, <3>1, <3>2
    <3> QED BY <2>1, <3>2, <3>3 DEF CountInv
  <2> QED BY <2>2, <2>3
<1>5. CASE ClearLog
  <2>1. log'.items = <<>> /\ cancellations' = cancellations
    BY <1>5 DEF ClearLog, Cleared, EmptyLog
  <2>2. M' = {}
    BY <2>1 DEF Marked
  <2>3. Cardinality(M') <= cancellations'
    BY <1>t, <2>1, <2>2, FS_EmptySet
  <2> QED BY <2>1, <2>2, <2>3 DEF CountInv
<1>6. CASE ZeroCount
  <2>1. log' = log /\ cancellations' = 0 /\ marking' = marking /\ clearing /\ ~clearing'
    BY <1>6 DEF ZeroCount
  <2>2. M' = {} /\ (marking' => log'.items = <<>>)
    BY <2>1 DEF CountInv
  <2>3. Cardinality(M') <= cancellations'
    BY <2>1, <2>2, FS_EmptySet
  <2> QED BY <2>1, <2>2, <2>3 DEF CountInv
<1> QED BY <1>1, <1>2, <1>3, <1>4, <1>5, <1>6
        DEF Next, MainThread, RpcThread, Install, Uninstall, SpeechIndex,
            SpeechSince, vars

(* At no moment are more entries marked as cancelled than cancellations    *)
(* have been counted since the last clear.                                 *)
THEOREM CancelledAlwaysWithinCount == Spec => []CancelledWithinCount
<1>1. Init => CountInv
  <2> SUFFICES ASSUME Init PROVE CountInv
    OBVIOUS
  <2>1. Marked(log.items) = {}
    BY DEF Init, EmptyLog, Marked
  <2>2. Cardinality(Marked(log.items)) = 0
    BY <2>1, FS_EmptySet
  <2> QED BY <2>1, <2>2 DEF Init, CountInv
<1>2. CountInv => CancelledWithinCount
  BY DEF CountInv, CancelledWithinCount
<1> QED BY <1>1, <1>2, InvInit, InvStep, CountInvStep, PTL DEF Spec
================================================================================
