--------------------------- MODULE CappedLog_proofs ----------------------------
(***************************************************************************)
(* What the operations of CappedLog return, for entries of any kind; the   *)
(* proofs about the modules that use the log rest on these lemmas.         *)
(***************************************************************************)
EXTENDS CappedLog, SequenceTheorems, TLAPS

LogsOf(S) == [items : Seq(S), dropped : Nat]

\* What Append and SubSeq return, in the form the lemmas below need.
LEMMA AppendFacts ==
  ASSUME NEW S, NEW s \in Seq(S), NEW e \in S
  PROVE  /\ Append(s, e) \in Seq(S)
         /\ Len(Append(s, e)) = Len(s) + 1
         /\ \A k \in 1..Len(s) : Append(s, e)[k] = s[k]
         /\ Append(s, e)[Len(s) + 1] = e
  OBVIOUS

LEMMA SuffixFacts ==
  ASSUME NEW S, NEW s \in Seq(S), NEW m \in Nat
  PROVE  /\ SubSeq(s, m + 1, Len(s)) \in Seq(S)
         /\ Len(SubSeq(s, m + 1, Len(s))) = IF m <= Len(s) THEN Len(s) - m ELSE 0
         /\ \A k \in 1..(Len(s) - m) : SubSeq(s, m + 1, Len(s))[k] = s[m + k]
<1>1. Len(s) \in Nat /\ \A i \in 1..Len(s) : s[i] \in S
  OBVIOUS
<1>2. \A i \in (m + 1)..Len(s) : s[i] \in S
  BY <1>1
<1>3. /\ SubSeq(s, m + 1, Len(s)) \in Seq(S)
      /\ Len(SubSeq(s, m + 1, Len(s)))
           = IF m + 1 <= Len(s) THEN Len(s) - (m + 1) + 1 ELSE 0
      /\ \A i \in 1..(Len(s) - (m + 1) + 1) :
           SubSeq(s, m + 1, Len(s))[i] = s[(m + 1) + i - 1]
  BY <1>1, <1>2, SubSeqProperties
<1>4. Len(s) - (m + 1) + 1 = Len(s) - m
  BY <1>1
<1>5. \A k \in 1..(Len(s) - m) : (m + 1) + k - 1 = m + k
  BY <1>1
<1> QED BY <1>1, <1>3, <1>4, <1>5

\* An append never holds more than Capacity, moves the index on by one, and
\* leaves every entry it keeps at the position it had.
LEMMA AppendedFacts ==
  ASSUME NEW S, NEW l \in LogsOf(S), NEW e \in S
  PROVE  LET a == Appended(l, e)
         IN  /\ a \in LogsOf(S) /\ Len(a.items) <= Capacity
             /\ IndexOf(a) = IndexOf(l) + 1
             /\ \A k \in DOMAIN a.items :
                  \/ a.items[k] = e /\ a.dropped + k = IndexOf(l) + 1
                  \/ \E i \in DOMAIN l.items :
                       a.items[k] = l.items[i] /\ a.dropped + k = l.dropped + i
<1> DEFINE a == Appended(l, e)
           items == l.items
           all == Append(items, e)
           m == Len(all) - Capacity
           kept == SubSeq(all, m + 1, Len(all))
<1>1. /\ items \in Seq(S) /\ Len(items) \in Nat /\ l.dropped \in Nat /\ Capacity \in Nat
  BY CapacityAssumption DEF LogsOf
<1>2. /\ all \in Seq(S) /\ Len(all) = Len(items) + 1
      /\ \A k \in 1..Len(items) : all[k] = items[k]
      /\ all[Len(items) + 1] = e
  BY <1>1, AppendFacts
<1>3. m > 0 => a = [items |-> kept, dropped |-> l.dropped + m]
  BY Zenon DEF Appended
<1>4. ~(m > 0) => a = [items |-> all, dropped |-> l.dropped]
  BY DEF Appended, LogsOf
<1>i. IndexOf(l) = l.dropped + Len(items) /\ IndexOf(a) = a.dropped + Len(a.items)
  BY DEF IndexOf
<1> HIDE DEF items, all, a
\* Where the entries of the longer sequence come from.
<1>5. ASSUME NEW k \in 1..Len(all)
      PROVE  \/ all[k] = e /\ l.dropped + k = IndexOf(l) + 1
             \/ \E i \in 1..Len(items) : all[k] = items[i] /\ l.dropped + k = l.dropped + i
  <2>1. CASE k = Len(items) + 1
    BY <1>1, <1>2, <1>i, <2>1
  <2>2. CASE k \in 1..Len(items)
    BY <1>2, <2>2
  <2> QED BY <1>1, <1>2, <2>1, <2>2
<1>6. CASE m > 0
  <2>1. m \in Nat /\ m <= Len(all) /\ Len(all) - m = Capacity
    BY <1>1, <1>2, <1>6
  <2>2. /\ kept \in Seq(S) /\ Len(kept) = Len(all) - m
        /\ \A k \in 1..(Len(all) - m) : kept[k] = all[m + k]
    BY <1>2, <2>1, SuffixFacts
  <2>3. a.items = kept /\ a.dropped = l.dropped + m
    BY <1>3, <1>6
  <2> HIDE DEF kept, m
  <2>4. a \in LogsOf(S) /\ Len(a.items) <= Capacity
    <3>1. l.dropped + m \in Nat /\ Len(kept) <= Capacity
      BY <1>1, <1>2, <2>1, <2>2
    <3> QED BY <1>3, <1>6, <2>2, <2>3, <3>1 DEF LogsOf
  <2>5. IndexOf(a) = IndexOf(l) + 1
    <3>1. Len(a.items) = Len(all) - m /\ a.dropped = l.dropped + m
      BY <2>2, <2>3
    <3> QED BY <1>1, <1>2, <1>i, <2>1, <3>1
  <2>6. ASSUME NEW k \in 1..Len(kept)
        PROVE  \/ kept[k] = e /\ a.dropped + k = IndexOf(l) + 1
               \/ \E i \in 1..Len(items) : kept[k] = items[i] /\ a.dropped + k = l.dropped + i
    <3>1. m + k \in 1..Len(all) /\ kept[k] = all[m + k]
      BY <1>1, <1>2, <2>1, <2>2
    <3>2. a.dropped + k = l.dropped + (m + k)
      BY <1>1, <2>1, <2>3
    <3> QED BY <1>5, <3>1, <3>2
  <2>7. DOMAIN a.items = 1..Len(kept) /\ DOMAIN l.items = 1..Len(items)
    BY <1>1, <2>2, <2>3 DEF items
  <2> QED BY <2>3, <2>4, <2>5, <2>6, <2>7 DEF a, items
<1>7. CASE ~(m > 0)
  <2>1. a.items = all /\ a.dropped = l.dropped
    BY <1>4, <1>7
  <2>2. a \in LogsOf(S) /\ Len(a.items) <= Capacity
    <3>1. Len(all) <= Capacity
      BY <1>1, <1>2, <1>7
    <3> QED BY <1>1, <1>2, <1>4, <1>7, <2>1, <3>1 DEF LogsOf
  <2>3. IndexOf(a) = IndexOf(l) + 1
    BY <1>1, <1>2, <1>i, <2>1
  <2>4. DOMAIN a.items = 1..Len(all) /\ DOMAIN l.items = 1..Len(items)
    BY <1>1, <1>2, <2>1 DEF items
  <2> QED BY <1>5, <2>1, <2>2, <2>3, <2>4 DEF a, items
<1> QED BY <1>6, <1>7
================================================================================
