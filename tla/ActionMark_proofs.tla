--------------------------- MODULE ActionMark_proofs ----------------------------
(***************************************************************************)
(* Theorems about ActionMark, checked by TLAPS, for every capacity of the  *)
(* log, any number of actions, utterances and NVDA processes, and queues   *)
(* of any length.                                                          *)
(***************************************************************************)
EXTENDS ActionMark, CappedLog_proofs

NoJob == [role : {"none"}, of : {0}, awaited : {FALSE}]

Typed == TypeOK /\ (pc \in Marking => begun < MaxActions)

--------------------------------------------------------------------------------
(* How the queue changes.                                                  *)

LEMMA Queueing ==
  ASSUME Typed, NEW r \in {"noop", "gesture", "work"}, NEW a \in Actions,
         NEW w \in BOOLEAN, Queued(r, a, w)
  PROVE  /\ queue' \in Seq(Jobs) /\ Len(queue') = Len(queue) + 1
         /\ DOMAIN queue = 1..Len(queue) /\ DOMAIN queue' = 1..(Len(queue) + 1)
         /\ Len(queue) \in Nat
         /\ \A k \in 1..Len(queue) : queue'[k] = queue[k]
         /\ queue'[Len(queue) + 1] = [role |-> r, of |-> a, awaited |-> w]
<1> DEFINE j == [role |-> r, of |-> a, awaited |-> w]
<1>1. j \in Jobs
  BY DEF Jobs
<1>2. queue \in Seq(Jobs) /\ queue' = Append(queue, j)
  BY DEF Typed, TypeOK, Queued
<1> HIDE DEF j
<1>3. Append(queue, j) \in Seq(Jobs) /\ Len(Append(queue, j)) = Len(queue) + 1
  BY <1>1, <1>2, AppendFacts
<1>4. /\ \A k \in 1..Len(queue) : queue'[k] = queue[k]
      /\ queue'[Len(queue) + 1] = j
  BY <1>1, <1>2, AppendFacts
<1> QED BY <1>2, <1>3, <1>4 DEF j

LEMMA Taking ==
  ASSUME Typed, Take
  PROVE  /\ queue' \in Seq(Jobs) /\ running' \in Jobs
         /\ Len(queue) \in Nat /\ Len(queue) >= 1
         /\ DOMAIN queue = 1..Len(queue) /\ DOMAIN queue' = 1..(Len(queue) - 1)
         /\ running' = queue[1]
         /\ \A k \in 1..(Len(queue) - 1) : queue'[k] = queue[k + 1]
  BY DEF Typed, TypeOK, Take

LEMMA LettingGo ==
  ASSUME Typed, LetGo
  PROVE  /\ queue' \in Seq(Jobs) /\ running' \in Jobs \cup NoJob
         /\ DOMAIN queue' = DOMAIN queue
         /\ \A k \in DOMAIN queue : /\ queue'[k].role = queue[k].role
                                    /\ queue'[k].of = queue[k].of
                                    /\ ~queue'[k].awaited
         /\ running'.role = running.role /\ running'.of = running.of
         /\ ~running'.awaited
<1>1. queue \in Seq(Jobs) /\ running \in Jobs \cup NoJob
  BY DEF Typed, TypeOK, NoJob
<1>2. ASSUME NEW j \in Jobs \cup NoJob
      PROVE  LET g == [j EXCEPT !.awaited = FALSE]
             IN  /\ g.role = j.role /\ g.of = j.of /\ ~g.awaited
                 /\ g \in Jobs \cup NoJob /\ (j \in Jobs => g \in Jobs)
  <2>1. CASE j \in Jobs
    <3>1. [j EXCEPT !.awaited = FALSE] \in Jobs
      BY <2>1, Zenon DEF Jobs
    <3>2. "role" \in DOMAIN j /\ "of" \in DOMAIN j /\ "awaited" \in DOMAIN j
      BY <2>1, Zenon DEF Jobs
    <3> QED BY <3>1, <3>2
  <2>2. CASE j \in NoJob
    <3>1. [j EXCEPT !.awaited = FALSE] \in NoJob
      BY <2>2, Zenon DEF NoJob
    <3>2. /\ "role" \in DOMAIN j /\ "of" \in DOMAIN j /\ "awaited" \in DOMAIN j
          /\ j \notin Jobs
      BY <2>2 DEF NoJob, Jobs
    <3> QED BY <3>1, <3>2
  <2> QED BY <2>1, <2>2
<1>3. \A k \in DOMAIN queue : queue[k] \in Jobs
  BY <1>1
<1>4. running' = [running EXCEPT !.awaited = FALSE]
  BY DEF LetGo
<1>5. queue' = [k \in DOMAIN queue |-> [queue[k] EXCEPT !.awaited = FALSE]]
  BY DEF LetGo
<1>6. \A k \in DOMAIN queue : queue'[k] = [queue[k] EXCEPT !.awaited = FALSE]
  BY <1>5
<1>7. DOMAIN queue' = DOMAIN queue
  BY <1>5
<1>8. queue' \in Seq(Jobs)
  <2>1. Len(queue) \in Nat /\ DOMAIN queue = 1..Len(queue)
    BY <1>1
  <2>2. \A k \in 1..Len(queue) : [queue[k] EXCEPT !.awaited = FALSE] \in Jobs
    BY <1>2, <1>3, <2>1
  <2>3. queue' \in [1..Len(queue) -> Jobs]
    BY <1>5, <2>1, <2>2
  <2> QED BY <2>1, <2>3, SeqDef
<1>9. ASSUME NEW k \in DOMAIN queue
      PROVE  /\ queue'[k].role = queue[k].role /\ queue'[k].of = queue[k].of
             /\ ~queue'[k].awaited
  BY <1>2, <1>3, <1>6
<1>10. /\ running' \in Jobs \cup NoJob /\ ~running'.awaited
       /\ running'.role = running.role /\ running'.of = running.of
  BY <1>1, <1>2, <1>4
<1> QED BY <1>7, <1>8, <1>9, <1>10
--------------------------------------------------------------------------------
LEMMA TypedInit == Init => Typed
<1> SUFFICES ASSUME Init PROVE Typed
  OBVIOUS
<1>1. log \in [items : Seq(Entries), dropped : Nat]
  BY DEF Init, EmptyLog
<1>2. 0 \in Actions /\ START \in Marks
  BY BoundsAssumption DEF Actions, Marks, START
<1>3. <<>> \in Seq(Jobs)
  OBVIOUS
<1>5. Nothing \in NoJob
  BY Zenon DEF Nothing, NoJob
<1>4. pid \in 1..MaxStarts /\ entryPid \in 0..MaxStarts
  BY BoundsAssumption DEF Init
<1> QED BY <1>1, <1>2, <1>3, <1>4, <1>5
        DEF Init, Typed, TypeOK, NoJob, Pcs, Marking, Searching

LEMMA TypedStep == Typed /\ [Next]_vars => Typed'
<1> SUFFICES ASSUME Typed, [Next]_vars PROVE Typed'
  OBVIOUS
<1>b. MaxActions \in Nat /\ MaxStarts \in Nat \ {0} /\ begun \in Nat /\ begun <= MaxActions
  BY BoundsAssumption DEF Typed, TypeOK, Actions
<1>e. EmptyLog \in [items : Seq(Entries), dropped : Nat] /\ START \in Marks
  BY <1>b DEF EmptyLog, START, Marks, Actions
<1>i. IndexOf(log) \in Nat
  BY DEF Typed, TypeOK, IndexOf
<1>n. Nothing \in NoJob
  BY Zenon DEF Nothing, NoJob
<1> USE DEF Typed, TypeOK, NoJob, Pcs, Marking, Searching, nvdaVars, markVars, waitVars
<1>1. CASE Take
  BY <1>1, Taking DEF Take
<1>2. CASE Speak
  <2>1. running \in Jobs
    BY <1>2 DEF Speak, Nothing
  <2>2. [of |-> running.of] \in Entries
    BY <2>1 DEF Jobs, Entries
  <2>3. log' \in [items : Seq(Entries), dropped : Nat]
    BY <1>2, <2>2, AppendedFacts DEF Speak, LogsOf
  <2> QED BY <1>2, <2>3 DEF Speak
<1>3. CASE Finish
  <2>1. answered' \in BOOLEAN
    BY <1>3, Zenon DEF Finish
  <2>2. running' = Nothing /\ UNCHANGED <<queue, log, pid, markVars, pc, overdue, settled, block>>
    BY <1>3 DEF Finish
  <2> QED BY <1>n, <2>1, <2>2
<1>4. CASE FollowUp
  <2>1. PICK a \in 0..begun : Queued("work", a, FALSE)
    BY <1>4 DEF FollowUp
  <2>2. a \in Actions
    BY <1>b, <2>1 DEF Actions
  <2> QED BY <1>4, <2>1, <2>2, Queueing DEF FollowUp
<1>5. CASE BeginMark
  BY <1>5, <1>b DEF BeginMark
<1>6. CASE BudgetSpent
  BY <1>6 DEF BudgetSpent
<1>7. CASE AskIdle
  <2>1. 0 \in Actions
    BY <1>b DEF Actions
  <2> QED BY <1>7, <2>1, Queueing DEF AskIdle
<1>8. CASE NoopHasRun
  BY <1>8 DEF NoopHasRun
<1>9. CASE QueueIsEmpty \/ QueueIsBusy
  BY <1>9 DEF QueueIsEmpty, QueueIsBusy
<1>10. CASE IdleExpires
  BY <1>10, LettingGo DEF IdleExpires
<1>11. CASE ReadIndex
  <2>1. begun + 1 \in Actions
    BY <1>11, <1>b DEF ReadIndex, Actions
  <2>2. begun' \in Actions /\ last' \in Marks
    BY <1>11, <1>i, <2>1 DEF ReadIndex, Marks
  <2>3. entryPid' \in 0..MaxStarts /\ entry' \in Marks /\ cleared' \subseteq {"last", "entry"}
    <3>1. entryPid' \in {pid, entryPid} /\ entry' \in {last', entry}
      BY <1>11, Zenon DEF ReadIndex
    <3>2. cleared' \subseteq cleared
      BY <1>11, Zenon DEF ReadIndex
    <3> QED BY <1>b, <2>2, <3>1, <3>2
  <2>4. pc' \in {"rest", "act"} /\ settled' \in BOOLEAN /\ block' \in BOOLEAN
        /\ UNCHANGED <<nvdaVars, answered, overdue>>
    BY <1>11 DEF ReadIndex
  <2> QED BY <2>2, <2>3, <2>4
<1>12. CASE Press
  BY <1>12, Queueing DEF Press
<1>13. CASE PressReturns
  <2>1. settled' \in BOOLEAN
    BY <1>13, Zenon DEF PressReturns
  <2>2. answered' \in BOOLEAN /\ pc' \in {"act", "rest"}
        /\ UNCHANGED <<nvdaVars, markVars, overdue, block>>
    BY <1>13 DEF PressReturns
  <2> QED BY <2>1, <2>2
<1>14. CASE PressExpires
  BY <1>14, LettingGo DEF PressExpires
<1>15. CASE ExecNowait
  BY <1>15, Queueing DEF ExecNowait
<1>16. CASE Lost
  BY <1>16, LettingGo DEF Lost
<1>l. BlockLeft => UNCHANGED <<begun, last>> /\ entryPid' \in 0..MaxStarts
                   /\ entry' \in Marks /\ cleared' \subseteq {"last", "entry"}
  BY <1>b, <1>e DEF BlockLeft
<1>17. CASE Search
  BY <1>17 DEF Search
<1>18. CASE LeaveBlock
  <2>1. UNCHANGED <<nvdaVars, answered, overdue, settled>> /\ pc' \in {"rest", "look"}
        /\ block' \in BOOLEAN
    BY <1>18 DEF LeaveBlock
  <2>2. UNCHANGED markVars \/ BlockLeft
    BY <1>18 DEF LeaveBlock
  <2> QED BY <1>l, <2>1, <2>2
<1>23. CASE Wait
  <2>1. UNCHANGED <<nvdaVars, answered, settled>> /\ pc' \in {"rest", "look", "clock"}
        /\ block' \in BOOLEAN /\ overdue' \in BOOLEAN
    BY <1>23 DEF Wait, Look, LookAgain, NotHeard, SearchLost, SearchOver
  <2>2. UNCHANGED markVars \/ BlockLeft
    BY <1>23, Zenon DEF Wait, Look, LookAgain, NotHeard, SearchLost, SearchOver
  <2> QED BY <1>l, <2>1, <2>2
<1>19. CASE SpeechClear
  BY <1>19, <1>e DEF SpeechClear, Cleared
<1>20. CASE ResetSpeech \/ ResetMark
  BY <1>20, <1>e DEF ResetSpeech, ResetMark, Cleared
<1>21. CASE Restart
  <2>1. begun' \in Actions /\ last' \in Marks
    BY <1>21, <1>b DEF Restart, Actions, Marks
  <2>2. queue' \in Seq(Jobs) /\ running' \in Jobs \cup NoJob
    <3>1. queue' = <<>> /\ running' = Nothing
      BY <1>21 DEF Restart
    <3> HIDE DEF NoJob
    <3> QED BY <1>n, <3>1
  <2>3. pid' \in 1..MaxStarts /\ cleared' \subseteq {"last", "entry"}
    BY <1>21, <1>b DEF Restart
  <2>4. pc' = "rest" /\ log' \in [items : Seq(Entries), dropped : Nat]
    BY <1>21, <1>e DEF Restart
  <2>5. UNCHANGED <<waitVars, entry, entryPid>>
    BY <1>21 DEF Restart
  <2> QED BY <2>1, <2>2, <2>3, <2>4, <2>5
<1>22. CASE UNCHANGED vars
  BY <1>22 DEF vars
<1> QED BY <1>1, <1>2, <1>3, <1>4, <1>5, <1>6, <1>7, <1>8, <1>9, <1>10, <1>11, <1>12,
           <1>13, <1>14, <1>15, <1>16, <1>17, <1>18, <1>19, <1>20, <1>21, <1>22, <1>23
        DEF Next, Nvda, Mark, Act, Test

(* Every reachable state is typed: no index of a mark is negative, and no  *)
(* job, entry or mark names an action beyond the test's.                   *)
THEOREM ActionMarkIsTyped == Spec => []TypeOK
<1>1. Typed => TypeOK
  BY DEF Typed
<1> QED BY <1>1, TypedInit, TypedStep, PTL DEF Spec
--------------------------------------------------------------------------------
(* Where the speech of an action is, and where its mark.                   *)

\* Nothing that is queued, runs or was said is of an action not yet begun.
OfInv == /\ \A k \in DOMAIN queue : queue[k].of <= begun
         /\ running.of <= begun
         /\ \A k \in DOMAIN log.items : log.items[k].of <= begun

LEMMA OfInit == Init => OfInv
  BY DEF Init, OfInv, Nothing, EmptyLog

LEMMA OfStep == Typed /\ OfInv /\ [Next]_vars => OfInv'
<1> SUFFICES ASSUME Typed, OfInv, [Next]_vars PROVE OfInv'
  OBVIOUS
<1>b. begun \in Nat /\ begun \in Actions /\ 0 \in Actions
  BY BoundsAssumption DEF Typed, TypeOK, Actions
<1>t. /\ \A k \in DOMAIN queue : queue[k].of \in Nat
      /\ \A k \in DOMAIN log.items : log.items[k].of \in Nat
      /\ running.of \in Nat
  <2>1. Actions \subseteq Nat
    BY BoundsAssumption DEF Actions
  <2>2. \A k \in DOMAIN queue : queue[k] \in Jobs
    BY DEF Typed, TypeOK
  <2>3. \A k \in DOMAIN log.items : log.items[k] \in Entries
    BY DEF Typed, TypeOK
  <2>4. running.of \in Actions \cup {0}
    BY DEF Typed, TypeOK, Jobs
  <2>5. (\A j \in Jobs : j.of \in Actions) /\ (\A e \in Entries : e.of \in Actions)
    BY DEF Jobs, Entries
  <2>6. 0 \in Nat
    OBVIOUS
  <2> QED BY <2>1, <2>2, <2>3, <2>4, <2>5, <2>6, Zenon
<1>e. DOMAIN EmptyLog.items = {}
  BY DEF EmptyLog
<1> USE DEF OfInv, nvdaVars, markVars, waitVars
<1>1. CASE Take
  BY <1>1, Taking DEF Take, markVars
<1>2. CASE Speak
  <2>1. log \in LogsOf(Entries) /\ [of |-> running.of] \in Entries
    BY <1>2 DEF Speak, Typed, TypeOK, Jobs, Entries, LogsOf
  <2>2. \A k \in DOMAIN log'.items :
          log'.items[k] = [of |-> running.of] \/ \E i \in DOMAIN log.items : log'.items[k] = log.items[i]
    BY <1>2, <2>1, AppendedFacts DEF Speak
  <2>3. UNCHANGED <<queue, running, begun>>
    BY <1>2 DEF Speak
  <2> QED BY <2>2, <2>3
<1>3. CASE Finish
  BY <1>3, <1>b DEF Finish, Nothing
<1>q. ASSUME NEW r \in {"noop", "gesture", "work"}, NEW a \in 0..begun, NEW w \in BOOLEAN,
             Queued(r, a, w), UNCHANGED <<running, log, begun>>
      PROVE  OfInv'
  <2>1. a \in Actions /\ a <= begun
    BY <1>b, BoundsAssumption DEF Actions
  <2>2. /\ DOMAIN queue = 1..Len(queue) /\ DOMAIN queue' = 1..(Len(queue) + 1)
        /\ Len(queue) \in Nat
        /\ \A k \in 1..Len(queue) : queue'[k] = queue[k]
        /\ queue'[Len(queue) + 1] = [role |-> r, of |-> a, awaited |-> w]
    BY <1>q, <2>1, Queueing, Zenon
  <2>3. ASSUME NEW k \in DOMAIN queue'
        PROVE  queue'[k].of <= begun
    <3>1. k \in 1..Len(queue) \/ k = Len(queue) + 1
      BY <2>2, <2>3
    <3> QED BY <2>1, <2>2, <3>1
  <2> QED BY <1>q, <2>3
<1>z. 0 \in 0..begun /\ begun \in 0..begun
  BY <1>b
<1>4. CASE FollowUp
  BY <1>4, <1>q DEF FollowUp
<1>5. CASE AskIdle
  <2>1. Queued("noop", 0, TRUE) /\ UNCHANGED <<running, log, begun>>
    BY <1>5 DEF AskIdle
  <2> QED BY <1>q, <1>z, <2>1
<1>6. CASE Press
  <2>1. Queued("gesture", begun, TRUE) /\ UNCHANGED <<running, log, begun>>
    BY <1>6 DEF Press
  <2> QED BY <1>q, <1>z, <2>1
<1>7. CASE ExecNowait
  <2>1. Queued("work", begun, FALSE) /\ UNCHANGED <<running, log, begun>>
    BY <1>7 DEF ExecNowait
  <2> QED BY <1>q, <1>z, <2>1
<1>8. CASE LetGo /\ UNCHANGED <<log, begun>>
  BY <1>8, LettingGo
<1>9. CASE ReadIndex
  <2>1. begun' = begun + 1 /\ UNCHANGED <<queue, running, log>>
    BY <1>9 DEF ReadIndex
  <2> QED BY <1>b, <1>t, <2>1
<1>10. CASE Restart
  <2>1. begun' = begun + 1 /\ queue' = <<>> /\ running' = Nothing /\ log' = EmptyLog
    BY <1>10 DEF Restart
  <2> QED BY <1>b, <1>e, <2>1 DEF Nothing
<1>11. CASE UNCHANGED <<queue, running, begun>> /\ log' \in {log, EmptyLog}
  BY <1>11, <1>e
<1>12. Nvda => Take \/ Speak \/ Finish \/ FollowUp
  BY DEF Nvda
<1>13. BudgetSpent \/ Wait \/ UNCHANGED vars => UNCHANGED <<queue, running, begun, log>>
  BY DEF BudgetSpent, Wait, Look, LookAgain, NotHeard, SearchLost, SearchOver, BlockLeft, vars
<1>g. IdleExpires \/ PressExpires \/ Lost => LetGo /\ UNCHANGED <<log, begun>>
  BY Zenon DEF IdleExpires, PressExpires, Lost
<1>u. NoopHasRun \/ QueueIsEmpty \/ QueueIsBusy \/ PressReturns
        => UNCHANGED <<queue, running, begun, log>>
  BY DEF NoopHasRun, QueueIsEmpty, QueueIsBusy, PressReturns
<1>14. Mark \/ Act => \/ AskIdle \/ ReadIndex \/ Press \/ ExecNowait
                      \/ LetGo /\ UNCHANGED <<log, begun>>
                      \/ UNCHANGED <<queue, running, begun, log>>
  BY <1>g, <1>u, Zenon DEF Mark, Act
<1>16. Test => \/ Restart
               \/ UNCHANGED <<queue, running, begun>> /\ log' \in {log, EmptyLog}
  BY DEF Test, BeginMark, Search, LeaveBlock, BlockLeft, SpeechClear, ResetSpeech,
         ResetMark, Cleared
<1> QED BY <1>1, <1>2, <1>3, <1>4, <1>5, <1>6, <1>7, <1>8, <1>9, <1>10, <1>11, <1>12,
           <1>13, <1>14, <1>16 DEF Next

\* A mark of this log lies within it, and reaches what it is to reach.
Covers(mark) == mark.index <= IndexOf(log) /\ InReach(mark.index, mark.action)

MarkInv == /\ "last" \notin cleared => Covers(last)
           /\ entryPid <= pid
           /\ entryPid = pid /\ "entry" \notin cleared => Covers(entry)

\* The start of the log reaches everything.
LEMMA StartReaches ==
  ASSUME Typed, NEW a \in Nat
  PROVE  InReach(0, a)
  BY DEF Typed, TypeOK, InReach

LEMMA EmptyCovers ==
  ASSUME Typed, log' = EmptyLog, NEW a
  PROVE  Covers([index |-> 0, action |-> a])'
  BY DEF Covers, InReach, IndexOf, EmptyLog

LEMMA MarkInit == Init => MarkInv
<1> SUFFICES ASSUME Init PROVE MarkInv
  OBVIOUS
<1>1. log = [items |-> <<>>, dropped |-> 0] /\ last = [index |-> 0, action |-> 0]
  BY DEF Init, EmptyLog, START
<1>2. Covers(last)
  BY <1>1 DEF Covers, InReach, IndexOf
<1> QED BY <1>2 DEF Init, MarkInv

LEMMA MarkStep == Typed /\ Typed' /\ OfInv /\ MarkInv /\ [Next]_vars => MarkInv'
<1> SUFFICES ASSUME Typed, Typed', OfInv, MarkInv, [Next]_vars PROVE MarkInv'
  OBVIOUS
<1>t. /\ IndexOf(log) \in Nat /\ begun \in Nat /\ pid \in Nat /\ entryPid \in Nat
      /\ last.index \in Nat /\ entry.index \in Nat
      /\ \A k \in DOMAIN log.items : log.items[k].of \in Nat
  <2>1. \A k \in DOMAIN log.items : log.items[k] \in Entries
    BY DEF Typed, TypeOK
  <2>2. \A a \in Actions : a \in Nat
    BY BoundsAssumption DEF Actions
  <2>3. IndexOf(log) \in Nat
    BY DEF Typed, TypeOK, IndexOf
  <2>4. pid \in Nat /\ entryPid \in Nat
    BY BoundsAssumption DEF Typed, TypeOK
  <2>5. last.index \in Nat /\ entry.index \in Nat /\ begun \in Actions
    BY DEF Typed, TypeOK, Marks
  <2> QED BY <2>1, <2>2, <2>3, <2>4, <2>5 DEF Entries
<1> USE DEF nvdaVars, markVars, waitVars
\* An utterance comes after every mark of this log.
<1>1. CASE Speak
  <2>1. log \in LogsOf(Entries) /\ [of |-> running.of] \in Entries
    BY <1>1 DEF Speak, Typed, TypeOK, Jobs, Entries, LogsOf
  <2>2. /\ IndexOf(log') = IndexOf(log) + 1
        /\ \A k \in DOMAIN log'.items :
             \/ log'.dropped + k = IndexOf(log) + 1
             \/ \E i \in DOMAIN log.items :
                  log'.items[k] = log.items[i] /\ log'.dropped + k = log.dropped + i
    BY <1>1, <2>1, AppendedFacts DEF Speak
  <2>3. ASSUME NEW m \in Marks, Covers(m)
        PROVE  m.index <= IndexOf(log') /\ \A k \in DOMAIN log'.items :
                 log'.items[k].of >= m.action => log'.dropped + k > m.index
    <3>1. m.index \in Nat
      BY DEF Marks
    <3> QED BY <1>t, <2>2, <2>3, <3>1 DEF Covers, InReach
  <2>4. UNCHANGED <<last, entry, entryPid, pid, cleared>> /\ last \in Marks /\ entry \in Marks
    BY <1>1 DEF Speak, Typed, TypeOK
  <2> QED BY <2>3, <2>4 DEF MarkInv, Covers, InReach, IndexOf
\* A mark is taken past everything of earlier actions.
<1>2. CASE ReadIndex
  <2>1. /\ last' = [index |-> IndexOf(log), action |-> begun + 1]
        /\ UNCHANGED <<log, pid>>
        /\ \/ entry' = last' /\ entryPid' = pid
           \/ UNCHANGED <<entry, entryPid>> /\ cleared' = cleared \ {"last"}
    BY <1>2 DEF ReadIndex
  <2>2. \A k \in DOMAIN log.items : ~(log.items[k].of >= begun + 1)
    BY <1>t DEF OfInv
  <2>3. Covers(last)'
    BY <1>t, <2>1, <2>2 DEF Covers, InReach, IndexOf
  <2>4. CASE entry' = last' /\ entryPid' = pid
    BY <1>t, <2>1, <2>3, <2>4 DEF MarkInv, Covers, InReach, IndexOf
  <2>5. CASE UNCHANGED <<entry, entryPid>> /\ cleared' = cleared \ {"last"}
    BY <2>1, <2>3, <2>5 DEF MarkInv, Covers, InReach, IndexOf
  <2> QED BY <2>1, <2>4, <2>5
<1>3. CASE Restart
  <2>1. /\ log' = EmptyLog /\ pid' = pid + 1 /\ entryPid' = entryPid
        /\ last' = [index |-> 0, action |-> begun + 1]
    BY <1>3 DEF Restart
  <2>2. Covers(last)'
    BY <2>1, EmptyCovers DEF Covers, InReach, IndexOf
  <2>3. entryPid' < pid'
    BY <1>t, <2>1 DEF MarkInv
  <2> QED BY <1>t, <2>1, <2>2, <2>3 DEF MarkInv
<1>4. CASE ResetMark
  <2>1. last' = START /\ UNCHANGED <<log, pid, entry, entryPid>> /\ cleared' = cleared \ {"last"}
    BY <1>4 DEF ResetMark
  <2>2. InReach(0, 0)
    BY StartReaches
  <2>3. Covers(last)'
    BY <1>t, <2>1, <2>2 DEF Covers, InReach, IndexOf, START
  <2> QED BY <2>1, <2>3 DEF MarkInv, Covers, InReach, IndexOf
<1>5. CASE /\ cleared' = {"last", "entry"}
           /\ UNCHANGED <<pid, entryPid>>
  BY <1>5 DEF MarkInv
<1>6. CASE BlockLeft /\ UNCHANGED <<log, pid>>
  <2>1. entryPid' = 0 /\ pid \in Nat \ {0} /\ cleared' = cleared \ {"entry"}
        /\ UNCHANGED <<last, log, pid>>
    BY <1>6, BoundsAssumption DEF BlockLeft, Typed, TypeOK
  <2> QED BY <2>1 DEF MarkInv, Covers, InReach, IndexOf
<1>7. CASE UNCHANGED <<log, last, entry, entryPid, pid, cleared>>
  BY <1>7 DEF MarkInv, Covers, InReach, IndexOf
<1>8. Nvda => Speak \/ UNCHANGED <<log, last, entry, entryPid, pid, cleared>>
  BY DEF Nvda, Take, Finish, FollowUp
<1>9. Mark \/ BudgetSpent => ReadIndex \/ UNCHANGED <<log, last, entry, entryPid, pid, cleared>>
  BY DEF Mark, BudgetSpent, AskIdle, NoopHasRun, QueueIsEmpty, QueueIsBusy, IdleExpires
<1>10. Act \/ UNCHANGED vars => UNCHANGED <<log, last, entry, entryPid, pid, cleared>>
  BY DEF Act, Press, PressReturns, PressExpires, ExecNowait, Lost, vars
<1>11. Wait => \/ BlockLeft /\ UNCHANGED <<log, pid>>
               \/ UNCHANGED <<log, last, entry, entryPid, pid, cleared>>
  BY DEF Wait, Look, LookAgain, NotHeard, SearchLost, SearchOver
<1>s. BeginMark \/ Search => UNCHANGED <<log, last, entry, entryPid, pid, cleared>>
  BY DEF BeginMark, Search
<1>v. LeaveBlock => \/ BlockLeft /\ UNCHANGED <<log, pid>>
                    \/ UNCHANGED <<log, last, entry, entryPid, pid, cleared>>
  BY DEF LeaveBlock
<1>w. SpeechClear \/ ResetSpeech =>
        \/ cleared' = {"last", "entry"} /\ UNCHANGED <<pid, entryPid>>
        \/ UNCHANGED <<log, last, entry, entryPid, pid, cleared>>
  BY DEF SpeechClear, ResetSpeech
<1> QED BY <1>1, <1>2, <1>3, <1>4, <1>5, <1>6, <1>7, <1>8, <1>9, <1>10, <1>11, <1>s, <1>v,
           <1>w DEF Next, Test

LEMMA MarkInvAlways == Spec => [](Typed /\ OfInv /\ MarkInv)
  BY TypedInit, TypedStep, OfInit, OfStep, MarkInit, MarkStep, PTL DEF Spec

(* should_hear never overlooks what the last action made NVDA say, unless  *)
(* the test itself has cleared the log since.                              *)
THEOREM OwnSpeechIsAlwaysHeard == Spec => []OwnSpeechIsHeard
<1>1. MarkInv => OwnSpeechIsHeard
  BY DEF MarkInv, Covers, OwnSpeechIsHeard
<1> QED BY <1>1, MarkInvAlways, PTL

(* A block finds all that was said for an action inside it by the NVDA     *)
(* that runs when it ends, also when NVDA was relaunched inside it.        *)
THEOREM BlocksAreCovered == Spec => []BlockIsCovered
<1>1. Typed /\ MarkInv => BlockIsCovered
  <2> SUFFICES ASSUME Typed, MarkInv, entryPid # 0, "entry" \in cleared => entryPid # pid
               PROVE  InReach(SearchMark.index, entry.action)
    BY DEF BlockIsCovered
  <2>1. CASE entryPid = pid
    BY <2>1 DEF MarkInv, Covers, SearchMark
  <2>2. CASE entryPid # pid
    <3>1. InReach(0, entry.action)
      BY DEF Typed, TypeOK, InReach
    <3> QED BY <2>2, <3>1 DEF SearchMark
  <2> QED BY <2>1, <2>2
<1> QED BY <1>1, MarkInvAlways, PTL
--------------------------------------------------------------------------------
(* What is left of earlier gestures.                                       *)

Queue == DOMAIN queue

NoGesture == running.role # "gesture" /\ \A k \in Queue : queue[k].role # "gesture"

NoneAwaited == ~running.awaited /\ \A k \in Queue : ~queue[k].awaited

\* The test waits for one job at a time, and sends no gesture meanwhile: behind
\* the job it waits for there is only what NVDA queued itself.
QueueInv ==
  /\ \A i, k \in Queue : queue[i].awaited /\ i < k =>
       queue[k].role # "gesture" /\ ~queue[k].awaited
  /\ running.awaited => \A k \in Queue : queue[k].role # "gesture" /\ ~queue[k].awaited
  /\ pc \notin {"idling", "acting"} \/ answered => NoneAwaited
  /\ pc = "asking" \/ (pc = "idling" /\ answered) => NoGesture
  /\ settled => pc \in {"index", "act", "acting"}
  /\ settled /\ pc = "index" => NoGesture
  /\ settled /\ pc \in {"act", "acting"} =>
       /\ running.role = "gesture" => running.of = begun
       /\ \A k \in Queue : queue[k].role = "gesture" => queue[k].of = begun

LEMMA QueueInit == Init => QueueInv
  BY DEF Init, QueueInv, Queue, NoGesture, NoneAwaited, Nothing

\* A job that is queued while nothing is waited for, or by NVDA itself.
LEMMA QueueingKeepsOrder ==
  ASSUME Typed, QueueInv, NEW r \in {"noop", "gesture", "work"}, NEW a \in Actions,
         NEW w \in BOOLEAN, Queued(r, a, w), UNCHANGED running,
         NoneAwaited \/ (r = "work" /\ ~w)
  PROVE  /\ \A i, k \in Queue' : queue'[i].awaited /\ i < k =>
              queue'[k].role # "gesture" /\ ~queue'[k].awaited
         /\ running'.awaited =>
              \A k \in Queue' : queue'[k].role # "gesture" /\ ~queue'[k].awaited
         /\ NoneAwaited /\ ~w => NoneAwaited'
         /\ NoGesture /\ r # "gesture" => NoGesture'
         /\ \A k \in Queue' : queue'[k].role = "gesture" =>
              \/ k \in Queue /\ queue'[k] = queue[k]
              \/ r = "gesture" /\ queue'[k].of = a
<1>1. /\ Queue = 1..Len(queue) /\ Queue' = 1..(Len(queue) + 1) /\ Len(queue) \in Nat
      /\ \A k \in 1..Len(queue) : queue'[k] = queue[k]
      /\ queue'[Len(queue) + 1] = [role |-> r, of |-> a, awaited |-> w]
  BY Queueing, Zenon DEF Queue
<1>2. /\ queue'[Len(queue) + 1].role = r /\ queue'[Len(queue) + 1].of = a
      /\ queue'[Len(queue) + 1].awaited <=> w
  BY <1>1
<1>3. \A k \in Queue' : (k \in Queue /\ queue'[k] = queue[k]) \/ k = Len(queue) + 1
  BY <1>1
<1>4. \A i, k \in Queue' : i < k => i \in Queue
  BY <1>1
<1>5. ASSUME NEW k_1 \in Queue', NEW k_2 \in Queue', queue'[k_1].awaited, k_1 < k_2
      PROVE  queue'[k_2].role # "gesture" /\ ~queue'[k_2].awaited
  <2>1. k_1 \in Queue /\ queue[k_1].awaited
    BY <1>1, <1>4, <1>5
  <2>2. r = "work" /\ ~w
    BY <2>1 DEF NoneAwaited
  <2>3. CASE k_2 \in Queue /\ queue'[k_2] = queue[k_2]
    BY <1>5, <2>1, <2>3 DEF QueueInv
  <2>4. CASE k_2 = Len(queue) + 1
    BY <1>2, <2>2, <2>4
  <2> QED BY <1>3, <2>3, <2>4
<1>6. ASSUME running.awaited, NEW k \in Queue'
      PROVE  queue'[k].role # "gesture" /\ ~queue'[k].awaited
  <2>1. r = "work" /\ ~w
    BY <1>6 DEF NoneAwaited
  <2> QED BY <1>2, <1>3, <1>6, <2>1 DEF QueueInv
<1>7. NoneAwaited /\ ~w => NoneAwaited'
  BY <1>2, <1>3 DEF NoneAwaited
<1>8. NoGesture /\ r # "gesture" => NoGesture'
  BY <1>2, <1>3 DEF NoGesture
<1>9. \A k \in Queue' : queue'[k].role = "gesture" =>
        \/ k \in Queue /\ queue'[k] = queue[k]
        \/ r = "gesture" /\ queue'[k].of = a
  BY <1>2, <1>3
<1> QED BY <1>5, <1>6, <1>7, <1>8, <1>9

LEMMA QueueStep == Typed /\ QueueInv /\ [Next]_vars => QueueInv'
<1> SUFFICES ASSUME Typed, QueueInv, [Next]_vars PROVE QueueInv'
  OBVIOUS
<1>b. begun \in Actions /\ 0 \in Actions /\ \A a \in 0..begun : a \in Actions
  BY BoundsAssumption DEF Typed, TypeOK, Actions
<1> USE DEF nvdaVars, markVars, waitVars
<1>1. CASE Take
  <2>1. /\ Queue = 1..Len(queue) /\ Queue' = 1..(Len(queue) - 1)
        /\ Len(queue) \in Nat /\ Len(queue) >= 1
        /\ running' = queue[1] /\ \A k \in Queue' : queue'[k] = queue[k + 1]
    BY <1>1, Taking DEF Queue
  <2>2. 1 \in Queue /\ \A k \in Queue' : k + 1 \in Queue /\ 1 < k + 1
    BY <2>1
  <2>3. \A i, k \in Queue' : i < k => i + 1 < k + 1
    BY <2>1
  <2>4. UNCHANGED <<pc, answered, settled, begun>>
    BY <1>1 DEF Take
  <2>5. /\ NoneAwaited => NoneAwaited'
        /\ NoGesture => NoGesture'
    BY <2>1, <2>2 DEF NoGesture, NoneAwaited
  <2>6. \A i, k \in Queue' : queue'[i].awaited /\ i < k =>
          queue'[k].role # "gesture" /\ ~queue'[k].awaited
    BY <2>1, <2>2, <2>3 DEF QueueInv
  <2>7. running'.awaited =>
          \A k \in Queue' : queue'[k].role # "gesture" /\ ~queue'[k].awaited
    BY <2>1, <2>2 DEF QueueInv
  <2>8. settled /\ pc \in {"act", "acting"} =>
          /\ running'.role = "gesture" => running'.of = begun
          /\ \A k \in Queue' : queue'[k].role = "gesture" => queue'[k].of = begun
    BY <2>1, <2>2 DEF QueueInv
  <2> QED BY <2>4, <2>5, <2>6, <2>7, <2>8 DEF QueueInv
<1>2. CASE Finish
  <2>1. /\ running' = Nothing /\ UNCHANGED <<queue, pc, settled, begun>>
        /\ answered' => answered \/ running.awaited
    BY <1>2, Zenon DEF Finish
  <2>2. running'.role = "none" /\ ~running'.awaited
    BY <2>1 DEF Nothing
  <2> QED BY <2>1, <2>2 DEF QueueInv, Queue, NoGesture, NoneAwaited
<1>3. CASE FollowUp
  <2>1. PICK a \in 0..begun : Queued("work", a, FALSE)
    BY <1>3 DEF FollowUp
  <2>2. UNCHANGED <<running, pc, answered, settled, begun>>
    BY <1>3 DEF FollowUp
  <2>3. a \in Actions
    BY <1>b, <2>1
  <2>4. /\ \A i, k \in Queue' : queue'[i].awaited /\ i < k =>
             queue'[k].role # "gesture" /\ ~queue'[k].awaited
        /\ running'.awaited =>
             \A k \in Queue' : queue'[k].role # "gesture" /\ ~queue'[k].awaited
        /\ NoneAwaited => NoneAwaited'
        /\ NoGesture => NoGesture'
        /\ \A k \in Queue' : queue'[k].role = "gesture" => k \in Queue /\ queue'[k] = queue[k]
    BY <2>1, <2>2, <2>3, QueueingKeepsOrder
  <2> QED BY <2>2, <2>4 DEF QueueInv
<1>4. CASE AskIdle
  <2>1. /\ Queued("noop", 0, TRUE) /\ pc = "settle" /\ pc' = "idling" /\ ~answered'
        /\ UNCHANGED <<running, settled>>
    BY <1>4 DEF AskIdle
  <2>2. NoneAwaited /\ ~settled
    BY <2>1 DEF QueueInv
  <2>3. /\ \A i, k \in Queue' : queue'[i].awaited /\ i < k =>
             queue'[k].role # "gesture" /\ ~queue'[k].awaited
        /\ running'.awaited =>
             \A k \in Queue' : queue'[k].role # "gesture" /\ ~queue'[k].awaited
    BY <1>b, <2>1, <2>2, QueueingKeepsOrder
  <2> QED BY <2>1, <2>2, <2>3 DEF QueueInv
<1>5. CASE Press
  <2>1. /\ Queued("gesture", begun, TRUE) /\ pc = "act" /\ pc' = "acting" /\ ~answered'
        /\ UNCHANGED <<running, settled, begun>>
    BY <1>5 DEF Press
  <2>2. NoneAwaited
    BY <2>1 DEF QueueInv
  <2>3. /\ \A i, k \in Queue' : queue'[i].awaited /\ i < k =>
             queue'[k].role # "gesture" /\ ~queue'[k].awaited
        /\ running'.awaited =>
             \A k \in Queue' : queue'[k].role # "gesture" /\ ~queue'[k].awaited
        /\ \A k \in Queue' : queue'[k].role = "gesture" =>
             (k \in Queue /\ queue'[k] = queue[k]) \/ queue'[k].of = begun
    BY <1>b, <2>1, <2>2, QueueingKeepsOrder
  <2> QED BY <2>1, <2>3 DEF QueueInv
<1>6. CASE ExecNowait
  <2>1. /\ Queued("work", begun, FALSE) /\ pc = "act" /\ pc' = "rest" /\ ~settled'
        /\ UNCHANGED <<running, answered>>
    BY <1>6 DEF ExecNowait
  <2>2. NoneAwaited
    BY <2>1 DEF QueueInv
  <2>3. /\ \A i, k \in Queue' : queue'[i].awaited /\ i < k =>
             queue'[k].role # "gesture" /\ ~queue'[k].awaited
        /\ running'.awaited =>
             \A k \in Queue' : queue'[k].role # "gesture" /\ ~queue'[k].awaited
        /\ NoneAwaited'
    BY <1>b, <2>1, <2>2, QueueingKeepsOrder
  <2> QED BY <2>1, <2>3 DEF QueueInv
\* Nobody waits for anything after LetGo.
<1>7. CASE LetGo /\ (settled' => settled /\ pc' = "index") /\ pc' \in {"rest", "index"}
           /\ (pc' = "index" => pc = "idling")
  <2>1. NoneAwaited'
    BY <1>7, LettingGo DEF NoneAwaited, Queue
  <2>2. ~settled'
    BY <1>7 DEF QueueInv
  <2> QED BY <1>7, <2>1, <2>2 DEF QueueInv, NoneAwaited
<1>8. IdleExpires \/ PressExpires \/ Lost =>
        LetGo /\ (settled' => settled /\ pc' = "index") /\ pc' \in {"rest", "index"}
        /\ (pc' = "index" => pc = "idling")
  <2>1. IdleExpires => LetGo /\ settled' = settled /\ pc' = "index" /\ pc = "idling"
    BY DEF IdleExpires
  <2>2. PressExpires \/ Lost => LetGo /\ ~settled' /\ pc' = "rest"
    <3>1. PressExpires => LetGo /\ ~settled' /\ pc' = "rest"
      BY DEF PressExpires
    <3>2. Lost => LetGo /\ ~settled' /\ pc' = "rest"
      BY DEF Lost
    <3> QED BY <3>1, <3>2
  <2> QED BY <2>1, <2>2
<1>9. CASE NoopHasRun
  BY <1>9 DEF NoopHasRun, QueueInv, Queue, NoGesture, NoneAwaited
<1>10. CASE QueueIsEmpty \/ QueueIsBusy
  BY <1>10 DEF QueueIsEmpty, QueueIsBusy, QueueInv, Queue, NoGesture, NoneAwaited
<1>11. CASE ReadIndex
  <2>0. /\ pc = "index" /\ pc' \in {"rest", "act"}
        /\ UNCHANGED <<queue, running, answered>>
    BY <1>11 DEF ReadIndex
  <2>1. (pc' = "rest" /\ ~settled') \/ (pc' = "act" /\ settled' = settled)
    BY <1>11, Zenon DEF ReadIndex
  <2> QED BY <2>0, <2>1 DEF QueueInv, Queue, NoGesture, NoneAwaited
<1>12. CASE PressReturns
  <2>1. /\ pc = "acting" /\ answered /\ ~answered' /\ pc' \in {"act", "rest"}
        /\ UNCHANGED <<queue, running, begun>>
        /\ settled' => settled /\ pc' = "act"
    BY <1>12, Zenon DEF PressReturns
  <2> QED BY <2>1 DEF QueueInv, Queue, NoGesture, NoneAwaited
<1>13. CASE Restart
  <2>1. queue' = <<>> /\ running' = Nothing /\ pc' = "rest" /\ settled' = settled /\ pc = "rest"
    BY <1>13 DEF Restart
  <2>2. Queue' = {} /\ running'.role = "none" /\ ~running'.awaited
    BY <2>1 DEF Queue, Nothing
  <2> QED BY <2>1, <2>2 DEF QueueInv, NoGesture, NoneAwaited
\* The rest of the test happens where nothing is waited for or settled.
<1>14. CASE /\ UNCHANGED <<queue, running, answered, settled>>
            /\ {pc, pc'} \cap {"idling", "acting", "asking", "index", "act"} = {}
  BY <1>14 DEF QueueInv, Queue, NoGesture, NoneAwaited
<1>15. CASE UNCHANGED <<queue, running, answered, settled, pc, begun>>
  BY <1>15 DEF QueueInv, Queue, NoGesture, NoneAwaited
<1>16. Speak \/ BudgetSpent \/ UNCHANGED vars
         => UNCHANGED <<queue, running, answered, settled, pc, begun>>
  BY DEF Speak, BudgetSpent, vars
<1>17. BeginMark \/ Search \/ LeaveBlock \/ SpeechClear \/ ResetSpeech \/ ResetMark =>
         /\ UNCHANGED <<queue, running, answered, settled>>
         /\ {pc, pc'} \cap {"idling", "acting", "asking", "index", "act"} = {}
  BY DEF BeginMark, Search, LeaveBlock, SpeechClear, ResetSpeech, ResetMark
<1>18. Wait => /\ UNCHANGED <<queue, running, answered, settled>>
               /\ {pc, pc'} \cap {"idling", "acting", "asking", "index", "act"} = {}
  BY DEF Wait, Look, LookAgain, NotHeard, SearchLost, SearchOver
<1> QED BY <1>1, <1>2, <1>3, <1>4, <1>5, <1>6, <1>7, <1>8, <1>9, <1>10, <1>11, <1>12,
           <1>13, <1>14, <1>15, <1>16, <1>17, <1>18
        DEF Next, Nvda, Mark, Act, Test

(* While an action acts whose mark found NVDA idle, no gesture of an       *)
(* earlier one is still to be processed, however its press had ended: the  *)
(* empty job of wait_until_idle is behind every gesture there is.          *)
THEOREM SettlingSeparatesActions == Spec => []SettledLeavesNoGesture
<1>1. QueueInv => SettledLeavesNoGesture
  BY DEF QueueInv, Queue, SettledLeavesNoGesture
<1> QED BY <1>1, TypedInit, TypedStep, QueueInit, QueueStep, PTL DEF Spec
--------------------------------------------------------------------------------
(* What a test's calls are to NVDA's main thread: JobQueue.                *)

Calling == pc \in {"idling", "acting"}

FlagsOf(s) == [i \in DOMAIN s |-> s[i].awaited]

AnsweredInv == answered => Calling

LEMMA FlagsAreFlags ==
  ASSUME NEW s \in Seq(Jobs)
  PROVE  FlagsOf(s) \in Seq(BOOLEAN) /\ Len(FlagsOf(s)) = Len(s)
<1>1. Len(s) \in Nat /\ DOMAIN s = 1..Len(s) /\ \A i \in 1..Len(s) : s[i].awaited \in BOOLEAN
  <2>1. Len(s) \in Nat /\ DOMAIN s = 1..Len(s) /\ \A i \in 1..Len(s) : s[i] \in Jobs
    OBVIOUS
  <2>2. \A j \in Jobs : j.awaited \in BOOLEAN
    BY DEF Jobs
  <2> QED BY <2>1, <2>2
<1>2. FlagsOf(s) \in [1..Len(s) -> BOOLEAN]
  BY <1>1 DEF FlagsOf
<1> QED BY <1>1, <1>2

LEMMA FlagsOfAppend ==
  ASSUME NEW s \in Seq(Jobs), NEW j \in Jobs
  PROVE  FlagsOf(Append(s, j)) = Append(FlagsOf(s), j.awaited)
<1> DEFINE t == Append(s, j)
           f == FlagsOf(t)
           g == Append(FlagsOf(s), j.awaited)
<1>1. /\ t \in Seq(Jobs) /\ Len(t) = Len(s) + 1 /\ Len(s) \in Nat
      /\ DOMAIN t = 1..(Len(s) + 1) /\ DOMAIN s = 1..Len(s)
      /\ \A i \in 1..Len(s) : t[i] = s[i]
      /\ t[Len(s) + 1] = j
  BY AppendFacts
<1>2. f \in Seq(BOOLEAN) /\ Len(f) = Len(s) + 1
  BY <1>1, FlagsAreFlags
<1>3. j.awaited \in BOOLEAN
  BY DEF Jobs
<1>4. FlagsOf(s) \in Seq(BOOLEAN) /\ Len(FlagsOf(s)) = Len(s)
  BY FlagsAreFlags
<1>5. /\ g \in Seq(BOOLEAN) /\ Len(g) = Len(s) + 1 /\ g[Len(s) + 1] = j.awaited
      /\ \A i \in 1..Len(s) : g[i] = FlagsOf(s)[i]
  BY <1>3, <1>4, AppendProperties
<1> HIDE DEF t, g
<1>6. ASSUME NEW i \in 1..(Len(s) + 1) PROVE f[i] = g[i]
  <2>1. f[i] = t[i].awaited
    BY <1>1 DEF FlagsOf
  <2>2. CASE i \in 1..Len(s)
    BY <1>1, <1>5, <2>1, <2>2 DEF FlagsOf
  <2>3. CASE i = Len(s) + 1
    BY <1>1, <1>5, <2>1, <2>3
  <2> QED BY <1>1, <2>2, <2>3
<1> HIDE DEF f
<1>7. f = g
  BY <1>1, <1>2, <1>5, <1>6, SeqEqual
<1> QED BY <1>7 DEF f, g, t

LEMMA InFront ==
  ASSUME NEW s \in Seq(Jobs), NEW j \in Jobs
  PROVE  LET u == <<j>> \o s
         IN  /\ u \in Seq(Jobs) /\ Len(u) = Len(s) + 1 /\ DOMAIN u = 1..(Len(s) + 1)
             /\ u[1] = j
             /\ \A i \in 1..Len(s) : u[i + 1] = s[i]
<1>1. PICK o \in Seq(Jobs) : o = <<j>> /\ Len(o) = 1 /\ o[1] = j
  <2>1. <<j>> \in Seq(Jobs) /\ Len(<<j>>) = 1 /\ <<j>>[1] = j
    OBVIOUS
  <2> QED BY <2>1
<1>2. /\ o \o s \in Seq(Jobs) /\ Len(o \o s) = Len(s) + 1
      /\ DOMAIN (o \o s) = 1..(Len(s) + 1)
      /\ (o \o s)[1] = j
      /\ \A i \in 1..Len(s) : (o \o s)[i + 1] = s[i]
  BY <1>1
<1> QED BY <1>1, <1>2

LEMMA FlagsOfTail ==
  ASSUME NEW s \in Seq(Jobs), NEW j \in Jobs
  PROVE  LET u == <<j>> \o s
         IN  /\ u \in Seq(Jobs) /\ FlagsOf(u) # <<>>
             /\ Head(FlagsOf(u)) = j.awaited /\ Tail(FlagsOf(u)) = FlagsOf(s)
<1> DEFINE u == <<j>> \o s
           f == FlagsOf(u)
<1>2. Len(s) \in Nat
  OBVIOUS
<1>3. /\ u \in Seq(Jobs) /\ Len(u) = Len(s) + 1 /\ u[1] = j
      /\ \A i \in 1..Len(s) : u[i + 1] = s[i]
  BY InFront
<1> HIDE DEF u
<1>4. /\ f \in Seq(BOOLEAN) /\ Len(f) = Len(s) + 1
      /\ FlagsOf(s) \in Seq(BOOLEAN) /\ Len(FlagsOf(s)) = Len(s)
  BY <1>3, FlagsAreFlags
<1>5. \A i \in 1..(Len(s) + 1) : f[i] = u[i].awaited
  BY <1>3 DEF FlagsOf
<1>6. \A i \in DOMAIN s : FlagsOf(s)[i] = s[i].awaited
  BY DEF FlagsOf
<1> HIDE DEF f
<1>7. f # <<>> /\ Head(f) = f[1]
  BY <1>2, <1>4
<1>8. /\ Tail(f) \in Seq(BOOLEAN) /\ Len(Tail(f)) = Len(s)
      /\ \A i \in 1..Len(s) : Tail(f)[i] = f[i + 1]
  BY <1>2, <1>4, <1>7, HeadTailProperties
<1>9. ASSUME NEW i \in 1..Len(s) PROVE Tail(f)[i] = FlagsOf(s)[i]
  <2>1. i + 1 \in 1..(Len(s) + 1) /\ i \in DOMAIN s
    BY <1>2
  <2>2. Tail(f)[i] = u[i + 1].awaited /\ FlagsOf(s)[i] = s[i].awaited
    BY <1>5, <1>6, <1>8, <2>1
  <2> QED BY <1>3, <2>2
<1>10. Tail(f) = FlagsOf(s)
  BY <1>4, <1>8, <1>9, SeqEqual
<1>11. Head(f) = j.awaited
  BY <1>2, <1>3, <1>5, <1>7
<1> QED BY <1>3, <1>7, <1>10, <1>11 DEF u, f

\* How the jobs not done change with the queue.
UndoneFacts == Undone \in Seq(Jobs) /\ (running # Nothing => running \in Jobs)

LEMMA UndoneIsJobs == Typed => UndoneFacts
<1> SUFFICES ASSUME Typed PROVE UndoneFacts
  OBVIOUS
<1>1. queue \in Seq(Jobs) /\ running \in Jobs \cup NoJob
  BY DEF Typed, TypeOK, NoJob
<1>2. running # Nothing => running \in Jobs
  BY <1>1, Zenon DEF NoJob, Nothing
<1> QED BY <1>1, <1>2, FlagsOfTail DEF Undone, UndoneFacts

LEMMA NothingIsNoJob == \A j \in Jobs : j # Nothing
  BY DEF Jobs, Nothing

LEMMA QueueingIsAppend ==
  ASSUME Typed, NEW r \in {"noop", "gesture", "work"}, NEW a \in Actions,
         NEW w \in BOOLEAN, Queued(r, a, w), UNCHANGED running
  PROVE  FlagsOf(Undone)' = Append(FlagsOf(Undone), w)
<1>1. PICK j \in Jobs : j = [role |-> r, of |-> a, awaited |-> w]
  <2>1. [role |-> r, of |-> a, awaited |-> w] \in Jobs
    BY DEF Jobs
  <2> QED BY <2>1, Zenon
<1>2. queue \in Seq(Jobs) /\ queue' = Append(queue, j) /\ j.awaited = w
  BY <1>1 DEF Queued, Typed, TypeOK
<1>3. Undone' = Append(Undone, j)
  <2>1. CASE running = Nothing
    BY <1>2, <2>1 DEF Undone
  <2>2. CASE running # Nothing
    <3>1. <<running>> \in Seq(Jobs) /\ <<j>> \in Seq(Jobs)
      BY <2>2, UndoneIsJobs DEF UndoneFacts
    <3>2. <<running>> \o (queue \o <<j>>) = (<<running>> \o queue) \o <<j>>
      BY <1>2, <3>1, ConcatAssociative
    <3>3. <<running>> \o queue \in Seq(Jobs)
      BY <1>2, <3>1, ConcatProperties
    <3>4. queue \o <<j>> = Append(queue, j)
          /\ (<<running>> \o queue) \o <<j>> = Append(<<running>> \o queue, j)
      BY <1>2, <3>3, AppendIsConcat
    <3> QED BY <1>2, <2>2, <3>2, <3>4 DEF Undone
  <2> QED BY <2>1, <2>2
<1>4. FlagsOf(Append(Undone, j)) = Append(FlagsOf(Undone), j.awaited)
  BY UndoneIsJobs, FlagsOfAppend DEF UndoneFacts
<1>5. FlagsOf(Undone)' = FlagsOf(Undone')
  BY DEF FlagsOf
<1> QED BY <1>2, <1>3, <1>4, <1>5

LEMMA TakingIsNothing ==
  ASSUME Typed, Take
  PROVE  Undone' = Undone
<1>1. /\ queue \in Seq(Jobs) /\ queue # <<>> /\ running' = Head(queue)
      /\ queue' = Tail(queue) /\ running = Nothing
  BY DEF Take, Typed, TypeOK
<1>2. Head(queue) \in Jobs /\ Tail(queue) \in Seq(Jobs)
  BY <1>1
<1>3. <<Head(queue)>> \o Tail(queue) = queue
  <2>1. /\ <<Head(queue)>> \o Tail(queue) \in Seq(Jobs)
        /\ Len(<<Head(queue)>> \o Tail(queue)) = Len(queue)
    <3>1. <<Head(queue)>> \in Seq(Jobs) /\ Len(<<Head(queue)>>) = 1
      BY <1>2
    <3>2. Len(Tail(queue)) = Len(queue) - 1 /\ Len(queue) \in Nat
      BY <1>1
    <3> QED BY <1>2, <3>1, <3>2, ConcatProperties
  <2>2. ASSUME NEW i \in 1..Len(queue)
        PROVE  (<<Head(queue)>> \o Tail(queue))[i] = queue[i]
    <3>1. PICK o \in Seq(Jobs) : o = <<Head(queue)>> /\ Len(o) = 1 /\ o[1] = queue[1]
      <4>1. /\ <<Head(queue)>> \in Seq(Jobs) /\ Len(<<Head(queue)>>) = 1
            /\ <<Head(queue)>>[1] = queue[1]
        BY <1>1, <1>2
      <4> QED BY <4>1
    <3>2. /\ Len(Tail(queue)) = Len(queue) - 1 /\ Len(queue) \in Nat
          /\ \A k \in 1..(Len(queue) - 1) : Tail(queue)[k] = queue[k + 1]
      BY <1>1
    <3>3. (o \o Tail(queue))[i] = IF i <= 1 THEN o[i] ELSE Tail(queue)[i - 1]
      BY <1>2, <3>1, <3>2, ConcatProperties
    <3>4. CASE i = 1
      BY <3>1, <3>3, <3>4
    <3>5. CASE i # 1
      <4>1. i - 1 \in 1..(Len(queue) - 1) /\ (i - 1) + 1 = i /\ ~(i <= 1)
        BY <3>2, <3>5
      <4>2. Tail(queue)[i - 1] = queue[i]
        BY <3>2, <4>1
      <4> QED BY <3>1, <3>3, <4>1, <4>2
    <3> QED BY <3>4, <3>5
  <2> QED BY <1>1, <2>1, <2>2, SeqEqual
<1>4. running' # Nothing
  BY <1>1, <1>2, NothingIsNoJob
<1> QED BY <1>1, <1>3, <1>4 DEF Undone

LEMMA LettingGoForgets ==
  ASSUME Typed, LetGo
  PROVE  FlagsOf(Undone)' = [i \in DOMAIN FlagsOf(Undone) |-> FALSE]
<1>1. /\ queue' \in Seq(Jobs) /\ running' \in Jobs \cup NoJob
      /\ DOMAIN queue' = DOMAIN queue /\ \A k \in DOMAIN queue : ~queue'[k].awaited
      /\ running'.role = running.role /\ ~running'.awaited
      /\ queue \in Seq(Jobs) /\ running \in Jobs \cup NoJob
  BY LettingGo DEF Typed, TypeOK, NoJob
<1>2. running' = Nothing <=> running = Nothing
  BY <1>1, NothingIsNoJob, Zenon DEF NoJob, Nothing, Jobs
<1>3. FlagsOf(Undone)' = FlagsOf(Undone') /\ DOMAIN FlagsOf(Undone) = DOMAIN Undone
      /\ DOMAIN FlagsOf(Undone') = DOMAIN Undone'
  BY DEF FlagsOf
<1>4. DOMAIN Undone' = DOMAIN Undone /\ \A i \in DOMAIN Undone' : ~Undone'[i].awaited
  <2>1. CASE running = Nothing
    BY <1>1, <1>2, <2>1 DEF Undone
  <2>2. CASE running # Nothing
    <3>1. running \in Jobs /\ running' \in Jobs
      BY <1>1, <1>2, <2>2, Zenon DEF NoJob, Nothing
    <3>2. Undone = <<running>> \o queue /\ Undone' = <<running'>> \o queue'
      BY <1>2, <2>2 DEF Undone
    <3>3. DOMAIN queue = 1..Len(queue) /\ Len(queue') = Len(queue) /\ Len(queue) \in Nat
      BY <1>1
    <3>4. /\ DOMAIN (<<running>> \o queue) = 1..(Len(queue) + 1)
          /\ DOMAIN (<<running'>> \o queue') = 1..(Len(queue) + 1)
          /\ (<<running'>> \o queue')[1] = running'
          /\ \A k \in 1..Len(queue) : (<<running'>> \o queue')[k + 1] = queue'[k]
      BY <1>1, <3>1, <3>3, InFront
    <3>5. ASSUME NEW i \in 1..(Len(queue) + 1)
          PROVE  ~Undone'[i].awaited
      <4>1. CASE i = 1
        BY <1>1, <3>2, <3>4, <4>1
      <4>2. CASE i # 1
        <5>1. i - 1 \in 1..Len(queue) /\ (i - 1) + 1 = i
          BY <3>3, <4>2
        <5> QED BY <1>1, <3>2, <3>3, <3>4, <5>1
      <4> QED BY <4>1, <4>2
    <3> QED BY <3>2, <3>4, <3>5
  <2> QED BY <2>1, <2>2
<1>5. \A i \in DOMAIN Undone' : Undone'[i].awaited = FALSE
  <2>1. UndoneFacts'
    <3>1. running' # Nothing => running' \in Jobs
      BY <1>1, Zenon DEF NoJob, Nothing
    <3>2. Undone' \in Seq(Jobs)
      BY <1>1, <3>1, FlagsOfTail DEF Undone
    <3> QED BY <3>1, <3>2 DEF UndoneFacts
  <2>2. \A i \in DOMAIN Undone' : Undone'[i].awaited \in BOOLEAN
    <3>1. \A i \in DOMAIN Undone' : Undone'[i] \in Jobs
      BY <2>1 DEF UndoneFacts
    <3>2. \A j \in Jobs : j.awaited \in BOOLEAN
      BY DEF Jobs
    <3> QED BY <3>1, <3>2
  <2> QED BY <1>4, <2>2
<1>6. FlagsOf(Undone') = [i \in DOMAIN Undone' |-> FALSE]
  BY <1>5 DEF FlagsOf
<1> QED BY <1>3, <1>4, <1>6

\* What each kind of step is to JobQueue.
Flags == FlagsOf(Undone)

LEMMA IsCall ==
  ASSUME ~Calling, Flags' = Append(Flags, TRUE), Calling' = TRUE, ~answered'
  PROVE  Bridge!MortalNext
BY DEF Bridge!MortalNext, Bridge!Next, Bridge!Call, Bridge!Idle, Flags, FlagsOf, Calling

LEMMA IsPost ==
  ASSUME Flags' = Append(Flags, FALSE), Calling' = Calling, answered' = answered
  PROVE  Bridge!MortalNext
BY DEF Bridge!MortalNext, Bridge!Next, Bridge!Post, Flags, FlagsOf, Calling

LEMMA IsRun ==
  ASSUME Flags # <<>>, Flags' = Tail(Flags), Calling' = Calling,
         answered' = (answered \/ Head(Flags))
  PROVE  Bridge!MortalNext
BY DEF Bridge!MortalNext, Bridge!Next, Bridge!Run, Flags, FlagsOf, Calling

LEMMA IsReturn ==
  ASSUME Calling, answered, Calling' = FALSE, ~answered', Flags' = Flags
  PROVE  Bridge!MortalNext
BY DEF Bridge!MortalNext, Bridge!Next, Bridge!Return, Flags, FlagsOf, Calling

LEMMA IsGiveUp ==
  ASSUME Calling, ~answered, Calling' = FALSE, ~answered',
         Flags' = [i \in DOMAIN Flags |-> FALSE]
  PROVE  Bridge!MortalNext
BY DEF Bridge!MortalNext, Bridge!Next, Bridge!GiveUp, Flags, FlagsOf, Calling

LEMMA IsEnd ==
  ASSUME Flags' = <<>>, Calling' = Calling, answered' = answered
  PROVE  Bridge!MortalNext
BY DEF Bridge!MortalNext, Bridge!End, Flags, FlagsOf, Calling

LEMMA IsStutter ==
  ASSUME Flags' = Flags, Calling' = Calling, answered' = answered
  PROVE  UNCHANGED Bridge!vars
BY DEF Bridge!vars, Flags, FlagsOf, Calling

LEMMA AnsweredStep == Typed /\ QueueInv /\ AnsweredInv /\ [Next]_vars => AnsweredInv'
<1> SUFFICES ASSUME Typed, QueueInv, AnsweredInv, [Next]_vars PROVE AnsweredInv'
  OBVIOUS
<1>1. CASE Finish
  BY <1>1 DEF Finish, AnsweredInv, QueueInv, NoneAwaited, Calling
<1>2. CASE ~Finish
  BY <1>2 DEF Next, Nvda, Mark, Act, Wait, Test, Take, Speak, FollowUp, BeginMark, BudgetSpent,
       AskIdle, NoopHasRun, QueueIsEmpty, QueueIsBusy, IdleExpires, ReadIndex, Press,
       PressReturns, PressExpires, ExecNowait, Lost, Search, LeaveBlock, Look, LookAgain,
       NotHeard, SearchLost, SearchOver, SpeechClear, ResetSpeech, ResetMark, Restart,
       vars, waitVars, AnsweredInv, Calling
<1> QED BY <1>1, <1>2

\* Letting go of the jobs when none is waited for changes nothing.
LEMMA NoneToLetGo ==
  ASSUME Typed, QueueInv, LetGo, ~Calling \/ answered
  PROVE  Flags' = Flags
<1>1. NoneAwaited
  BY DEF QueueInv, Calling
<1>2. \A i \in DOMAIN Undone : Undone[i].awaited = FALSE
  <2>1. \A k \in DOMAIN queue : queue[k].awaited = FALSE
    <3>1. \A k \in DOMAIN queue : queue[k] \in Jobs
      BY DEF Typed, TypeOK
    <3>2. \A j \in Jobs : j.awaited \in BOOLEAN
      BY DEF Jobs
    <3> QED BY <1>1, <3>1, <3>2 DEF NoneAwaited, Queue
  <2>2. CASE running = Nothing
    BY <2>1, <2>2 DEF Undone
  <2>3. CASE running # Nothing
    <3>1. running \in Jobs /\ queue \in Seq(Jobs) /\ Undone = <<running>> \o queue
      BY <2>3, UndoneIsJobs DEF UndoneFacts, Undone, Typed, TypeOK
    <3>2. running.awaited = FALSE
      BY <1>1, <3>1 DEF NoneAwaited, Jobs
    <3>3. /\ DOMAIN Undone = 1..(Len(queue) + 1) /\ Undone[1] = running
          /\ DOMAIN queue = 1..Len(queue) /\ Len(queue) \in Nat
          /\ \A k \in 1..Len(queue) : Undone[k + 1] = queue[k]
      BY <3>1, InFront
    <3>4. ASSUME NEW i \in 1..(Len(queue) + 1), i # 1
          PROVE  Undone[i].awaited = FALSE
      <4>1. i - 1 \in 1..Len(queue) /\ (i - 1) + 1 = i
        BY <3>3, <3>4
      <4> QED BY <2>1, <3>3, <4>1
    <3> QED BY <3>2, <3>3, <3>4
  <2> QED BY <2>2, <2>3
<1>3. Flags = [i \in DOMAIN Undone |-> FALSE]
  BY <1>2 DEF Flags, FlagsOf
<1>4. DOMAIN Flags = DOMAIN Undone
  BY DEF Flags, FlagsOf
<1> QED BY <1>3, <1>4, LettingGoForgets DEF Flags

LEMMA BridgeStep ==
  Typed /\ QueueInv /\ AnsweredInv /\ [Next]_vars => [Bridge!MortalNext]_(Bridge!vars)
<1> SUFFICES ASSUME Typed, QueueInv, AnsweredInv, [Next]_vars
             PROVE  Bridge!MortalNext \/ UNCHANGED Bridge!vars
  OBVIOUS
<1>a. 0 \in Actions /\ begun \in Actions /\ \A a \in 0..begun : a \in Actions
  BY BoundsAssumption DEF Typed, TypeOK, Actions
<1> USE DEF nvdaVars, markVars, waitVars
\* The queue left alone, or a job taken from it into hand.
<1>1. ASSUME Undone' = Undone, Calling' = Calling, answered' = answered
      PROVE  UNCHANGED Bridge!vars
  <2>1. Flags' = Flags
    BY <1>1 DEF Flags, FlagsOf
  <2> QED BY <1>1, <2>1, IsStutter
<1>2. ASSUME UNCHANGED <<queue, running>>
      PROVE  Undone' = Undone /\ Flags' = Flags
  BY <1>2 DEF Undone, Flags, FlagsOf
<1>3. CASE Take
  BY <1>1, <1>3, TakingIsNothing DEF Take, Calling
<1>4. CASE Speak \/ BudgetSpent
  BY <1>1, <1>2, <1>4 DEF Speak, BudgetSpent, Calling
<1>5. CASE Finish
  <2>1. /\ running \in Jobs /\ queue \in Seq(Jobs) /\ Undone = <<running>> \o queue
        /\ Undone' = queue /\ answered' = (answered \/ running.awaited)
        /\ Calling' = Calling
    BY <1>5, UndoneIsJobs DEF Finish, UndoneFacts, Undone, Typed, TypeOK, Calling
  <2>2. /\ Flags # <<>> /\ Head(Flags) = running.awaited /\ Tail(Flags) = FlagsOf(queue)
    BY <2>1, FlagsOfTail DEF Flags
  <2>3. Flags' = FlagsOf(queue)
    BY <2>1 DEF Flags, FlagsOf
  <2> QED BY <2>1, <2>2, <2>3, IsRun
<1>6. CASE FollowUp
  <2>1. \E a \in Actions : Queued("work", a, FALSE)
    BY <1>6, <1>a DEF FollowUp
  <2>2. Flags' = Append(Flags, FALSE)
    BY <1>6, <2>1, QueueingIsAppend DEF FollowUp, Flags
  <2> QED BY <1>6, <2>2, IsPost DEF FollowUp, Calling
\* mark_action
<1>7. CASE AskIdle
  <2>1. Flags' = Append(Flags, TRUE)
    BY <1>7, <1>a, QueueingIsAppend DEF AskIdle, Flags
  <2> QED BY <1>7, <2>1, IsCall DEF AskIdle, Calling
<1>8. CASE NoopHasRun
  <2>1. /\ UNCHANGED <<queue, running>> /\ answered /\ ~answered'
        /\ Calling = TRUE /\ Calling' = FALSE
    BY <1>8 DEF NoopHasRun, Calling
  <2> QED BY <1>2, <2>1, IsReturn
<1>9. CASE QueueIsEmpty \/ QueueIsBusy \/ ReadIndex
  BY <1>1, <1>2, <1>9 DEF QueueIsEmpty, QueueIsBusy, ReadIndex, Calling
<1>10. CASE IdleExpires
  <2>1. LetGo /\ ~answered /\ ~answered' /\ Calling = TRUE /\ Calling' = FALSE
    BY <1>10 DEF IdleExpires, Calling
  <2> QED BY <2>1, LettingGoForgets, IsGiveUp DEF Flags
\* The action
<1>11. CASE Press
  <2>1. Flags' = Append(Flags, TRUE)
    BY <1>11, <1>a, QueueingIsAppend DEF Press, Flags
  <2> QED BY <1>11, <2>1, IsCall DEF Press, Calling
<1>12. CASE PressReturns
  <2>1. /\ UNCHANGED <<queue, running>> /\ answered /\ ~answered'
        /\ Calling = TRUE /\ Calling' = FALSE
    BY <1>12 DEF PressReturns, Calling
  <2> QED BY <1>2, <2>1, IsReturn
<1>13. CASE PressExpires
  <2>1. LetGo /\ ~answered /\ ~answered' /\ Calling = TRUE /\ Calling' = FALSE
    BY <1>13 DEF PressExpires, Calling
  <2> QED BY <2>1, LettingGoForgets, IsGiveUp DEF Flags
<1>14. CASE ExecNowait
  <2>1. Flags' = Append(Flags, FALSE)
    BY <1>14, <1>a, QueueingIsAppend DEF ExecNowait, Flags
  <2> QED BY <1>14, <2>1, IsPost DEF ExecNowait, Calling
<1>15. CASE Lost
  <2>1. LetGo /\ Calling' = FALSE /\ ~answered'
    BY <1>15 DEF Lost, Calling
  <2>2. CASE Calling /\ ~answered
    BY <2>1, <2>2, LettingGoForgets, IsGiveUp DEF Flags
  <2>3. CASE Calling /\ answered
    BY <2>1, <2>3, NoneToLetGo, IsReturn
  <2>4. CASE ~Calling
    <3>1. answered = FALSE /\ answered' = FALSE
      <4>1. ~answered /\ answered \in BOOLEAN
        BY <2>4 DEF AnsweredInv, Typed, TypeOK
      <4>2. answered' = FALSE
        BY <1>15 DEF Lost
      <4> QED BY <4>1, <4>2
    <3>2. Calling = FALSE /\ Calling' = FALSE
      BY <2>1, <2>4 DEF Calling
    <3> QED BY <2>1, <2>4, <3>1, <3>2, NoneToLetGo, IsStutter
  <2> QED BY <2>2, <2>3, <2>4
\* Searches, and the rest of the test
<1>16. CASE Wait \/ BeginMark \/ Search \/ LeaveBlock \/ SpeechClear \/ ResetSpeech \/ ResetMark
  <2>1. /\ UNCHANGED <<queue, running, answered>>
        /\ pc \notin {"idling", "acting"} /\ pc' \notin {"idling", "acting"}
    BY <1>16 DEF Wait, Look, LookAgain, NotHeard, SearchLost, SearchOver, BeginMark, Search,
         LeaveBlock, SpeechClear, ResetSpeech, ResetMark
  <2>2. Calling = FALSE /\ Calling' = FALSE
    BY <2>1 DEF Calling
  <2> QED BY <1>1, <1>2, <2>1, <2>2
<1>17. CASE Restart
  <2>1. Undone' = <<>> /\ Calling' = Calling /\ answered' = answered
    BY <1>17 DEF Restart, Undone, Calling
  <2>2. Flags' = <<>>
    BY <2>1 DEF Flags, FlagsOf
  <2> QED BY <2>1, <2>2, IsEnd
<1>18. CASE UNCHANGED vars
  BY <1>1, <1>2, <1>18 DEF vars, Calling
<1> QED BY <1>3, <1>4, <1>5, <1>6, <1>7, <1>8, <1>9, <1>10, <1>11, <1>12, <1>13, <1>14,
           <1>15, <1>16, <1>17, <1>18
        DEF Next, Nvda, Mark, Act, Test

(* For every bound: the marks and presses of a test are to NVDA's main     *)
(* thread the calls that MainThread shows run_on_main_thread to be.        *)
THEOREM TestImplementsJobQueue == Spec => ImplementsJobQueue
<1>1. Init => Bridge!Init /\ AnsweredInv
  <2> SUFFICES ASSUME Init PROVE Bridge!Init /\ AnsweredInv
    OBVIOUS
  <2>1. Undone = <<>> /\ pc \notin {"idling", "acting"} /\ ~answered
    BY DEF Init, Undone
  <2>2. [i \in DOMAIN Undone |-> Undone[i].awaited] = <<>>
    BY <2>1
  <2> QED BY <2>1, <2>2 DEF Bridge!Init, AnsweredInv
<1> QED BY <1>1, TypedInit, TypedStep, QueueInit, QueueStep, AnsweredStep, BridgeStep, PTL
        DEF Spec, ImplementsJobQueue, Bridge!MortalSpec
================================================================================
