---------------------------- MODULE NvdaTest_proofs -----------------------------
(***************************************************************************)
(* Theorems about NvdaTest, checked by TLAPS, for any number of tests and  *)
(* steps, any dialogs, add-ons, paths and baseline, and a main thread that *)
(* is behind by any number of jobs.                                        *)
(***************************************************************************)
EXTENDS NvdaTest, SequenceTheorems, FiniteSetTheorems, TLAPS

Fns == {"scenario", "noop", "set", "restore", "install", "state", "remove"}
Named == {<<a>> : a \in Addons}
Jobs == [fn : Fns, arg : {<<>>} \cup Named \cup Paths, awaited : BOOLEAN]

\* The calls, restarts and polls there are: where the test is in each of them.
Calls == {"before", "press", "set", "settle", "install", "remove", "enabled", "gone",
          "idle", "undoState", "undoRemove", "after"}
Restarts == {"fresh", "relaunch", "leak", "enabled", "gone", "undo"}

Placed ==
  \/ pc = "await" /\ doing \in Calls
  \/ pc = "restart" /\ doing \in Restarts
  \/ pc = "resume" /\ doing \in {"fresh", "enabled", "gone"}
  \/ pc = "poll" /\ doing \in {"close", "leak"}
  \/ pc \in {"idle", "body", "open", "finish", "leak", "undo", "after"} /\ doing = "none"

\* What the job of the call the test is in looks like.
Fits(job) ==
  /\ job.fn # "scenario"
  /\ doing \in {"before", "after"} => job.fn = "restore"
  /\ job.fn = "install" <=> doing = "install"
  /\ doing = "install" => job.arg = name
  /\ doing = "undoState" => job.fn = "state" /\ job.arg = <<Head(undoing)>>
  /\ doing = "undoRemove" => job.fn = "remove" /\ job.arg = <<Head(undoing)>>

\* Every job in the queue is one of the kit's, and the one whose answer the test
\* waits for is the last.
QueueOK ==
  /\ queue \in Seq(Jobs)
  /\ \A i \in DOMAIN queue :
       /\ queue[i].fn \in {"install", "state", "remove"} => queue[i].arg \in Named
       /\ queue[i].awaited => /\ i = Len(queue) /\ pc = "await" /\ answer = "none"
                              /\ Fits(queue[i])

NamesOK ==
  /\ name \in {<<>>} \cup Named
  /\ doing \in {"install", "remove", "enabled", "gone"} => name \in Named
  /\ installed \in Seq(Addons) /\ undoing \in Seq(Addons)
  /\ doing \in {"undoState", "undoRemove"} => undoing # <<>>
  /\ told \subseteq Addons /\ unattended \subseteq Addons

DesktopOK ==
  /\ alive \in BOOLEAN
  /\ shown \in Dialogs \cup {"none"}
  /\ foreground \in Windows /\ baseline \in Windows \cup {"unset"}
  /\ keys \in Nat /\ misled \in BOOLEAN /\ missed \in BOOLEAN

TestOK ==
  /\ answer \in AddonState \cup {"none", "ok", "failed"}
  /\ isOpen \in BOOLEAN /\ removed \in BOOLEAN
  /\ problems \in BOOLEAN /\ leaked \in BOOLEAN

Typed == QueueOK /\ NamesOK /\ DesktopOK /\ TestOK /\ store \in [Addons -> Entry] /\ Placed

\* A call that has its answer was the last in the queue.
AnswerInv == pc = "await" /\ answer # "none" => queue = <<>> /\ shown = "none"

CleanInv == doing \in {"before", "after"} /\ answer = "ok" => (alive => config = Baseline)

Freed == /\ shown = "none" /\ ~isOpen /\ problems
         /\ \A i \in DOMAIN queue : queue[i].fn # "scenario"

CleaningUp == pc = "leak" \/ doing \in {"leak", "idle"}
CleanedUp == pc \in {"undo", "after"} \/ doing \in {"undoState", "undoRemove", "undo", "after"}

LeakInv == /\ CleaningUp => leaked = isOpen
           /\ leaked /\ CleanedUp => Freed

\* Of the dialogs' windows, as long as nothing has misled the spy.
KeyInv ==
  ~misled =>
    /\ keys > 0 => keys = 1 /\ shown # "none" /\ foreground = shown
    /\ pc = "open" => shown = "none" /\ queue = <<>>
    /\ baseline # "unset" =>
         keys = 0 /\ foreground = (IF shown = "none" THEN baseline ELSE shown)
    /\ pc = "poll" => baseline = "unset"
    /\ pc = "poll" /\ alive =>
         keys = 0 /\ foreground = (IF shown = "none" THEN initial ELSE shown)

\* The dialogs there are or will be: no more than the keys on their way to one, and
\* the one dialog the test knows to be open.
Scenarios(q) == {i \in DOMAIN q : q[i].fn = "scenario"}
Owed == Cardinality(Scenarios(queue)) + (IF shown = "none" THEN 0 ELSE 1)

InBody == \/ pc \in {"body", "open"}
          \/ pc = "poll" /\ doing = "close"
          \/ doing \in Guarded \cup {"set", "relaunch"}

ClosedInv == pc = "open" \/ doing \in Guarded => ~isOpen
OwedInv == InBody /\ ~missed => Owed <= keys + 1 /\ (isOpen \/ Owed <= keys)

\* The add-ons the test has to answer for.
Owned == told \ unattended
Among(a, names) == \E i \in DOMAIN names : names[i] = a
Leaving(a) == store[a].now = "leaving" /\ store[a].next = "none"
Undoing == pc = "undo" \/ doing \in {"undoState", "undoRemove"}

NextInv == \A a \in Owned :
             \/ store[a].next = "none" \/ ~alive
             \/ pc = "restart" /\ doing = "enabled"
             \/ doing = "install" /\ answer = "ok" /\ name = <<a>>

ListInv == pc \notin {"after", "idle"} /\ doing \notin {"undo", "after"} =>
             \A a \in Owned : Among(a, installed)

UndoInv ==
  \A a \in Owned :
    /\ undoing # <<>> /\ a = Head(undoing) =>
         /\ doing = "undoState" /\ answer = "NOT_INSTALLED" => store[a] = Absent
         /\ doing = "undoRemove" /\ answer = "ok" => Leaving(a)
    /\ ~problems =>
         /\ Undoing => Among(a, undoing) \/ store[a] = Absent \/ (removed /\ Leaving(a))
         /\ doing = "undo" => store[a] = Absent \/ Leaving(a)
         /\ pc \in {"after", "idle"} \/ doing = "after" => store[a] = Absent
--------------------------------------------------------------------------------
(* Sequences of jobs and of names.                                         *)

LEMMA Appending ==
  ASSUME NEW S, NEW q \in Seq(S), NEW x \in S
  PROVE  /\ Append(q, x) \in Seq(S) /\ Len(q) \in Nat
         /\ DOMAIN q = 1..Len(q) /\ DOMAIN Append(q, x) = 1..(Len(q) + 1)
         /\ Len(Append(q, x)) = Len(q) + 1
         /\ \A i \in 1..Len(q) : Append(q, x)[i] = q[i]
         /\ Append(q, x)[Len(q) + 1] = x
  OBVIOUS

LEMMA Shifting ==
  ASSUME NEW S, NEW q \in Seq(S), q # <<>>
  PROVE  /\ Tail(q) \in Seq(S) /\ Head(q) \in S /\ Head(q) = q[1]
         /\ Len(q) \in Nat /\ Len(q) >= 1 /\ Len(Tail(q)) = Len(q) - 1
         /\ DOMAIN q = 1..Len(q) /\ DOMAIN Tail(q) = 1..(Len(q) - 1)
         /\ \A i \in 1..(Len(q) - 1) : Tail(q)[i] = q[i + 1]
  OBVIOUS

LEMMA Emptying ==
  ASSUME NEW S
  PROVE  <<>> \in Seq(S) /\ DOMAIN <<>> = {} /\ Len(<<>>) = 0
  OBVIOUS

\* A caller gives up: its job stays, and nobody waits for it.
LetGo(q) == [i \in DOMAIN q |-> [q[i] EXCEPT !.awaited = FALSE]]

LEMMA GivingUp ==
  ASSUME NEW q \in Seq(Jobs)
  PROVE  /\ LetGo(q) \in Seq(Jobs) /\ DOMAIN LetGo(q) = DOMAIN q
         /\ \A i \in DOMAIN q : /\ LetGo(q)[i].fn = q[i].fn /\ LetGo(q)[i].arg = q[i].arg
                                /\ LetGo(q)[i].awaited = FALSE
<1> DEFINE r == LetGo(q)
<1>1. ASSUME NEW j \in Jobs
      PROVE  LET g == [j EXCEPT !.awaited = FALSE]
             IN  g \in Jobs /\ g.fn = j.fn /\ g.arg = j.arg /\ g.awaited = FALSE
  BY DEF Jobs
<1>2. Len(q) \in Nat /\ DOMAIN q = 1..Len(q) /\ \A i \in DOMAIN q : q[i] \in Jobs
  OBVIOUS
<1>3. DOMAIN r = 1..Len(q) /\ \A i \in DOMAIN q : r[i] = [q[i] EXCEPT !.awaited = FALSE]
  BY <1>2 DEF LetGo
<1>4. r \in [1..Len(q) -> Jobs]
  <2>1. \A i \in 1..Len(q) : [q[i] EXCEPT !.awaited = FALSE] \in Jobs
    BY <1>1, <1>2
  <2> QED BY <1>2, <2>1 DEF LetGo
<1>5. r \in Seq(Jobs)
  BY <1>2, <1>4, SeqDef
<1>6. ASSUME NEW i \in DOMAIN q
      PROVE  r[i].fn = q[i].fn /\ r[i].arg = q[i].arg /\ r[i].awaited = FALSE
  <2>1. q[i] \in Jobs /\ r[i] = [q[i] EXCEPT !.awaited = FALSE]
    BY <1>2, <1>3
  <2> HIDE DEF r
  <2> QED BY <1>1, <2>1
<1> QED BY <1>2, <1>3, <1>5, <1>6
--------------------------------------------------------------------------------
(* The ways a step changes the queue.                                      *)

NoneAwaited == \A i \in DOMAIN queue : ~queue[i].awaited

LEMMA NobodyWaits ==
  ASSUME Typed, pc # "await" \/ answer # "none"
  PROVE  NoneAwaited
  BY DEF Typed, QueueOK, NoneAwaited

LEMMA Calling ==
  ASSUME Typed, pc # "await" \/ answer # "none",
         NEW what, NEW f \in Fns, NEW x \in {<<>>} \cup Named \cup Paths,
         Call(what, f, x),
         f \in {"install", "state", "remove"} => x \in Named,
         Fits(Job(f, x, TRUE))'
  PROVE  QueueOK'
<1> DEFINE j == Job(f, x, TRUE)
<1>1. j \in Jobs /\ j.fn = f /\ j.arg = x
  BY DEF Job, Jobs
<1>2. NoneAwaited
  BY NobodyWaits
<1>3. CASE UNCHANGED queue
  BY <1>2, <1>3 DEF Typed, QueueOK, NoneAwaited
<1>4. CASE queue' = Append(queue, j)
  <2>1. queue \in Seq(Jobs)
    BY DEF Typed, QueueOK
  <2> HIDE DEF j
  <2>2. /\ queue' \in Seq(Jobs) /\ Len(queue) \in Nat /\ Len(queue') = Len(queue) + 1
        /\ DOMAIN queue = 1..Len(queue) /\ DOMAIN queue' = 1..(Len(queue) + 1)
        /\ \A i \in 1..Len(queue) : queue'[i] = queue[i]
        /\ queue'[Len(queue) + 1] = j
    BY <1>1, <1>4, <2>1, Appending
  <2>3. pc' = "await" /\ answer' = "none" /\ Fits(j)'
    BY DEF Call, j
  <2>4. ASSUME NEW i \in DOMAIN queue'
        PROVE  /\ queue'[i].fn \in {"install", "state", "remove"} => queue'[i].arg \in Named
               /\ queue'[i].awaited => i = Len(queue') /\ Fits(queue[i])'
    <3>1. CASE i \in 1..Len(queue)
      BY <1>2, <2>2, <3>1 DEF NoneAwaited, Typed, QueueOK
    <3>2. CASE i = Len(queue) + 1
      BY <1>1, <2>2, <2>3, <3>2
    <3> QED BY <2>2, <3>1, <3>2
  <2> QED BY <2>2, <2>3, <2>4 DEF QueueOK
<1> QED BY <1>3, <1>4 DEF Call

LEMMA TakingAJob ==
  ASSUME Typed, NEW f, NEW v, RunJob(f, v)
  PROVE  /\ queue' \in Seq(Jobs) /\ Len(queue) \in Nat /\ Len(queue) >= 1
         /\ Len(queue') = Len(queue) - 1
         /\ DOMAIN queue = 1..Len(queue) /\ DOMAIN queue' = 1..(Len(queue) - 1)
         /\ \A i \in 1..(Len(queue) - 1) : queue'[i] = queue[i + 1]
         /\ Head(queue) = queue[1] /\ Head(queue) \in Jobs /\ Arg = queue[1].arg
         /\ queue[1].fn = f
         /\ queue[1].awaited => queue' = <<>> /\ answer' = v
         /\ ~queue[1].awaited => answer' = answer
         /\ QueueOK'
<1>1. queue \in Seq(Jobs) /\ queue # <<>> /\ queue' = Tail(queue)
  BY DEF Typed, QueueOK, RunJob
<1>2. /\ queue' \in Seq(Jobs) /\ Len(queue) \in Nat /\ Len(queue) >= 1
      /\ Len(queue') = Len(queue) - 1
      /\ DOMAIN queue = 1..Len(queue) /\ DOMAIN queue' = 1..(Len(queue) - 1)
      /\ \A i \in 1..(Len(queue) - 1) : queue'[i] = queue[i + 1]
      /\ Head(queue) = queue[1] /\ Head(queue) \in Jobs
  BY <1>1, Shifting
<1>3. /\ Head(queue).fn = f /\ UNCHANGED <<pc, doing, name, undoing>>
      /\ answer' = IF Head(queue).awaited THEN v ELSE answer
  BY DEF RunJob, dsl, local
<1>4. ASSUME queue[1].awaited PROVE queue' = <<>>
  <2>1. 1 \in DOMAIN queue
    BY <1>2
  <2>2. 1 = Len(queue)
    BY <1>4, <2>1 DEF Typed, QueueOK
  <2>3. Len(queue') = 0
    <3>1. Len(queue') = Len(queue) - 1
      BY <1>2
    <3> QED BY <2>2, <3>1
  <2> QED BY <1>2, <2>3, EmptySeq
<1>5. queue[1].awaited => queue' = <<>>
  BY <1>4
<1>6. QueueOK'
  <2>1. CASE queue[1].awaited
    BY <1>5, <2>1, Emptying DEF QueueOK
  <2>2. CASE ~queue[1].awaited
    <3>1. answer' = answer
      BY <1>2, <1>3, <2>2
    <3>2. ASSUME NEW i \in DOMAIN queue'
          PROVE  /\ queue'[i].fn \in {"install", "state", "remove"} =>
                       queue'[i].arg \in Named
                 /\ queue'[i].awaited => /\ i = Len(queue') /\ pc' = "await"
                                         /\ answer' = "none" /\ Fits(queue[i])'
      <4>1. i \in 1..(Len(queue) - 1) /\ queue'[i] = queue[i + 1] /\ i + 1 \in DOMAIN queue
        BY <1>2
      <4>2. /\ queue[i + 1].fn \in {"install", "state", "remove"} =>
                  queue[i + 1].arg \in Named
            /\ queue[i + 1].awaited => /\ i + 1 = Len(queue) /\ pc = "await"
                                       /\ answer = "none" /\ Fits(queue[i + 1])
        BY <4>1 DEF Typed, QueueOK
      <4> QED BY <1>2, <1>3, <3>1, <4>1, <4>2 DEF Fits
    <3> QED BY <1>2, <3>2 DEF QueueOK
  <2> QED BY <2>1, <2>2
<1>7. Arg = queue[1].arg /\ queue[1].fn = f
  BY <1>2, <1>3 DEF Arg
<1>8. (queue[1].awaited => answer' = v) /\ (~queue[1].awaited => answer' = answer)
  BY <1>2, <1>3
<1> QED BY <1>2, <1>5, <1>6, <1>7, <1>8

LEMMA LettingGo ==
  ASSUME Typed, NoAnswer
  PROVE  /\ pc = "await" /\ answer = "none" /\ answer' = "none"
         /\ DOMAIN queue' = DOMAIN queue
         /\ \A i \in DOMAIN queue : queue'[i].fn = queue[i].fn /\ queue'[i].arg = queue[i].arg
         /\ NoneAwaited'
         /\ QueueOK'
<1>1. queue \in Seq(Jobs)
  BY DEF Typed, QueueOK
<1>2. /\ pc = "await" /\ answer = "none" /\ answer' = answer
      /\ queue' = LetGo(queue)
  BY DEF NoAnswer, LetGo
<1>3. /\ queue' \in Seq(Jobs) /\ DOMAIN queue' = DOMAIN queue
      /\ \A i \in DOMAIN queue : /\ queue'[i].fn = queue[i].fn /\ queue'[i].arg = queue[i].arg
                                 /\ queue'[i].awaited = FALSE
  BY <1>1, <1>2, GivingUp
<1>4. \A i \in DOMAIN queue :
        queue[i].fn \in {"install", "state", "remove"} => queue[i].arg \in Named
  BY DEF Typed, QueueOK
<1>5. NoneAwaited'
  BY <1>3 DEF NoneAwaited
<1>6. QueueOK'
  BY <1>3, <1>4 DEF QueueOK
<1> QED BY <1>2, <1>3, <1>5, <1>6

\* A step that leaves the queue alone while nobody waits.
LEMMA GoingOn ==
  ASSUME Typed, pc # "await" \/ answer # "none", UNCHANGED queue
  PROVE  QueueOK' /\ NoneAwaited'
<1>1. NoneAwaited
  BY NobodyWaits
<1> QED BY <1>1 DEF NoneAwaited, Typed, QueueOK

\* A step that leaves the test's call alone too.
LEMMA Staying ==
  ASSUME Typed, UNCHANGED <<queue, pc, doing, answer, name, undoing>>
  PROVE  QueueOK'
  BY DEF Typed, QueueOK, Fits

LEMMA Emptied ==
  ASSUME queue' = <<>>
  PROVE  QueueOK' /\ NoneAwaited'
  BY Emptying DEF QueueOK, NoneAwaited

\* A call ends with an answer, or without one.
LEMMA Ending ==
  ASSUME Typed, NoAnswer \/ \E v \in AddonState \cup {"ok", "failed"} : Returned(v)
  PROVE  pc = "await" /\ answer' = "none" /\ QueueOK' /\ NoneAwaited'
<1>1. CASE NoAnswer
  BY <1>1, LettingGo
<1>2. CASE \E v \in AddonState \cup {"ok", "failed"} : Returned(v)
  <2>1. pc = "await" /\ answer # "none" /\ answer' = "none" /\ UNCHANGED queue
    BY <1>2 DEF Returned, AddonState
  <2> QED BY <2>1, GoingOn
<1> QED BY <1>1, <1>2

LEMMA QueueStep == Typed /\ [Next]_vars => QueueOK'
<1> SUFFICES ASSUME Typed, [Next]_vars PROVE QueueOK'
  OBVIOUS
<1>p. Placed /\ NamesOK /\ queue \in Seq(Jobs)
  BY DEF Typed, QueueOK
<1>1. CASE RunJobs
  <2>1. \E f, v : RunJob(f, v)
    BY <1>1 DEF RunJobs, RunScenario, RunNoop, RunSet, RunRestore, RunInstall, RunState,
                RunRemove
  <2> QED BY <2>1, TakingAJob
<1>2. CASE KeyArrives \/ Disturb \/ UNCHANGED vars
  <2>1. UNCHANGED <<queue, pc, doing, answer, name, undoing>>
    BY <1>2 DEF KeyArrives, KeyClosesDialog, KeyLeavesDialog, KeyGoesAstray, Disturb,
                FocusMoves, DialogEnds, OnItsOwn, vars, dsl, local
  <2> QED BY <2>1, Staying
<1>3. CASE FreshNvda \/ Relaunched \/ RestartToComplete \/ RestartForLeftover
           \/ RestartToUndo \/ Crash
  <2>1. queue' = <<>>
    BY <1>3 DEF FreshNvda, Relaunched, RestartToComplete, RestartForLeftover, RestartToUndo,
                Crash, Restarted, RestartFailed, Cleared
  <2> QED BY <2>1, Emptied
<1>4. CASE ResetBefore \/ StepEnds \/ Settled \/ SettleLost \/ Installed \/ NotInstalled
           \/ RemovalMarked \/ StateChecked \/ LeftoverGone \/ UndoneOne \/ TestOver
  <2>1. NoAnswer \/ \E v \in AddonState \cup {"ok", "failed"} : Returned(v)
    BY <1>4 DEF ResetBefore, StepEnds, Settled, SettleLost, Installed, NotInstalled,
                RemovalMarked, StateChecked, LeftoverGone, UndoneOne, TestOver, Failed,
                AddonState
  <2> QED BY <2>1, Ending
<1>5. CASE ScenarioQueued \/ ScenarioAnswerLost
  <2>1. Nowait(<<>>) /\ pc = "open"
    BY <1>5 DEF ScenarioQueued, ScenarioAnswerLost
  <2>2. NoneAwaited
    BY <2>1, NobodyWaits
  <2> DEFINE j == Job("scenario", <<>>, FALSE)
  <2>3. j \in Jobs /\ j.fn = "scenario" /\ j.awaited = FALSE /\ queue' = Append(queue, j)
    BY <2>1 DEF Job, Jobs, Fns, Nowait
  <2> HIDE DEF j
  <2>4. /\ queue' \in Seq(Jobs) /\ Len(queue) \in Nat
        /\ DOMAIN queue = 1..Len(queue) /\ DOMAIN queue' = 1..(Len(queue) + 1)
        /\ \A i \in 1..Len(queue) : queue'[i] = queue[i]
        /\ queue'[Len(queue) + 1] = j
    BY <1>p, <2>3, Appending
  <2>5. ASSUME NEW i \in DOMAIN queue'
        PROVE  /\ queue'[i].fn \in {"install", "state", "remove"} => queue'[i].arg \in Named
               /\ ~queue'[i].awaited
    <3>1. CASE i \in 1..Len(queue)
      BY <2>2, <2>4, <3>1 DEF NoneAwaited, Typed, QueueOK
    <3>2. CASE i = Len(queue) + 1
      BY <2>3, <2>4, <3>2
    <3> QED BY <2>4, <3>1, <3>2
  <2> QED BY <2>4, <2>5 DEF QueueOK
\* The steps that begin a call.
<1>6. ASSUME NEW what \in Calls, NEW f \in Fns, NEW x \in {<<>>} \cup Named \cup Paths,
             pc # "await" \/ answer # "none", Call(what, f, x),
             f \in {"install", "state", "remove"} => x \in Named,
             f # "scenario",
             what \in {"before", "after"} => f = "restore",
             f = "install" <=> what = "install",
             what = "install" => x = name',
             what = "undoState" => f = "state" /\ x = <<Head(undoing')>>,
             what = "undoRemove" => f = "remove" /\ x = <<Head(undoing')>>
      PROVE  QueueOK'
  <2>1. doing' = what
    BY <1>6 DEF Call
  <2>2. Fits(Job(f, x, TRUE))'
    BY <1>6, <2>1 DEF Fits, Job
  <2> QED BY <1>6, <2>2, Calling
<1> USE DEF Calls, Fns
<1>7. CASE StartTest
  BY <1>6, <1>7, GoingOn DEF StartTest
<1>8. CASE ResetFresh
  BY <1>6, <1>8 DEF ResetFresh
<1>9. CASE Press
  BY <1>6, <1>9 DEF Press, Step
<1>10. CASE \E p \in Paths : SetConfig(p)
  BY <1>6, <1>10 DEF SetConfig, Step
<1>11. CASE OpenDialog
  BY <1>6, <1>11 DEF OpenDialog, DialogStep
<1>12. CASE EscapeSent
  BY <1>6, <1>12 DEF EscapeSent, SendKey
<1>13. CASE PollExpires
  BY <1>6, <1>13, GoingOn DEF PollExpires
<1>14. CASE \E a \in Addons : InstallAddon(a)
  BY <1>6, <1>14 DEF InstallAddon, Step, Named
<1>15. CASE \E a \in Addons : RemoveAddon(a)
  BY <1>6, <1>15 DEF RemoveAddon, Step, Named
<1>16. CASE AskState
  <2>1. name \in Named
    BY <1>p, <1>16 DEF AskState, NamesOK
  <2> QED BY <1>6, <1>16, <2>1 DEF AskState
<1>17. CASE UndoNext
  <2>1. Head(undoing) \in Addons /\ undoing' = undoing
    BY <1>p, <1>17, Shifting DEF UndoNext, NamesOK, dsl
  <2> QED BY <1>6, <1>17, <2>1 DEF UndoNext, Named
<1>18. CASE UndoPresent
  <2>1. Head(undoing) \in Addons /\ undoing' = undoing
    BY <1>p, <1>18, Shifting DEF UndoPresent, NamesOK, dsl
  <2> QED BY <1>6, <1>18, <2>1 DEF UndoPresent, Named, AddonState
<1>19. CASE ResetAfter
  BY <1>6, <1>19 DEF ResetAfter
<1>20. CASE Relaunch \/ EndBody \/ ScenarioRefused \/ CloseDialog \/ CloseLost \/ CloseSent
            \/ PollFails \/ CheckLog \/ NothingLeaked \/ CloseLeftover
            \/ CloseLeftoverLost \/ UndoneAll
  <2>1. pc # "await" /\ UNCHANGED queue
    BY <1>20 DEF Relaunch, EndBody, ScenarioRefused, CloseDialog, CloseLost, CloseSent,
                 PollFails, CheckLog, NothingLeaked, CloseLeftover, CloseLeftoverLost,
                 UndoneAll, Step, DialogStep, StartPolling, SendKey
  <2> QED BY <2>1, GoingOn
<1> QED BY <1>1, <1>2, <1>3, <1>4, <1>5, <1>7, <1>8, <1>9, <1>10, <1>11, <1>12, <1>13,
           <1>14, <1>15, <1>16, <1>17, <1>18, <1>19, <1>20
        DEF Next, Test, Setup, Steps, DialogSteps, AddonSteps, Teardown
--------------------------------------------------------------------------------
(* Where the test is, and what its variables hold.                         *)

LEMMA PlacedStep == Placed /\ [Next]_vars => Placed'
<1> SUFFICES ASSUME Placed, [Next]_vars PROVE Placed'
  OBVIOUS
<1> USE DEF Placed, Calls, Restarts
<1>1. CASE RunJobs \/ KeyArrives \/ Disturb \/ Crash \/ UNCHANGED vars
  <2>1. UNCHANGED <<pc, doing>>
    BY <1>1 DEF RunJobs, RunScenario, RunNoop, RunSet, RunRestore, RunInstall, RunState,
                RunRemove, RunJob, KeyArrives, Disturb, Crash, OnItsOwn, vars
  <2> QED BY <2>1
<1>2. CASE Setup
  BY <1>2 DEF Setup, StartTest, FreshNvda, ResetFresh, ResetBefore, Call, Proceed, Restarted
<1>3. CASE Steps
  BY <1>3 DEF Steps, Press, SetConfig, StepEnds, Relaunch, Relaunched, EndBody, Call, Proceed,
              Raised
<1>4. CASE DialogSteps
  BY <1>4 DEF DialogSteps, OpenDialog, Settled, SettleLost, ScenarioQueued,
              ScenarioAnswerLost, ScenarioRefused, CloseDialog, CloseLost, CloseSent,
              EscapeSent, PollExpires, PollFails, StartPolling, Call, Proceed, Raised
<1>5. CASE AddonSteps
  BY <1>5 DEF AddonSteps, InstallAddon, RemoveAddon, Installed, NotInstalled, RemovalMarked,
              RestartToComplete, AskState, StateChecked, Call, Proceed, Raised
<1>6. CASE Teardown
  BY <1>6 DEF Teardown, CheckLog, NothingLeaked, CloseLeftover, CloseLeftoverLost,
              LeftoverGone, LeakReported, BeginUndo, StartPolling, RestartForLeftover,
              UndoNext, UndoPresent, UndoneOne, UndoneAll, RestartToUndo, ResetAfter,
              TestOver, Call, Proceed
<1> QED BY <1>1, <1>2, <1>3, <1>4, <1>5, <1>6 DEF Next, Test

LEMMA DesktopStep == Typed /\ [Next]_vars => DesktopOK'
<1> SUFFICES ASSUME Typed, [Next]_vars PROVE DesktopOK'
  OBVIOUS
<1>0. DesktopOK
  BY DEF Typed
<1> USE DEF DesktopOK, Windows, Standing
<1>1. CASE RunJobs
  <2>1. CASE RunScenario
    BY <1>0, <2>1 DEF RunScenario, RunJob, Show, desktop, beliefs
  <2>2. CASE RunNoop \/ RunSet \/ RunRestore \/ RunInstall \/ RunState \/ RunRemove
    <3>1. UNCHANGED <<alive, desktop, beliefs>>
      BY <2>2 DEF RunNoop, RunSet, RunRestore, RunInstall, RunState, RunRemove, RunJob
    <3> QED BY <1>0, <3>1 DEF desktop, beliefs
  <2> QED BY <1>1, <2>1, <2>2 DEF RunJobs
<1>2. CASE KeyArrives
  <2>1. CASE KeyClosesDialog
    BY <1>0, <2>1 DEF KeyClosesDialog, Gone
  <2>2. CASE KeyLeavesDialog \/ KeyGoesAstray
    <3>1. /\ keys > 0 /\ keys' = keys - 1 /\ missed' = TRUE
          /\ UNCHANGED <<alive, shown, foreground, baseline, misled>>
      BY <2>2 DEF KeyLeavesDialog, KeyGoesAstray, Missed
    <3>2. keys' \in Nat
      BY <1>0, <3>1
    <3> QED BY <1>0, <3>1, <3>2
  <2> QED BY <1>2, <2>1, <2>2 DEF KeyArrives
<1>13. CASE Disturb
  <2>1. CASE FocusMoves
    BY <1>0, <2>1 DEF FocusMoves, Misled
  <2>2. CASE DialogEnds
    BY <1>0, <2>2 DEF DialogEnds, Gone, Misled
  <2> QED BY <1>13, <2>1, <2>2 DEF Disturb
<1>3. CASE Restarted \/ RestartFailed \/ Crash
  <2>1. Cleared /\ UNCHANGED beliefs /\ alive' \in BOOLEAN
    BY <1>3 DEF Restarted, RestartFailed, Crash
  <2> QED BY <1>0, <2>1 DEF Cleared, beliefs
<1>4. CASE FreshNvda \/ Relaunched \/ RestartToComplete \/ RestartForLeftover
           \/ RestartToUndo
  <2>1. Restarted \/ RestartFailed
    BY <1>4 DEF FreshNvda, Relaunched, RestartToComplete, RestartForLeftover, RestartToUndo
  <2> QED BY <1>3, <2>1
<1>5. CASE StartTest
  BY <1>0, <1>5 DEF StartTest, desktop
<1>6. CASE Settled
  BY <1>0, <1>6 DEF Settled, Misled, desktop
<1>7. CASE ScenarioQueued \/ ScenarioAnswerLost
  BY <1>0, <1>7 DEF ScenarioQueued, ScenarioAnswerLost, Nowait, RememberBaseline, Missed,
                    beliefs
<1>8. CASE CloseDialog \/ CloseLeftover
  BY <1>0, <1>8 DEF CloseDialog, CloseLeftover, StartPolling
<1>9. CASE CloseSent \/ EscapeSent \/ PollFails
  BY <1>0, <1>9 DEF CloseSent, EscapeSent, PollFails, SendKey, beliefs
<1>10. CASE ResetBefore
  BY <1>0, <1>10 DEF ResetBefore, desktop, beliefs
<1>11. CASE UNCHANGED <<alive, desktop, beliefs>>
  BY <1>0, <1>11 DEF desktop, beliefs
<1>12. ResetFresh \/ Steps \/ AddonSteps \/ Teardown \/ UNCHANGED vars \/ OpenDialog
       \/ SettleLost \/ ScenarioRefused \/ CloseLost \/ PollExpires =>
         \/ UNCHANGED <<alive, desktop, beliefs>>
         \/ Relaunched \/ RestartToComplete \/ RestartForLeftover \/ RestartToUndo
         \/ CloseLeftover
  BY DEF ResetFresh, Steps, Press, SetConfig, StepEnds, Relaunch, EndBody, AddonSteps,
         InstallAddon, RemoveAddon, Installed, NotInstalled, RemovalMarked, AskState,
         StateChecked, Teardown, CheckLog, NothingLeaked, CloseLeftoverLost, LeftoverGone,
         LeakReported, UndoNext, UndoPresent, UndoneOne, UndoneAll, ResetAfter, TestOver,
         OpenDialog, SettleLost, ScenarioRefused, CloseLost, PollExpires, nvda, vars
<1> QED BY <1>1, <1>2, <1>3, <1>4, <1>5, <1>6, <1>7, <1>8, <1>9, <1>10, <1>11, <1>12, <1>13
        DEF Next, Test, Setup, DialogSteps

LEMMA NamesStep == Typed /\ [Next]_vars => NamesOK'
<1> SUFFICES ASSUME Typed, [Next]_vars PROVE NamesOK'
  OBVIOUS
<1>0. NamesOK /\ Placed
  BY DEF Typed
<1> USE DEF NamesOK, Placed, Calls, Restarts
<1>1. CASE RunJobs \/ KeyArrives \/ Disturb \/ Crash \/ UNCHANGED vars
  <2>1. /\ UNCHANGED <<doing, name, installed, undoing, told>>
        /\ unattended \subseteq Addons => unattended' \subseteq Addons
    BY <1>1 DEF RunJobs, RunScenario, RunNoop, RunSet, RunRestore, RunInstall, RunState,
                RunRemove, RunJob, KeyArrives, Disturb, Crash, OnItsOwn, dsl, local, ghosts,
                vars
  <2> QED BY <1>0, <2>1
<1>2. CASE Setup
  BY <1>0, <1>2, Emptying DEF Setup, StartTest, FreshNvda, ResetFresh, ResetBefore, Call,
                              Proceed, dsl, local, ghosts
<1>3. CASE Steps
  BY <1>0, <1>3 DEF Steps, Press, SetConfig, StepEnds, Relaunch, Relaunched, EndBody, Call,
                    Step, Proceed, Raised, dsl, local, ghosts
<1>4. CASE DialogSteps
  BY <1>0, <1>4 DEF DialogSteps, OpenDialog, Settled, SettleLost, ScenarioQueued,
                    ScenarioAnswerLost, ScenarioRefused, CloseDialog, CloseLost, CloseSent,
                    EscapeSent, PollExpires, PollFails, SendKey, StartPolling, Call,
                    DialogStep, Proceed, Raised, dsl, local, ghosts
<1>5. CASE \E a \in Addons : InstallAddon(a) \/ RemoveAddon(a)
  BY <1>0, <1>5 DEF InstallAddon, RemoveAddon, Named, Step, Call, dsl
<1>6. CASE Installed \/ NotInstalled
  <2>1. name \in Named /\ name[1] \in Addons /\ name \in Seq(Addons)
    <3>1. name \in Named
      BY <1>0, <1>6 DEF Installed, NotInstalled
    <3>2. PICK a \in Addons : name = <<a>>
      BY <3>1 DEF Named
    <3> QED BY <3>1, <3>2
  <2>2. installed \o name \in Seq(Addons)
    BY <1>0, <2>1
  <2> QED BY <1>0, <1>6, <2>1, <2>2
          DEF Installed, NotInstalled, Raised, Proceed, dsl, local, ghosts
<1>7. CASE RemovalMarked \/ RestartToComplete \/ AskState \/ StateChecked
  BY <1>0, <1>7 DEF RemovalMarked, RestartToComplete, AskState, StateChecked, Call, Proceed,
                    Raised, dsl, local, ghosts
<1>8. CASE CheckLog \/ NothingLeaked \/ CloseLeftover \/ CloseLeftoverLost \/ LeftoverGone
           \/ RestartForLeftover
  BY <1>0, <1>8 DEF CheckLog, NothingLeaked, CloseLeftover, CloseLeftoverLost, LeftoverGone,
                    RestartForLeftover, LeakReported, BeginUndo, StartPolling, Proceed,
                    dsl, local, ghosts
<1>9. CASE UndoNext \/ UndoPresent
  BY <1>0, <1>9 DEF UndoNext, UndoPresent, Call, dsl, local, ghosts
<1>10. CASE UndoneOne
  <2>1. undoing # <<>>
    BY <1>0, <1>10 DEF UndoneOne
  <2>2. Tail(undoing) \in Seq(Addons)
    BY <1>0, <2>1, Shifting
  <2> QED BY <1>0, <1>10, <2>2 DEF UndoneOne, Proceed, local, ghosts
<1>11. CASE UndoneAll \/ RestartToUndo \/ ResetAfter \/ TestOver
  BY <1>0, <1>11, Emptying DEF UndoneAll, RestartToUndo, ResetAfter, TestOver, Call, Proceed,
                               dsl, local, ghosts
<1> QED BY <1>1, <1>2, <1>3, <1>4, <1>5, <1>6, <1>7, <1>8, <1>9, <1>10, <1>11
        DEF Next, Test, AddonSteps, Teardown

LEMMA StateKinds == \A e : StateOf(e) \in AddonState
  BY DEF StateOf, AddonState

LEMMA TestStep == Typed /\ [Next]_vars => TestOK'
<1> SUFFICES ASSUME Typed, [Next]_vars PROVE TestOK'
  OBVIOUS
<1>0. TestOK
  BY DEF Typed
<1> DEFINE FlagsOK == /\ isOpen \in BOOLEAN /\ removed \in BOOLEAN
                      /\ problems \in BOOLEAN /\ leaked \in BOOLEAN
<1>f. FlagsOK
  BY <1>0 DEF TestOK
<1>1. CASE RunJobs
  <2>1. \E f : \E v \in AddonState \cup {"ok", "failed"} : RunJob(f, v)
    <3>1. RunState => RunJob("state", StateOf(store[Arg[1]]))
      BY DEF RunState
    <3>2. CASE ~RunState
      BY <1>1, <3>2 DEF RunJobs, RunScenario, RunNoop, RunSet, RunRestore, RunInstall,
                        RunRemove
    <3> QED BY <3>1, <3>2, StateKinds
  <2>2. answer' \in AddonState \cup {"none", "ok", "failed"}
    BY <1>0, <2>1, Zenon DEF RunJob, TestOK
  <2>3. UNCHANGED <<isOpen, removed, problems, leaked>>
    BY <2>1 DEF RunJob, dsl, ghosts
  <2> QED BY <1>0, <2>2, <2>3 DEF TestOK
<1>2. CASE KeyArrives \/ Disturb \/ Crash \/ UNCHANGED vars
  <2>1. UNCHANGED <<answer, isOpen, removed, problems, leaked>>
    BY <1>2 DEF KeyArrives, Disturb, Crash, OnItsOwn, dsl, ghosts, vars
  <2> QED BY <1>0, <2>1 DEF TestOK
\* The answer of the test's own steps.
<1>3. answer' = answer \/ answer' = "none" \/ RunJobs
  BY DEF Next, Test, KeyArrives, Disturb, Crash, OnItsOwn, vars, Setup, StartTest, FreshNvda,
         ResetFresh, ResetBefore, Call, Restarted, RestartFailed, Returned, NoAnswer, Failed,
         Steps, Press, SetConfig, StepEnds, Relaunch, Relaunched, EndBody,
         DialogSteps, OpenDialog, Settled, SettleLost, ScenarioQueued, ScenarioAnswerLost,
         ScenarioRefused, CloseDialog, CloseLost, CloseSent, EscapeSent, PollExpires,
         PollFails, StartPolling, AddonSteps, InstallAddon, RemoveAddon, Installed,
         NotInstalled, RemovalMarked, RestartToComplete, AskState, StateChecked,
         Teardown, CheckLog, NothingLeaked, CloseLeftover, CloseLeftoverLost, LeftoverGone,
         RestartForLeftover, UndoNext, UndoPresent, UndoneOne, UndoneAll, RestartToUndo,
         ResetAfter, TestOver
<1>9. ASSUME FlagsOK', ~RunJobs PROVE TestOK'
  BY <1>0, <1>3, <1>9 DEF TestOK
<1>4. Setup => FlagsOK'
  BY <1>f DEF Setup, StartTest, FreshNvda, ResetFresh, ResetBefore, dsl, ghosts
<1>5. Steps => FlagsOK'
  BY <1>f DEF Steps, Press, SetConfig, StepEnds, Relaunch, Relaunched, EndBody,
                          Step, dsl, ghosts
<1>6. DialogSteps => FlagsOK'
  BY <1>f DEF DialogSteps, OpenDialog, Settled, SettleLost, ScenarioQueued,
         ScenarioAnswerLost, ScenarioRefused, CloseDialog, CloseLost, CloseSent, EscapeSent,
         PollExpires, PollFails, StartPolling, SendKey, DialogStep, dsl, ghosts
<1>7. AddonSteps => FlagsOK'
  BY <1>f DEF AddonSteps, InstallAddon, RemoveAddon, Installed, NotInstalled,
         RemovalMarked, RestartToComplete, AskState, StateChecked, Step, dsl, ghosts
<1>8. Teardown => FlagsOK'
  BY <1>f DEF Teardown, CheckLog, NothingLeaked, CloseLeftover,
         CloseLeftoverLost, LeftoverGone, RestartForLeftover, LeakReported, BeginUndo,
         UndoNext, UndoPresent, UndoneOne, UndoneAll, RestartToUndo, ResetAfter, TestOver,
         StartPolling, dsl, ghosts
<1> QED BY <1>1, <1>2, <1>4, <1>5, <1>6, <1>7, <1>8, <1>9 DEF Next, Test

LEMMA Entries ==
  /\ Absent \in Entry /\ Running \in Entry
  /\ \A e \in Entry : /\ Unpack(e) \in Entry /\ RequestRemove(e) \in Entry
                      /\ Completed(e) \subseteq Entry
  BY DEF Entry, Absent, Running, Unpack, RequestRemove, Completed

\* Only NVDA's jobs and its starts change the store.
LEMMA StoreMoves ==
  ASSUME [Next]_vars
  PROVE  UNCHANGED store \/ RunInstall \/ RunRemove \/ Restarted
  BY DEF Next, Test, RunJobs, RunScenario, RunNoop, RunSet, RunRestore, RunState, KeyArrives,
         Disturb, Crash, OnItsOwn, vars, nvda, Setup, StartTest, FreshNvda,
         ResetFresh, ResetBefore, RestartFailed, Steps, Press, SetConfig, StepEnds, Relaunch,
         Relaunched, EndBody,
         DialogSteps, OpenDialog, Settled, SettleLost, ScenarioQueued, ScenarioAnswerLost,
         ScenarioRefused, CloseDialog, CloseLost, CloseSent, EscapeSent, PollExpires,
         PollFails, StartPolling, SendKey, AddonSteps, InstallAddon, RemoveAddon, Installed,
         NotInstalled, RemovalMarked, RestartToComplete, AskState, StateChecked,
         Teardown, CheckLog, NothingLeaked, CloseLeftover, CloseLeftoverLost, LeftoverGone,
         RestartForLeftover, UndoNext, UndoPresent, UndoneOne, UndoneAll, RestartToUndo,
         ResetAfter, TestOver

LEMMA StoreStep ==
  store \in [Addons -> Entry] /\ [Next]_vars => store' \in [Addons -> Entry]
<1> SUFFICES ASSUME store \in [Addons -> Entry], [Next]_vars
             PROVE  store' \in [Addons -> Entry]
  OBVIOUS
<1>1. CASE RunInstall
  BY <1>1, Entries DEF RunInstall
<1>2. CASE RunRemove
  BY <1>2, Entries DEF RunRemove
<1>3. CASE Restarted
  BY <1>3 DEF Restarted
<1> QED BY <1>1, <1>2, <1>3, StoreMoves

LEMMA TypedInit == Init => Typed
<1> SUFFICES ASSUME Init PROVE Typed
  OBVIOUS
<1>1. QueueOK
  BY Emptying DEF Init, QueueOK
<1>2. store \in [Addons -> Entry]
  <2>1. {Absent, Running} \subseteq Entry
    BY Entries
  <2>2. store \in [Addons -> {Absent, Running}]
    BY DEF Init
  <2> QED BY <2>1, <2>2
<1>3. NamesOK
  BY Emptying DEF Init, NamesOK
<1>4. DesktopOK
  BY DEF Init, DesktopOK, Windows, Standing
<1>5. TestOK /\ Placed
  BY DEF Init, TestOK, Placed
<1> QED BY <1>1, <1>2, <1>3, <1>4, <1>5 DEF Typed

LEMMA TypedStep == Typed /\ [Next]_vars => Typed'
<1>1. Typed => store \in [Addons -> Entry] /\ Placed
  BY DEF Typed
<1> QED BY <1>1, QueueStep, NamesStep, DesktopStep, TestStep, StoreStep, PlacedStep DEF Typed

LEMMA TypedAlways == Spec => []Typed
  BY TypedInit, TypedStep, PTL DEF Spec

(* Types, and the discipline of the queue: of the kit's jobs in it at most *)
(* one has a caller that still waits, the one queued last.                 *)
THEOREM TestIsTyped == Spec => []TypeOK
<1>1. Typed => TypeOK
  <2> SUFFICES ASSUME Typed PROVE TypeOK
    OBVIOUS
  <2>1. ASSUME NEW i \in DOMAIN queue
        PROVE  /\ queue[i].fn \in Fns
               /\ queue[i].awaited => i = Len(queue) /\ pc = "await" /\ answer = "none"
    <3>1. queue[i] \in Jobs
      BY <2>1 DEF Typed, QueueOK
    <3> QED BY <2>1, <3>1 DEF Typed, QueueOK, Jobs
  <2>2. pc \in {"idle", "restart", "await", "resume", "body", "open", "poll", "finish",
                "leak", "undo", "after"} /\ doing \in Doing
    BY DEF Typed, Placed, Calls, Restarts, Doing, Guarded
  <2> QED BY <2>1, <2>2 DEF Typed, TypeOK, DesktopOK, TestOK, Fns
<1> QED BY <1>1, TypedAlways, PTL
--------------------------------------------------------------------------------
(* The start of a test.                                                    *)

\* The test's own steps leave no answer behind, except where none is read.
LEMMA AnswersAreUsed ==
  ASSUME Test
  PROVE  answer' = "none" \/ (pc' # "await" /\ doing' \notin {"before", "after", "idle",
                                                            "undoState", "undoRemove"})
  BY DEF Test, Setup, StartTest, FreshNvda,
         ResetFresh, ResetBefore, Call, Restarted, RestartFailed, Returned, NoAnswer, Failed,
         Steps, Press, SetConfig, StepEnds, Relaunch, Relaunched, EndBody,
         DialogSteps, OpenDialog, Settled, SettleLost, ScenarioQueued, ScenarioAnswerLost,
         ScenarioRefused, CloseDialog, CloseLost, CloseSent, EscapeSent, PollExpires,
         PollFails, StartPolling, AddonSteps, InstallAddon, RemoveAddon, Installed,
         NotInstalled, RemovalMarked, RestartToComplete, AskState, StateChecked,
         Teardown, CheckLog, NothingLeaked, CloseLeftover, CloseLeftoverLost, LeftoverGone,
         LeakReported, BeginUndo, RestartForLeftover, UndoNext, UndoPresent, UndoneOne,
         UndoneAll, RestartToUndo, ResetAfter, TestOver, Proceed, Raised

\* What happens outside of the test and of NVDA's queue.
LEMMA OutsideSteps ==
  ASSUME KeyArrives \/ Disturb \/ UNCHANGED vars
  PROVE  /\ UNCHANGED <<alive, queue, store, config, pc, doing, answer, name, initial,
                        isOpen, installed, undoing, removed, problems, leaked, told,
                        unattended>>
         /\ shown' \in {shown, "none"}
  BY DEF KeyArrives, KeyClosesDialog, KeyLeavesDialog, KeyGoesAstray, Gone, Disturb,
         FocusMoves, DialogEnds, OnItsOwn, vars, dsl, local, ghosts, nvda, desktop, tally

\* A job's run changes nothing of the test's but its answer.
LEMMA JobSteps ==
  ASSUME RunJobs
  PROVE  /\ UNCHANGED <<alive, pc, doing, name, initial, isOpen, installed, undoing, removed,
                        problems, leaked, told, misled, missed>>
         /\ unattended \subseteq unattended'
         /\ alive /\ shown = "none" /\ queue # <<>>
         /\ ~RunScenario => UNCHANGED desktop
  BY DEF RunJobs, RunScenario, RunNoop, RunSet, RunRestore, RunInstall, RunState, RunRemove,
         RunJob, beliefs, dsl, local, ghosts

LEMMA RunsAJob == RunJobs => \E f, v : RunJob(f, v)
  BY DEF RunJobs, RunScenario, RunNoop, RunSet, RunRestore, RunInstall, RunState, RunRemove

LEMMA AnswerStep == Typed /\ AnswerInv /\ [Next]_vars => AnswerInv'
<1> SUFFICES ASSUME Typed, AnswerInv, [Next]_vars, pc' = "await", answer' # "none"
             PROVE  queue' = <<>> /\ shown' = "none"
  BY DEF AnswerInv
<1>1. CASE RunJobs
  <2>1. PICK f, v : RunJob(f, v)
    BY <1>1, RunsAJob
  <2>2. pc = "await" /\ queue # <<>> /\ shown = "none" /\ 1 \in DOMAIN queue
    BY <1>1, <2>1, JobSteps, TakingAJob
  <2>3. answer = "none"
    BY <2>2 DEF AnswerInv
  <2>4. queue[1].awaited /\ queue' = <<>>
    BY <2>1, <2>3, TakingAJob
  <2>5. queue[1].fn # "scenario"
    BY <2>2, <2>4 DEF Typed, QueueOK, Fits
  <2>6. ~RunScenario
    BY <2>5, TakingAJob DEF RunScenario
  <2> QED BY <1>1, <2>2, <2>4, <2>6, JobSteps DEF desktop
<1>2. CASE KeyArrives \/ Disturb \/ UNCHANGED vars
  BY <1>2, OutsideSteps DEF AnswerInv
<1>3. CASE Crash
  BY <1>3 DEF Crash, Cleared
<1>4. ~Test
  BY AnswersAreUsed
<1> QED BY <1>1, <1>2, <1>3, <1>4 DEF Next

\* A restore that gets to its end leaves what it was given.
LEMMA RestoreRestores ==
  ASSUME NEW tree, NEW snapshot, snapshot = [p \in DOMAIN snapshot |-> snapshot[p]]
  PROVE  Restore(tree, snapshot) = snapshot
<1> DEFINE done == TopKeys(tree) \cup TopKeys(snapshot)
           old == {p \in DOMAIN tree : Head(p) \in TopKeys(tree) \ done}
           new == {p \in DOMAIN snapshot : Head(p) \in done}
<1>1. old = {}
  OBVIOUS
<1>2. new = DOMAIN snapshot
  BY DEF TopKeys
<1>3. Restore(tree, snapshot)
        = [p \in old \cup new |-> IF p \in new THEN snapshot[p] ELSE tree[p]]
  BY DEF Restore, RestoreKeys
<1>4. @ = [p \in DOMAIN snapshot |-> snapshot[p]]
  BY <1>1, <1>2
<1> QED BY <1>3, <1>4

LEMMA CleanStep == Typed /\ AnswerInv /\ CleanInv /\ [Next]_vars => CleanInv'
<1> SUFFICES ASSUME Typed, AnswerInv, CleanInv, [Next]_vars,
                    doing' \in {"before", "after"}, answer' = "ok", alive'
             PROVE  config' = Baseline
  BY DEF CleanInv
<1>1. CASE RunJobs
  <2>1. PICK f, v : RunJob(f, v)
    BY <1>1, RunsAJob
  <2>2. doing \in {"before", "after"} /\ queue # <<>> /\ 1 \in DOMAIN queue
    BY <1>1, <2>1, JobSteps, TakingAJob
  <2>3. pc = "await"
    BY <2>2 DEF Typed, Placed, Restarts
  <2>4. answer = "none"
    BY <2>2, <2>3 DEF AnswerInv
  <2>5. queue[1].awaited
    BY <2>1, <2>4, TakingAJob
  <2>6. queue[1].fn = "restore"
    BY <2>2, <2>5 DEF Typed, QueueOK, Fits
  <2>7. RunRestore
    BY <1>1, <2>6, TakingAJob
       DEF RunJobs, RunScenario, RunNoop, RunSet, RunInstall, RunState, RunRemove
  <2>8. ~RunJob("restore", "failed")
    BY <2>5, TakingAJob
  <2>9. config' = Restore(config, Baseline)
    BY <2>7, <2>8 DEF RunRestore
  <2> QED BY <2>9, RestoreRestores, NvdaTestAssumption
<1>2. CASE KeyArrives \/ Disturb \/ UNCHANGED vars
  BY <1>2, OutsideSteps DEF CleanInv
<1>3. ~Crash
  BY DEF Crash
<1>4. ~Test
  BY AnswersAreUsed
<1> QED BY <1>1, <1>2, <1>3, <1>4 DEF Next

LEMMA CleanAlways == Spec => [](AnswerInv /\ CleanInv)
<1>1. Init => AnswerInv /\ CleanInv
  BY DEF Init, AnswerInv, CleanInv
<1> QED BY <1>1, TypedInit, TypedStep, AnswerStep, CleanStep, PTL DEF Spec

(* However the calls and the teardowns of the tests before it ended, a     *)
(* reset that works leaves no dialog, no waiting job and the baseline's    *)
(* configuration, before a test function as after one.                     *)
THEOREM TestsStartClean == Spec => CleanStart
<1>1. Typed /\ AnswerInv /\ CleanInv /\ doing \in {"before", "after"} /\ answer = "ok" =>
        /\ shown = "none" /\ queue = <<>>
        /\ alive => config = Baseline
  <2> SUFFICES ASSUME Typed, AnswerInv, CleanInv, doing \in {"before", "after"}, answer = "ok"
               PROVE  /\ shown = "none" /\ queue = <<>>
                      /\ alive => config = Baseline
    OBVIOUS
  <2>1. pc = "await"
    BY DEF Typed, Placed, Restarts
  <2> QED BY <2>1 DEF AnswerInv, CleanInv
<1>2. Typed /\ [Next]_vars /\ doing = "before" /\ pc' = "body" => answer = "ok"
  <2> SUFFICES ASSUME Typed, [Next]_vars, doing = "before", pc' = "body"
               PROVE  answer = "ok"
    OBVIOUS
  <2>1. pc = "await"
    BY DEF Typed, Placed, Restarts
  <2>2. ~(RunJobs \/ KeyArrives \/ Disturb \/ Crash \/ UNCHANGED vars)
    BY <2>1, JobSteps, OutsideSteps DEF Crash, OnItsOwn
  <2>3. Test
    BY <2>2 DEF Next
  <2>4. ResetBefore
    BY <2>1, <2>3 DEF Test, Setup, StartTest, FreshNvda, ResetFresh,
         Steps, Press, SetConfig, StepEnds, Relaunch, Relaunched, EndBody, Step,
         DialogSteps, DialogStep, OpenDialog, Settled, SettleLost, ScenarioQueued,
         ScenarioAnswerLost, ScenarioRefused, CloseDialog, CloseLost, CloseSent, EscapeSent,
         SendKey, PollExpires, PollFails, AddonSteps, InstallAddon, RemoveAddon, Installed,
         NotInstalled, RemovalMarked, RestartToComplete, AskState, StateChecked,
         Teardown, CheckLog, NothingLeaked, CloseLeftover, CloseLeftoverLost, LeftoverGone,
         RestartForLeftover, UndoNext, UndoPresent, UndoneOne, UndoneAll, RestartToUndo,
         ResetAfter, TestOver
  <2> QED BY <2>4 DEF ResetBefore, Proceed, Returned
<1>3. Typed /\ AnswerInv /\ CleanInv /\ [Next]_vars =>
        [(doing = "before" /\ pc' = "body")
           \/ (doing = "after" /\ answer = "ok" /\ pc' = "idle") =>
           /\ shown = "none" /\ queue = <<>>
           /\ alive => config = Baseline]_vars
  BY <1>1, <1>2
<1> QED BY <1>3, TypedAlways, CleanAlways, PTL DEF Spec, CleanStart
--------------------------------------------------------------------------------
(* The dialog a test leaves open.                                          *)

\* The steps of the teardown before the dialog is dealt with.
LEMMA CleaningSteps ==
  ASSUME Test, CleaningUp'
  PROVE  \/ CheckLog /\ UNCHANGED isOpen
         \/ CleaningUp /\ UNCHANGED <<leaked, isOpen>>
  BY ZenonT(30) DEF CleaningUp, Test, Setup, StartTest, FreshNvda, ResetFresh, ResetBefore,
         Steps, Press, SetConfig, StepEnds, Relaunch, Relaunched, EndBody, Step,
         DialogSteps, DialogStep, OpenDialog, Settled, SettleLost, ScenarioQueued,
         ScenarioAnswerLost, ScenarioRefused, CloseDialog, CloseLost, CloseSent, EscapeSent,
         StartPolling, SendKey, PollExpires, PollFails, AddonSteps, InstallAddon,
         RemoveAddon, Installed, NotInstalled, RemovalMarked, RestartToComplete, AskState,
         StateChecked, Teardown, CheckLog, NothingLeaked, CloseLeftover, CloseLeftoverLost,
         LeftoverGone, LeakReported, BeginUndo, RestartForLeftover, UndoNext, UndoPresent,
         UndoneOne, UndoneAll, RestartToUndo, ResetAfter, TestOver, Call, Proceed, Raised,
         dsl, ghosts, Restarted

\* The steps that end it, and those after it.
LEMMA CleanedSteps ==
  ASSUME Test, CleanedUp', leaked'
  PROVE  \/ NothingLeaked \/ RestartForLeftover
         \/ LeftoverGone /\ Returned("ok") /\ LeakReported
         \/ CleanedUp /\ leaked /\ UNCHANGED isOpen
            /\ (UndoNext \/ UndoPresent \/ UndoneOne \/ UndoneAll \/ RestartToUndo \/ ResetAfter)
<1>1. CASE Setup
  BY <1>1 DEF CleanedUp, Setup, StartTest, FreshNvda, ResetFresh, ResetBefore, Call, Proceed,
              Restarted
<1>2. CASE Steps
  BY <1>2 DEF CleanedUp, Steps, Press, SetConfig, StepEnds, Relaunch, Relaunched, EndBody,
              Call, Proceed, Raised
<1>3. CASE DialogSteps
  BY <1>3 DEF CleanedUp, DialogSteps, OpenDialog, Settled, SettleLost, ScenarioQueued,
              ScenarioAnswerLost, ScenarioRefused, CloseDialog, CloseLost, CloseSent,
              EscapeSent, StartPolling, PollExpires, PollFails, Call, Proceed, Raised
<1>4. CASE AddonSteps
  BY <1>4 DEF CleanedUp, AddonSteps, InstallAddon, RemoveAddon, Installed, NotInstalled,
              RemovalMarked, RestartToComplete, AskState, StateChecked, Call, Proceed,
              Raised, Restarted
<1>5. CASE CheckLog \/ CloseLeftover \/ CloseLeftoverLost \/ TestOver
  BY <1>5 DEF CleanedUp, CheckLog, CloseLeftover, CloseLeftoverLost, TestOver, StartPolling,
              Proceed
<1>6. CASE LeftoverGone
  BY <1>6 DEF CleanedUp, LeftoverGone
<1>7. CASE UndoNext \/ UndoPresent \/ UndoneOne \/ UndoneAll \/ RestartToUndo \/ ResetAfter
  <2>1. CleanedUp
    BY <1>7 DEF CleanedUp, UndoNext, UndoPresent, UndoneOne, UndoneAll, RestartToUndo,
                ResetAfter
  <2>2. UNCHANGED <<leaked, isOpen>>
    BY <1>7 DEF UndoNext, UndoPresent, UndoneOne, UndoneAll, RestartToUndo, ResetAfter, dsl,
                ghosts
  <2> QED BY <1>7, <2>1, <2>2
<1>8. CASE NothingLeaked \/ RestartForLeftover
  BY <1>8
<1> QED BY <1>1, <1>2, <1>3, <1>4, <1>5, <1>6, <1>7, <1>8, Zenon DEF Test, Teardown

NoScenario == \A i \in DOMAIN queue : queue[i].fn # "scenario"

LEMMA CallingKeeps ==
  ASSUME Typed, NEW what, NEW f, NEW x, Call(what, f, x), f # "scenario", NoScenario
  PROVE  NoScenario'
<1>1. CASE UNCHANGED queue
  BY <1>1 DEF NoScenario
<1>2. CASE queue' = Append(queue, Job(f, x, TRUE))
  <2>1. queue \in Seq(Jobs)
    BY DEF Typed, QueueOK
  <2> DEFINE j == Job(f, x, TRUE)
  <2>2. j.fn = f
    BY DEF Job
  <2> HIDE DEF j
  <2>3. queue \in Seq(Jobs \cup {j}) /\ j \in Jobs \cup {j}
    BY <2>1
  <2>4. queue' = Append(queue, j)
    BY <1>2 DEF j
  <2>5. /\ DOMAIN queue = 1..Len(queue) /\ DOMAIN queue' = 1..(Len(queue) + 1)
        /\ Len(queue) \in Nat
        /\ \A i \in 1..Len(queue) : queue'[i] = queue[i]
        /\ queue'[Len(queue) + 1] = j
    BY <2>3, <2>4, Appending
  <2>6. ASSUME NEW i \in DOMAIN queue' PROVE queue'[i].fn # "scenario"
    <3>1. CASE i \in 1..Len(queue)
      BY <2>5, <3>1 DEF NoScenario
    <3>2. CASE i = Len(queue) + 1
      BY <2>2, <2>5, <3>2
    <3> QED BY <2>5, <3>1, <3>2
  <2> QED BY <2>6 DEF NoScenario
<1> QED BY <1>1, <1>2 DEF Call

LEMMA LeakStep == Typed /\ AnswerInv /\ LeakInv /\ [Next]_vars => LeakInv'
<1> SUFFICES ASSUME Typed, AnswerInv, LeakInv, [Next]_vars PROVE LeakInv'
  OBVIOUS
<1>1. CASE RunJobs
  <2>1. PICK f, v : RunJob(f, v)
    BY <1>1, RunsAJob
  <2>2. UNCHANGED <<pc, doing, leaked, isOpen, problems>>
    BY <1>1, JobSteps
  <2>3. ASSUME leaked, CleanedUp PROVE Freed'
    <3>1. Freed
      BY <2>3 DEF LeakInv
    <3>2. queue[1].fn # "scenario"
      BY <2>1, <3>1, TakingAJob DEF Freed
    <3>3. ~RunScenario
      BY <3>2, TakingAJob DEF RunScenario
    <3>4. shown' = "none"
      BY <1>1, <3>3, JobSteps DEF desktop
    <3>5. \A i \in DOMAIN queue' : i + 1 \in DOMAIN queue /\ queue'[i] = queue[i + 1]
      BY <2>1, TakingAJob
    <3> QED BY <2>2, <3>1, <3>4, <3>5 DEF Freed
  <2>4. (CleaningUp => leaked = isOpen)'
    BY <2>2 DEF LeakInv, CleaningUp
  <2> QED BY <2>2, <2>3, <2>4 DEF LeakInv, CleanedUp
<1>2. CASE KeyArrives \/ Disturb \/ UNCHANGED vars
  BY <1>2, OutsideSteps DEF LeakInv, CleaningUp, CleanedUp, Freed
<1>3. CASE Crash
  BY <1>3, Emptying
     DEF Crash, OnItsOwn, Cleared, LeakInv, CleaningUp, CleanedUp, Freed, dsl
<1>4. CASE Test
  <2>1. ASSUME CleaningUp' PROVE leaked' = isOpen'
    <3>1. CASE CheckLog /\ UNCHANGED isOpen
      BY <3>1, Zenon DEF CheckLog
    <3>2. CASE CleaningUp /\ UNCHANGED <<leaked, isOpen>>
      BY <3>2, Zenon DEF LeakInv
    <3> QED BY <1>4, <2>1, <3>1, <3>2, CleaningSteps
  <2>2. ASSUME CleanedUp', leaked' PROVE Freed'
    <3>1. ~NothingLeaked
      <4> SUFFICES ASSUME NothingLeaked PROVE FALSE
        OBVIOUS
      <4>1. CleaningUp /\ ~isOpen /\ leaked' = leaked
        BY DEF NothingLeaked, CleaningUp, ghosts
      <4> QED BY <2>2, <4>1, Zenon DEF LeakInv
    <3>2. CASE Returned("ok") /\ LeakReported /\ LeftoverGone
      <4>1. queue' = <<>> /\ shown' = "none"
        BY <3>2 DEF AnswerInv, Returned, LeftoverGone, nvda, desktop
      <4> QED BY <3>2, <4>1, Emptying DEF LeakReported, Freed
    <3>3. CASE RestartForLeftover
      <4>1. queue' = <<>> /\ shown' = "none"
        BY <3>3 DEF RestartForLeftover, Restarted, RestartFailed, Cleared
      <4> QED BY <3>3, <4>1, Emptying DEF RestartForLeftover, LeakReported, Freed
    <3>4. CASE CleanedUp /\ leaked /\ UNCHANGED isOpen
               /\ (UndoNext \/ UndoPresent \/ UndoneOne \/ UndoneAll \/ RestartToUndo
                   \/ ResetAfter)
      <4>1. shown = "none" /\ ~isOpen /\ problems /\ NoScenario
        BY <3>4 DEF LeakInv, Freed, NoScenario
      <4>2. problems'
        BY <3>4, <4>1 DEF UndoNext, UndoPresent, UndoneOne, UndoneAll, RestartToUndo,
                          ResetAfter, dsl
      <4>3. CASE UndoNext \/ UndoPresent \/ ResetAfter
        <5>1. \E what, f, x : Call(what, f, x) /\ f # "scenario"
          BY <4>3 DEF UndoNext, UndoPresent, ResetAfter
        <5>2. NoScenario' /\ shown' = shown
          BY <4>1, <4>3, <5>1, CallingKeeps
             DEF UndoNext, UndoPresent, ResetAfter, nvda, desktop
        <5> QED BY <3>4, <4>1, <4>2, <5>2 DEF Freed, NoScenario
      <4>4. CASE UndoneOne
        <5>1. NoAnswer \/ UNCHANGED queue
          BY <4>4 DEF UndoneOne, Failed, Returned
        <5>2. NoScenario'
          BY <4>1, <5>1, LettingGo DEF NoScenario
        <5>3. shown' = shown
          BY <4>4 DEF UndoneOne, nvda, desktop
        <5> QED BY <3>4, <4>1, <4>2, <5>2, <5>3 DEF Freed, NoScenario
      <4>5. CASE UndoneAll
        BY <3>4, <4>1, <4>2, <4>5 DEF UndoneAll, Freed, NoScenario, nvda, desktop
      <4>6. CASE RestartToUndo
        BY <3>4, <4>1, <4>2, <4>6, Emptying
           DEF RestartToUndo, Restarted, RestartFailed, Cleared, Freed
      <4> QED BY <3>4, <4>3, <4>4, <4>5, <4>6
    <3> QED BY <1>4, <2>2, <3>1, <3>2, <3>3, <3>4, CleanedSteps
  <2> QED BY <2>1, <2>2 DEF LeakInv
<1> QED BY <1>1, <1>2, <1>3, <1>4 DEF Next

(* Whatever a test's teardown meets on the way, a main thread that never   *)
(* answers, a lost key or an NVDA that has died: once it is done with the  *)
(* dialog the test left open, that dialog is gone and none is to come.     *)
THEOREM LeaksAreFreed == Spec => []LeakIsFreed
<1>1. Init => LeakInv
  BY DEF Init, LeakInv, CleaningUp, CleanedUp
<1>2. LeakInv => LeakIsFreed
  BY DEF LeakInv, CleanedUp, Freed, LeakIsFreed
<1> QED BY <1>1, <1>2, LeakStep, TypedAlways, CleanAlways, PTL DEF Spec
--------------------------------------------------------------------------------
(* The windows that keys are sent to.                                      *)

\* A step after which no NVDA has a dialog.
LEMMA DesktopCleared ==
  ASSUME Cleared, pc' # "poll" \/ ~alive'
  PROVE  KeyInv'
  BY DEF Cleared, KeyInv

\* The steps of the test after which it is neither about to queue a scenario nor polling,
\* and which leave the desktop alone.
DeskNext == RunJobs \/ KeyArrives \/ Disturb \/ Crash \/ StartTest \/ FreshNvda \/ Relaunched
            \/ RestartToComplete \/ RestartForLeftover \/ RestartToUndo \/ Settled
            \/ ScenarioQueued \/ ScenarioAnswerLost \/ CloseDialog \/ CloseLeftover
            \/ CloseSent \/ EscapeSent \/ PollFails

LEMMA OtherSteps ==
  ASSUME Next, ~DeskNext
  PROVE  UNCHANGED <<shown, foreground, baseline, keys, misled>> /\ pc' \notin {"open", "poll"}
<1>1. CASE Setup
  BY <1>1 DEF Setup, ResetFresh, ResetBefore, Call, Proceed, DeskNext, nvda, desktop, beliefs
<1>2. CASE Steps
  BY <1>2 DEF Steps, Press, SetConfig, StepEnds, Relaunch, EndBody, Call, Proceed, Raised,
              DeskNext, nvda, desktop, beliefs
<1>3. CASE DialogSteps
  BY <1>3 DEF DialogSteps, OpenDialog, SettleLost, ScenarioRefused, CloseLost, PollExpires,
              Call, Proceed, Raised, DeskNext, nvda, desktop, beliefs
<1>4. CASE AddonSteps
  BY <1>4 DEF AddonSteps, InstallAddon, RemoveAddon, Installed, NotInstalled, RemovalMarked,
              AskState, StateChecked, Call, Proceed, Raised, DeskNext, nvda, desktop, beliefs
<1>5. CASE Teardown
  BY <1>5 DEF Teardown, CheckLog, NothingLeaked, CloseLeftoverLost, LeftoverGone,
              LeakReported, BeginUndo, UndoNext, UndoPresent, UndoneOne, UndoneAll,
              ResetAfter, TestOver, Call, Proceed, DeskNext, nvda, desktop, beliefs
<1> QED BY <1>1, <1>2, <1>3, <1>4, <1>5 DEF Next, Test, DeskNext

LEMMA KeyStep == Typed /\ AnswerInv /\ KeyInv /\ [Next]_vars => KeyInv'
<1> SUFFICES ASSUME Typed, AnswerInv, KeyInv, [Next]_vars PROVE KeyInv'
  OBVIOUS
<1>0. keys \in Nat /\ "none" \notin Dialogs /\ Placed
  BY DialogsAssumption DEF Typed, DesktopOK
<1>1. CASE RunJobs
  <2>1. /\ UNCHANGED <<alive, pc, initial, misled>>
        /\ shown = "none" /\ queue # <<>>
    BY <1>1, JobSteps
  <2>2. CASE RunScenario /\ ~UNCHANGED desktop
    <3>1. PICK w \in Dialogs : Show(w)
      BY <2>2 DEF RunScenario
    <3> QED BY <1>0, <2>1, <3>1 DEF KeyInv, Show
  <2>3. CASE UNCHANGED desktop
    BY <2>1, <2>3 DEF KeyInv, desktop
  <2> QED BY <1>1, <2>2, <2>3, JobSteps
<1>2. CASE KeyArrives
  <2>1. keys > 0 /\ keys' = keys - 1
    BY <1>2 DEF KeyArrives, KeyClosesDialog, KeyLeavesDialog, KeyGoesAstray
  <2>2. UNCHANGED <<alive, pc, baseline, misled>>
    BY <1>2 DEF KeyArrives, KeyClosesDialog, KeyLeavesDialog, KeyGoesAstray
  <2>3. CASE ~misled
    <3>1. keys' = 0 /\ baseline = "unset" /\ pc # "open" /\ ~(pc = "poll" /\ alive)
      BY <1>0, <2>1, <2>3 DEF KeyInv
    <3> QED BY <2>2, <3>1 DEF KeyInv
  <2> QED BY <2>2, <2>3 DEF KeyInv
<1>3. CASE Disturb
  BY <1>3 DEF Disturb, FocusMoves, DialogEnds, Misled, KeyInv
<1>4. CASE Crash
  BY <1>4, DesktopCleared DEF Crash
<1>5. CASE FreshNvda \/ Relaunched \/ RestartToComplete \/ RestartForLeftover
           \/ RestartToUndo
  <2>1. Cleared
    BY <1>5 DEF FreshNvda, Relaunched, RestartToComplete, RestartForLeftover, RestartToUndo,
                Restarted, RestartFailed
  <2>2. pc' # "poll"
    BY <1>5 DEF FreshNvda, Relaunched, RestartToComplete, RestartForLeftover, RestartToUndo,
                LeakReported, BeginUndo, Proceed, Raised
  <2> QED BY <2>1, <2>2, DesktopCleared
<1>6. CASE StartTest
  <2>1. /\ UNCHANGED <<shown, foreground, baseline, keys>> /\ pc' \notin {"open", "poll"}
        /\ misled' \/ ~misled \/ ~(keys > 0 \/ baseline # "unset")
    BY <1>6 DEF StartTest, desktop, Call
  <2> QED BY <2>1 DEF KeyInv
<1>7. CASE Settled
  <2>1. /\ pc = "await" /\ pc' = "open" /\ UNCHANGED <<shown, foreground, baseline, keys>>
        /\ misled' \/ (answer # "none" /\ UNCHANGED <<misled, queue>>)
    BY <1>7 DEF Settled, Returned, NoAnswer, Proceed, Misled, desktop
  <2>2. misled' \/ (queue' = <<>> /\ shown' = "none" /\ UNCHANGED misled)
    BY <2>1 DEF AnswerInv
  <2> QED BY <2>1, <2>2 DEF KeyInv
<1>8. CASE ScenarioQueued \/ ScenarioAnswerLost
  <2>1. /\ pc = "open" /\ pc' \notin {"open", "poll"} /\ baseline' = foreground
        /\ UNCHANGED <<shown, foreground, keys, misled>>
    BY <1>8 DEF ScenarioQueued, ScenarioAnswerLost, Nowait, RememberBaseline, Proceed, Raised,
                Missed, beliefs
  <2> QED BY <1>0, <2>1 DEF KeyInv
<1>9. CASE CloseDialog \/ CloseLeftover
  <2>1. \E what : StartPolling(what)
    BY <1>9 DEF CloseDialog, CloseLeftover
  <2>2. /\ pc' = "poll" /\ baseline' = "unset" /\ UNCHANGED <<shown, foreground, keys>>
        /\ misled' \/ (~misled /\ baseline # "unset" /\ initial' = baseline)
    BY <2>1 DEF StartPolling, TakenBaseline
  <2> QED BY <2>2 DEF KeyInv
<1>10. CASE CloseSent \/ EscapeSent \/ PollFails
  <2>1. /\ pc = "poll" /\ pc' \notin {"open", "poll"}
        /\ UNCHANGED <<shown, foreground, baseline, misled>>
        /\ UNCHANGED keys \/ (keys' = keys + 1 /\ alive /\ foreground # initial)
    BY <1>10 DEF CloseSent, EscapeSent, PollFails, SendKey, TakenForDialog, Proceed, Call,
                 Raised, beliefs
  <2> QED BY <1>0, <2>1 DEF KeyInv
<1>11. CASE Next /\ ~DeskNext
  BY <1>11, OtherSteps DEF KeyInv
<1>12. CASE UNCHANGED vars
  <2>1. UNCHANGED <<alive, shown, foreground, baseline, keys, misled, pc, queue, initial>>
    BY <1>12 DEF vars, nvda, desktop, beliefs, local
  <2> QED BY <2>1 DEF KeyInv
<1> QED BY <1>1, <1>2, <1>3, <1>4, <1>5, <1>6, <1>7, <1>8, <1>9, <1>10, <1>11, <1>12
        DEF DeskNext

(* A key meant for a dialog goes astray only in a test in which the focus  *)
(* was moved, a dialog was answered twice or the budget for settling was   *)
(* spent: the baseline is sound as long as each dialog is queued once NVDA *)
(* is idle and answered once.                                              *)
THEOREM KeysAreSound == Spec => KeysReachTheDialog
<1>1. Init => KeyInv
  BY DEF Init, KeyInv
<1>2. Typed /\ KeyInv /\ [Next]_vars => [KeyGoesAstray => misled]_vars
  <2> SUFFICES ASSUME Typed, KeyInv, KeyGoesAstray PROVE misled
    OBVIOUS
  <2> QED BY DEF KeyInv, KeyGoesAstray
<1>3. Spec => []KeyInv
  BY <1>1, KeyStep, TypedAlways, CleanAlways, PTL DEF Spec
<1> QED BY <1>2, <1>3, TypedAlways, PTL DEF Spec, KeysReachTheDialog
--------------------------------------------------------------------------------
(* The add-ons a test has installed.                                       *)

\* The ways a step changes the queue, once more.
LEMMA QueueMoves ==
  ASSUME [Next]_vars
  PROVE  \/ RunJobs \/ NoAnswer \/ UNCHANGED queue \/ queue' = <<>>
         \/ (ScenarioQueued \/ ScenarioAnswerLost) /\ Nowait(<<>>)
         \/ \E what, f, x : Call(what, f, x) /\ f # "scenario"
<1>1. CASE KeyArrives \/ Disturb \/ Crash \/ UNCHANGED vars
  BY <1>1, OutsideSteps DEF Crash, Cleared
<1>2. CASE Setup
  BY <1>2 DEF Setup, StartTest, FreshNvda, ResetFresh, ResetBefore, Failed, Returned,
              Restarted, RestartFailed, Cleared
<1>3. CASE Steps
  BY <1>3 DEF Steps, Press, SetConfig, StepEnds, Relaunch, Relaunched, EndBody, Failed,
              Returned, Restarted, RestartFailed, Cleared
<1>9. CASE ScenarioQueued \/ ScenarioAnswerLost
  <2>1. Nowait(<<>>)
    BY <1>9 DEF ScenarioQueued, ScenarioAnswerLost
  <2> QED BY <1>9, <2>1
<1>4. CASE DialogSteps /\ ~ScenarioQueued /\ ~ScenarioAnswerLost
  BY <1>4 DEF DialogSteps, OpenDialog, Settled, SettleLost, ScenarioRefused, CloseDialog,
              CloseLost, CloseSent, EscapeSent, StartPolling, PollExpires, PollFails, Returned
<1>5. CASE \E a \in Addons : InstallAddon(a) \/ RemoveAddon(a)
  BY <1>5 DEF InstallAddon, RemoveAddon
<1>7. CASE Installed \/ NotInstalled \/ RemovalMarked \/ RestartToComplete
  BY <1>7 DEF Installed, NotInstalled, RemovalMarked, RestartToComplete, Failed, Returned,
              Restarted, RestartFailed, Cleared
<1>8. CASE AskState \/ StateChecked
  BY <1>8 DEF AskState, StateChecked, Returned
<1>6. CASE Teardown
  BY <1>6 DEF Teardown, CheckLog, NothingLeaked, CloseLeftover, CloseLeftoverLost,
              LeftoverGone, StartPolling, RestartForLeftover, UndoNext, UndoPresent,
              UndoneOne, UndoneAll, RestartToUndo, ResetAfter, TestOver, Failed, Returned,
              Restarted, RestartFailed, Cleared
<1> QED BY <1>1, <1>2, <1>3, <1>4, <1>5, <1>6, <1>7, <1>8, <1>9 DEF Next, Test, AddonSteps

\* A call, or a scenario, at the end of the queue.
LEMMA Queueing ==
  ASSUME Typed, NEW f, NEW x, NEW w, queue' = Append(queue, Job(f, x, w))
  PROVE  /\ DOMAIN queue = 1..Len(queue) /\ DOMAIN queue' = 1..(Len(queue) + 1)
         /\ Len(queue) \in Nat
         /\ \A i \in 1..Len(queue) : queue'[i] = queue[i]
         /\ queue'[Len(queue) + 1].fn = f /\ queue'[Len(queue) + 1].awaited = w
<1> DEFINE j == Job(f, x, w)
<1>1. j.fn = f /\ j.awaited = w
  BY DEF Job
<1>2. queue \in Seq(Jobs)
  BY DEF Typed, QueueOK
<1> HIDE DEF j
<1>3. queue \in Seq(Jobs \cup {j}) /\ j \in Jobs \cup {j}
  BY <1>2
<1>4. queue' = Append(queue, j)
  BY DEF j
<1>5. /\ DOMAIN queue = 1..Len(queue) /\ DOMAIN queue' = 1..(Len(queue) + 1)
      /\ Len(queue) \in Nat
      /\ \A i \in 1..Len(queue) : queue'[i] = queue[i]
      /\ queue'[Len(queue) + 1] = j
  BY <1>3, <1>4, Appending
<1> QED BY <1>1, <1>5

\* The steps that what the test was told and what the store holds depend on.
AddonNext == StartTest \/ Installed \/ FreshNvda \/ Relaunched \/ RestartToComplete
             \/ RestartForLeftover \/ RestartToUndo \/ NothingLeaked \/ LeftoverGone
             \/ UndoNext \/ UndoPresent \/ UndoneOne \/ UndoneAll \/ ResetAfter \/ TestOver

LEMMA OtherAddonSteps ==
  ASSUME Placed, Test, ~AddonNext
  PROVE  /\ UNCHANGED <<alive, store, told, unattended, installed, problems>>
         /\ pc \notin {"after", "idle"} /\ doing \notin {"undo", "after"}
         /\ pc' \notin {"after", "idle", "undo"}
         /\ doing' \notin {"undo", "after", "undoState", "undoRemove"}
         /\ ~(pc = "restart" /\ doing = "enabled") /\ ~(doing = "install" /\ answer = "ok")
<1> USE DEF Placed, Calls, Restarts, AddonNext
<1>1. CASE Setup
  BY <1>1 DEF Setup, ResetFresh, ResetBefore, Call, Proceed, dsl, nvda, ghosts
<1>2. CASE Steps
  BY <1>2 DEF Steps, Press, SetConfig, StepEnds, Relaunch, EndBody, Step, Call, Proceed,
              Raised, dsl, nvda, ghosts
<1>3. CASE OpenDialog \/ Settled \/ SettleLost \/ ScenarioQueued \/ ScenarioAnswerLost
           \/ ScenarioRefused
  BY <1>3 DEF OpenDialog, Settled, SettleLost, ScenarioQueued, ScenarioAnswerLost,
              ScenarioRefused, DialogStep, Call, Proceed, Raised, dsl, nvda, ghosts
<1>4. CASE CloseDialog \/ CloseLost \/ CloseSent \/ EscapeSent \/ PollExpires \/ PollFails
  BY <1>4 DEF CloseDialog, CloseLost, CloseSent, EscapeSent, PollExpires, PollFails,
              StartPolling, SendKey, DialogStep, Call, Proceed, Raised, dsl, nvda, ghosts
<1>5. CASE AddonSteps
  BY <1>5 DEF AddonSteps, InstallAddon, RemoveAddon, NotInstalled, RemovalMarked, AskState,
              StateChecked, Step, Call, Proceed, Raised, Failed, Returned, NoAnswer,
              AddonState, dsl, nvda, ghosts
<1>6. CASE CheckLog \/ CloseLeftover \/ CloseLeftoverLost
  BY <1>6 DEF CheckLog, CloseLeftover, CloseLeftoverLost, StartPolling, Proceed, dsl, nvda,
              ghosts
<1> QED BY <1>1, <1>2, <1>3, <1>4, <1>5, <1>6 DEF Test, DialogSteps, Teardown

\* What a job, or a start of NVDA, does to one add-on's entry.
LEMMA EntryMoves ==
  ASSUME NEW e \in Entry
  PROVE  /\ e = Absent <=> e.now = "none" /\ e.next = "none"
         /\ e.next = "none" /\ StateOf(e) = "NOT_INSTALLED" => e = Absent
         /\ StateOf(Absent) = "NOT_INSTALLED"
         /\ e.next = "none" /\ StateOf(e) # "NOT_INSTALLED" =>
              RequestRemove(e).now = "leaving" /\ RequestRemove(e).next = "none"
         /\ \A c \in Completed(e) : /\ c.next = "none" /\ c \in Entry
                                    /\ e.next = "none" /\ e.now \in {"none", "leaving"} =>
                                         c = Absent
<1>1. PICK n \in {"none", "on", "off", "leaving"}, x \in {"none", "on", "leaving"} :
        e = [now |-> n, next |-> x]
  BY DEF Entry
<1>2. e = Absent <=> n = "none" /\ x = "none"
  BY <1>1 DEF Absent
<1>3. e.now = n /\ e.next = x
  BY <1>1
<1>4. StateOf(e) = "NOT_INSTALLED" /\ x = "none" => n = "none"
  BY <1>1, <1>3 DEF StateOf
<1>5. StateOf(Absent) = "NOT_INSTALLED"
  BY DEF StateOf, Absent
<1>6. x = "none" /\ StateOf(e) # "NOT_INSTALLED" =>
        RequestRemove(e).now = "leaving" /\ RequestRemove(e).next = "none"
  <2>1. x = "none" /\ n = "none" => StateOf(e) = "NOT_INSTALLED"
    BY <1>2, <1>5
  <2>2. n # "none" => RequestRemove(e) = [now |-> "leaving", next |-> x]
    BY <1>1, <1>3 DEF RequestRemove
  <2> QED BY <2>1, <2>2
<1>7. ASSUME NEW c \in Completed(e)
      PROVE  /\ c.next = "none" /\ c \in Entry
             /\ x = "none" /\ n \in {"none", "leaving"} => c = Absent
  <2>1. CASE x = "on"
    BY <1>1, <1>3, <1>7, <2>1 DEF Completed, Entry
  <2>2. CASE x # "on"
    <3>1. c = [now |-> IF n = "leaving" THEN "none" ELSE n, next |-> "none"]
      BY <1>1, <1>3, <1>7, <2>2 DEF Completed
    <3> QED BY <3>1, <1>1 DEF Entry, Absent
  <2> QED BY <2>1, <2>2
<1> QED BY <1>2, <1>3, <1>4, <1>5, <1>6, <1>7

LEMMA Restarting ==
  ASSUME Typed, Restarted, NEW a \in Addons
  PROVE  /\ store'[a].next = "none"
         /\ store[a] = Absent \/ Leaving(a) => store'[a] = Absent
<1>1. store[a] \in Entry /\ store'[a] \in Completed(store[a])
  BY DEF Typed, Restarted
<1>2. \A c \in Completed(store[a]) :
        /\ c.next = "none"
        /\ store[a].next = "none" /\ store[a].now \in {"none", "leaving"} => c = Absent
  BY <1>1, EntryMoves
<1>3. store[a] = Absent => store[a].now = "none" /\ store[a].next = "none"
  BY <1>1, EntryMoves
<1> QED BY <1>1, <1>2, <1>3 DEF Leaving

\* A job that runs while the test is undoing what it did, or when nothing of a's is
\* half done, touches a only to remove it; an install nobody waits for disowns it.
LEMMA JobsOnOwned ==
  ASSUME Typed, RunJobs, NEW a \in Owned, a \in Owned', store[a].next = "none",
         ~(RunInstall /\ queue[1].awaited)
  PROVE  /\ store'[a].next = "none"
         /\ store[a] = Absent => store'[a] = Absent
         /\ Leaving(a) => Leaving(a)'
         /\ RunRemove /\ queue[1].arg[1] = a /\ queue[1].awaited /\ answer' = "ok" =>
              Leaving(a)'
<1>0. a \in Addons /\ store \in [Addons -> Entry] /\ store[a] \in Entry
      /\ a \notin unattended'
  BY DEF Typed, NamesOK, Owned
<1>j. PICK f, v : RunJob(f, v)
  BY RunsAJob
<1>1. CASE UNCHANGED store /\ ~RunRemove
  BY <1>1 DEF Leaving
<1>2. CASE RunInstall
  <2>1. /\ Arg = queue[1].arg /\ queue[1].fn = "install" /\ 1 \in DOMAIN queue
    BY <1>2, TakingAJob DEF RunInstall
  <2>2. PICK b \in Addons : queue[1].arg = <<b>>
    BY <2>1 DEF Typed, QueueOK, Named
  <2>3. store'[a] = store[a]
    <3>1. CASE UNCHANGED store
      BY <3>1
    <3>2. CASE ~UNCHANGED store
      <4>1. RunJob("install", "ok") /\ store' = [store EXCEPT ![b] = Unpack(@)]
        BY <1>2, <2>1, <2>2, <3>2 DEF RunInstall
      <4>2. ~Head(queue).awaited /\ Head(queue).arg = <<b>>
        BY <1>2, <2>2, <4>1, TakingAJob
      <4>3. b \in unattended'
        BY <4>1, <4>2 DEF RunJob
      <4> QED BY <1>0, <4>1, <4>3
    <3> QED BY <3>1, <3>2
  <2>4. ~RunRemove
    BY <1>2, <2>1, TakingAJob DEF RunRemove
  <2> QED BY <2>3, <2>4 DEF Leaving
<1>3. CASE RunRemove
  <2>1. Arg = queue[1].arg
    BY <1>j, TakingAJob
  <2>2. CASE Arg[1] # a
    <3>1. store'[a] = store[a]
      BY <1>0, <1>3, <2>2 DEF RunRemove
    <3> QED BY <2>1, <2>2, <3>1 DEF Leaving
  <2>3. CASE Arg[1] = a /\ StateOf(store[a]) = "NOT_INSTALLED"
    <3>1. UNCHANGED store /\ RunJob("remove", "failed")
      BY <1>3, <2>3 DEF RunRemove
    <3>2. store[a] = Absent
      BY <1>0, <2>3, EntryMoves
    <3>3. ~Leaving(a)
      BY <3>2 DEF Leaving, Absent
    <3>4. store'[a] = Absent /\ store'[a].next = "none"
      BY <3>1, <3>2
    <3>5. queue[1].awaited => answer' = "failed"
      BY <3>1, TakingAJob
    <3> QED BY <3>3, <3>4, <3>5
  <2>4. CASE Arg[1] = a /\ StateOf(store[a]) # "NOT_INSTALLED"
    <3>1. store'[a] = RequestRemove(store[a])
      BY <1>0, <1>3, <2>4 DEF RunRemove
    <3>2. store'[a].now = "leaving" /\ store'[a].next = "none"
      BY <1>0, <2>4, <3>1, EntryMoves
    <3>3. store[a] # Absent
      BY <1>0, <2>4, EntryMoves
    <3> QED BY <3>2, <3>3 DEF Leaving
  <2> QED BY <2>2, <2>3, <2>4
<1>4. RunScenario \/ RunNoop \/ RunSet \/ RunRestore \/ RunState => UNCHANGED store
  BY DEF RunScenario, RunNoop, RunSet, RunRestore, RunState
<1> QED BY <1>1, <1>2, <1>3, <1>4 DEF RunJobs

UndoSteps == NothingLeaked \/ LeftoverGone \/ UndoNext \/ UndoPresent \/ UndoneOne \/ UndoneAll
             \/ ResetAfter \/ TestOver
RestartSteps == FreshNvda \/ Relaunched \/ RestartToComplete \/ RestartForLeftover
                \/ RestartToUndo

LEMMA UndoStepsKeep ==
  ASSUME Placed, UndoSteps
  PROVE  /\ UNCHANGED <<alive, store, told, unattended>>
         /\ pc # "restart" /\ doing # "install"
  BY DEF Placed, Calls, Restarts, UndoSteps, NothingLeaked, LeftoverGone, LeakReported,
         UndoNext, UndoPresent, UndoneOne, UndoneAll, ResetAfter, TestOver, nvda, ghosts

LEMMA RestartStepsKeep ==
  ASSUME RestartSteps
  PROVE  /\ UNCHANGED <<told, unattended>> /\ pc = "restart"
         /\ Restarted \/ (RestartFailed /\ ~alive')
  BY DEF RestartSteps, FreshNvda, Relaunched, RestartToComplete, RestartForLeftover,
         RestartToUndo, LeakReported, ghosts, Restarted, RestartFailed

LEMMA NextStep ==
  Typed /\ AnswerInv /\ NextInv /\ [Next]_vars => NextInv'
<1> SUFFICES ASSUME Typed, AnswerInv, NextInv, [Next]_vars, NEW a \in Owned'
             PROVE  \/ store'[a].next = "none" \/ ~alive'
                    \/ pc' = "restart" /\ doing' = "enabled"
                    \/ doing' = "install" /\ answer' = "ok" /\ name' = <<a>>
  BY DEF NextInv
<1>0. Placed
  BY DEF Typed
<1>1. CASE RunJobs
  <2>1. /\ UNCHANGED <<alive, pc, doing, name, told>> /\ alive /\ queue # <<>>
        /\ unattended \subseteq unattended'
    BY <1>1, JobSteps
  <2>2. a \in Owned /\ a \in Addons /\ store \in [Addons -> Entry]
    BY <2>1 DEF Owned, Typed, NamesOK
  <2>3. doing = "install" => pc = "await"
    BY <1>0 DEF Placed, Restarts
  <2>4. CASE pc = "restart" /\ doing = "enabled"
    BY <2>1, <2>4
  <2>5. CASE store[a].next = "none" /\ ~(RunInstall /\ queue[1].awaited)
    BY <1>1, <2>2, <2>5, JobsOnOwned
  <2>6. CASE store[a].next = "none" /\ RunInstall /\ queue[1].awaited
    <3>1. /\ Arg = queue[1].arg /\ queue[1].fn = "install" /\ 1 \in DOMAIN queue
      BY <2>6, TakingAJob DEF RunInstall
    <3>2. doing = "install" /\ queue[1].arg = name /\ name \in Named
      BY <2>6, <3>1 DEF Typed, QueueOK, Fits
    <3>3. PICK b \in Addons : name = <<b>>
      BY <3>2 DEF Named
    <3>4. CASE b = a
      <4>1. CASE UNCHANGED store
        BY <2>6, <4>1
      <4>2. CASE ~UNCHANGED store
        <5>1. RunJob("install", "ok")
          BY <2>6, <4>2 DEF RunInstall
        <5>2. answer' = "ok"
          BY <2>6, <5>1, TakingAJob
        <5> QED BY <2>1, <3>2, <3>3, <3>4, <5>2
      <4> QED BY <4>1, <4>2
    <3>5. CASE b # a
      <4>1. Arg[1] = b
        BY <3>1, <3>2, <3>3
      <4>2. store'[a] = store[a]
        BY <2>2, <2>6, <3>5, <4>1 DEF RunInstall
      <4> QED BY <2>6, <4>2
    <3> QED BY <3>4, <3>5
  <2>7. ~(doing = "install" /\ answer = "ok")
    BY <2>1, <2>3 DEF AnswerInv
  <2> QED BY <2>1, <2>2, <2>4, <2>5, <2>6, <2>7 DEF NextInv
<1>2. CASE KeyArrives \/ Disturb \/ UNCHANGED vars
  BY <1>2, OutsideSteps DEF NextInv, Owned
<1>3. CASE Crash
  BY <1>3 DEF Crash
<1>4. CASE StartTest
  BY <1>4 DEF StartTest, Owned
<1>5. CASE Installed
  BY <1>5 DEF Installed
<1>6. CASE RestartSteps
  <2>1. a \in Addons
    BY <1>6, RestartStepsKeep DEF Owned, Typed, NamesOK
  <2> QED BY <1>6, <2>1, RestartStepsKeep, Restarting
<1>7. CASE UndoSteps
  BY <1>0, <1>7, UndoStepsKeep DEF NextInv, Owned
<1>8. CASE Test /\ ~AddonNext
  BY <1>0, <1>8, OtherAddonSteps DEF NextInv, Owned
<1> QED BY <1>1, <1>2, <1>3, <1>4, <1>5, <1>6, <1>7, <1>8
        DEF Next, AddonNext, UndoSteps, RestartSteps

LEMMA ListStep == Typed /\ ListInv /\ [Next]_vars => ListInv'
<1> SUFFICES ASSUME Typed, ListInv, [Next]_vars,
                    pc' \notin {"after", "idle"}, doing' \notin {"undo", "after"},
                    NEW a \in Owned'
             PROVE  Among(a, installed')
  BY DEF ListInv, Among
<1>0. Placed
  BY DEF Typed
<1>1. CASE UNCHANGED <<pc, doing, told, installed>> /\ unattended \subseteq unattended'
  BY <1>1 DEF ListInv, Owned
<1>2. RunJobs \/ KeyArrives \/ Disturb \/ Crash \/ UNCHANGED vars =>
        UNCHANGED <<pc, doing, told, installed>> /\ unattended \subseteq unattended'
  BY JobSteps, OutsideSteps DEF Crash, OnItsOwn, dsl
<1>3. CASE StartTest
  BY <1>3 DEF StartTest, Owned
<1>4. CASE Installed
  <2>1. name \in Named /\ installed \in Seq(Addons)
    BY <1>4 DEF Installed, Typed, NamesOK
  <2>2. PICK b \in Addons : name = <<b>>
    BY <2>1 DEF Named
  <2>3. /\ installed' = installed \o <<b>> /\ told' = told \cup {b}
        /\ unattended' = unattended \ {b}
    BY <1>4, <2>2 DEF Installed
  <2>4. /\ DOMAIN (installed \o <<b>>) = 1..(Len(installed) + 1)
        /\ DOMAIN installed = 1..Len(installed) /\ Len(installed) \in Nat
        /\ (installed \o <<b>>)[Len(installed) + 1] = b
        /\ \A i \in 1..Len(installed) : (installed \o <<b>>)[i] = installed[i]
    BY <2>1
  <2>5. pc = "await" /\ doing = "install"
    BY <1>4 DEF Installed, Returned
  <2>6. CASE a = b
    BY <2>3, <2>4, <2>6 DEF Among
  <2>7. CASE a # b
    <3>1. a \in Owned
      BY <2>3, <2>7 DEF Owned
    <3>2. PICK i \in DOMAIN installed : installed[i] = a
      BY <2>5, <3>1 DEF ListInv, Among
    <3>3. i \in DOMAIN installed' /\ installed'[i] = a
      BY <2>3, <2>4, <3>2
    <3> QED BY <3>3 DEF Among
  <2> QED BY <2>6, <2>7
<1>5. CASE RestartSteps \/ UndoSteps
  <2>1. UNCHANGED <<told, unattended>>
    BY <1>0, <1>5, RestartStepsKeep, UndoStepsKeep
  <2>2. UNCHANGED installed /\ pc \notin {"after", "idle"} /\ doing \notin {"undo", "after"}
    BY <1>0, <1>5 DEF Placed, Calls, Restarts, RestartSteps, UndoSteps, FreshNvda, Relaunched,
         RestartToComplete, RestartForLeftover, RestartToUndo, NothingLeaked, LeftoverGone,
         LeakReported, BeginUndo, UndoNext, UndoPresent, UndoneOne, UndoneAll, ResetAfter,
         TestOver, Call, Proceed, dsl, Restarted, RestartFailed
  <2> QED BY <2>1, <2>2 DEF ListInv, Owned
<1>6. CASE Test /\ ~AddonNext
  BY <1>0, <1>6, OtherAddonSteps DEF ListInv, Owned
<1> QED BY <1>1, <1>2, <1>3, <1>4, <1>5, <1>6 DEF Next, AddonNext, UndoSteps, RestartSteps

LEMMA UndoStep ==
  Typed /\ AnswerInv /\ NextInv /\ ListInv /\ UndoInv /\ [Next]_vars => UndoInv'
<1> SUFFICES ASSUME Typed, AnswerInv, NextInv, ListInv, UndoInv, [Next]_vars,
                    NEW a \in Owned'
             PROVE  (/\ undoing # <<>> /\ a = Head(undoing) =>
                          /\ doing = "undoState" /\ answer = "NOT_INSTALLED" =>
                               store[a] = Absent
                          /\ doing = "undoRemove" /\ answer = "ok" => Leaving(a)
                     /\ ~problems =>
                          /\ Undoing => \/ Among(a, undoing) \/ store[a] = Absent
                                        \/ removed /\ Leaving(a)
                          /\ doing = "undo" => store[a] = Absent \/ Leaving(a)
                          /\ pc \in {"after", "idle"} \/ doing = "after" =>
                               store[a] = Absent)'
  BY DEF UndoInv
<1>0. Placed
  BY DEF Typed
<1>1. CASE RunJobs
  <2>1. /\ UNCHANGED <<alive, pc, doing, name, undoing, removed, problems, told>>
        /\ unattended \subseteq unattended'
        /\ alive /\ queue # <<>> /\ shown = "none"
    BY <1>1, JobSteps
  <2>2. a \in Owned /\ a \in Addons /\ store[a] \in Entry
    BY <2>1 DEF Owned, Typed, NamesOK
  <2>j. PICK f, v : RunJob(f, v)
    BY <1>1, RunsAJob
  <2>q. /\ 1 \in DOMAIN queue /\ Arg = queue[1].arg
        /\ queue[1].awaited => pc = "await" /\ answer = "none" /\ Fits(queue[1])
        /\ ~queue[1].awaited => answer' = answer
    BY <2>j, TakingAJob DEF Typed, QueueOK
  <2>3. CASE doing = "install" \/ ~(\/ Undoing \/ doing = "undo" \/ doing = "after"
                                   \/ pc \in {"after", "idle"})
    BY <1>0, <2>1, <2>3 DEF Undoing, Placed, Calls, Restarts
  <2>4. CASE doing # "install" /\ (\/ Undoing \/ doing = "undo" \/ doing = "after"
                                  \/ pc \in {"after", "idle"})
    <3>1. ~(RunInstall /\ queue[1].awaited)
      <4>1. RunInstall => queue[1].fn = "install"
        BY TakingAJob DEF RunInstall
      <4> QED BY <2>4, <2>q, <4>1 DEF Fits
    <3>2. ~(pc = "restart" /\ doing = "enabled")
      BY <1>0, <2>4 DEF Undoing, Placed
    <3>3. store[a].next = "none"
      BY <2>1, <2>2, <2>4, <3>2 DEF NextInv
    <3>4. /\ store[a] = Absent => store'[a] = Absent
          /\ Leaving(a) => Leaving(a)'
          /\ RunRemove /\ queue[1].arg[1] = a /\ queue[1].awaited /\ answer' = "ok" =>
               Leaving(a)'
      BY <1>1, <2>2, <3>1, <3>3, JobsOnOwned
    <3>5. /\ doing = "undoState" /\ pc = "await" => answer = "none"
          /\ doing = "undoRemove" /\ pc = "await" => answer = "none"
          /\ doing \in {"undoState", "undoRemove"} => pc = "await"
      BY <1>0, <2>1 DEF AnswerInv, Placed, Restarts
    <3>6. ASSUME undoing # <<>>, a = Head(undoing), doing = "undoState",
                 answer' = "NOT_INSTALLED"
          PROVE  store'[a] = Absent
      <4>1. queue[1].awaited
        BY <2>q, <3>5, <3>6
      <4>2. queue[1].fn = "state" /\ queue[1].arg = <<a>>
        BY <2>q, <3>6, <4>1 DEF Fits
      <4>3. RunState
        BY <1>1, <4>2, TakingAJob
           DEF RunJobs, RunScenario, RunNoop, RunSet, RunRestore, RunInstall, RunRemove
      <4>4. RunJob("state", StateOf(store[a])) /\ UNCHANGED store
        BY <2>q, <4>2, <4>3 DEF RunState
      <4>5. answer' = StateOf(store[a])
        BY <4>1, <4>4, TakingAJob
      <4> QED BY <2>2, <3>3, <3>6, <4>4, <4>5, EntryMoves
    <3>7. ASSUME undoing # <<>>, a = Head(undoing), doing = "undoRemove", answer' = "ok"
          PROVE  Leaving(a)'
      <4>1. queue[1].awaited
        BY <2>q, <3>5, <3>7
      <4>2. queue[1].fn = "remove" /\ queue[1].arg = <<a>>
        BY <2>q, <3>7, <4>1 DEF Fits
      <4>3. RunRemove
        BY <1>1, <4>2, TakingAJob
           DEF RunJobs, RunScenario, RunNoop, RunSet, RunRestore, RunInstall, RunState
      <4> QED BY <3>4, <3>7, <4>1, <4>2, <4>3
    <3>8. ASSUME ~problems, Undoing
          PROVE  Among(a, undoing) \/ store'[a] = Absent \/ (removed /\ Leaving(a)')
      BY <2>2, <3>4, <3>8 DEF UndoInv
    <3>9. ASSUME ~problems, doing = "undo" PROVE store'[a] = Absent \/ Leaving(a)'
      BY <2>2, <3>4, <3>9 DEF UndoInv
    <3>10. ASSUME ~problems, pc \in {"after", "idle"} \/ doing = "after"
           PROVE  store'[a] = Absent
      BY <2>2, <3>4, <3>10 DEF UndoInv
    <3> QED BY <2>1, <3>6, <3>7, <3>8, <3>9, <3>10 DEF Undoing, Among
  <2> QED BY <2>3, <2>4
<1>2. CASE KeyArrives \/ Disturb \/ Crash \/ UNCHANGED vars
  <2>1. UNCHANGED <<store, pc, doing, answer, undoing, removed, problems, told,
                  unattended>>
    BY <1>2, OutsideSteps DEF Crash, OnItsOwn, dsl
  <2> QED BY <2>1 DEF UndoInv, Undoing, Among, Leaving, Owned
<1>3. CASE StartTest
  BY <1>3 DEF StartTest, Owned
<1>4. CASE Installed \/ FreshNvda \/ Relaunched \/ RestartToComplete
  <2>1. /\ pc' \notin {"after", "idle", "undo"}
        /\ doing' \notin {"undo", "after", "undoState", "undoRemove"}
    BY <1>4 DEF Installed, FreshNvda, Relaunched, RestartToComplete, Proceed, Raised
  <2> QED BY <2>1 DEF Undoing
<1>5. CASE Test /\ ~AddonNext
  BY <1>0, <1>5, OtherAddonSteps DEF Undoing
<1>6. CASE RestartForLeftover \/ (LeftoverGone /\ LeakReported)
  <2>1. problems' = TRUE /\ doing' = "none"
    BY <1>6 DEF RestartForLeftover, LeakReported, BeginUndo, Proceed
  <2> QED BY <2>1
<1>7. CASE LeftoverGone /\ ~LeakReported
  BY <1>7 DEF LeftoverGone, Undoing
<1>8. CASE RestartToUndo
  <2>1. /\ doing = "undo" /\ pc' = "after" /\ doing' = "none"
        /\ UNCHANGED <<told, unattended>>
        /\ problems' \/ (Restarted /\ ~problems' /\ ~problems) 
    BY <1>8 DEF RestartToUndo, Proceed, ghosts
  <2>2. a \in Owned /\ a \in Addons
    BY <2>1 DEF Owned, Typed, NamesOK
  <2>3. ~problems' => store'[a] = Absent
    BY <2>1, <2>2, Restarting DEF UndoInv
  <2> QED BY <2>1, <2>3 DEF Undoing
\* The undoing itself.
<1>9. CASE UndoSteps /\ ~LeftoverGone
  <2>1. a \in Owned /\ UNCHANGED <<store, told, unattended>>
    BY <1>0, <1>9, UndoStepsKeep DEF Owned
  <2>2. (store[a] = Absent => store'[a] = Absent) /\ (Leaving(a) => Leaving(a)')
    BY <2>1 DEF Leaving
  <2>3. CASE NothingLeaked
    <3>1. /\ pc = "leak" /\ undoing' = installed /\ pc' = "undo" /\ doing' = "none"
      BY <2>3 DEF NothingLeaked, BeginUndo, Proceed
    <3>2. doing = "none"
      BY <1>0, <3>1 DEF Placed
    <3>3. Among(a, undoing')
      BY <2>1, <3>1, <3>2 DEF ListInv, Among
    <3> QED BY <3>1, <3>3 DEF Undoing, Among
  <2>4. CASE UndoNext \/ UndoPresent
    <3>1. /\ UNCHANGED <<undoing, removed, problems>> /\ answer' = "none" /\ pc' = "await"
          /\ doing' \in {"undoState", "undoRemove"} /\ Undoing
      BY <2>4 DEF UndoNext, UndoPresent, Call, Undoing, dsl
    <3> QED BY <2>1, <2>2, <3>1 DEF UndoInv, Undoing, Among
  <2>5. CASE UndoneOne
    <3>1. /\ undoing' = Tail(undoing) /\ doing' = "none" /\ pc' = "undo" /\ Undoing
          /\ doing \in {"undoState", "undoRemove"}
      BY <2>5 DEF UndoneOne, Proceed, Undoing
    <3>2. undoing # <<>> /\ undoing \in Seq(Addons)
      BY <3>1 DEF Typed, NamesOK
    <3>3. Among(a, undoing) => a = Head(undoing) \/ Among(a, Tail(undoing))
      <4> SUFFICES ASSUME NEW i \in DOMAIN undoing, undoing[i] = a
                   PROVE  a = Head(undoing) \/ \E k \in DOMAIN Tail(undoing) : Tail(undoing)[k] = a
        BY DEF Among
      <4>1. /\ Head(undoing) = undoing[1] /\ Len(undoing) \in Nat
            /\ DOMAIN undoing = 1..Len(undoing) /\ DOMAIN Tail(undoing) = 1..(Len(undoing) - 1)
            /\ \A k \in 1..(Len(undoing) - 1) : Tail(undoing)[k] = undoing[k + 1]
        BY <3>2, Shifting
      <4>2. CASE i = 1
        BY <4>1, <4>2
      <4>3. CASE i # 1
        <5>1. i - 1 \in DOMAIN Tail(undoing) /\ Tail(undoing)[i - 1] = a
          BY <4>1, <4>3
        <5> QED BY <5>1
      <4> QED BY <4>2, <4>3
    <3>4. ASSUME ~problems'
          PROVE  /\ ~problems
                 /\ \/ doing = "undoState" /\ answer = "NOT_INSTALLED" /\ removed' = removed
                    \/ doing = "undoRemove" /\ answer = "ok" /\ removed'
      BY <2>5, <3>4 DEF UndoneOne, Returned
    <3>5. ASSUME ~problems'
          PROVE  Among(a, undoing') \/ store[a] = Absent \/ (removed' /\ Leaving(a))
      <4>1. Among(a, undoing) \/ store[a] = Absent \/ (removed /\ Leaving(a))
        BY <2>1, <3>1, <3>4, <3>5 DEF UndoInv
      <4>2. a = Head(undoing) => store[a] = Absent \/ (removed' /\ Leaving(a))
        BY <2>1, <3>2, <3>4, <3>5 DEF UndoInv
      <4>3. removed => removed'
        BY <3>4, <3>5
      <4> QED BY <3>1, <3>3, <4>1, <4>2, <4>3
    <3> QED BY <2>2, <3>1, <3>5 DEF Among
  <2>6. CASE UndoneAll
    <3>1. /\ pc = "undo" /\ undoing = <<>> /\ UNCHANGED <<undoing, problems>>
          /\ \/ removed /\ pc' = "restart" /\ doing' = "undo"
             \/ ~removed /\ pc' = "after" /\ doing' = "none"
      BY <2>6 DEF UndoneAll, Proceed
    <3>2. ~Among(a, undoing)
      BY <3>1, Emptying DEF Among
    <3>3. ~problems => store[a] = Absent \/ (removed /\ Leaving(a))
      BY <2>1, <3>1, <3>2 DEF UndoInv, Undoing
    <3> QED BY <2>2, <3>1, <3>3 DEF Undoing
  <2>7. CASE ResetAfter \/ TestOver
    <3>1. /\ pc = "after" \/ doing = "after"
          /\ pc' \in {"await", "idle"} /\ doing' \in {"after", "none"} /\ UNCHANGED problems
      BY <2>7 DEF ResetAfter, TestOver, Call, Proceed, dsl
    <3>2. ~problems => store[a] = Absent
      BY <2>1, <3>1 DEF UndoInv
    <3> QED BY <2>2, <3>1, <3>2 DEF Undoing
  <2> QED BY <1>9, <2>3, <2>4, <2>5, <2>6, <2>7 DEF UndoSteps
<1> QED BY <1>1, <1>2, <1>3, <1>4, <1>5, <1>6, <1>7, <1>8, <1>9
        DEF Next, AddonNext, UndoSteps

LEMMA AddonsAlways == Spec => [](NextInv /\ ListInv /\ UndoInv)
<1>1. Init => NextInv /\ ListInv /\ UndoInv
  BY Emptying DEF Init, NextInv, ListInv, UndoInv, Owned
<1> QED BY <1>1, TypedAlways, CleanAlways, NextStep, ListStep, UndoStep, PTL DEF Spec

(* After a teardown that had nothing to report, no add-on is left that the *)
(* test was told it had installed, unless a later install of it went       *)
(* through with nobody waiting; however many restarts and removals were    *)
(* lost on the way.                                                        *)
THEOREM AddonsAreUndone == Spec => []LeftoverAddonIsReported
<1>1. UndoInv => LeftoverAddonIsReported
  <2> SUFFICES ASSUME UndoInv, pc = "idle", ~problems, NEW a \in told \ unattended
               PROVE  StateOf(store[a]) = "NOT_INSTALLED"
    BY DEF LeftoverAddonIsReported
  <2>1. store[a] = Absent
    BY DEF UndoInv, Owned
  <2> QED BY <2>1 DEF StateOf, Absent
<1> QED BY <1>1, AddonsAlways, PTL
--------------------------------------------------------------------------------
(* The dialogs that are still to be closed.                                *)

LEMMA CountingScenarios ==
  ASSUME NEW q \in Seq(Jobs)
  PROVE  /\ IsFiniteSet(Scenarios(q)) /\ Cardinality(Scenarios(q)) \in Nat
         /\ Scenarios(q) \subseteq 1..Len(q)
<1>1. Len(q) \in Nat /\ DOMAIN q = 1..Len(q)
  OBVIOUS
<1>2. IsFiniteSet(1..Len(q))
  BY <1>1, FS_Interval
<1>3. Scenarios(q) \in SUBSET (1..Len(q))
  BY <1>1 DEF Scenarios
<1>4. IsFiniteSet(Scenarios(q))
  BY <1>2, <1>3, FS_Subset
<1> QED BY <1>3, <1>4, FS_CardinalityType

\* A job is run, a scenario or another.
LEMMA OneLess ==
  ASSUME Typed, NEW f, NEW v, RunJob(f, v)
  PROVE  Cardinality(Scenarios(queue')) = Cardinality(Scenarios(queue))
                                            - (IF f = "scenario" THEN 1 ELSE 0)
<1> DEFINE S == Scenarios(queue)
           T == S \ {1}
           g == [i \in T |-> i - 1]
<1>1. /\ Len(queue) \in Nat /\ Len(queue) >= 1
      /\ DOMAIN queue = 1..Len(queue) /\ DOMAIN queue' = 1..(Len(queue) - 1)
      /\ \A i \in 1..(Len(queue) - 1) : queue'[i] = queue[i + 1]
      /\ queue[1].fn = f
  BY TakingAJob
<1>2. IsFiniteSet(S) /\ S \subseteq 1..Len(queue) /\ Cardinality(S) \in Nat
  BY CountingScenarios DEF Typed, QueueOK
<1>3. 1 \in S <=> f = "scenario"
  BY <1>1 DEF Scenarios
<1>4. IsFiniteSet(T) /\ Cardinality(T) = Cardinality(S) - (IF f = "scenario" THEN 1 ELSE 0)
  <2>1. IsFiniteSet(T) /\ Cardinality(T) = IF 1 \in S THEN Cardinality(S) - 1 ELSE Cardinality(S)
    BY <1>2, FS_RemoveElement
  <2> QED BY <1>2, <1>3, <2>1
<1>5. \A i \in T : i \in 2..Len(queue) /\ queue[i].fn = "scenario"
  BY <1>1, <1>2 DEF Scenarios
<1>6. \A i \in T : i - 1 \in Scenarios(queue')
  BY <1>1, <1>5 DEF Scenarios
<1>7. \A k \in Scenarios(queue') : k \in Int /\ k + 1 \in T /\ (k + 1) - 1 = k
  BY <1>1 DEF Scenarios
<1>8. g \in Bijection(T, Scenarios(queue'))
  <2>1. g \in [T -> Scenarios(queue')]
    BY <1>6
  <2>2. \A a, b \in T : g[a] = g[b] => a = b
    BY <1>5
  <2>3. \A k \in Scenarios(queue') : \E i \in T : g[i] = k
    BY <1>7
  <2> QED BY <2>1, <2>2, <2>3 DEF Bijection, Injection, Surjection, IsInjective
<1>9. ExistsBijection(T, Scenarios(queue'))
  BY <1>8 DEF ExistsBijection
<1>10. Cardinality(Scenarios(queue')) = Cardinality(T)
  <2> HIDE DEF T
  <2> QED BY <1>4, <1>9, FS_Bijection
<1> QED BY <1>4, <1>10

LEMMA OneMore ==
  ASSUME Typed, Nowait(<<>>)
  PROVE  Cardinality(Scenarios(queue')) = Cardinality(Scenarios(queue)) + 1
<1>1. queue' = Append(queue, Job("scenario", <<>>, FALSE))
  BY DEF Nowait
<1>2. /\ DOMAIN queue = 1..Len(queue) /\ DOMAIN queue' = 1..(Len(queue) + 1)
      /\ Len(queue) \in Nat
      /\ \A i \in 1..Len(queue) : queue'[i] = queue[i]
      /\ queue'[Len(queue) + 1].fn = "scenario"
  BY <1>1, Queueing
<1>3. Scenarios(queue') = Scenarios(queue) \cup {Len(queue) + 1}
  BY <1>2 DEF Scenarios
<1>4. Len(queue) + 1 \notin Scenarios(queue)
  BY <1>2 DEF Scenarios
<1>5. IsFiniteSet(Scenarios(queue))
  BY CountingScenarios DEF Typed, QueueOK
<1> QED BY <1>3, <1>4, <1>5, FS_AddElement

\* The other ways to change the queue keep its scenarios, or empty it.
LEMMA NoneMore ==
  ASSUME Typed, [Next]_vars, ~RunJobs, ~ScenarioQueued, ~ScenarioAnswerLost
  PROVE  Scenarios(queue') = Scenarios(queue) \/ Scenarios(queue') = {}
<1>1. CASE UNCHANGED queue
  BY <1>1
<1>2. CASE queue' = <<>>
  BY <1>2, Emptying DEF Scenarios
<1>3. CASE NoAnswer
  BY <1>3, LettingGo DEF Scenarios
<1>4. ASSUME NEW what, NEW f, NEW x, Call(what, f, x), f # "scenario", ~UNCHANGED queue
      PROVE  Scenarios(queue') = Scenarios(queue)
  <2>1. queue' = Append(queue, Job(f, x, TRUE))
    BY <1>4 DEF Call
  <2>2. /\ DOMAIN queue = 1..Len(queue) /\ DOMAIN queue' = 1..(Len(queue) + 1)
        /\ Len(queue) \in Nat
        /\ \A i \in 1..Len(queue) : queue'[i] = queue[i]
        /\ queue'[Len(queue) + 1].fn = f
    BY <2>1, Queueing
  <2> QED BY <1>4, <2>2 DEF Scenarios
<1> QED BY <1>1, <1>2, <1>3, <1>4, QueueMoves

LEMMA ClosedStep == Typed /\ ClosedInv /\ [Next]_vars => ClosedInv'
<1> SUFFICES ASSUME Typed, ClosedInv, [Next]_vars, pc' = "open" \/ doing' \in Guarded
             PROVE  ~isOpen'
  BY DEF ClosedInv
<1> USE DEF ClosedInv, Guarded
<1>0. Placed
  BY DEF Typed
<1>1. CASE RunJobs
  BY <1>1, JobSteps
<1>2. CASE KeyArrives \/ Disturb \/ UNCHANGED vars
  BY <1>2, OutsideSteps
<1>3. CASE Crash
  BY <1>3 DEF Crash, OnItsOwn, dsl
<1>4. CASE Setup
  BY <1>4 DEF Setup, StartTest, FreshNvda, ResetFresh, ResetBefore, Call, Proceed, dsl
<1>5. CASE Steps
  BY <1>5 DEF Steps, Press, SetConfig, StepEnds, Relaunch, Relaunched, EndBody, NoneOpen, Call,
              Proceed, Raised, dsl
<1>6. CASE DialogSteps
  BY <1>6 DEF DialogSteps, OpenDialog, Settled, SettleLost, ScenarioQueued,
              ScenarioAnswerLost, ScenarioRefused, CloseDialog, CloseLost, CloseSent,
              EscapeSent, PollExpires, PollFails, StartPolling, NoneOpen, Call, Proceed,
              Raised, dsl
<1>7. CASE AddonSteps
  BY <1>7 DEF AddonSteps, InstallAddon, RemoveAddon, Installed, NotInstalled, RemovalMarked,
              RestartToComplete, AskState, StateChecked, NoneOpen, Call, Proceed, Raised, dsl
<1>8. CASE Teardown
  BY <1>8 DEF Teardown, CheckLog, NothingLeaked, CloseLeftover, CloseLeftoverLost,
              LeftoverGone, LeakReported, BeginUndo, StartPolling, RestartForLeftover,
              UndoNext, UndoPresent, UndoneOne, UndoneAll, RestartToUndo, ResetAfter,
              TestOver, Call, Proceed, Failed, Returned, NoAnswer, Restarted, RestartFailed, dsl
<1> QED BY <1>1, <1>2, <1>3, <1>4, <1>5, <1>6, <1>7, <1>8 DEF Next, Test

\* The steps of the test's body that leave its keys and what it takes for open alone.
LEMMA OtherBodySteps ==
  ASSUME Next, ~DeskNext, ~ResetBefore, InBody'
  PROVE  InBody /\ UNCHANGED <<missed, isOpen>>
<1> USE DEF InBody, Guarded
<1>1. CASE Setup
  BY <1>1 DEF Setup, ResetFresh, Call, DeskNext
<1>2. CASE Steps
  BY <1>2 DEF Steps, Press, SetConfig, StepEnds, Relaunch, EndBody, Step, Call, Proceed, Raised,
              DeskNext, nvda, beliefs, dsl
<1>3. CASE DialogSteps
  BY <1>3 DEF DialogSteps, DialogStep, OpenDialog, SettleLost, ScenarioRefused, CloseLost,
              PollExpires, Call, Proceed, Raised, DeskNext, nvda, beliefs, dsl
<1>4. CASE AddonSteps
  BY <1>4 DEF AddonSteps, InstallAddon, RemoveAddon, Installed, NotInstalled, RemovalMarked,
              AskState, StateChecked, Step, Call, Proceed, Raised, DeskNext, nvda, beliefs, dsl
<1>5. CASE Teardown
  BY <1>5 DEF Teardown, CheckLog, NothingLeaked, CloseLeftoverLost, LeftoverGone,
              LeakReported, BeginUndo, UndoNext, UndoPresent, UndoneOne, UndoneAll,
              ResetAfter, TestOver, Call, Proceed, DeskNext
<1> QED BY <1>1, <1>2, <1>3, <1>4, <1>5 DEF Next, Test, DeskNext

LEMMA OwedStep == Typed /\ AnswerInv /\ ClosedInv /\ OwedInv /\ [Next]_vars => OwedInv'
<1> SUFFICES ASSUME Typed, AnswerInv, ClosedInv, OwedInv, [Next]_vars, InBody', ~missed'
             PROVE  Owed' <= keys' + 1 /\ (isOpen' \/ Owed' <= keys')
  BY DEF OwedInv
<1> DEFINE n == Cardinality(Scenarios(queue))
           m == Cardinality(Scenarios(queue'))
<1>0. /\ keys \in Nat /\ keys' \in Nat /\ isOpen \in BOOLEAN /\ "none" \notin Dialogs
      /\ n \in Nat /\ m \in Nat /\ Placed
      /\ Owed = n + (IF shown = "none" THEN 0 ELSE 1)
      /\ Owed' = m + (IF shown' = "none" THEN 0 ELSE 1)
  <2>1. Typed'
    BY TypedStep
  <2>2. n \in Nat /\ m \in Nat
    BY <2>1, CountingScenarios DEF Typed, QueueOK
  <2> QED BY <2>1, <2>2, DialogsAssumption DEF Typed, DesktopOK, TestOK, Owed
<1>i. Owed \in Nat /\ Owed' \in Nat
  BY <1>0
<1>e. queue' = <<>> => m = 0
  BY Emptying, FS_EmptySet DEF Scenarios
<1>k. ~RunJobs /\ ~ScenarioQueued /\ ~ScenarioAnswerLost => m = n \/ m = 0
  BY NoneMore, FS_EmptySet
<1> HIDE DEF n, m
<1>1. CASE RunJobs
  <2>1. PICK f, v : RunJob(f, v)
    BY <1>1, RunsAJob
  <2>2. m = n - (IF f = "scenario" THEN 1 ELSE 0)
    BY <2>1, OneLess DEF n, m
  <2>3. /\ UNCHANGED <<pc, doing, missed, isOpen>> /\ shown = "none"
        /\ ~RunScenario => UNCHANGED desktop
    BY <1>1, JobSteps
  <2>4. UNCHANGED keys /\ (RunScenario => f = "scenario")
    <3>1. RunScenario => UNCHANGED keys
      BY DEF RunScenario, Show, desktop
    <3>2. RunScenario => f = "scenario"
      BY <2>1, TakingAJob DEF RunScenario
    <3> QED BY <2>3, <3>1, <3>2 DEF desktop
  <2>5. Owed <= keys + 1 /\ (isOpen \/ Owed <= keys)
    BY <2>3 DEF OwedInv, InBody
  <2>6. Owed' <= Owed
    BY <1>0, <2>2, <2>3, <2>4 DEF desktop
  <2> QED BY <1>0, <1>i, <2>3, <2>4, <2>5, <2>6
<1>2. CASE KeyArrives
  <2>1. KeyClosesDialog
    BY <1>2 DEF KeyArrives, KeyLeavesDialog, KeyGoesAstray, Missed
  <2>2. UNCHANGED <<queue, missed>> /\ foreground = shown /\ shown' = "none" /\ keys' = keys - 1
    BY <2>1 DEF KeyClosesDialog, Gone
  <2>3. UNCHANGED <<pc, doing, isOpen>>
    BY <1>2, OutsideSteps
  <2>4. shown # "none"
    BY <2>2, DialogsAssumption DEF Typed, DesktopOK, Windows, Standing
  <2>5. Owed <= keys + 1 /\ (isOpen \/ Owed <= keys) /\ m = n
    BY <2>2, <2>3 DEF OwedInv, InBody, n, m
  <2> QED BY <1>0, <2>2, <2>3, <2>4, <2>5
<1>3. CASE Disturb \/ UNCHANGED vars
  <2>1. UNCHANGED <<queue, pc, doing, isOpen>> /\ shown' \in {shown, "none"}
    BY <1>3, OutsideSteps
  <2>2. UNCHANGED <<missed, keys>>
    BY <1>3 DEF Disturb, FocusMoves, DialogEnds, vars, nvda, desktop, beliefs
  <2>3. Owed <= keys + 1 /\ (isOpen \/ Owed <= keys) /\ m = n
    BY <2>1, <2>2 DEF OwedInv, InBody, n, m
  <2> QED BY <1>0, <2>1, <2>2, <2>3
<1>4. CASE Crash \/ FreshNvda \/ Relaunched \/ RestartToComplete \/ RestartForLeftover
           \/ RestartToUndo
  <2>1. queue' = <<>> /\ shown' = "none" /\ keys' = 0
    BY <1>4 DEF Crash, FreshNvda, Relaunched, RestartToComplete, RestartForLeftover,
                RestartToUndo, Restarted, RestartFailed, Cleared
  <2> QED BY <1>0, <1>e, <2>1
<1>5. ~StartTest /\ ~EscapeSent /\ ~CloseLeftover
  BY DEF StartTest, Call, EscapeSent, CloseLeftover, StartPolling, InBody, Guarded
<1>6. CASE ResetBefore
  <2>1. answer = "ok" /\ pc = "await" /\ UNCHANGED <<queue, shown>>
    BY <1>6 DEF ResetBefore, Returned, Proceed, InBody, Guarded, desktop
  <2>2. queue' = <<>> /\ shown' = "none"
    BY <2>1 DEF AnswerInv
  <2>3. m = 0
    BY <1>e, <2>2
  <2>4. \A k \in Nat : 0 <= k /\ 0 <= k + 1
    OBVIOUS
  <2>k. keys' \in Nat
    BY <1>0
  <2>5. Owed' = 0
    BY <1>0, <2>2, <2>3
  <2> QED BY <2>4, <2>5, <2>k, Zenon
<1>7. CASE Settled
  <2>1. /\ UNCHANGED <<shown, keys, missed, isOpen>> /\ doing = "settle"
    BY <1>7 DEF Settled, desktop, dsl
  <2>2. m = n \/ m = 0
    <3>1. pc = "await" /\ pc' = "open"
      BY <1>7 DEF Settled, Returned, NoAnswer, Proceed
    <3>2. ~RunJobs
      BY <3>1, JobSteps
    <3>3. ~ScenarioQueued /\ ~ScenarioAnswerLost
      BY <3>1 DEF ScenarioQueued, ScenarioAnswerLost
    <3> QED BY <1>k, <3>2, <3>3
  <2>3. Owed <= keys + 1 /\ (isOpen \/ Owed <= keys)
    BY <2>1 DEF OwedInv, InBody, Guarded
  <2> QED BY <1>0, <2>1, <2>2, <2>3
<1>8. CASE ScenarioQueued
  <2>1. /\ pc = "open" /\ Nowait(<<>>) /\ isOpen' = TRUE
        /\ UNCHANGED <<shown, keys, missed>>
    BY <1>8 DEF ScenarioQueued, Nowait, beliefs
  <2>2. m = n + 1
    BY <2>1, OneMore DEF n, m
  <2>3. Owed <= keys /\ ~isOpen
    BY <2>1 DEF OwedInv, InBody, ClosedInv
  <2> QED BY <1>0, <2>1, <2>2, <2>3
<1>9. ~ScenarioAnswerLost
  BY DEF ScenarioAnswerLost, Missed
<1>10. CASE CloseDialog
  <2>1. UNCHANGED <<queue, shown, keys, missed, isOpen>> /\ pc = "body"
    BY <1>10 DEF CloseDialog, DialogStep, StartPolling, dsl
  <2>2. Owed <= keys + 1 /\ (isOpen \/ Owed <= keys) /\ m = n
    BY <2>1 DEF OwedInv, InBody, n, m
  <2> QED BY <1>0, <2>1, <2>2
<1>11. CASE CloseSent
  <2>1. /\ UNCHANGED <<queue, shown, missed>> /\ keys' = keys + 1 /\ isOpen' = FALSE
        /\ pc = "poll" /\ doing = "close"
    BY <1>11 DEF CloseSent, SendKey, beliefs
  <2>2. Owed <= keys + 1 /\ (isOpen \/ Owed <= keys) /\ m = n
    BY <2>1 DEF OwedInv, InBody, n, m
  <2> QED BY <1>0, <2>1, <2>2
<1>12. CASE PollFails
  <2>1. /\ UNCHANGED <<queue, shown, missed, isOpen>> /\ keys' \in {keys, keys + 1}
        /\ pc = "poll"
    BY <1>12 DEF PollFails, beliefs, dsl
  <2>2. doing = "close"
    BY <1>12 DEF PollFails, InBody, Guarded
  <2>3. Owed <= keys + 1 /\ (isOpen \/ Owed <= keys) /\ m = n
    BY <2>1, <2>2 DEF OwedInv, InBody, n, m
  <2>4. Owed' = Owed
    BY <1>0, <2>1, <2>3
  <2>5. CASE UNCHANGED keys
    BY <2>1, <2>3, <2>4, <2>5
  <2>6. CASE keys' = keys + 1
    <3>1. keys \in Nat /\ Owed \in Nat /\ Owed <= keys + 1
      BY <1>0, <2>3
    <3> QED BY <2>4, <2>6, <3>1
  <2> QED BY <2>1, <2>5, <2>6
<1>13. CASE Next /\ ~DeskNext /\ ~ResetBefore
  <2>1. InBody /\ UNCHANGED <<missed, isOpen>>
    BY <1>13, OtherBodySteps
  <2>2. UNCHANGED <<shown, keys>>
    BY <1>13, OtherSteps
  <2>3. m = n \/ m = 0
    BY <1>13, <1>k DEF DeskNext
  <2>4. Owed <= keys + 1 /\ (isOpen \/ Owed <= keys)
    BY <2>1 DEF OwedInv
  <2> QED BY <1>0, <2>1, <2>2, <2>3, <2>4
<1> QED BY <1>1, <1>2, <1>3, <1>4, <1>5, <1>6, <1>7, <1>8, <1>9, <1>10, <1>11, <1>12, <1>13
        DEF DeskNext

(* A step that asks first whether a dialog is open never waits behind one  *)
(* that no key is under way to, however many dialogs a test opens and      *)
(* closes, unless a key has missed its dialog or an answer was lost.       *)
THEOREM GuardsAreSound == Spec => []GuardedStepsSeeDialogs
<1>1. Init => ClosedInv /\ OwedInv
  BY DEF Init, ClosedInv, OwedInv, InBody, Guarded
<1>2. Typed /\ ClosedInv /\ OwedInv => GuardedStepsSeeDialogs
  <2> SUFFICES ASSUME Typed, ClosedInv, OwedInv, doing \in Guarded, shown # "none", ~missed
               PROVE  keys > 0
    BY DEF GuardedStepsSeeDialogs
  <2>1. Owed <= keys /\ ~isOpen
    BY DEF OwedInv, ClosedInv, InBody
  <2>2. Cardinality(Scenarios(queue)) \in Nat /\ keys \in Nat
    BY CountingScenarios DEF Typed, QueueOK, DesktopOK
  <2> QED BY <2>1, <2>2 DEF Owed
<1>3. Spec => [](ClosedInv /\ OwedInv)
  BY <1>1, ClosedStep, OwedStep, TypedAlways, CleanAlways, PTL DEF Spec
<1> QED BY <1>2, <1>3, TypedAlways, PTL
--------------------------------------------------------------------------------
(* What a test's calls are to NVDA's main thread: JobQueue.                *)

FlagsOf(q) == [i \in DOMAIN q |-> q[i].awaited]
Flags == FlagsOf(queue)
Waiting == pc = "await"
Answers == AddonState \cup {"ok", "failed"}

LEMMA FlagsAreFlags ==
  ASSUME NEW q \in Seq(Jobs)
  PROVE  FlagsOf(q) \in Seq(BOOLEAN) /\ Len(FlagsOf(q)) = Len(q)
<1>1. Len(q) \in Nat /\ DOMAIN q = 1..Len(q) /\ \A i \in 1..Len(q) : q[i] \in Jobs
  OBVIOUS
<1>2. \A j \in Jobs : j.awaited \in BOOLEAN
  BY DEF Jobs
<1>3. FlagsOf(q) \in [1..Len(q) -> BOOLEAN]
  BY <1>1, <1>2 DEF FlagsOf
<1> QED BY <1>1, <1>3

LEMMA FlagsOfAppend ==
  ASSUME NEW q \in Seq(Jobs), NEW j, NEW w \in BOOLEAN, j.awaited = w
  PROVE  FlagsOf(Append(q, j)) = Append(FlagsOf(q), w)
<1> DEFINE t == Append(q, j)
           g == Append(FlagsOf(q), w)
<1>1. /\ Len(q) \in Nat /\ DOMAIN q = 1..Len(q) /\ DOMAIN t = 1..(Len(q) + 1)
      /\ \A i \in 1..Len(q) : t[i] = q[i]
      /\ t[Len(q) + 1] = j
  <2>1. q \in Seq(Jobs \cup {j}) /\ j \in Jobs \cup {j}
    OBVIOUS
  <2> QED BY <2>1, Appending
<1>2. FlagsOf(q) \in Seq(BOOLEAN) /\ Len(FlagsOf(q)) = Len(q)
  BY FlagsAreFlags
<1>3. /\ g \in Seq(BOOLEAN) /\ DOMAIN g = 1..(Len(q) + 1)
      /\ g[Len(q) + 1] = w
      /\ \A i \in 1..Len(q) : g[i] = FlagsOf(q)[i]
  BY <1>2, Appending
<1> HIDE DEF t, g
<1>4. ASSUME NEW i \in 1..(Len(q) + 1) PROVE t[i].awaited = g[i]
  <2>1. CASE i \in 1..Len(q)
    BY <1>1, <1>3, <2>1 DEF FlagsOf
  <2>2. CASE i = Len(q) + 1
    BY <1>1, <1>3, <2>2
  <2> QED BY <1>1, <2>1, <2>2
<1>5. FlagsOf(t) = [i \in 1..(Len(q) + 1) |-> g[i]]
  BY <1>1, <1>4 DEF FlagsOf
<1>6. g = [i \in DOMAIN g |-> g[i]]
  BY <1>3
<1> QED BY <1>3, <1>5, <1>6 DEF t, g

LEMMA FlagsOfTail ==
  ASSUME NEW q \in Seq(Jobs), q # <<>>
  PROVE  /\ FlagsOf(q) # <<>> /\ Head(FlagsOf(q)) = Head(q).awaited
         /\ FlagsOf(Tail(q)) = Tail(FlagsOf(q))
<1>1. /\ Len(q) \in Nat /\ Len(q) >= 1 /\ DOMAIN q = 1..Len(q) /\ Head(q) = q[1]
      /\ DOMAIN Tail(q) = 1..(Len(q) - 1)
      /\ \A i \in 1..(Len(q) - 1) : Tail(q)[i] = q[i + 1]
  BY Shifting
<1>2. FlagsOf(q) \in Seq(BOOLEAN) /\ Len(FlagsOf(q)) = Len(q)
  BY FlagsAreFlags
<1>3. FlagsOf(q) # <<>>
  BY <1>1, <1>2
<1> DEFINE h == Tail(FlagsOf(q))
<1>4. /\ Head(FlagsOf(q)) = FlagsOf(q)[1] /\ DOMAIN h = 1..(Len(q) - 1)
      /\ h \in Seq(BOOLEAN)
      /\ \A i \in 1..(Len(q) - 1) : h[i] = FlagsOf(q)[i + 1]
  BY <1>2, <1>3, Shifting
<1>5. \A i \in 1..Len(q) : FlagsOf(q)[i] = q[i].awaited
  BY <1>1 DEF FlagsOf
<1>6. Head(FlagsOf(q)) = Head(q).awaited
  BY <1>1, <1>4, <1>5
<1> HIDE DEF h
<1>7. \A i \in 1..(Len(q) - 1) : Tail(q)[i].awaited = h[i]
  BY <1>1, <1>4, <1>5
<1>8. FlagsOf(Tail(q)) = [i \in 1..(Len(q) - 1) |-> h[i]]
  BY <1>1, <1>7 DEF FlagsOf
<1>9. h = [i \in DOMAIN h |-> h[i]]
  BY <1>4
<1> QED BY <1>3, <1>4, <1>6, <1>8, <1>9 DEF h

\* The kinds of steps there are, of a test and of NVDA.
LEMMA BridgeMoves ==
  ASSUME Placed, [Next]_vars
  PROVE  \/ RunJobs \/ UNCHANGED <<queue, answer, Waiting>>
         \/ queue' = <<>> /\ UNCHANGED <<answer, Waiting>>
         \/ ~Waiting' /\ (NoAnswer \/ \E v \in Answers : Returned(v))
         \/ ~Waiting /\ ~Waiting' /\ UNCHANGED answer /\ Nowait(<<>>)
         \/ (~Waiting \/ answer # "none") /\ \E what, f, x : Call(what, f, x)
<1> USE DEF Waiting
<1>1. CASE KeyArrives \/ Disturb \/ Crash \/ UNCHANGED vars
  BY <1>1, OutsideSteps DEF Crash, Cleared, OnItsOwn
<1>2. CASE StartTest \/ ResetFresh
  BY <1>2 DEF StartTest, ResetFresh
<1>3. CASE FreshNvda \/ Relaunched \/ RestartToComplete \/ RestartForLeftover
           \/ RestartToUndo
  <2>1. queue' = <<>> /\ answer' = answer /\ pc = "restart" /\ pc' # "await"
    BY <1>3 DEF FreshNvda, Relaunched, RestartToComplete, RestartForLeftover, RestartToUndo,
                Restarted, RestartFailed, Cleared, Proceed, Raised, LeakReported, BeginUndo
  <2> QED BY <2>1
<1>4. CASE ResetBefore \/ StepEnds \/ Settled \/ SettleLost
  <2>1. /\ pc' # "await"
        /\ NoAnswer \/ Returned("ok") \/ Returned("failed")
    BY <1>4 DEF ResetBefore, StepEnds, Settled, SettleLost, Failed, Proceed, Raised
  <2> QED BY <2>1 DEF Answers
<1>5. CASE Installed \/ NotInstalled \/ RemovalMarked \/ StateChecked
  <2>1. /\ pc' # "await"
        /\ NoAnswer \/ \E v \in AddonState \cup {"ok", "failed"} : Returned(v)
    BY <1>5 DEF Installed, NotInstalled, RemovalMarked, StateChecked, Failed, Proceed, Raised,
                AddonState
  <2> QED BY <2>1 DEF Answers
<1>6. CASE LeftoverGone \/ UndoneOne \/ TestOver
  <2>1. /\ pc' # "await"
        /\ NoAnswer \/ \E v \in AddonState \cup {"ok", "failed"} : Returned(v)
    BY <1>6 DEF LeftoverGone, UndoneOne, TestOver, Failed, Proceed, LeakReported, BeginUndo,
                AddonState
  <2> QED BY <2>1 DEF Answers
<1>7. CASE Press \/ (\E p \in Paths : SetConfig(p)) \/ OpenDialog
           \/ (\E a \in Addons : InstallAddon(a) \/ RemoveAddon(a))
  BY <1>7 DEF Press, SetConfig, OpenDialog, InstallAddon, RemoveAddon, Step, DialogStep
<1>8. CASE AskState \/ UndoNext \/ UndoPresent \/ ResetAfter
  BY <1>8 DEF AskState, UndoNext, UndoPresent, ResetAfter, AddonState
<1>9. CASE EscapeSent
  BY <1>9 DEF EscapeSent, SendKey
<1>10. CASE PollExpires \/ PollFails
  BY <1>10 DEF PollExpires, PollFails, Raised, Proceed
<1>11. CASE ScenarioQueued \/ ScenarioAnswerLost
  BY <1>11 DEF ScenarioQueued, ScenarioAnswerLost, Proceed, Raised
<1>12. CASE Relaunch \/ EndBody \/ ScenarioRefused \/ CloseDialog \/ CloseLost \/ CloseSent
  BY <1>12 DEF Relaunch, EndBody, ScenarioRefused, CloseDialog, CloseLost, CloseSent, Step,
               DialogStep, StartPolling, SendKey, Proceed, Raised
<1>13. CASE CheckLog \/ NothingLeaked \/ CloseLeftover \/ CloseLeftoverLost \/ UndoneAll
  BY <1>13 DEF CheckLog, NothingLeaked, CloseLeftover, CloseLeftoverLost, UndoneAll,
               BeginUndo, StartPolling, Proceed
<1>14. CASE RunJobs
  BY <1>14
<1> QED BY <1>1, <1>2, <1>3, <1>4, <1>5, <1>6, <1>7, <1>8, <1>9, <1>10, <1>11, <1>12, <1>13,
           <1>14
        DEF Next, Test, Setup, Steps, DialogSteps, AddonSteps, Teardown

LEMMA JobsAnswer == RunJobs => \E f \in Fns, v \in Answers : RunJob(f, v)
<1>1. StateOf(store[Arg[1]]) \in Answers
  BY StateKinds DEF Answers
<1>2. "ok" \in Answers /\ "failed" \in Answers
  BY DEF Answers
<1> QED BY <1>1, <1>2
        DEF Fns, RunJobs, RunScenario, RunNoop, RunSet, RunRestore, RunInstall, RunState,
            RunRemove

LEMMA AnswersAreSome == "none" \notin Answers
  BY DEF Answers, AddonState

LEMMA BridgeStep == Typed /\ [Next]_vars => [Bridge!MortalNext]_(Bridge!vars)
<1> SUFFICES ASSUME Typed, [Next]_vars PROVE Bridge!MortalNext \/ UNCHANGED Bridge!vars
  OBVIOUS
<1>q. queue \in Seq(Jobs) /\ Placed
  BY DEF Typed, QueueOK
<1>f. Flags' = FlagsOf(queue')
  BY DEF Flags, FlagsOf
<1>1. CASE RunJobs
  <2>1. PICK f \in Fns, v \in Answers : RunJob(f, v)
    BY <1>1, JobsAnswer
  <2>2. /\ queue # <<>> /\ queue' = Tail(queue) /\ pc' = pc
        /\ answer' = IF Head(queue).awaited THEN v ELSE answer
    BY <2>1 DEF RunJob
  <2>3. /\ Flags # <<>> /\ Head(Flags) = Head(queue).awaited /\ Flags' = Tail(Flags)
    BY <1>f, <1>q, <2>2, FlagsOfTail DEF Flags
  <2>4. IF Head(Flags) THEN answer' \in Answers ELSE answer' = answer
    BY <2>1, <2>2, <2>3
  <2>5. Bridge!Run
    BY <2>2, <2>3, <2>4 DEF Bridge!Run, Flags, FlagsOf, Answers
  <2> QED BY <2>5 DEF Bridge!MortalNext, Bridge!Next
<1>2. CASE UNCHANGED <<queue, answer, Waiting>>
  BY <1>2 DEF Bridge!vars, Waiting
<1>3. CASE queue' = <<>> /\ UNCHANGED <<answer, Waiting>>
  <2>1. Flags' = <<>>
    BY <1>3, <1>f, Emptying DEF FlagsOf
  <2>2. Bridge!End
    BY <1>3, <2>1 DEF Bridge!End, Flags, FlagsOf, Waiting
  <2> QED BY <2>2 DEF Bridge!MortalNext
<1>4. CASE ~Waiting' /\ \E v \in Answers : Returned(v)
  <2>1. /\ pc = "await" /\ answer # "none" /\ answer' = "none" /\ UNCHANGED queue
        /\ pc' # "await"
    BY <1>4, AnswersAreSome DEF Returned, Waiting
  <2>2. Bridge!Return
    BY <2>1 DEF Bridge!Return
  <2> QED BY <2>2 DEF Bridge!MortalNext, Bridge!Next
<1>5. CASE ~Waiting' /\ NoAnswer
  <2>1. /\ pc = "await" /\ answer = "none" /\ UNCHANGED answer /\ pc' # "await"
        /\ queue' = LetGo(queue)
    BY <1>5 DEF NoAnswer, LetGo, Waiting
  <2>2. DOMAIN queue' = DOMAIN queue
        /\ \A i \in DOMAIN queue : queue'[i].awaited = FALSE
    BY <1>q, <2>1, GivingUp
  <2>3. Flags' = [i \in DOMAIN Flags |-> FALSE]
    BY <1>f, <2>2 DEF Flags, FlagsOf
  <2>4. Bridge!GiveUp
    BY <2>1, <2>3 DEF Bridge!GiveUp, Flags, FlagsOf
  <2> QED BY <2>4 DEF Bridge!MortalNext, Bridge!Next
<1>6. CASE ~Waiting /\ ~Waiting' /\ UNCHANGED answer /\ Nowait(<<>>)
  <2>1. PICK j : queue' = Append(queue, j) /\ j.awaited = FALSE
    BY <1>6 DEF Nowait, Job
  <2>2. Flags' = Append(Flags, FALSE)
    <3>1. FlagsOf(Append(queue, j)) = Append(FlagsOf(queue), FALSE)
      BY <1>q, <2>1, FlagsOfAppend
    <3> QED BY <1>f, <2>1, <3>1 DEF Flags
  <2>3. Bridge!Post
    BY <1>6, <2>2 DEF Bridge!Post, Flags, FlagsOf, Waiting
  <2> QED BY <2>3 DEF Bridge!MortalNext, Bridge!Next
<1>7. CASE (~Waiting \/ answer # "none") /\ \E what, f, x : Call(what, f, x)
  <2>1. PICK what, f, x : Call(what, f, x)
    BY <1>7
  <2> DEFINE j == Job(f, x, TRUE)
  <2>2. /\ pc' = "await" /\ answer' = "none" /\ j.awaited = TRUE
        /\ queue' = Append(queue, j) \/ UNCHANGED queue
    BY <2>1 DEF Call, Job
  <2> HIDE DEF j
  <2>3. Bridge!Idle
    BY <1>7 DEF Bridge!Idle, Waiting
  <2>4. CASE queue' = Append(queue, j)
    <3>1. Flags' = Append(Flags, TRUE)
      <4>1. FlagsOf(Append(queue, j)) = Append(FlagsOf(queue), TRUE)
        BY <1>q, <2>2, FlagsOfAppend
      <4> QED BY <1>f, <2>2, <2>4, <4>1 DEF Flags
    <3>2. Bridge!Call
      BY <2>2, <2>3, <3>1 DEF Bridge!Call, Flags, FlagsOf
    <3> QED BY <3>2 DEF Bridge!MortalNext, Bridge!Next
  <2>5. CASE UNCHANGED queue
    <3>1. Bridge!CallNobody
      BY <2>2, <2>3, <2>5 DEF Bridge!CallNobody
    <3> QED BY <3>1 DEF Bridge!MortalNext
  <2> QED BY <2>2, <2>4, <2>5
<1> QED BY <1>q, <1>1, <1>2, <1>3, <1>4, <1>5, <1>6, <1>7, BridgeMoves

(* For every number of tests and however late NVDA is: through setup,      *)
(* steps, teardown and the death of an NVDA the calls are JobQueue's, one  *)
(* at a time, each with the answer of its own job or none.                 *)
THEOREM CallsImplementJobQueue == Spec => ImplementsJobQueue
<1>1. Init => Bridge!Init
  <2> SUFFICES ASSUME Init PROVE Bridge!Init
    OBVIOUS
  <2>1. queue = <<>> /\ pc # "await" /\ answer = "none"
    BY DEF Init
  <2>2. [i \in DOMAIN queue |-> queue[i].awaited] = <<>>
    BY <2>1, Emptying
  <2> QED BY <2>1, <2>2 DEF Bridge!Init
<1> QED BY <1>1, TypedInit, TypedStep, BridgeStep, PTL
        DEF Spec, ImplementsJobQueue, Bridge!MortalSpec
================================================================================
