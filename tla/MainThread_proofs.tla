--------------------------- MODULE MainThread_proofs ---------------------------
(***************************************************************************)
(* Theorems about MainThread for every bound, checked by TLAPS.            *)
(*                                                                         *)
(* The argument: jobs are numbered in the order they are queued, so the    *)
(* queue is always the interval of numbers after the jobs popped, and the  *)
(* finished jobs are the interval up to the last one popped (less that one *)
(* while the main thread still has it).  Everything a caller is told       *)
(* follows from that, and from the caller waiting for its own job only.    *)
(***************************************************************************)
EXTENDS MainThread, SequenceTheorems, TLAPS

Popped == Len(kind) - Len(queue)

Busy == mainPc \in {"popped", "running", "returned"}

Waiting == rpcPc \in {"wait", "expired", "judge", "resume"}

QueueInv == /\ Len(queue) <= Len(kind)
            /\ \A i \in 1..Len(queue) : queue[i] = Popped + i

MainInv == /\ Busy => mainJob = Popped /\ Popped >= 1
           /\ finished = 1..(IF Busy THEN Popped - 1 ELSE Popped)
           /\ \A j \in Jobs :
                outcome[j] # "missing" <=>
                  j \in finished \/ (mainPc = "returned" /\ j = mainJob)

WaitInv ==
  /\ Waiting => /\ rpcJob \in 1..Len(kind)
                /\ kind[rpcJob] = rpcMethod
                /\ rpcMethod # "nowait"
  /\ rpcPc = "resume" => rpcJob \in finished
  /\ Waiting /\ rpcPc # "judge" => rpcJob \notin timedOut
  /\ Waiting => reply[rpcJob] = "none"

ReplyInv ==
  /\ \A j \in Jobs : j > Len(kind) => reply[j] = "none" /\ j \notin timedOut
  /\ \A j \in Jobs : reply[j] = "error" =>
       j <= Len(kind) /\ kind[j] \in Methods \ {"nowait"}

LogInv == \A j \in logged :
            j <= Len(kind) /\ (kind[j] \in {"event", "nowait"} \/ j \in timedOut)

KeysInv == rpcPc = "press" => rpcLeft >= 1

Inv == TypeOK /\ KeysInv /\ QueueInv /\ MainInv /\ WaitInv /\ ReplyInv /\ LogInv /\ RepliesAreTrue

USE BoundsAssumption

LEMMA InvInit == Init => Inv
<1> SUFFICES ASSUME Init PROVE Inv
  OBVIOUS
<1>1. TypeOK
  <2>1. queue \in Seq(Jobs) /\ kind \in Seq(Kinds) /\ Len(kind) <= MaxJobs
    BY DEF Init
  <2>2. started \subseteq Jobs /\ finished \subseteq Jobs /\ timedOut \subseteq Jobs
        /\ logged \subseteq Jobs
    BY DEF Init
  <2>3. outcome \in [Jobs -> Outcomes] /\ reply \in [Jobs -> Replies]
    BY DEF Init, Outcomes, Replies
  <2>4. mainPc \in MainPcs /\ rpcPc \in RpcPcs /\ rpcMethod \in Methods
        /\ mainJob \in Jobs \cup {0} /\ rpcJob \in Jobs \cup {0}
    BY DEF Init, MainPcs, RpcPcs, Methods
  <2>5. rpcLeft \in 0..MaxKeys /\ played \in Seq(Jobs) /\ sent \in Seq(Jobs)
    BY DEF Init
  <2>6. rpcPatient \in BOOLEAN /\ exiting \in BOOLEAN /\ shutdown \in BOOLEAN
    BY DEF Init
  <2> QED BY <2>1, <2>2, <2>3, <2>4, <2>5, <2>6 DEF TypeOK
<1>2. QueueInv /\ MainInv
  BY DEF Init, QueueInv, MainInv, Popped, Busy, Jobs
<1>3. KeysInv /\ WaitInv /\ ReplyInv /\ LogInv /\ RepliesAreTrue
  BY DEF Init, KeysInv, WaitInv, ReplyInv, LogInv, RepliesAreTrue, Waiting, Jobs
<1> QED BY <1>1, <1>2, <1>3 DEF Inv

LEMMA TypeStep == Inv /\ [Next]_vars => TypeOK'
<1> SUFFICES ASSUME Inv, [Next]_vars PROVE TypeOK'
  OBVIOUS
<1>b. (Busy => mainJob \in Jobs) /\ (Waiting => rpcJob \in Jobs)
  BY DEF Inv, TypeOK, MainInv, WaitInv, Popped, Busy, Waiting, Jobs
<1>k. (rpcPc = "press" => rpcLeft \in 1..MaxKeys) /\ TypeOK
  BY DEF Inv, TypeOK, KeysInv
<1> USE DEF TypeOK, jobVars, mainVars, rpcVars, Busy, Waiting
<1>1. CASE NvdaEvent
  BY <1>1, <1>b, <1>k DEF NvdaEvent, Enqueue, Jobs, Kinds
<1>2. CASE Pop
  BY <1>2, <1>b, <1>k DEF Pop, MainPcs
<1>3. CASE Enter
  BY <1>3, <1>b, <1>k DEF Enter, MainPcs
<1>4. CASE Return
  BY <1>4, <1>b, <1>k DEF Return, Outcomes, MainPcs
<1>5. CASE Raise
  BY <1>5, <1>b, <1>k DEF Raise, Outcomes, MainPcs
<1>6. CASE Leave
  BY <1>6, <1>b, <1>k DEF Leave, MainPcs
<1>7. CASE BeginStop
  BY <1>7, <1>b, <1>k DEF BeginStop, MainPcs
<1>8. CASE Joined
  BY <1>8, <1>b, <1>k DEF Joined, MainPcs
<1>9. CASE JoinTimesOut
  BY <1>9, <1>b, <1>k DEF JoinTimesOut, MainPcs
<1>10. CASE Close
  BY <1>10, <1>b, <1>k DEF Close, MainPcs
<1>11. CASE CallKeys
  BY <1>11, <1>b, <1>k DEF CallKeys, RpcPcs
<1>12. ASSUME NEW m \in {"idle", "quit", "run"}, CallAndWait(m)
      PROVE  TypeOK'
  <2>1. rpcPatient' \in BOOLEAN
    BY <1>12 DEF CallAndWait
  <2>2. rpcLeft' \in 0..MaxKeys /\ rpcMethod' \in Methods /\ rpcPc' \in RpcPcs
    BY <1>12 DEF CallAndWait, QueueAndWait, Methods, RpcPcs
  <2>3. queue' \in Seq(Jobs) /\ kind' \in Seq(Kinds) /\ Len(kind') <= MaxJobs
        /\ rpcJob' \in Jobs
    BY <1>12, <1>k DEF CallAndWait, QueueAndWait, Enqueue, Jobs, Kinds, Methods
  <2> QED BY <1>12, <1>k, <2>1, <2>2, <2>3 DEF CallAndWait, QueueAndWait, Enqueue
<1>13. CASE CallNowait
  BY <1>13, <1>b, <1>k DEF CallNowait, Enqueue, Jobs, Kinds, Methods, Replies
<1>14. CASE Press
  BY <1>14, <1>b, <1>k DEF Press, QueueAndWait, Enqueue, Jobs, Kinds, Methods, RpcPcs
<1>15. CASE WaitReturns
  BY <1>15, <1>b, <1>k DEF WaitReturns, RpcPcs
<1>16. CASE WaitExpires
  BY <1>16, <1>b, <1>k DEF WaitExpires, RpcPcs
<1>17. CASE GiveUp
  BY <1>17, <1>b, <1>k DEF GiveUp, RpcPcs
<1>18. CASE RaiseTimeout
  BY <1>18, <1>b, <1>k DEF RaiseTimeout, Replied, Replies, RpcPcs
<1>19. CASE ReRaise
  BY <1>19, <1>b, <1>k DEF ReRaise, Replied, Replies, RpcPcs
<1>20. CASE AnswerIdle
  BY <1>20, <1>b, <1>k DEF AnswerIdle, Replied, Replies, RpcPcs
<1>21. CASE AnswerValue
  BY <1>21, <1>b, <1>k DEF AnswerValue, Replied, Replies, RpcPcs
<1>22. CASE RecordPress
  <2>1. sent' \in Seq(Jobs) /\ reply' = [reply EXCEPT ![rpcJob] = "value"]
    BY <1>22, <1>b, <1>k DEF RecordPress, Replied
  <2>2. rpcPc' \in RpcPcs /\ rpcLeft' \in 0..MaxKeys
    BY <1>22, <1>k DEF RecordPress, Replied, RpcPcs
  <2>3. UNCHANGED <<queue, jobVars, mainVars, rpcMethod, rpcJob, rpcPatient, played,
                    exiting, shutdown>>
    BY <1>22 DEF RecordPress, Replied
  <2> QED BY <1>b, <1>k, <2>1, <2>2, <2>3 DEF Replies
<1>23. CASE LoopEnds
  BY <1>23, <1>b, <1>k DEF LoopEnds, RpcPcs
<1>24. CASE UNCHANGED vars
  BY <1>24, <1>k DEF vars
<1> QED BY <1>1, <1>2, <1>3, <1>4, <1>5, <1>6, <1>7, <1>8, <1>9, <1>10, <1>11, <1>12, <1>13, <1>14, <1>15, <1>16, <1>17, <1>18, <1>19, <1>20, <1>21, <1>22, <1>23, <1>24
        DEF Next, Pump, Stop, Call, Serve

\* What queueing one more job does to the queue and to the numbers.
LEMMA EnqueueFacts ==
  ASSUME Inv, NEW k \in Kinds, Enqueue(k)
  PROVE  /\ Len(kind') = Len(kind) + 1
         /\ Len(kind) + 1 \in Jobs
         /\ \A j \in 1..Len(kind) : kind'[j] = kind[j]
         /\ kind'[Len(kind) + 1] = k
         /\ Len(queue') = Len(queue) + 1
         /\ Popped' = Popped
         /\ QueueInv'
<1>1. /\ kind \in Seq(Kinds) /\ queue \in Seq(Jobs) /\ Len(kind) \in Nat
      /\ Len(queue) \in Nat /\ Len(queue) <= Len(kind) /\ Len(kind) < MaxJobs
      /\ \A i \in 1..Len(queue) : queue[i] = Popped + i
      /\ kind' = Append(kind, k) /\ queue' = Append(queue, Len(kind) + 1)
  BY DEF Inv, TypeOK, QueueInv, Enqueue
<1>2. Len(kind) + 1 \in Jobs
  BY <1>1 DEF Jobs
<1>3. /\ Len(kind') = Len(kind) + 1 /\ kind'[Len(kind) + 1] = k
      /\ \A j \in 1..Len(kind) : kind'[j] = kind[j]
  BY <1>1
<1>4. /\ Len(queue') = Len(queue) + 1 /\ queue'[Len(queue) + 1] = Len(kind) + 1
      /\ \A i \in 1..Len(queue) : queue'[i] = queue[i]
  BY <1>1, <1>2
<1>5. Popped' = Popped /\ Popped \in Nat /\ Popped + Len(queue) = Len(kind)
  BY <1>1, <1>3, <1>4 DEF Popped
<1>6. ASSUME NEW i \in 1..Len(queue')
      PROVE  queue'[i] = Popped' + i
  <2>1. CASE i \in 1..Len(queue)
    BY <1>1, <1>4, <1>5, <2>1
  <2>2. CASE i = Len(queue) + 1
    BY <1>1, <1>4, <1>5, <2>2
  <2> QED BY <1>1, <1>4, <2>1, <2>2
<1>7. QueueInv'
  BY <1>1, <1>3, <1>4, <1>6 DEF QueueInv
<1> QED BY <1>2, <1>3, <1>4, <1>5, <1>7

\* What popping does.
LEMMA PopFacts ==
  ASSUME Inv, Pop
  PROVE  /\ mainJob' = Popped + 1 /\ Popped' = Popped + 1
         /\ mainJob' \in Jobs /\ mainJob' <= Len(kind)
         /\ QueueInv'
<1>1. /\ kind \in Seq(Kinds) /\ queue \in Seq(Jobs) /\ Len(kind) \in Nat
      /\ Len(queue) \in Nat /\ Len(queue) <= Len(kind) /\ Len(kind) <= MaxJobs
      /\ \A i \in 1..Len(queue) : queue[i] = Popped + i
      /\ queue # <<>> /\ queue' = Tail(queue) /\ mainJob' = Head(queue)
      /\ kind' = kind
  BY DEF Inv, TypeOK, QueueInv, Pop, jobVars
<1>2. /\ Len(queue) >= 1 /\ Len(queue') = Len(queue) - 1 /\ Head(queue) = queue[1]
      /\ \A i \in 1..Len(queue') : queue'[i] = queue[i + 1]
  BY <1>1
<1>3. Popped \in Nat /\ Popped + Len(queue) = Len(kind) /\ Popped' = Popped + 1
  BY <1>1, <1>2 DEF Popped
<1>4. mainJob' = Popped + 1
  BY <1>1, <1>2
<1>5. ASSUME NEW i \in 1..Len(queue')
      PROVE  queue'[i] = Popped' + i
  <2>1. i + 1 \in 1..Len(queue) /\ queue'[i] = queue[i + 1]
    BY <1>1, <1>2
  <2> QED BY <1>1, <1>3, <2>1
<1>6. QueueInv'
  BY <1>1, <1>2, <1>5 DEF QueueInv
<1> QED BY <1>1, <1>2, <1>3, <1>4, <1>6 DEF Jobs

\* The finished jobs are the interval up to the one the main thread has.
LEMMA MainStep == Inv /\ [Next]_vars => QueueInv' /\ MainInv'
<1> SUFFICES ASSUME Inv, [Next]_vars PROVE QueueInv' /\ MainInv'
  OBVIOUS
<1>t. /\ Len(kind) \in Nat /\ Len(queue) \in Nat /\ Len(kind) <= MaxJobs
      /\ Popped \in Nat /\ outcome \in [Jobs -> Outcomes]
      /\ mainJob \in Jobs \cup {0} /\ MaxJobs \in Nat
      /\ QueueInv /\ MainInv
  BY DEF Inv, TypeOK, QueueInv, Popped
<1>1. CASE UNCHANGED <<queue, kind, finished, outcome, mainPc, mainJob>>
  BY <1>1, <1>t DEF QueueInv, MainInv, Popped, Busy
<1>2. ASSUME NEW k \in Kinds, Enqueue(k), UNCHANGED mainVars
      PROVE  QueueInv' /\ MainInv'
  <2>1. QueueInv' /\ Popped' = Popped
    BY <1>2, EnqueueFacts
  <2>2. MainInv'
    BY <1>2, <1>t, <2>1 DEF Enqueue, MainInv, Busy, mainVars
  <2> QED BY <2>1, <2>2
<1>3. CASE Pop
  <2>1. QueueInv' /\ mainJob' = Popped + 1 /\ Popped' = Popped + 1
    BY <1>3, PopFacts
  <2>2. /\ finished' = finished /\ outcome' = outcome /\ ~Busy /\ Busy'
        /\ mainPc' = "popped" /\ mainPc = "pump"
    BY <1>3 DEF Pop, jobVars, Busy
  <2>3. finished' = 1..(Popped' - 1)
    BY <1>t, <2>1, <2>2 DEF MainInv
  <2> QED BY <1>t, <2>1, <2>2, <2>3 DEF MainInv
<1>4. CASE Enter
  <2>1. /\ UNCHANGED <<queue, kind, finished, outcome, mainJob>>
        /\ mainPc = "popped" /\ mainPc' = "running" /\ Busy /\ Busy'
    BY <1>4 DEF Enter, Busy
  <2> QED BY <1>t, <2>1 DEF QueueInv, MainInv, Popped
<1>5. CASE Return \/ Raise
  <2>1. /\ UNCHANGED <<queue, kind, finished, mainJob>>
        /\ mainPc = "running" /\ mainPc' = "returned" /\ Busy /\ Busy'
        /\ outcome' \in {[outcome EXCEPT ![mainJob] = "value"],
                         [outcome EXCEPT ![mainJob] = "error"]}
    BY <1>5 DEF Return, Raise, Busy
  <2>2. mainJob = Popped /\ Popped >= 1 /\ finished = 1..(Popped - 1)
    BY <1>t, <2>1 DEF MainInv
  <2>3. \A j \in Jobs : outcome'[j] # "missing" <=> j \in finished \/ j = mainJob
    BY <1>t, <2>1 DEF MainInv
  <2>4. Popped' = Popped /\ QueueInv'
    BY <1>t, <2>1 DEF Popped, QueueInv
  <2> QED BY <2>1, <2>2, <2>3, <2>4 DEF MainInv
<1>6. CASE Leave
  <2>1. /\ UNCHANGED <<queue, kind, outcome, mainJob>>
        /\ mainPc = "returned" /\ mainPc' = "pump" /\ Busy /\ ~Busy'
        /\ finished' = finished \cup {mainJob}
    BY <1>6 DEF Leave, Busy
  <2>2. mainJob = Popped /\ Popped >= 1 /\ finished = 1..(Popped - 1)
    BY <1>t, <2>1 DEF MainInv
  <2>3. finished' = 1..Popped
    BY <1>t, <2>1, <2>2
  <2>4. Popped' = Popped /\ QueueInv'
    BY <1>t, <2>1 DEF Popped, QueueInv
  <2> QED BY <1>t, <2>1, <2>2, <2>3, <2>4 DEF MainInv
<1>7. CASE Stop
  <2>1. UNCHANGED <<queue, kind, finished, outcome, mainJob>> /\ ~Busy /\ ~Busy'
        /\ mainPc # "returned" /\ mainPc' # "returned"
    BY <1>7 DEF Stop, BeginStop, Joined, JoinTimesOut, Close, jobVars, Busy
  <2> QED BY <1>t, <2>1 DEF QueueInv, MainInv, Popped
<1>8. CASE NvdaEvent
  BY <1>2, <1>8 DEF NvdaEvent, Kinds
<1>9. CASE Call
  <2>1. CASE CallKeys
    BY <1>1, <2>1 DEF CallKeys, jobVars, mainVars
  <2>2. ASSUME NEW m \in {"idle", "quit", "run"}, CallAndWait(m)
        PROVE  QueueInv' /\ MainInv'
    BY <1>2, <2>2 DEF CallAndWait, QueueAndWait, Kinds, Methods
  <2>3. CASE CallNowait
    BY <1>2, <2>3 DEF CallNowait, Kinds, Methods
  <2> QED BY <1>9, <2>1, <2>2, <2>3 DEF Call
<1>10. CASE Serve
  <2>1. CASE Press
    BY <1>2, <2>1 DEF Press, QueueAndWait, Kinds, Methods
  <2>2. CASE Serve /\ ~Press
    BY <1>1, <2>2
       DEF Serve, WaitReturns, WaitExpires, GiveUp, RaiseTimeout, ReRaise, AnswerIdle,
           AnswerValue, RecordPress, LoopEnds, Replied, jobVars, mainVars
  <2> QED BY <1>10, <2>1, <2>2
<1>11. CASE UNCHANGED vars
  BY <1>1, <1>11 DEF vars, jobVars, mainVars
<1> QED BY <1>3, <1>4, <1>5, <1>6, <1>7, <1>8, <1>9, <1>10, <1>11 DEF Next, Pump

\* A caller is told of its own job, and only of what has become of it.
LEMMA CallStep ==
  Inv /\ [Next]_vars => KeysInv' /\ WaitInv' /\ ReplyInv' /\ LogInv' /\ RepliesAreTrue'
<1> SUFFICES ASSUME Inv, [Next]_vars
             PROVE  KeysInv' /\ WaitInv' /\ ReplyInv' /\ LogInv' /\ RepliesAreTrue'
  OBVIOUS
<1> DEFINE Goal == KeysInv /\ WaitInv /\ ReplyInv /\ LogInv /\ RepliesAreTrue
<1>t. /\ kind \in Seq(Kinds) /\ Len(kind) \in Nat /\ Len(kind) <= MaxJobs
      /\ MaxJobs \in Nat
      /\ outcome \in [Jobs -> Outcomes] /\ reply \in [Jobs -> Replies]
      /\ rpcLeft \in Nat /\ MainInv /\ Popped \in Nat /\ Popped <= Len(kind)
      /\ (Waiting => rpcJob \in Jobs) /\ (Busy => mainJob \in Jobs)
      /\ finished \subseteq Jobs /\ logged \subseteq Jobs
  BY DEF Inv, TypeOK, WaitInv, MainInv, QueueInv, Waiting, Busy, Popped, Jobs
<1>g. Goal
  BY DEF Inv
\* A step of the main thread: no caller's state changes, nor a finished outcome.
<1>1. ASSUME UNCHANGED <<kind, timedOut, rpcVars, reply>>, finished \subseteq finished',
             \A j \in finished : outcome'[j] = outcome[j],
             \A j \in logged' : j \in logged \/ (/\ j <= Len(kind)
                                                 /\ LogsFailure(j))
      PROVE  Goal'
  <2>1. KeysInv' /\ WaitInv' /\ ReplyInv'
    BY <1>1, <1>t, <1>g DEF KeysInv, WaitInv, ReplyInv, Waiting, rpcVars
  <2>2. LogInv'
    BY <1>1, <1>t, <1>g DEF LogInv, LogsFailure
  <2>3. RepliesAreTrue'
    BY <1>1, <1>t, <1>g DEF RepliesAreTrue
  <2> QED BY <2>1, <2>2, <2>3
\* A step that queues a job leaves what was true of the older ones alone.
<1>2. ASSUME NEW k \in Kinds, Enqueue(k),
             \/ reply' = reply
             \/ k = "nowait" /\ reply' = [reply EXCEPT ![Len(kind) + 1] = "value"]
      PROVE  ReplyInv' /\ LogInv' /\ RepliesAreTrue'
  <2>1. /\ Len(kind') = Len(kind) + 1 /\ Len(kind) + 1 \in Jobs
        /\ \A j \in 1..Len(kind) : kind'[j] = kind[j]
        /\ kind'[Len(kind) + 1] = k
    BY <1>2, EnqueueFacts
  <2>2. UNCHANGED <<started, finished, timedOut, outcome, logged>>
    BY <1>2 DEF Enqueue
  <2>3. \A j \in Jobs : /\ j <= Len(kind) => kind'[j] = kind[j] /\ reply'[j] = reply[j]
                        /\ j > Len(kind) + 1 => reply'[j] = reply[j]
                        /\ reply'[j] = reply[j] \/ (reply'[j] = "value" /\ kind'[j] = "nowait")
    BY <1>2, <1>t, <2>1 DEF Jobs
  <2>4. ReplyInv'
    <3>1. ASSUME NEW j \in Jobs, j > Len(kind')
          PROVE  reply'[j] = "none" /\ j \notin timedOut'
      <4>1. j > Len(kind) /\ j > Len(kind) + 1
        BY <1>t, <2>1, <3>1 DEF Jobs
      <4> QED BY <1>g, <2>2, <2>3, <4>1 DEF ReplyInv
    <3>2. ASSUME NEW j \in Jobs, reply'[j] = "error"
          PROVE  j <= Len(kind') /\ kind'[j] \in Methods \ {"nowait"}
      <4>1. reply[j] = "error"
        BY <2>3, <3>2
      <4>2. j <= Len(kind) /\ kind[j] \in Methods \ {"nowait"}
        BY <1>g, <4>1 DEF ReplyInv
      <4>3. kind'[j] = kind[j] /\ j <= Len(kind')
        BY <1>t, <2>1, <2>3, <4>2 DEF Jobs
      <4> QED BY <4>2, <4>3
    <3> QED BY <3>1, <3>2 DEF ReplyInv
  <2>5. LogInv'
    <3>1. \A j \in logged : j \in Jobs /\ j <= Len(kind)
                            /\ (kind[j] \in {"event", "nowait"} \/ j \in timedOut)
      BY <1>t, <1>g DEF LogInv
    <3>2. \A j \in logged : j <= Len(kind') /\ kind'[j] = kind[j]
      BY <1>t, <2>1, <2>3, <3>1 DEF Jobs
    <3> QED BY <2>2, <3>1, <3>2 DEF LogInv
  <2>6. RepliesAreTrue'
    <3> SUFFICES ASSUME NEW j \in Jobs
                 PROVE  /\ reply'[j] \in {"idle", "busy"} =>
                             j \in finished' /\ outcome'[j] = "value"
                        /\ reply'[j] = "value" /\ kind'[j] # "nowait" =>
                             j \in finished' /\ outcome'[j] = "value"
                        /\ reply'[j] = "error" => j \in finished' /\ outcome'[j] = "error"
                        /\ j \in timedOut' =>
                             reply'[j] \in {"none", "hung", "neverStarted"}
      BY DEF RepliesAreTrue
    <3>1. CASE j <= Len(kind)
      BY <1>g, <2>2, <2>3, <3>1 DEF RepliesAreTrue
    <3>2. CASE j > Len(kind)
      <4>1. reply[j] = "none" /\ j \notin timedOut
        BY <1>g, <3>2 DEF ReplyInv
      <4> QED BY <2>2, <2>3, <4>1
    <3> QED BY <1>t, <3>1, <3>2 DEF Jobs
  <2> QED BY <2>4, <2>5, <2>6
\* A wait that starts: nothing is known yet of a job just queued.
<1>3. ASSUME NEW m \in Methods \ {"nowait"}, QueueAndWait(m), reply' = reply
      PROVE  WaitInv' /\ ReplyInv' /\ LogInv' /\ RepliesAreTrue'
  <2>1. ReplyInv' /\ LogInv' /\ RepliesAreTrue'
    BY <1>2, <1>3 DEF QueueAndWait, Kinds
  <2>2. /\ Len(kind') = Len(kind) + 1 /\ Len(kind) + 1 \in Jobs
        /\ kind'[Len(kind) + 1] = m /\ rpcJob' = Len(kind) + 1 /\ rpcMethod' = m
        /\ rpcPc' = "wait" /\ timedOut' = timedOut
    BY <1>3, EnqueueFacts DEF QueueAndWait, Enqueue, Kinds
  <2>3. reply[Len(kind) + 1] = "none" /\ Len(kind) + 1 \notin timedOut
    BY <1>t, <1>g, <2>2 DEF ReplyInv
  <2>4. WaitInv'
    BY <1>t, <1>3, <2>2, <2>3 DEF WaitInv, Waiting
  <2> QED BY <2>1, <2>4
\* A reply: true of the job, which is one of those queued.
<1>4. ASSUME NEW a \in Replies, Waiting, reply' = [reply EXCEPT ![rpcJob] = a],
             UNCHANGED jobVars,
             a \in {"idle", "busy", "value"} => /\ rpcPc = "resume"
                                                /\ outcome[rpcJob] # "error",
             a = "error" => rpcPc = "resume" /\ outcome[rpcJob] = "error",
             rpcPc' \in {"accept", "press"}
      PROVE  WaitInv' /\ ReplyInv' /\ LogInv' /\ RepliesAreTrue'
  <2>1. rpcJob \in Jobs /\ rpcJob <= Len(kind) /\ kind[rpcJob] \in Methods \ {"nowait"}
    BY <1>t, <1>g, <1>4 DEF WaitInv, Inv, TypeOK, Jobs
  <2>2. WaitInv'
    BY <1>4 DEF WaitInv, Waiting
  <2>3. ReplyInv'
    BY <1>t, <1>g, <1>4, <2>1 DEF ReplyInv, jobVars, Jobs
  <2>4. LogInv'
    BY <1>g, <1>4 DEF LogInv, jobVars
  <2>5. rpcPc = "resume" => rpcJob \in finished /\ rpcJob \notin timedOut
    BY <1>g, <1>4 DEF WaitInv, Waiting
  <2>6. rpcPc = "resume" => outcome[rpcJob] # "missing"
    BY <1>t, <2>1, <2>5 DEF MainInv
  <2>7. outcome[rpcJob] \in Outcomes
    BY <1>t, <2>1
  <2>8. RepliesAreTrue'
    BY <1>t, <1>g, <1>4, <2>1, <2>5, <2>6, <2>7
       DEF RepliesAreTrue, jobVars, Replies, Outcomes
  <2> QED BY <2>2, <2>3, <2>4, <2>8
<1>5. CASE NvdaEvent
  <2>1. ReplyInv' /\ LogInv' /\ RepliesAreTrue'
    BY <1>2, <1>5 DEF NvdaEvent, Kinds
  <2>2. \A j \in 1..Len(kind) : kind'[j] = kind[j] /\ Len(kind') = Len(kind) + 1
    BY <1>5, EnqueueFacts DEF NvdaEvent, Kinds
  <2>3. KeysInv' /\ WaitInv'
    BY <1>5, <1>t, <1>g, <2>2 DEF NvdaEvent, Enqueue, rpcVars, KeysInv, WaitInv, Waiting
  <2> QED BY <2>1, <2>3
<1>6. CASE Pump
  <2>1. CASE Pop
    BY <1>1, <2>1 DEF Pop, jobVars
  <2>2. CASE Enter
    BY <1>1, <2>2 DEF Enter
  <2>3. CASE Return \/ Raise
    <3>1. /\ UNCHANGED <<kind, timedOut, rpcVars, reply, finished>>
          /\ mainPc = "running" /\ logged' \subseteq logged \cup {mainJob}
          /\ mainJob \in logged' \ logged => LogsFailure(mainJob)
          /\ \A j \in Jobs \ {mainJob} : outcome'[j] = outcome[j]
      BY <1>t, <2>3 DEF Return, Raise
    <3>2. mainJob = Popped /\ finished = 1..(Popped - 1)
      BY <1>t, <3>1 DEF MainInv, Busy
    <3>3. mainJob \notin finished
      BY <1>t, <3>2
    <3>4. finished \subseteq finished' /\ \A j \in finished : outcome'[j] = outcome[j]
      BY <1>t, <3>1, <3>3
    <3>5. \A j \in logged' : j \in logged \/ (j <= Len(kind) /\ LogsFailure(j))
      BY <1>t, <3>1, <3>2
    <3> QED BY <1>1, <3>1, <3>4, <3>5
  <2>4. CASE Leave
    BY <1>1, <2>4 DEF Leave
  <2> QED BY <1>6, <2>1, <2>2, <2>3, <2>4 DEF Pump
<1>7. CASE Stop
  BY <1>1, <1>7 DEF Stop, BeginStop, Joined, JoinTimesOut, Close, jobVars
<1>8. CASE CallKeys
  <2>1. KeysInv' /\ WaitInv'
    BY <1>8 DEF CallKeys, KeysInv, WaitInv, Waiting
  <2>2. ReplyInv' /\ LogInv' /\ RepliesAreTrue'
    BY <1>8, <1>g DEF CallKeys, jobVars, ReplyInv, LogInv, RepliesAreTrue
  <2> QED BY <2>1, <2>2
<1>9. ASSUME NEW m \in {"idle", "quit", "run"}, CallAndWait(m)
      PROVE  Goal'
  <2>1. WaitInv' /\ ReplyInv' /\ LogInv' /\ RepliesAreTrue'
    BY <1>3, <1>9 DEF CallAndWait, Methods
  <2>2. KeysInv'
    BY <1>9 DEF CallAndWait, QueueAndWait, KeysInv
  <2> QED BY <2>1, <2>2
<1>10. CASE CallNowait
  <2>1. ReplyInv' /\ LogInv' /\ RepliesAreTrue'
    BY <1>2, <1>10 DEF CallNowait, Kinds, Methods
  <2>2. KeysInv' /\ WaitInv'
    BY <1>10 DEF CallNowait, rpcVars, KeysInv, WaitInv, Waiting
  <2> QED BY <2>1, <2>2
<1>11. CASE Press
  <2>1. WaitInv' /\ ReplyInv' /\ LogInv' /\ RepliesAreTrue'
    BY <1>3, <1>11 DEF Press, Methods
  <2>2. KeysInv'
    BY <1>11 DEF Press, QueueAndWait, KeysInv
  <2> QED BY <2>1, <2>2
<1>12. CASE WaitReturns \/ WaitExpires
  <2>1. KeysInv' /\ WaitInv'
    BY <1>12, <1>g
       DEF WaitReturns, WaitExpires, jobVars, KeysInv, WaitInv, Waiting
  <2>2. ReplyInv' /\ LogInv' /\ RepliesAreTrue'
    BY <1>12, <1>g
       DEF WaitReturns, WaitExpires, jobVars, ReplyInv, LogInv, RepliesAreTrue
  <2> QED BY <2>1, <2>2
<1>13. CASE GiveUp
  <2>1. KeysInv' /\ WaitInv'
    BY <1>13, <1>g DEF GiveUp, KeysInv, WaitInv, Waiting
  <2>2. rpcJob \in 1..Len(kind) /\ reply[rpcJob] = "none" /\ rpcJob \in Jobs
    BY <1>13, <1>g, <1>t DEF GiveUp, WaitInv, Waiting
  <2>3. LogInv' /\ RepliesAreTrue'
    BY <1>13, <1>g, <2>2 DEF GiveUp, LogInv, RepliesAreTrue
  <2>4. ReplyInv'
    BY <1>13, <1>g, <1>t, <2>2 DEF GiveUp, ReplyInv
  <2> QED BY <2>1, <2>3, <2>4
<1>14. CASE RaiseTimeout
  <2> DEFINE a == IF rpcJob \in started THEN "hung" ELSE "neverStarted"
  <2>1. a \in {"hung", "neverStarted"} /\ a \in Replies
    BY DEF Replies
  <2>2. Waiting /\ Replied(a)
    BY <1>14 DEF RaiseTimeout, Waiting
  <2> HIDE DEF a
  <2>3. KeysInv' /\ WaitInv' /\ ReplyInv' /\ LogInv' /\ RepliesAreTrue'
    BY <1>4, <2>1, <2>2 DEF Replied, KeysInv
  <2> QED BY <2>3
<1>15. CASE ReRaise
  <2>1. KeysInv' /\ WaitInv' /\ ReplyInv' /\ LogInv' /\ RepliesAreTrue'
    BY <1>4, <1>15 DEF ReRaise, Replied, KeysInv, Waiting, Replies
  <2> QED BY <2>1
<1>16. CASE AnswerIdle
  <2> DEFINE a == IF queue = <<>> THEN "idle" ELSE "busy"
  <2>1. a \in {"idle", "busy"} /\ a \in Replies
    BY DEF Replies
  <2>2. Waiting /\ Replied(a) /\ rpcPc = "resume" /\ outcome[rpcJob] # "error"
    BY <1>16 DEF AnswerIdle, Waiting
  <2> HIDE DEF a
  <2>3. KeysInv' /\ WaitInv' /\ ReplyInv' /\ LogInv' /\ RepliesAreTrue'
    BY <1>4, <2>1, <2>2 DEF Replied, KeysInv
  <2> QED BY <2>3
<1>17. CASE AnswerValue
  <2>1. KeysInv' /\ WaitInv' /\ ReplyInv' /\ LogInv' /\ RepliesAreTrue'
    BY <1>4, <1>17 DEF AnswerValue, Replied, KeysInv, Waiting, Replies
  <2> QED BY <2>1
<1>18. CASE RecordPress
  <2>1. /\ Waiting /\ rpcPc = "resume" /\ outcome[rpcJob] # "error"
        /\ reply' = [reply EXCEPT ![rpcJob] = "value"] /\ UNCHANGED jobVars
        /\ rpcPc' \in {"accept", "press"} /\ KeysInv'
    BY <1>18, <1>t DEF RecordPress, Replied, KeysInv, Waiting
  <2>2. WaitInv' /\ ReplyInv' /\ LogInv' /\ RepliesAreTrue'
    BY <1>4, <2>1 DEF Replies
  <2> QED BY <2>1, <2>2
<1>19. CASE LoopEnds
  <2>1. KeysInv' /\ WaitInv'
    BY <1>19 DEF LoopEnds, KeysInv, WaitInv, Waiting
  <2>2. ReplyInv' /\ LogInv' /\ RepliesAreTrue'
    BY <1>19, <1>g DEF LoopEnds, jobVars, ReplyInv, LogInv, RepliesAreTrue
  <2> QED BY <2>1, <2>2
<1>20. CASE UNCHANGED vars
  <2>1. /\ UNCHANGED <<kind, timedOut, rpcVars, reply, finished, logged>>
        /\ outcome' = outcome
    BY <1>20 DEF vars, jobVars
  <2> QED BY <1>1, <2>1
<1> QED BY <1>5, <1>6, <1>7, <1>8, <1>9, <1>10, <1>11, <1>12, <1>13, <1>14, <1>15,
           <1>16, <1>17, <1>18, <1>19, <1>20
        DEF Next, Call, Serve

\* The invariant holds of every behaviour.
LEMMA InvHolds == Spec => []Inv
<1>1. Inv /\ [Next]_vars => Inv'
  BY TypeStep, MainStep, CallStep DEF Inv
<1> QED BY InvInit, <1>1, PTL DEF Spec

(* For every bound: the types, among them that every job the main thread   *)
(* or a caller has in hand is one that was queued.                         *)
THEOREM MainThreadIsTyped == Spec => []TypeOK
<1>1. Inv => TypeOK
  BY DEF Inv
<1> QED BY InvHolds, <1>1, PTL

(* For every bound: no caller is told of anything but what its own job did *)
(* (run_on_main_thread, and the handlers built on it).                     *)
THEOREM RepliesAreAlwaysTrue == Spec => []RepliesAreTrue
<1>1. Inv => RepliesAreTrue
  BY DEF Inv
<1> QED BY InvHolds, <1>1, PTL

(* For every bound: whatever wait_until_idle answers, everything queued    *)
(* before its no-op has run to its end.                                    *)
THEOREM IdleIsAlwaysBarrier == Spec => []IdleIsBarrier
<1>1. Inv => IdleIsBarrier
  <2> SUFFICES ASSUME Inv, NEW j \in Jobs, reply[j] \in {"idle", "busy"}
               PROVE  1..(j - 1) \subseteq finished
    BY DEF IdleIsBarrier
  <2>1. j \in finished
    BY DEF Inv, RepliesAreTrue
  <2>2. PICK n \in Int : finished = 1..n
    <3>1. Popped \in Int
      BY DEF Inv, TypeOK, Popped
    <3> QED BY <3>1 DEF Inv, MainInv
  <2> QED BY <2>1, <2>2 DEF Jobs
<1> QED BY InvHolds, <1>1, PTL

(* For every bound: no failure is both logged by the runner and raised in  *)
(* the test.                                                               *)
THEOREM FailureAlwaysSurfacesOnce == Spec => []FailureSurfacesOnce
<1>1. Inv => FailureSurfacesOnce
  <2> SUFFICES ASSUME Inv, NEW j \in logged, reply[j] = "error"
               PROVE  FALSE
    BY DEF FailureSurfacesOnce
  <2>1. j \in Jobs /\ (kind[j] \in {"event", "nowait"} \/ j \in timedOut)
    BY DEF Inv, TypeOK, LogInv
  <2>2. kind[j] \in Methods \ {"nowait"} /\ j \notin timedOut
    BY <2>1 DEF Inv, ReplyInv, RepliesAreTrue
  <2> QED BY <2>1, <2>2 DEF Methods
<1> QED BY InvHolds, <1>1, PTL
--------------------------------------------------------------------------------
\* What keys_sent reports is a subsequence of what NVDA processed: both lists
\* grow by ever larger job numbers.
Increasing(s) == \A i, k \in DOMAIN s : i < k => s[i] < s[k]

Pressed == {j \in 1..Len(kind) : kind[j] = "press" /\ outcome[j] = "value"}

PlayInv == /\ Increasing(played)
           /\ \A a \in DOMAIN played : played[a] \in Pressed
           /\ \A j \in Jobs : j \in Pressed => \E a \in DOMAIN played : played[a] = j

SentInv == /\ Increasing(sent)
           /\ \A i \in DOMAIN sent : sent[i] \in Pressed /\ sent[i] \in finished
           /\ Waiting => \A i \in DOMAIN sent : sent[i] < rpcJob

LEMMA IncreasingAppend ==
  ASSUME NEW s \in Seq(Jobs), NEW x \in Jobs, Increasing(s),
         \A i \in DOMAIN s : s[i] < x
  PROVE  /\ Increasing(Append(s, x))
         /\ DOMAIN Append(s, x) = 1..(Len(s) + 1)
         /\ \A i \in DOMAIN s : i \in DOMAIN Append(s, x) /\ Append(s, x)[i] = s[i]
         /\ Append(s, x)[Len(s) + 1] = x
<1>1. /\ DOMAIN s = 1..Len(s) /\ Len(s) \in Nat
      /\ DOMAIN Append(s, x) = 1..(Len(s) + 1)
      /\ \A i \in 1..Len(s) : Append(s, x)[i] = s[i]
      /\ Append(s, x)[Len(s) + 1] = x
  OBVIOUS
<1>2. ASSUME NEW i \in 1..(Len(s) + 1), NEW k \in 1..(Len(s) + 1), i < k
      PROVE  Append(s, x)[i] < Append(s, x)[k]
  <2>1. i \in 1..Len(s)
    BY <1>1, <1>2
  <2>2. CASE k \in 1..Len(s)
    BY <1>1, <1>2, <2>1, <2>2 DEF Increasing
  <2>3. CASE k = Len(s) + 1
    BY <1>1, <2>1, <2>3
  <2> QED BY <1>1, <2>2, <2>3
<1> QED BY <1>1, <1>2 DEF Increasing

\* A job the main thread has pressed stays pressed.
LEMMA PressedStays ==
  ASSUME Inv, [Next]_vars, NEW j \in Jobs, j \in Pressed
  PROVE  j \in Pressed'
<1>1. j \in finished \/ (mainPc = "returned" /\ j = mainJob)
  BY DEF Inv, MainInv, Pressed
<1>2. Len(kind) \in Nat /\ kind \in Seq(Kinds) /\ outcome \in [Jobs -> Outcomes]
  BY DEF Inv, TypeOK
<1>3. outcome'[j] = outcome[j]
  <2>1. CASE Return \/ Raise
    <3>1. mainPc = "running" /\ mainJob = Popped /\ finished = 1..(Popped - 1)
          /\ Popped \in Int
      BY <2>1 DEF Return, Raise, Inv, MainInv, Busy, Popped, TypeOK
    <3>2. j # mainJob
      BY <1>1, <3>1
    <3> QED BY <1>2, <2>1, <3>2 DEF Return, Raise
  <2>2. CASE ~(Return \/ Raise)
    <3>1. outcome' = outcome
      BY <2>2 DEF Next, Pump, Stop, Call, Serve, NvdaEvent, Pop, Enter, Leave, BeginStop,
             Joined, JoinTimesOut, Close, CallKeys, CallAndWait, CallNowait, Press,
             WaitReturns, WaitExpires, GiveUp, RaiseTimeout, ReRaise, AnswerIdle,
             AnswerValue, RecordPress, LoopEnds, Replied, QueueAndWait, Enqueue,
             vars, jobVars
    <3> QED BY <3>1
  <2> QED BY <2>1, <2>2
<1>4. Len(kind') \in Nat /\ Len(kind') >= Len(kind)
      /\ \A i \in 1..Len(kind) : kind'[i] = kind[i]
  <2>1. ASSUME NEW k \in Kinds, Enqueue(k)
        PROVE  Len(kind') = Len(kind) + 1 /\ \A i \in 1..Len(kind) : kind'[i] = kind[i]
    BY <2>1, EnqueueFacts
  <2>2. kind' = kind \/ \E k \in Kinds : Enqueue(k)
    BY DEF Next, Pump, Stop, Call, Serve, NvdaEvent, Pop, Enter, Return, Raise, Leave,
           BeginStop, Joined, JoinTimesOut, Close, CallKeys, CallAndWait, CallNowait,
           Press, WaitReturns, WaitExpires, GiveUp, RaiseTimeout, ReRaise, AnswerIdle,
           AnswerValue, RecordPress, LoopEnds, Replied, QueueAndWait, vars, jobVars,
           Kinds, Methods
  <2> QED BY <1>2, <2>1, <2>2
<1> QED BY <1>2, <1>3, <1>4 DEF Pressed

\* Only a press that returns joins the jobs pressed.
LEMMA PressedIsNew ==
  ASSUME Inv, [Next]_vars, NEW j \in Jobs, j \in Pressed'
  PROVE  \/ j \in Pressed
         \/ Return /\ j = mainJob /\ kind[j] = "press"
<1>1. /\ Len(kind) \in Nat /\ kind \in Seq(Kinds) /\ outcome \in [Jobs -> Outcomes]
      /\ Popped \in Int /\ Popped <= Len(kind)
  BY DEF Inv, TypeOK, QueueInv, Popped
<1>2. outcome[j] # "missing" => j \in 1..Len(kind)
  <2>1. finished \subseteq 1..Popped /\ (Busy => mainJob = Popped)
    BY <1>1 DEF Inv, MainInv
  <2> QED BY <1>1, <2>1 DEF Inv, MainInv, Busy, Jobs
<1>3. CASE Return
  BY <1>1, <1>3 DEF Return, Pressed
<1>4. CASE ~Return
  <2>1. outcome'[j] = outcome[j] \/ outcome'[j] = "error"
    <3>1. CASE Raise
      BY <1>1, <3>1 DEF Raise
    <3>2. CASE ~Raise
      <4>1. outcome' = outcome
        BY <1>4, <3>2
           DEF Next, Pump, Stop, Call, Serve, NvdaEvent, Pop, Enter, Leave, BeginStop,
             Joined, JoinTimesOut, Close, CallKeys, CallAndWait, CallNowait, Press,
             WaitReturns, WaitExpires, GiveUp, RaiseTimeout, ReRaise, AnswerIdle,
             AnswerValue, RecordPress, LoopEnds, Replied, QueueAndWait, Enqueue,
             vars, jobVars
      <4> QED BY <4>1
    <3> QED BY <3>1, <3>2
  <2>2. outcome[j] = "value" /\ j \in 1..Len(kind)
    BY <1>2, <2>1 DEF Pressed
  <2>3. \A i \in 1..Len(kind) : kind'[i] = kind[i]
    <3>1. ASSUME NEW k \in Kinds, Enqueue(k)
          PROVE  \A i \in 1..Len(kind) : kind'[i] = kind[i]
      BY <3>1, EnqueueFacts
    <3>2. kind' = kind \/ \E k \in Kinds : Enqueue(k)
      BY DEF Next, Pump, Stop, Call, Serve, NvdaEvent, Pop, Enter, Return, Raise, Leave,
             BeginStop, Joined, JoinTimesOut, Close, CallKeys, CallAndWait, CallNowait,
             Press, WaitReturns, WaitExpires, GiveUp, RaiseTimeout, ReRaise, AnswerIdle,
             AnswerValue, RecordPress, LoopEnds, Replied, QueueAndWait, vars, jobVars,
             Kinds, Methods
    <3> QED BY <3>1, <3>2
  <2> QED BY <2>2, <2>3 DEF Pressed
<1> QED BY <1>3, <1>4

LEMMA PlayStep == Inv /\ PlayInv /\ [Next]_vars => PlayInv'
<1> SUFFICES ASSUME Inv, PlayInv, [Next]_vars PROVE PlayInv'
  OBVIOUS
<1>t. played \in Seq(Jobs) /\ \A a \in DOMAIN played : played[a] \in Jobs
  BY DEF Inv, TypeOK
<1>1. CASE Return /\ kind[mainJob] = "press"
  <2>1. /\ played' = Append(played, mainJob) /\ mainPc = "running"
        /\ outcome' = [outcome EXCEPT ![mainJob] = "value"] /\ kind' = kind
    BY <1>1 DEF Return
  <2>2. /\ mainJob = Popped /\ Popped >= 1 /\ finished = 1..(Popped - 1)
        /\ Popped \in Int /\ Popped <= Len(kind) /\ Len(kind) \in Nat
        /\ Len(kind) <= MaxJobs
    BY <2>1 DEF Inv, TypeOK, MainInv, QueueInv, Busy, Popped
  <2>3. mainJob \in Jobs /\ mainJob \in 1..Len(kind)
    BY <2>2 DEF Jobs
  <2>4. \A a \in DOMAIN played : played[a] < mainJob
    <3> SUFFICES ASSUME NEW a \in DOMAIN played PROVE played[a] < mainJob
      OBVIOUS
    <3>1. played[a] \in finished
      BY <1>t, <2>1 DEF PlayInv, Pressed, Inv, MainInv
    <3> QED BY <2>2, <3>1
  <2>5. /\ Increasing(played')
        /\ DOMAIN played' = 1..(Len(played) + 1)
        /\ \A a \in DOMAIN played : a \in DOMAIN played' /\ played'[a] = played[a]
        /\ played'[Len(played) + 1] = mainJob
    BY <1>t, <2>1, <2>3, <2>4, IncreasingAppend DEF PlayInv
  <2>6. mainJob \in Pressed'
    BY <1>1, <2>1, <2>3 DEF Pressed, Inv, TypeOK
  <2>7. \A a \in DOMAIN played' : played'[a] \in Pressed'
    <3>1. ASSUME NEW a \in DOMAIN played PROVE played[a] \in Pressed'
      BY <1>t, PressedStays DEF PlayInv
    <3>2. \A a \in DOMAIN played' : a \in DOMAIN played \/ a = Len(played) + 1
      BY <1>t, <2>5
    <3> QED BY <2>5, <2>6, <3>1, <3>2
  <2>8. ASSUME NEW j \in Jobs, j \in Pressed'
        PROVE  \E a \in DOMAIN played' : played'[a] = j
    <3>1. CASE j \in Pressed
      BY <2>5, <3>1 DEF PlayInv
    <3>2. CASE j = mainJob
      <4>1. Len(played) + 1 \in DOMAIN played'
        BY <1>t, <2>5
      <4> QED BY <2>5, <3>2, <4>1
    <3> QED BY <2>8, <3>1, <3>2, PressedIsNew
  <2> QED BY <2>5, <2>7, <2>8 DEF PlayInv
<1>2. CASE ~(Return /\ kind[mainJob] = "press")
  <2>1. played' = played
    BY <1>2 DEF Next, Pump, Stop, Call, Serve, NvdaEvent, Pop, Enter, Return, Raise, Leave,
           BeginStop, Joined, JoinTimesOut, Close, CallKeys, CallAndWait, CallNowait,
           Press, WaitReturns, WaitExpires, GiveUp, RaiseTimeout, ReRaise, AnswerIdle,
           AnswerValue, RecordPress, LoopEnds, Replied, vars
  <2>2. \A a \in DOMAIN played : played[a] \in Pressed'
    BY <1>t, PressedStays DEF PlayInv
  <2>3. \A j \in Jobs : j \in Pressed' => j \in Pressed
    BY <1>2, PressedIsNew
  <2> QED BY <2>1, <2>2, <2>3 DEF PlayInv, Increasing
<1> QED BY <1>1, <1>2

LEMMA SentStep == Inv /\ SentInv /\ [Next]_vars => SentInv'
<1> SUFFICES ASSUME Inv, SentInv, [Next]_vars PROVE SentInv'
  OBVIOUS
<1>t. /\ sent \in Seq(Jobs) /\ \A i \in DOMAIN sent : sent[i] \in Jobs
      /\ Len(kind) \in Nat
  BY DEF Inv, TypeOK
<1>1. finished \subseteq finished'
  BY DEF Next, Pump, Stop, Call, Serve, NvdaEvent, Pop, Enter, Return, Raise, Leave,
         BeginStop, Joined, JoinTimesOut, Close, CallKeys, CallAndWait, CallNowait,
         Press, WaitReturns, WaitExpires, GiveUp, RaiseTimeout, ReRaise, AnswerIdle,
         AnswerValue, RecordPress, LoopEnds, Replied, QueueAndWait, Enqueue, vars, jobVars
<1>2. \A i \in DOMAIN sent : sent[i] \in Pressed' /\ sent[i] \in finished'
  BY <1>1, <1>t, PressedStays DEF SentInv
<1>3. \A i \in DOMAIN sent : sent[i] <= Len(kind)
  BY <1>t DEF SentInv, Pressed
<1>4. CASE RecordPress
  <2>1. /\ sent' = Append(sent, rpcJob) /\ rpcPc = "resume" /\ rpcMethod = "press"
        /\ outcome[rpcJob] # "error" /\ rpcPc' \in {"accept", "press"}
        /\ UNCHANGED jobVars
    BY <1>4 DEF RecordPress, Replied
  <2>2. /\ rpcJob \in finished /\ rpcJob \in Jobs /\ rpcJob \in 1..Len(kind)
        /\ kind[rpcJob] = "press"
    BY <2>1 DEF Inv, WaitInv, Waiting, TypeOK
  <2>3. outcome[rpcJob] = "value"
    BY <2>1, <2>2 DEF Inv, MainInv, TypeOK, Outcomes
  <2>4. rpcJob \in Pressed' /\ rpcJob \in finished'
    BY <2>1, <2>2, <2>3 DEF Pressed, jobVars
  <2>5. /\ Increasing(sent')
        /\ DOMAIN sent' = 1..(Len(sent) + 1)
        /\ \A i \in DOMAIN sent : i \in DOMAIN sent' /\ sent'[i] = sent[i]
        /\ sent'[Len(sent) + 1] = rpcJob
    BY <1>t, <2>1, <2>2, IncreasingAppend DEF SentInv, Waiting
  <2>6. \A i \in DOMAIN sent' : i \in DOMAIN sent \/ i = Len(sent) + 1
    BY <1>t, <2>5
  <2>7. \A i \in DOMAIN sent' : sent'[i] \in Pressed' /\ sent'[i] \in finished'
    BY <1>2, <2>4, <2>5, <2>6
  <2> QED BY <2>1, <2>5, <2>7 DEF SentInv, Waiting
<1>5. CASE ~RecordPress
  <2>1. sent' = sent
    BY <1>5 DEF Next, Pump, Stop, Call, Serve, NvdaEvent, Pop, Enter, Return, Raise, Leave,
           BeginStop, Joined, JoinTimesOut, Close, CallKeys, CallAndWait, CallNowait,
           Press, WaitReturns, WaitExpires, GiveUp, RaiseTimeout, ReRaise, AnswerIdle,
           AnswerValue, LoopEnds, vars
  <2>2. Waiting' => (Waiting /\ rpcJob' = rpcJob) \/ rpcJob' = Len(kind) + 1
    BY <1>5 DEF Next, Pump, Stop, Call, Serve, NvdaEvent, Pop, Enter, Return, Raise, Leave,
           BeginStop, Joined, JoinTimesOut, Close, CallKeys, CallAndWait, CallNowait,
           Press, WaitReturns, WaitExpires, GiveUp, RaiseTimeout, ReRaise, AnswerIdle,
           AnswerValue, LoopEnds, Replied, QueueAndWait, vars, rpcVars, Waiting
  <2>3. Waiting' => \A i \in DOMAIN sent : sent[i] < rpcJob'
    BY <1>t, <1>3, <2>2 DEF SentInv, Jobs
  <2> QED BY <1>2, <2>1, <2>3 DEF SentInv, Increasing
<1> QED BY <1>4, <1>5

(* For every bound: what keys_sent reports was processed by NVDA, and in   *)
(* the order reported, whatever calls gave up meanwhile.                   *)
THEOREM SentAlwaysPlayedInOrder == Spec => []SentWasPlayedInOrder
<1>1. Init => PlayInv /\ SentInv
  <2> SUFFICES ASSUME Init PROVE PlayInv /\ SentInv
    OBVIOUS
  <2>1. \A j \in Jobs : j \notin Pressed
    BY DEF Init, Pressed
  <2> QED BY <2>1 DEF Init, PlayInv, SentInv, Increasing
<1>2. Inv /\ Inv' /\ PlayInv /\ SentInv /\ [Next]_vars => PlayInv' /\ SentInv'
  BY PlayStep, SentStep
<1>3. Inv /\ PlayInv /\ SentInv => SentWasPlayedInOrder
  <2> SUFFICES ASSUME Inv, PlayInv, SentInv PROVE SentWasPlayedInOrder
    OBVIOUS
  <2>1. \A i \in DOMAIN sent : sent[i] \in Jobs
    BY DEF Inv, TypeOK
  <2>2. \A i \in DOMAIN sent : \E a \in DOMAIN played : played[a] = sent[i]
    BY <2>1 DEF PlayInv, SentInv
  <2>3. ASSUME NEW i \in DOMAIN sent, NEW k \in DOMAIN sent,
               NEW a \in DOMAIN played, NEW b \in DOMAIN played,
               i < k, played[a] = sent[i], played[b] = sent[k]
        PROVE  a < b
    <3>1. a \in Int /\ b \in Int /\ played[a] \in Int /\ played[b] \in Int
      <4>1. played \in Seq(Jobs)
        BY DEF Inv, TypeOK
      <4>2. a \in 1..Len(played) /\ b \in 1..Len(played)
        BY <2>3, <4>1
      <4>3. played[a] \in Jobs /\ played[b] \in Jobs
        BY <4>1, <4>2
      <4> QED BY <4>2, <4>3 DEF Jobs
    <3>2. played[a] < played[b]
      BY <2>3 DEF SentInv, Increasing
    <3>3. ~(b < a) /\ b # a
      BY <3>1, <3>2 DEF PlayInv, Increasing
    <3> QED BY <3>1, <3>3
  <2> QED BY <2>2, <2>3 DEF SentWasPlayedInOrder
<1>4. Spec => [](PlayInv /\ SentInv /\ Inv)
  BY InvHolds, <1>1, <1>2, PTL DEF Spec
<1> QED BY <1>3, <1>4, PTL
--------------------------------------------------------------------------------
\* What has become of every press: it is still waited for, reported, given up
\* or failed.
Awaited(j) == rpcPc \in {"wait", "expired", "resume"} /\ rpcJob = j

Reported(j) == \E i \in DOMAIN sent : sent[i] = j

Accounted(j) == \/ Awaited(j)
                \/ Reported(j)
                \/ j \in timedOut
                \/ j \in finished /\ outcome[j] = "error"

PressInv == \A j \in 1..Len(kind) : kind[j] = "press" => Accounted(j)

\* What has been reported, given up or failed stays so.
LEMMA SettledStays ==
  ASSUME Inv, [Next]_vars, NEW j \in Jobs, Accounted(j), ~Awaited(j)
  PROVE  Accounted(j)'
<1>1. finished \subseteq finished' /\ timedOut \subseteq timedOut'
  BY DEF Next, Pump, Stop, Call, Serve, NvdaEvent, Pop, Enter, Return, Raise, Leave,
         BeginStop, Joined, JoinTimesOut, Close, CallKeys, CallAndWait, CallNowait,
         Press, WaitReturns, WaitExpires, GiveUp, RaiseTimeout, ReRaise, AnswerIdle,
         AnswerValue, RecordPress, LoopEnds, Replied, QueueAndWait, Enqueue, vars, jobVars
<1>2. ASSUME NEW i \in DOMAIN sent
      PROVE  i \in DOMAIN sent' /\ sent'[i] = sent[i]
  <2>1. sent \in Seq(Jobs) /\ sent' \in {sent, Append(sent, rpcJob)}
    BY DEF Inv, TypeOK, Next, Pump, Stop, Call, Serve, NvdaEvent, Pop, Enter, Return, Raise,
         Leave, BeginStop, Joined, JoinTimesOut, Close, CallKeys, CallAndWait, CallNowait,
         Press, WaitReturns, WaitExpires, GiveUp, RaiseTimeout, ReRaise, AnswerIdle,
         AnswerValue, RecordPress, LoopEnds, vars
  <2> QED BY <1>2, <2>1
<1>3. j \in finished => outcome'[j] = outcome[j]
  <2>1. CASE Return \/ Raise
    <3>1. /\ mainPc = "running" /\ mainJob = Popped /\ finished = 1..(Popped - 1)
          /\ Popped \in Int /\ outcome \in [Jobs -> Outcomes]
          /\ outcome' \in {[outcome EXCEPT ![mainJob] = "value"],
                           [outcome EXCEPT ![mainJob] = "error"]}
      BY <2>1 DEF Return, Raise, Inv, MainInv, Busy, Popped, TypeOK
    <3>2. j \in finished => j # mainJob
      BY <3>1
    <3> QED BY <3>1, <3>2
  <2>2. CASE ~(Return \/ Raise)
    BY <2>2 DEF Next, Pump, Stop, Call, Serve, NvdaEvent, Pop, Enter, Leave, BeginStop,
           Joined, JoinTimesOut, Close, CallKeys, CallAndWait, CallNowait, Press,
           WaitReturns, WaitExpires, GiveUp, RaiseTimeout, ReRaise, AnswerIdle,
           AnswerValue, RecordPress, LoopEnds, Replied, QueueAndWait, Enqueue, vars, jobVars
  <2> QED BY <2>1, <2>2
<1> QED BY <1>1, <1>2, <1>3 DEF Accounted, Reported

\* A press its caller no longer waits for has become one of these.
LEMMA AwaitedEnds ==
  ASSUME Inv, [Next]_vars, NEW j \in Jobs, Awaited(j), kind[j] = "press"
  PROVE  Accounted(j)'
<1>1. j = rpcJob /\ rpcMethod = "press" /\ Waiting
  BY DEF Inv, WaitInv, Waiting, Awaited
<1>2. CASE GiveUp
  BY <1>1, <1>2 DEF GiveUp, Accounted
<1>3. CASE ReRaise
  BY <1>1, <1>3 DEF ReRaise, Replied, jobVars, Accounted, Inv, WaitInv
<1>4. CASE RecordPress
  <2>1. sent \in Seq(Jobs) /\ sent' = Append(sent, rpcJob)
    BY <1>4 DEF RecordPress, Inv, TypeOK
  <2>2. Len(sent) + 1 \in DOMAIN sent' /\ sent'[Len(sent) + 1] = rpcJob
    BY <2>1
  <2> QED BY <1>1, <2>2 DEF Accounted, Reported
<1>5. CASE ~(GiveUp \/ ReRaise \/ RecordPress)
  <2>1. rpcJob' = rpcJob /\ rpcPc' \in {"wait", "expired", "resume"}
    BY <1>1, <1>5 DEF Awaited, Next, Pump, Stop, Call, Serve, NvdaEvent, Pop, Enter, Return,
         Raise, Leave, BeginStop, Joined, JoinTimesOut, Close, CallKeys, CallAndWait,
         CallNowait, Press, WaitReturns, WaitExpires, RaiseTimeout, AnswerIdle,
         AnswerValue, LoopEnds, vars, rpcVars
  <2> QED BY <1>1, <2>1 DEF Accounted, Awaited
<1> QED BY <1>2, <1>3, <1>4, <1>5

LEMMA PressStep == Inv /\ PressInv /\ [Next]_vars => PressInv'
<1> SUFFICES ASSUME Inv, PressInv, [Next]_vars, NEW j \in 1..Len(kind'), kind'[j] = "press"
             PROVE  Accounted(j)'
  BY DEF PressInv
<1>t. Len(kind) \in Nat /\ Len(kind) <= MaxJobs /\ kind \in Seq(Kinds)
  BY DEF Inv, TypeOK
<1>1. CASE j \in 1..Len(kind) /\ kind[j] = "press"
  <2>1. Accounted(j) /\ j \in Jobs
    BY <1>1, <1>t DEF PressInv, Jobs
  <2> QED BY <1>1, <2>1, SettledStays, AwaitedEnds
<1>2. CASE ~(j \in 1..Len(kind) /\ kind[j] = "press")
  <2>1. ASSUME NEW k \in Kinds, Enqueue(k)
        PROVE  j = Len(kind) + 1 /\ k = "press"
    BY <1>2, <1>t, <2>1, EnqueueFacts
  <2>2. kind' # kind
    BY <1>2
  <2>3. Press
    <3>1. ~Enqueue("event") /\ ~Enqueue("nowait")
      BY <2>1 DEF Kinds, Methods
    <3>2. \A m \in {"idle", "quit", "run"} : ~Enqueue(m)
      BY <2>1 DEF Kinds, Methods
    <3> QED
      BY <2>2, <3>1, <3>2 DEF Next, Pump, Stop, Call, Serve, NvdaEvent, Pop, Enter, Return,
             Raise, Leave, BeginStop, Joined, JoinTimesOut, Close, CallKeys, CallAndWait,
             CallNowait, WaitReturns, WaitExpires, GiveUp, RaiseTimeout, ReRaise,
             AnswerIdle, AnswerValue, RecordPress, LoopEnds, Replied, QueueAndWait, vars,
             jobVars
  <2>4. rpcPc' = "wait" /\ rpcJob' = Len(kind) + 1 /\ Enqueue("press")
    BY <2>3 DEF Press, QueueAndWait
  <2>5. j = Len(kind) + 1
    BY <2>1, <2>4 DEF Kinds, Methods
  <2> QED BY <2>4, <2>5 DEF Accounted, Awaited
<1> QED BY <1>1, <1>2

(* For every bound: a gesture NVDA has processed is missing from keys_sent  *)
(* only if its press timed out.                                            *)
THEOREM OnlyTimedOutPressesAreUnreported == Spec => []OnlyTimedOutUnreported
<1>1. Inv /\ PlayInv /\ PressInv => OnlyTimedOutUnreported
  <2> SUFFICES ASSUME Inv, PlayInv, PressInv, rpcPc \notin {"wait", "expired", "resume"},
                      NEW a \in DOMAIN played
               PROVE  played[a] \in timedOut \/ \E i \in DOMAIN sent : sent[i] = played[a]
    BY DEF OnlyTimedOutUnreported
  <2>1. /\ played[a] \in 1..Len(kind)
        /\ kind[played[a]] = "press" /\ outcome[played[a]] = "value"
    BY DEF PlayInv, Pressed
  <2> QED BY <2>1 DEF PressInv, Accounted, Awaited, Reported
<1>2. Init => PlayInv /\ PressInv
  <2> SUFFICES ASSUME Init PROVE PlayInv /\ PressInv
    OBVIOUS
  <2>1. \A j \in Jobs : j \notin Pressed
    BY DEF Init, Pressed
  <2> QED BY <2>1 DEF Init, PlayInv, PressInv, Increasing
<1>3. Spec => [](PlayInv /\ PressInv /\ Inv)
  BY InvHolds, <1>2, PlayStep, PressStep, PTL DEF Spec
<1> QED BY <1>1, <1>3, PTL
--------------------------------------------------------------------------------
(* One call of run_on_main_thread is one call of JobQueue.  The jobs that   *)
(* are not done are the numbers from Done + 1, the one the main thread has  *)
(* in its hands included.                                                  *)
Done == IF Busy THEN Popped - 1 ELSE Popped

Pending == [i \in DOMAIN Undone |-> rpcPc = "wait" /\ rpcJob = Undone[i]]

Given == IF Calling /\ rpcJob \in finished THEN outcome[rpcJob] ELSE "none"

LEMMA InFront ==
  ASSUME NEW s \in Seq(Jobs), NEW x \in Jobs
  PROVE  LET t == <<x>> \o s
         IN  /\ t \in Seq(Jobs) /\ Len(t) = Len(s) + 1 /\ DOMAIN t = 1..(Len(s) + 1)
             /\ t[1] = x
             /\ \A i \in 2..(Len(s) + 1) : t[i] = s[i - 1]
<1>1. <<x>> \in Seq(Jobs) /\ Len(<<x>>) = 1 /\ <<x>>[1] = x
  OBVIOUS
<1>2. PICK u \in Seq(Jobs) : u = <<x>> /\ Len(u) = 1 /\ u[1] = x
  BY <1>1
<1>3. /\ u \o s \in Seq(Jobs) /\ Len(u \o s) = Len(s) + 1
      /\ DOMAIN (u \o s) = 1..(Len(s) + 1)
      /\ (u \o s)[1] = x
      /\ \A i \in 2..(Len(s) + 1) : (u \o s)[i] = s[i - 1]
  BY <1>2
<1> QED BY <1>2, <1>3

LEMMA UndoneIs ==
  ASSUME Inv
  PROVE  /\ Done \in Nat /\ Len(kind) \in Nat /\ Done <= Len(kind)
         /\ finished = 1..Done
         /\ DOMAIN Undone = 1..(Len(kind) - Done)
         /\ \A i \in 1..(Len(kind) - Done) : Undone[i] = Done + i
<1>1. /\ queue \in Seq(Jobs) /\ Len(queue) \in Nat /\ Len(kind) \in Nat
      /\ Len(queue) <= Len(kind) /\ Popped \in Nat /\ Popped + Len(queue) = Len(kind)
      /\ \A i \in 1..Len(queue) : queue[i] = Popped + i
  BY DEF Inv, TypeOK, QueueInv, Popped
<1>2. finished = 1..Done
  BY DEF Inv, MainInv, Done
<1>3. CASE ~Busy
  <2>1. Undone = queue /\ Done = Popped
    BY <1>3 DEF Undone, Busy, Done
  <2> QED BY <1>1, <1>2, <2>1
<1>4. CASE Busy
  <2>1. Undone = <<mainJob>> \o queue /\ Done = Popped - 1
        /\ mainJob = Popped /\ Popped >= 1 /\ mainJob \in Jobs
    BY <1>1, <1>4 DEF Undone, Busy, Done, Inv, TypeOK, MainInv, Jobs
  <2>2. /\ DOMAIN Undone = 1..(Len(queue) + 1)
        /\ Undone[1] = mainJob
        /\ \A i \in 2..(Len(queue) + 1) : Undone[i] = queue[i - 1]
    BY <1>1, <2>1, InFront
  <2>3. Len(kind) - Done = Len(queue) + 1 /\ Done \in Nat /\ Done <= Len(kind)
    BY <1>1, <2>1
  <2>4. ASSUME NEW i \in 1..(Len(queue) + 1)
        PROVE  Undone[i] = Done + i
    <3>1. CASE i = 1
      BY <1>1, <2>1, <2>2, <3>1
    <3>2. CASE i # 1
      <4>1. i - 1 \in 1..Len(queue) /\ Undone[i] = queue[i - 1]
        BY <1>1, <2>2, <3>2
      <4>2. Undone[i] = Popped + (i - 1)
        BY <1>1, <4>1
      <4> QED BY <1>1, <2>1, <4>2
    <3> QED BY <3>1, <3>2
  <2> QED BY <1>1, <1>2, <2>2, <2>3, <2>4
<1> QED BY <1>3, <1>4

DoneFacts == /\ Done \in Nat /\ Len(kind) \in Nat /\ Done <= Len(kind)
             /\ finished = 1..Done

PendingFacts ==
  Pending = [i \in 1..(Len(kind) - Done) |-> rpcPc = "wait" /\ rpcJob = Done + i]

LEMMA PendingIs == Inv => DoneFacts /\ PendingFacts
<1> SUFFICES ASSUME Inv PROVE DoneFacts /\ PendingFacts
  OBVIOUS
<1>1. DoneFacts
  BY UndoneIs DEF DoneFacts
<1>2. PendingFacts
  BY UndoneIs, Zenon DEF Pending, PendingFacts
<1> QED BY <1>1, <1>2

LEMMA PendingNext == Inv' => DoneFacts' /\ PendingFacts'
  BY PendingIs, PTL

\* A job at the end of the queue, and the first job leaving it.
LEMMA QueueGrows ==
  ASSUME NEW n \in Nat, NEW f \in [1..n -> BOOLEAN], NEW g \in [1..(n + 1) -> BOOLEAN],
         \A i \in 1..n : g[i] = f[i]
  PROVE  g = Append(f, g[n + 1])
<1>1. f \in Seq(BOOLEAN) /\ Len(f) = n /\ g \in Seq(BOOLEAN) /\ Len(g) = n + 1
  OBVIOUS
<1>2. g[n + 1] \in BOOLEAN
  OBVIOUS
<1> DEFINE h == Append(f, g[n + 1])
<1>3. /\ h \in Seq(BOOLEAN) /\ Len(h) = n + 1 /\ h[n + 1] = g[n + 1]
      /\ \A i \in 1..n : h[i] = f[i]
  BY <1>1, <1>2, AppendProperties
<1> HIDE DEF h
<1>4. ASSUME NEW i \in 1..(n + 1) PROVE g[i] = h[i]
  <2>1. CASE i \in 1..n
    BY <1>3, <2>1
  <2>2. CASE i = n + 1
    BY <1>3, <2>2
  <2> QED BY <2>1, <2>2
<1>5. g = h
  BY <1>1, <1>3, <1>4, SeqEqual
<1> QED BY <1>5 DEF h

LEMMA QueueShrinks ==
  ASSUME NEW n \in Nat, NEW f \in [1..(n + 1) -> BOOLEAN], NEW g \in [1..n -> BOOLEAN],
         \A i \in 1..n : g[i] = f[i + 1]
  PROVE  f # <<>> /\ g = Tail(f) /\ Head(f) = f[1]
<1>1. f \in Seq(BOOLEAN) /\ Len(f) = n + 1 /\ g \in Seq(BOOLEAN) /\ Len(g) = n
  OBVIOUS
<1>2. f # <<>> /\ Head(f) = f[1]
  BY <1>1
<1>3. /\ Tail(f) \in Seq(BOOLEAN) /\ Len(Tail(f)) = n
      /\ \A i \in 1..n : Tail(f)[i] = f[i + 1]
  BY <1>1, <1>2, HeadTailProperties
<1>4. g = Tail(f)
  BY <1>1, <1>3, SeqEqual
<1> QED BY <1>2, <1>4

\* Three things a step may do to the jobs not done, when it leaves alone who
\* waits for which.
LEMMA SameJobs ==
  ASSUME Inv, Inv', Len(kind') = Len(kind), Done' = Done,
         \A j \in (Done + 1)..Len(kind) :
           rpcPc' = "wait" /\ rpcJob' = j <=> rpcPc = "wait" /\ rpcJob = j
  PROVE  Pending' = Pending
<1>1. DoneFacts
  BY PendingIs
<1>2. Pending = [i \in 1..(Len(kind) - Done) |-> rpcPc = "wait" /\ rpcJob = Done + i]
  BY PendingIs DEF PendingFacts
<1>3. Pending' = [i \in 1..(Len(kind) - Done) |-> rpcPc' = "wait" /\ rpcJob' = Done + i]
  BY PendingNext DEF PendingFacts
<1>4. ASSUME NEW i \in 1..(Len(kind) - Done)
      PROVE  rpcPc' = "wait" /\ rpcJob' = Done + i <=> rpcPc = "wait" /\ rpcJob = Done + i
  <2>1. Done + i \in (Done + 1)..Len(kind)
    BY <1>1 DEF DoneFacts
  <2> QED BY <2>1
<1> QED BY <1>2, <1>3, <1>4

LEMMA OneJobMore ==
  ASSUME Inv, Inv', Len(kind') = Len(kind) + 1, Done' = Done,
         NEW b \in BOOLEAN, rpcPc' = "wait" /\ rpcJob' = Len(kind) + 1 <=> b,
         \A j \in (Done + 1)..Len(kind) :
           rpcPc' = "wait" /\ rpcJob' = j <=> rpcPc = "wait" /\ rpcJob = j
  PROVE  Pending' = Append(Pending, b)
<1>1. DoneFacts
  BY PendingIs
<1>2. PICK n \in Nat : n = Len(kind) - Done
  <2>1. Len(kind) - Done \in Nat
    BY <1>1 DEF DoneFacts
  <2> QED BY <2>1, Zenon
<1>3. Len(kind') - Done' = n + 1 /\ Done + (n + 1) = Len(kind) + 1
  BY <1>1, <1>2 DEF DoneFacts
<1>4. Pending = [i \in 1..n |-> rpcPc = "wait" /\ rpcJob = Done + i]
  BY <1>2, PendingIs DEF PendingFacts
<1>5. Pending' = [i \in 1..(n + 1) |-> rpcPc' = "wait" /\ rpcJob' = Done + i]
  BY <1>3, PendingNext DEF PendingFacts
<1>6. ASSUME NEW i \in 1..n PROVE Pending'[i] = Pending[i]
  <2>1. Done + i \in (Done + 1)..Len(kind)
    BY <1>1, <1>2 DEF DoneFacts
  <2> QED BY <1>4, <1>5, <2>1
<1>7. Pending'[n + 1] = b
  <2>1. Pending'[n + 1] = (rpcPc' = "wait" /\ rpcJob' = Len(kind) + 1)
    BY <1>3, <1>5
  <2>2. (rpcPc' = "wait" /\ rpcJob' = Len(kind) + 1) <=> b
    OBVIOUS
  <2> QED BY <2>1, <2>2
<1>8. Pending \in [1..n -> BOOLEAN] /\ Pending' \in [1..(n + 1) -> BOOLEAN]
  BY <1>4, <1>5
<1> QED BY <1>6, <1>7, <1>8, QueueGrows

LEMMA OneJobLess ==
  ASSUME Inv, Inv', Len(kind') = Len(kind), Done' = Done + 1,
         \A j \in (Done + 1)..Len(kind) :
           rpcPc' = "wait" /\ rpcJob' = j <=> rpcPc = "wait" /\ rpcJob = j
  PROVE  /\ Pending # <<>> /\ Pending' = Tail(Pending)
         /\ Head(Pending) <=> rpcPc = "wait" /\ rpcJob = Done + 1
<1>1. DoneFacts /\ DoneFacts'
  BY PendingIs, PendingNext
<1>2. PICK n \in Nat : n = Len(kind) - (Done + 1)
  <2>1. Len(kind) - (Done + 1) \in Nat
    BY <1>1 DEF DoneFacts
  <2> QED BY <2>1, Zenon
<1>3. Len(kind') - Done' = n /\ Len(kind) - Done = n + 1
  BY <1>1, <1>2 DEF DoneFacts
<1>4. Pending = [i \in 1..(n + 1) |-> rpcPc = "wait" /\ rpcJob = Done + i]
  BY <1>3, PendingIs DEF PendingFacts
<1>5. Pending' = [i \in 1..n |-> rpcPc' = "wait" /\ rpcJob' = (Done + 1) + i]
  BY <1>3, PendingNext DEF PendingFacts
<1>6. ASSUME NEW i \in 1..n PROVE Pending'[i] = Pending[i + 1]
  <2>1. (Done + 1) + i = Done + (i + 1) /\ Done + (i + 1) \in (Done + 1)..Len(kind)
    BY <1>1, <1>3 DEF DoneFacts
  <2>2. /\ Pending'[i] = (rpcPc' = "wait" /\ rpcJob' = Done + (i + 1))
        /\ Pending[i + 1] = (rpcPc = "wait" /\ rpcJob = Done + (i + 1))
    BY <1>4, <1>5, <2>1
  <2> QED BY <2>1, <2>2
<1>7. Pending[1] <=> rpcPc = "wait" /\ rpcJob = Done + 1
  <2>1. Pending[1] = (rpcPc = "wait" /\ rpcJob = Done + 1)
    BY <1>4
  <2> QED BY <2>1
<1>8. Pending \in [1..(n + 1) -> BOOLEAN] /\ Pending' \in [1..n -> BOOLEAN]
  BY <1>4, <1>5
<1>9. Pending # <<>> /\ Pending' = Tail(Pending) /\ Head(Pending) = Pending[1]
  BY <1>6, <1>8, QueueShrinks
<1> QED BY <1>7, <1>9

\* What each kind of step is to JobQueue.
LEMMA IsCall ==
  ASSUME Calling => Given # "none", Pending' = Append(Pending, TRUE),
         Calling' = TRUE, Given' = "none"
  PROVE  Bridge!Next
BY DEF Bridge!Next, Bridge!Call, Bridge!Idle, Pending, Given

LEMMA IsPost ==
  ASSUME Pending' = Append(Pending, FALSE), Calling' = Calling, Given' = Given
  PROVE  Bridge!Next
BY DEF Bridge!Next, Bridge!Post, Pending, Given

LEMMA IsRun ==
  ASSUME Pending # <<>>, Pending' = Tail(Pending), Calling' = Calling,
         Head(Pending) => Given' \in {"value", "error"},
         ~Head(Pending) => Given' = Given
  PROVE  Bridge!Next
BY DEF Bridge!Next, Bridge!Run, Pending, Given

LEMMA IsReturn ==
  ASSUME Calling, Given # "none", Calling' = FALSE, Given' = "none", Pending' = Pending
  PROVE  Bridge!Next
BY DEF Bridge!Next, Bridge!Return, Pending, Given

LEMMA IsGiveUp ==
  ASSUME Calling, Given = "none", Calling' = FALSE, Given' = Given,
         Pending' = [i \in DOMAIN Pending |-> FALSE]
  PROVE  Bridge!Next
BY DEF Bridge!Next, Bridge!GiveUp, Pending, Given

LEMMA IsStutter ==
  ASSUME Pending' = Pending, Calling' = Calling, Given' = Given
  PROVE  UNCHANGED Bridge!vars
BY DEF Bridge!vars, Pending, Given

LEMMA BridgeStep == Inv /\ Inv' /\ [Next]_vars => [Bridge!Next]_(Bridge!vars)
<1> SUFFICES ASSUME Inv, Inv', [Next]_vars
             PROVE  Bridge!Next \/ UNCHANGED Bridge!vars
  OBVIOUS
<1>d. DoneFacts /\ DoneFacts'
  BY PendingIs, PendingNext
\* A caller at work waits for a job that was queued; one that resumes has its
\* outcome.
<1>w. /\ Calling => rpcJob \in 1..Len(kind)
      /\ rpcPc = "resume" => rpcJob \in finished
      /\ \A j \in finished : outcome[j] \in {"value", "error"}
  BY DEF Inv, TypeOK, WaitInv, MainInv, Waiting, Calling, Outcomes
<1>n. rpcPc = "resume" => Given \in {"value", "error"}
  BY <1>w DEF Given, Calling
\* The main thread takes a job in hand and works on it.
<1>1. CASE Pop \/ Enter \/ Return \/ Raise
  <2>1. /\ UNCHANGED <<kind, rpcPc, rpcJob, finished>> /\ Calling' = Calling
        /\ \A j \in finished : outcome'[j] = outcome[j]
    <3>1. CASE Return \/ Raise
      <4>1. /\ outcome \in [Jobs -> Outcomes]
            /\ outcome' \in {[outcome EXCEPT ![mainJob] = "value"],
                             [outcome EXCEPT ![mainJob] = "error"]}
            /\ mainPc = "running"
        BY <3>1 DEF Return, Raise, Inv, TypeOK
      <4>2. mainJob \notin finished /\ finished \subseteq Jobs
        <5>1. mainJob = Popped /\ finished = 1..(Popped - 1) /\ finished \subseteq Jobs
          BY <4>1 DEF Inv, TypeOK, MainInv, Busy
        <5>2. Popped \in Int
          BY DEF Inv, TypeOK, Popped
        <5> QED BY <5>1, <5>2
      <4>3. \A j \in finished : outcome'[j] = outcome[j]
        BY <4>1, <4>2
      <4> QED BY <3>1, <4>3 DEF Return, Raise, rpcVars, Calling
    <3>2. CASE Pop \/ Enter
      BY <3>2 DEF Pop, Enter, rpcVars, jobVars, Calling
    <3> QED BY <1>1, <3>1, <3>2
  <2>2. Done' = Done
    <3>1. CASE Pop
      BY <3>1, PopFacts DEF Pop, Done, Busy, Inv, TypeOK, QueueInv, Popped
    <3>2. CASE Enter \/ Return \/ Raise
      BY <3>2 DEF Enter, Return, Raise, Done, Busy, Popped
    <3> QED BY <1>1, <3>1, <3>2
  <2>3. Pending' = Pending
    BY <2>1, <2>2, SameJobs
  <2>4. Given' = Given
    BY <1>w, <2>1 DEF Given
  <2> QED BY <2>1, <2>3, <2>4, IsStutter
\* It is done with a job, whose caller may be there.
<1>2. CASE Leave
  <2>1. /\ UNCHANGED <<queue, kind, rpcPc, rpcJob, outcome>> /\ Calling' = Calling
        /\ finished' = finished \cup {mainJob} /\ mainPc = "returned"
        /\ mainPc' = "pump"
    BY <1>2 DEF Leave, rpcVars, Calling
  <2>2. /\ mainJob = Done + 1 /\ Done' = Done + 1 /\ mainJob \notin finished
        /\ outcome[mainJob] \in {"value", "error"}
    BY <1>d, <2>1 DEF Done, DoneFacts, Busy, Popped, Inv, TypeOK, MainInv, Outcomes, Jobs
  <2>3. /\ Pending # <<>> /\ Pending' = Tail(Pending)
        /\ Head(Pending) <=> rpcPc = "wait" /\ rpcJob = Done + 1
    BY <2>1, <2>2, OneJobLess
  <2>4. Head(Pending) => Given' \in {"value", "error"}
    BY <2>1, <2>2, <2>3 DEF Given, Calling
  <2>5. ~Head(Pending) => Given' = Given
    BY <1>w, <2>1, <2>2, <2>3 DEF Given, Calling
  <2> QED BY <2>1, <2>3, <2>4, <2>5, IsRun
\* NVDA stops.
<1>3. CASE Stop
  <2>1. /\ UNCHANGED <<queue, kind, rpcPc, rpcJob, finished, outcome>>
        /\ Calling' = Calling /\ ~Busy /\ ~Busy'
    BY <1>3 DEF Stop, BeginStop, Joined, JoinTimesOut, Close, jobVars, rpcVars, Busy, Calling
  <2>2. Done' = Done
    BY <2>1 DEF Done, Popped
  <2>3. Pending' = Pending /\ Given' = Given
    BY <2>1, <2>2, SameJobs DEF Given
  <2> QED BY <2>1, <2>3, IsStutter
\* Jobs nobody waits for.
<1>4. CASE NvdaEvent \/ CallNowait
  <2>1. /\ \E k \in Kinds : Enqueue(k)
        /\ UNCHANGED <<mainPc, rpcPc, rpcJob>> /\ Calling' = Calling
    BY <1>4 DEF NvdaEvent, CallNowait, mainVars, rpcVars, Kinds, Methods, Calling
  <2>2. Len(kind') = Len(kind) + 1 /\ Popped' = Popped /\ UNCHANGED <<finished, outcome>>
    BY <2>1, EnqueueFacts DEF Enqueue
  <2>3. Done' = Done
    BY <2>1, <2>2 DEF Done, Busy
  <2>4. ~(rpcPc' = "wait" /\ rpcJob' = Len(kind) + 1)
    BY <1>d, <1>w, <2>1 DEF Calling, DoneFacts
  <2>5. Pending' = Append(Pending, FALSE)
    BY <2>1, <2>2, <2>3, <2>4, OneJobMore
  <2>6. Given' = Given
    BY <2>1, <2>2 DEF Given
  <2> QED BY <2>1, <2>5, <2>6, IsPost
\* A job with a caller.
<1>5. ASSUME NEW m \in Methods \ {"nowait"}, QueueAndWait(m), rpcPc \in {"accept", "press"},
             UNCHANGED mainVars
      PROVE  Bridge!Next
  <2>1. /\ Enqueue(m) /\ m \in Kinds /\ UNCHANGED mainPc
        /\ rpcPc' = "wait" /\ rpcJob' = Len(kind) + 1
    BY <1>5 DEF QueueAndWait, mainVars, Kinds
  <2>2. Len(kind') = Len(kind) + 1 /\ Popped' = Popped /\ UNCHANGED <<finished, outcome>>
    BY <2>1, EnqueueFacts DEF Enqueue
  <2>3. Done' = Done
    BY <2>1, <2>2 DEF Done, Busy
  <2>4. \A j \in (Done + 1)..Len(kind) :
          rpcPc' = "wait" /\ rpcJob' = j <=> rpcPc = "wait" /\ rpcJob = j
    BY <1>d, <1>5, <2>1 DEF DoneFacts
  <2>5. Pending' = Append(Pending, TRUE)
    BY <2>1, <2>2, <2>3, <2>4, OneJobMore
  <2>6. ~Calling /\ Calling' = TRUE
    BY <1>5, <2>1 DEF Calling
  <2>7. Given' = "none"
    <3>1. Len(kind) + 1 \notin finished'
      BY <1>d, <2>2 DEF DoneFacts
    <3> QED BY <2>1, <3>1 DEF Given
  <2> QED BY <2>5, <2>6, <2>7, IsCall
<1>6. CASE Press \/ CallAndWait("idle") \/ CallAndWait("quit") \/ CallAndWait("run")
  BY <1>5, <1>6 DEF Press, CallAndWait, Methods
\* Steps of the RPC thread that queue nothing.
<1>7. ASSUME UNCHANGED <<queue, jobVars, mainVars>>
      PROVE  Len(kind') = Len(kind) /\ Done' = Done /\ UNCHANGED <<finished, outcome>>
  BY <1>7 DEF jobVars, mainVars, Done, Busy, Popped
<1>8. CASE CallKeys \/ LoopEnds \/ RaiseTimeout
  <2>1. UNCHANGED <<queue, jobVars, mainVars>> /\ ~Calling /\ ~Calling' /\ rpcPc' # "wait"
        /\ rpcPc # "wait"
    BY <1>8 DEF CallKeys, LoopEnds, RaiseTimeout, Replied, Calling
  <2>2. Pending' = Pending /\ Given' = Given /\ Calling' = Calling
    BY <1>7, <2>1, SameJobs DEF Given, Calling
  <2> QED BY <2>2, IsStutter
<1>9. CASE GiveUp
  <2>1. UNCHANGED <<queue, kind, finished, outcome, mainPc, mainJob>> /\ ~Calling /\ ~Calling'
        /\ rpcPc' # "wait" /\ rpcPc # "wait"
    BY <1>9 DEF GiveUp, Calling, mainVars
  <2>2. Done' = Done
    BY <2>1 DEF Done, Busy, Popped
  <2>3. Pending' = Pending /\ Given' = Given /\ Calling' = Calling
    BY <2>1, <2>2, SameJobs DEF Given, Calling
  <2> QED BY <2>3, IsStutter
<1>10. CASE WaitReturns
  <2>1. /\ UNCHANGED <<queue, jobVars, mainVars, rpcJob>> /\ rpcJob \in finished
        /\ rpcPc = "wait" /\ rpcPc' = "resume" /\ Calling' = Calling
    BY <1>10 DEF WaitReturns, Calling
  <2>2. \A j \in (Done + 1)..Len(kind) : rpcJob # j
    BY <1>d, <2>1 DEF DoneFacts
  <2>3. Pending' = Pending
    BY <1>7, <2>1, <2>2, SameJobs
  <2>4. Given' = Given
    BY <1>7, <2>1 DEF Given, Calling
  <2> QED BY <2>1, <2>3, <2>4, IsStutter
<1>11. CASE WaitExpires
  <2>1. /\ UNCHANGED <<queue, jobVars, mainVars, rpcJob>> /\ rpcJob \notin finished
        /\ rpcPc = "wait" /\ rpcPc' = "expired" /\ Calling /\ Calling' = FALSE
    BY <1>11 DEF WaitExpires, Calling
  <2>2. Given = "none" /\ Given' = Given
    BY <2>1 DEF Given
  <2>3. Pending' = [i \in DOMAIN Pending |-> FALSE]
    <3>1. Pending' = [i \in 1..(Len(kind) - Done) |-> rpcPc' = "wait" /\ rpcJob' = Done + i]
      BY <1>7, <2>1, PendingNext DEF PendingFacts
    <3>2. DOMAIN Pending = 1..(Len(kind) - Done)
      BY PendingIs DEF PendingFacts
    <3> QED BY <2>1, <3>1, <3>2
  <2> QED BY <2>1, <2>2, <2>3, IsGiveUp
<1>12. CASE ReRaise \/ AnswerIdle \/ AnswerValue \/ RecordPress
  <2>1. /\ UNCHANGED <<queue, jobVars, mainVars>>
        /\ rpcPc = "resume" /\ rpcPc' \in {"accept", "press"} /\ Calling /\ Calling' = FALSE
    BY <1>12 DEF ReRaise, AnswerIdle, AnswerValue, RecordPress, Replied, Calling
  <2>2. Given # "none" /\ Given' = "none"
    BY <1>n, <2>1 DEF Given
  <2>3. Pending' = Pending
    BY <1>7, <2>1, SameJobs
  <2> QED BY <2>1, <2>2, <2>3, IsReturn
<1>13. CASE UNCHANGED vars
  BY <1>13 DEF vars, jobVars, mainVars, rpcVars, Bridge!vars, Undone, Calling
<1> QED BY <1>1, <1>2, <1>3, <1>4, <1>6, <1>8, <1>9, <1>10, <1>11, <1>12, <1>13
        DEF Next, Pump, Call, Serve

(* For every bound: to its callers, run_on_main_thread is one atomic call  *)
(* that gets its own job's outcome or gives up before there is one.        *)
THEOREM BridgeImplementsJobQueue == Spec => ImplementsJobQueue
<1>1. Init => Bridge!Init
  <2> SUFFICES ASSUME Init PROVE Bridge!Init
    OBVIOUS
  <2>1. ~Calling /\ Undone = <<>>
    BY DEF Init, Calling, Undone
  <2>2. [i \in DOMAIN Undone |-> rpcPc = "wait" /\ rpcJob = Undone[i]] = <<>>
    BY <2>1
  <2> QED BY <2>1, <2>2 DEF Bridge!Init
<1>2. Inv /\ [Next]_vars => Inv'
  BY TypeStep, MainStep, CallStep DEF Inv
<1> QED BY InvHolds, <1>1, <1>2, BridgeStep, PTL DEF Spec, ImplementsJobQueue, Bridge!Spec
--------------------------------------------------------------------------------
(* IdleMeansQuiet does not hold; what does hold of the answer "idle" is    *)
(* that every job ever queued has run to its end, except at most the one   *)
(* the main thread has in its hands.                                       *)
IdleButForOne ==
  [][\A j \in Jobs : reply[j] # "idle" /\ reply'[j] = "idle" =>
       (1..Len(kind)) \ finished = IF Busy THEN {mainJob} ELSE {}]_vars

(* For every bound: wait_until_idle's "idle" leaves at most the job under  *)
(* way unaccounted for.                                                    *)
THEOREM IdleLeavesOneAtMost == Spec => IdleButForOne
<1>1. ASSUME Inv, [Next]_vars, NEW j \in Jobs, reply[j] # "idle", reply'[j] = "idle"
      PROVE  (1..Len(kind)) \ finished = IF Busy THEN {mainJob} ELSE {}
  <2>1. reply \in [Jobs -> Replies]
    BY <1>1 DEF Inv, TypeOK
  <2>2. AnswerIdle
    BY <1>1, <2>1 DEF Next, Pump, Stop, Call, Serve, NvdaEvent, Pop, Enter, Return, Raise,
           Leave, BeginStop, Joined, JoinTimesOut, Close, CallKeys, CallAndWait, CallNowait,
           Press, WaitReturns, WaitExpires, GiveUp, RaiseTimeout, ReRaise, AnswerValue,
           RecordPress, LoopEnds, Replied, QueueAndWait, Enqueue, vars
  <2>3. queue = <<>>
    BY <1>1, <2>1, <2>2 DEF AnswerIdle, Replied
  <2>4. Popped = Len(kind) /\ Len(kind) \in Nat
    BY <1>1, <2>3 DEF Popped, Inv, TypeOK
  <2> QED BY <1>1, <2>4 DEF Inv, MainInv
<1>2. Inv /\ [Next]_vars =>
        [\A j \in Jobs : reply[j] # "idle" /\ reply'[j] = "idle" =>
           (1..Len(kind)) \ finished = IF Busy THEN {mainJob} ELSE {}]_vars
  BY <1>1
<1> QED BY InvHolds, <1>2, PTL DEF Spec, IdleButForOne
--------------------------------------------------------------------------------
(* LateFailureIsLogged does not hold; what does hold is that a failure is  *)
(* logged unless its caller has not yet set timed_out when it is raised:   *)
(* the caller is waiting and may still be told, or is between the end of   *)
(* its wait and timed_out.set().                                           *)
Attended(j) == rpcPc \in {"wait", "expired"} /\ rpcJob = j

LoggedUnlessAttended ==
  [][\A j \in Jobs : outcome[j] # "error" /\ outcome'[j] = "error" =>
       j \in logged' \/ Attended(j)]_vars

\* No job is left alone but by its end or by a caller that has said so.
KeptInv == \A j \in 1..Len(kind) : kind[j] \in Methods \ {"nowait"} =>
             Attended(j) \/ j \in timedOut \/ j \in finished

LEMMA KeptStep == Inv /\ KeptInv /\ [Next]_vars => KeptInv'
<1> SUFFICES ASSUME Inv, KeptInv, [Next]_vars,
                    NEW j \in 1..Len(kind'), kind'[j] \in Methods \ {"nowait"}
             PROVE  (Attended(j) \/ j \in timedOut \/ j \in finished)'
  BY DEF KeptInv
<1>t. Len(kind) \in Nat /\ Len(kind) <= MaxJobs /\ kind \in Seq(Kinds)
  BY DEF Inv, TypeOK
<1>1. CASE j \in 1..Len(kind) /\ kind[j] \in Methods \ {"nowait"}
  <2>1. Attended(j) \/ j \in timedOut \/ j \in finished
    BY <1>1 DEF KeptInv
  <2>2. finished \subseteq finished' /\ timedOut \subseteq timedOut'
    BY DEF Next, Pump, Stop, Call, Serve, NvdaEvent, Pop, Enter, Return, Raise, Leave,
           BeginStop, Joined, JoinTimesOut, Close, CallKeys, CallAndWait, CallNowait,
           Press, WaitReturns, WaitExpires, GiveUp, RaiseTimeout, ReRaise, AnswerIdle,
           AnswerValue, RecordPress, LoopEnds, Replied, QueueAndWait, Enqueue, vars, jobVars
  <2>3. ASSUME Attended(j) PROVE Attended(j)' \/ j \in timedOut' \/ j \in finished'
    BY <2>2, <2>3
       DEF Attended, Next, Pump, Stop, Call, Serve, NvdaEvent, Pop, Enter, Return, Raise,
           Leave, BeginStop, Joined, JoinTimesOut, Close, CallKeys, CallAndWait, CallNowait,
           Press, WaitReturns, WaitExpires, GiveUp, RaiseTimeout, ReRaise, AnswerIdle,
           AnswerValue, RecordPress, LoopEnds, vars, rpcVars
  <2> QED BY <2>1, <2>2, <2>3
<1>2. CASE ~(j \in 1..Len(kind) /\ kind[j] \in Methods \ {"nowait"})
  <2>1. ASSUME NEW k \in Kinds, Enqueue(k)
        PROVE  j = Len(kind) + 1 /\ k \notin {"event", "nowait"}
    BY <1>2, <1>t, <2>1, EnqueueFacts DEF Methods
  <2>2. kind' # kind
    BY <1>2
  <2>3. ~Enqueue("event") /\ ~Enqueue("nowait")
    BY <2>1 DEF Kinds, Methods
  <2>4. \E m \in {"press", "idle", "quit", "run"} : QueueAndWait(m)
    BY <2>2, <2>3
       DEF Next, Pump, Stop, Call, Serve, NvdaEvent, Pop, Enter, Return, Raise, Leave,
           BeginStop, Joined, JoinTimesOut, Close, CallKeys, CallAndWait, CallNowait, Press,
           WaitReturns, WaitExpires, GiveUp, RaiseTimeout, ReRaise, AnswerIdle, AnswerValue,
           RecordPress, LoopEnds, Replied, vars, jobVars
  <2>5. j = Len(kind) + 1
    BY <2>1, <2>4 DEF QueueAndWait, Kinds, Methods
  <2> QED BY <2>4, <2>5 DEF QueueAndWait, Attended
<1> QED BY <1>1, <1>2

(* For every bound: a failure that is raised after its caller has set      *)
(* timed_out, or that has no caller, is logged.                            *)
THEOREM LateFailuresAreLogged == Spec => LoggedUnlessAttended
<1>1. Init => KeptInv
  BY DEF Init, KeptInv
<1>2. ASSUME Inv, KeptInv, [Next]_vars, NEW j \in Jobs,
             outcome[j] # "error", outcome'[j] = "error"
      PROVE  j \in logged' \/ Attended(j)
  <2>1. outcome \in [Jobs -> Outcomes]
    BY <1>2 DEF Inv, TypeOK
  <2>2. Raise /\ j = mainJob
    BY <1>2, <2>1
       DEF Next, Pump, Stop, Call, Serve, NvdaEvent, Pop, Enter, Return, Raise, Leave,
           BeginStop, Joined, JoinTimesOut, Close, CallKeys, CallAndWait, CallNowait, Press,
           WaitReturns, WaitExpires, GiveUp, RaiseTimeout, ReRaise, AnswerIdle, AnswerValue,
           RecordPress, LoopEnds, Replied, QueueAndWait, Enqueue, vars, jobVars
  <2>3. CASE LogsFailure(j)
    BY <2>2, <2>3 DEF Raise
  <2>4. CASE ~LogsFailure(j)
    <3>1. /\ j = Popped /\ Popped >= 1 /\ finished = 1..(Popped - 1)
          /\ Len(queue) <= Len(kind)
      BY <1>2, <2>2 DEF Raise, Busy, Inv, MainInv, QueueInv
    <3>2. Len(queue) \in Nat /\ Len(kind) \in Nat /\ kind \in Seq(Kinds)
      BY <1>2 DEF Inv, TypeOK
    <3>3. j \in 1..Len(kind) /\ j \notin finished
      BY <3>1, <3>2 DEF Popped
    <3>4. kind[j] \in Kinds
      BY <3>2, <3>3
    <3>5. kind[j] \in Methods \ {"nowait"} /\ j \notin timedOut
      BY <2>4, <3>4 DEF LogsFailure, Kinds
    <3> QED BY <1>2, <3>3, <3>5 DEF KeptInv
  <2> QED BY <2>3, <2>4
<1>3. Inv /\ KeptInv /\ [Next]_vars =>
        [\A j \in Jobs : outcome[j] # "error" /\ outcome'[j] = "error" =>
           j \in logged' \/ Attended(j)]_vars
  BY <1>2
<1>4. Spec => [](Inv /\ KeptInv)
  BY InvHolds, <1>1, KeptStep, PTL DEF Spec
<1> QED BY <1>3, <1>4, PTL DEF Spec, LoggedUnlessAttended
================================================================================
