------------------------------- MODULE MainThread ------------------------------
(***************************************************************************)
(* How the spy gets work done inside NVDA.  One RPC thread serves one call *)
(* at a time (server.py); a handler that touches NVDA puts a callable on   *)
(* NVDA's event queue and waits for it with a timeout                      *)
(* (mainthread.run_on_main_thread); NVDA's main thread pumps the queue     *)
(* (queueHandler, external).  The n-th callable ever queued is job n.      *)
(*                                                                         *)
(* The two threads meet in three events per job, here sets of jobs:        *)
(* started, finished and timedOut.  No lock covers them, so every read and *)
(* every write of one is a step of its own.                                *)
(***************************************************************************)
EXTENDS Integers, Sequences, FiniteSets

CONSTANTS MaxJobs,          \* bound: callables put on the event queue
          MaxKeys           \* bound: characters in one keys_type call

ASSUME BoundsAssumption == MaxJobs \in Nat /\ MaxKeys \in Nat \ {0}

Jobs == 1..MaxJobs

\* "press" is keys_press and keys_type, "idle" wait_until_idle, "nowait"
\* exec_in_nvda_nowait, "quit" the call of that name; "run" is any handler
\* that returns what run_on_main_thread gives it (eval_in_nvda,
\* exec_in_nvda, speech_speak, speech_cancel, ...).
Methods == {"press", "idle", "nowait", "quit", "run"}

Kinds == Methods \cup {"event"}     \* "event": queued by NVDA itself

Outcomes == {"missing", "value", "error"}

Replies == {"none", "value", "error", "hung", "neverStarted", "idle", "busy"}

MainPcs == {"pump", "popped", "running", "returned", "join", "close", "gone"}

RpcPcs == {"accept", "press", "wait", "expired", "judge", "resume", "down"}

VARIABLES
  queue,        \* queueHandler.eventQueue
  kind,         \* the kind of every job ever queued
  started,      \* jobs entered by the main thread
  finished,     \* jobs the main thread has left
  timedOut,     \* jobs whose caller has given up
  outcome,      \* what each job left for its caller
  logged,       \* jobs whose failure went to NVDA's log
  mainPc, mainJob,
  rpcPc, rpcMethod, rpcJob,
  rpcLeft,      \* gestures keys_type still has to press
  rpcPatient,   \* the caller's timeout is longer than anything below
  reply,        \* what the caller of each job was told
  played,       \* gestures NVDA has processed, in order
  sent,         \* _SENT: gestures keys_sent reports
  exiting,      \* core.triggerNVDAExit has run
  shutdown      \* the server has been asked to leave its loop

jobVars  == <<kind, started, finished, timedOut, outcome, logged>>
mainVars == <<mainPc, mainJob>>
rpcVars  == <<rpcPc, rpcMethod, rpcJob, rpcLeft, rpcPatient>>
vars == <<queue, jobVars, mainVars, rpcVars, reply, played, sent, exiting,
          shutdown>>

TypeOK ==
  /\ queue \in Seq(Jobs)
  /\ kind \in Seq(Kinds) /\ Len(kind) <= MaxJobs
  /\ started \subseteq Jobs
  /\ finished \subseteq Jobs
  /\ timedOut \subseteq Jobs
  /\ outcome \in [Jobs -> Outcomes]
  /\ logged \subseteq Jobs
  /\ mainPc \in MainPcs /\ mainJob \in Jobs \cup {0}
  /\ rpcPc \in RpcPcs /\ rpcMethod \in Methods /\ rpcJob \in Jobs \cup {0}
  /\ rpcLeft \in 0..MaxKeys /\ rpcPatient \in BOOLEAN
  /\ reply \in [Jobs -> Replies]
  /\ played \in Seq(Jobs)
  /\ sent \in Seq(Jobs)
  /\ exiting \in BOOLEAN /\ shutdown \in BOOLEAN

Init ==
  /\ queue = <<>>
  /\ kind = <<>>
  /\ started = {} /\ finished = {} /\ timedOut = {} /\ logged = {}
  /\ outcome = [j \in Jobs |-> "missing"]
  /\ mainPc = "pump" /\ mainJob = 0
  /\ rpcPc = "accept" /\ rpcMethod = "run" /\ rpcJob = 0
  /\ rpcLeft = 0 /\ rpcPatient = FALSE
  /\ reply = [j \in Jobs |-> "none"]
  /\ played = <<>> /\ sent = <<>>
  /\ exiting = FALSE /\ shutdown = FALSE
--------------------------------------------------------------------------------
\* A stack in place of NVDA's queue.
EnqueueFirst(k) == /\ Len(kind) < MaxJobs
                   /\ kind' = Append(kind, k)
                   /\ queue' = <<Len(kind) + 1>> \o queue
                   /\ UNCHANGED <<started, finished, timedOut, outcome, logged>>

\* queueHandler.queueFunction(eventQueue, callable)
Enqueue(k) == /\ Len(kind) < MaxJobs
              /\ kind' = Append(kind, k)
              /\ queue' = Append(queue, Len(kind) + 1)
              /\ UNCHANGED <<started, finished, timedOut, outcome, logged>>

\* Work NVDA queues for itself, from any of its threads.
NvdaEvent == /\ mainPc # "gone"
             /\ Len(kind) + rpcLeft < MaxJobs     \* leave room for keys_type
             /\ Enqueue("event")
             /\ UNCHANGED <<mainVars, rpcVars, reply, played, sent, exiting,
                            shutdown>>
--------------------------------------------------------------------------------
(* The main thread: pump the queue, run each job, and stop when NVDA exits *)

\* The queue gives up a job before the job runs.
Pop == /\ mainPc = "pump"
       /\ queue # <<>>
       /\ mainJob' = Head(queue)
       /\ queue' = Tail(queue)
       /\ mainPc' = "popped"
       /\ UNCHANGED <<jobVars, rpcVars, reply, played, sent, exiting, shutdown>>

\* started.set()
Enter == /\ mainPc = "popped"
         /\ started' = started \cup {mainJob}
         /\ mainPc' = "running"
         /\ UNCHANGED <<queue, kind, finished, timedOut, outcome, logged, mainJob,
                        rpcVars, reply, played, sent, exiting, shutdown>>

\* fn() returns; a press has been processed, a quit has NVDA leave its loop.
Return ==
  /\ mainPc = "running"
  /\ outcome' = [outcome EXCEPT ![mainJob] = "value"]
  /\ played' = IF kind[mainJob] = "press" THEN Append(played, mainJob) ELSE played
  /\ exiting' = (exiting \/ kind[mainJob] = "quit")
  /\ mainPc' = "returned"
  /\ UNCHANGED <<queue, kind, started, finished, timedOut, logged, mainJob, rpcVars,
                 reply, sent, shutdown>>

\* A logger that does not ask whether the caller is still there.
LogsAlways(j) == TRUE

\* Whether a failure is written to NVDA's log: runner asks whether its caller
\* has given up; exec_in_nvda_nowait and NVDA's pump have no caller to tell.
LogsFailure(j) == kind[j] \in {"event", "nowait"} \/ j \in timedOut

\* fn() raises; a no-op cannot.
Raise ==
  /\ mainPc = "running"
  /\ kind[mainJob] # "idle"
  /\ outcome' = [outcome EXCEPT ![mainJob] = "error"]
  /\ logged' = IF LogsFailure(mainJob) THEN logged \cup {mainJob} ELSE logged
  /\ mainPc' = "returned"
  /\ UNCHANGED <<queue, kind, started, finished, timedOut, mainJob, rpcVars, reply,
                 played, sent, exiting, shutdown>>

\* finished.set(), in runner's finally
Leave == /\ mainPc = "returned"
         /\ finished' = finished \cup {mainJob}
         /\ mainPc' = "pump"
         /\ UNCHANGED <<queue, kind, started, timedOut, outcome, logged, mainJob,
                        rpcVars, reply, played, sent, exiting, shutdown>>

\* GlobalPlugin.terminate -> SpyServer.stop: the helper thread asks the loop to
\* end, and the main thread joins it.
BeginStop == /\ mainPc = "pump"
             /\ exiting
             /\ shutdown' = TRUE
             /\ mainPc' = "join"
             /\ UNCHANGED <<queue, jobVars, mainJob, rpcVars, reply, played, sent,
                            exiting>>

Joined == /\ mainPc = "join"
          /\ rpcPc = "down"
          /\ mainPc' = "close"
          /\ UNCHANGED <<queue, jobVars, mainJob, rpcVars, reply, played, sent,
                         exiting, shutdown>>

\* A join without a limit.
JoinsForever == FALSE /\ UNCHANGED vars

\* stopper.join(STOP_TIMEOUT) gives up on a loop that is inside a handler.
JoinTimesOut == /\ mainPc = "join"
                /\ rpcPc # "down"
                /\ mainPc' = "close"
                /\ UNCHANGED <<queue, jobVars, mainJob, rpcVars, reply, played,
                               sent, exiting, shutdown>>

\* server_close(), _remove_handshake(): NVDA is on its way out.
Close == /\ mainPc = "close"
         /\ mainPc' = "gone"
         /\ UNCHANGED <<queue, jobVars, mainJob, rpcVars, reply, played, sent,
                        exiting, shutdown>>
--------------------------------------------------------------------------------
(* The RPC thread: one call at a time                                      *)

\* Queue the callable of a call and start waiting for it.
QueueAndWait(m) == /\ Enqueue(m)
                   /\ rpcMethod' = m
                   /\ rpcJob' = Len(kind) + 1
                   /\ rpcPc' = "wait"

\* keys_press and keys_type (one press per character); each waits as long as
\* the caller asked for.
CallKeys == /\ rpcPc = "accept"
            /\ ~shutdown
            /\ \E n \in 1..MaxKeys, patient \in BOOLEAN :
                 /\ Len(kind) + n <= MaxJobs
                 /\ rpcLeft' = n
                 /\ rpcPatient' = patient
            /\ rpcPc' = "press"
            /\ UNCHANGED <<queue, jobVars, mainVars, rpcMethod, rpcJob, reply,
                           played, sent, exiting, shutdown>>

\* The next press of keys_type, or the only one of keys_press.
Press == /\ rpcPc = "press"
         /\ QueueAndWait("press")
         /\ rpcLeft' = rpcLeft - 1
         /\ UNCHANGED <<mainVars, rpcPatient, reply, played, sent, exiting,
                        shutdown>>

\* Any other call that waits for the main thread.
CallAndWait(m) == /\ rpcPc = "accept"
                  /\ ~shutdown
                  /\ QueueAndWait(m)
                  /\ rpcLeft' = 0
                  /\ rpcPatient' \in (IF m = "quit" THEN {FALSE} ELSE BOOLEAN)
                  /\ UNCHANGED <<mainVars, reply, played, sent, exiting, shutdown>>

\* exec_in_nvda_nowait: queue and return.
CallNowait == /\ rpcPc = "accept"
              /\ ~shutdown
              /\ Enqueue("nowait")
              /\ reply' = [reply EXCEPT ![Len(kind) + 1] = "value"]
              /\ UNCHANGED <<mainVars, rpcVars, played, sent, exiting, shutdown>>

\* finished.wait(timeout) is true.
WaitReturns == /\ rpcPc = "wait"
               /\ rpcJob \in finished
               /\ rpcPc' = "resume"
               /\ UNCHANGED <<queue, jobVars, mainVars, rpcMethod, rpcJob, rpcLeft,
                              rpcPatient, reply, played, sent, exiting, shutdown>>

\* The result of finished.wait(timeout) goes unread.
WaitResultIgnored ==
  /\ rpcPc = "wait"
  /\ rpcJob \notin finished
  /\ ~rpcPatient
  /\ rpcPc' = "resume"
  /\ UNCHANGED <<queue, jobVars, mainVars, rpcMethod, rpcJob, rpcLeft, rpcPatient,
                 reply, played, sent, exiting, shutdown>>

\* A wait that gives up only on a job that has started.
WaitsForTheStart ==
  /\ rpcPc = "wait"
  /\ rpcJob \in started \ finished
  /\ ~rpcPatient
  /\ rpcPc' = "expired"
  /\ UNCHANGED <<queue, jobVars, mainVars, rpcMethod, rpcJob, rpcLeft, rpcPatient,
                 reply, played, sent, exiting, shutdown>>

\* finished.wait(timeout) is false: the time is up and the event is not set.
WaitExpires == /\ rpcPc = "wait"
               /\ rpcJob \notin finished
               /\ ~rpcPatient
               /\ rpcPc' = "expired"
               /\ UNCHANGED <<queue, jobVars, mainVars, rpcMethod, rpcJob, rpcLeft,
                              rpcPatient, reply, played, sent, exiting, shutdown>>

\* timed_out.set()
GiveUp == /\ rpcPc = "expired"
          /\ timedOut' = timedOut \cup {rpcJob}
          /\ rpcPc' = "judge"
          /\ UNCHANGED <<queue, kind, started, finished, outcome, logged, mainVars,
                         rpcMethod, rpcJob, rpcLeft, rpcPatient, reply, played, sent,
                         exiting, shutdown>>

\* Back in serve_forever: the reply is written and the call forgotten.
Replied(answer) == /\ reply' = [reply EXCEPT ![rpcJob] = answer]
                   /\ rpcPc' = "accept"
                   /\ rpcLeft' = 0
                   /\ UNCHANGED <<queue, jobVars, mainVars, rpcMethod, rpcJob,
                                  rpcPatient, played, exiting, shutdown>>

\* TimeoutError, in the words `started' chooses.
RaiseTimeout == /\ rpcPc = "judge"
                /\ Replied(IF rpcJob \in started THEN "hung" ELSE "neverStarted")
                /\ UNCHANGED sent

\* run_on_main_thread re-raises what the job raised.
ReRaise == /\ rpcPc = "resume"
           /\ outcome[rpcJob] = "error"
           /\ Replied("error")
           /\ UNCHANGED sent

\* wait_until_idle, after its no-op has run: eventQueue.empty().
AnswerIdle == /\ rpcPc = "resume"
              /\ outcome[rpcJob] # "error"
              /\ rpcMethod = "idle"
              /\ Replied(IF queue = <<>> THEN "idle" ELSE "busy")
              /\ UNCHANGED sent

\* Every other handler that only returns what it was given.
AnswerValue == /\ rpcPc = "resume"
               /\ outcome[rpcJob] # "error"
               /\ rpcMethod \in {"run", "quit"}
               /\ Replied("value")
               /\ UNCHANGED sent

\* A press recorded whatever became of it, as in a finally.
RecordAlways == /\ rpcPc = "resume"
                /\ rpcMethod = "press"
                /\ sent' = Append(sent, rpcJob)
                /\ Replied("value")

\* A loop of keys_type that runs once too often.
RecordPressOnceMore ==
  /\ rpcPc = "resume"
  /\ outcome[rpcJob] # "error"
  /\ rpcMethod = "press"
  /\ sent' = Append(sent, rpcJob)
  /\ rpcPc' = "press"
  /\ reply' = [reply EXCEPT ![rpcJob] = "value"]
  /\ UNCHANGED <<queue, jobVars, mainVars, rpcMethod, rpcJob, rpcLeft, rpcPatient,
                 played, exiting, shutdown>>

\* A keys_type that records no more than its last press.
RecordLastPress ==
  /\ rpcPc = "resume"
  /\ outcome[rpcJob] # "error"
  /\ rpcMethod = "press"
  /\ \/ rpcLeft = 0 /\ Replied("value") /\ sent' = Append(sent, rpcJob)
     \/ /\ rpcLeft > 0
        /\ rpcPc' = "press"
        /\ reply' = [reply EXCEPT ![rpcJob] = "value"]
        /\ UNCHANGED <<queue, jobVars, mainVars, rpcMethod, rpcJob, rpcLeft,
                       rpcPatient, played, sent, exiting, shutdown>>

\* keys_press records the gesture; the handler is done, or goes on typing.
RecordPress ==
  /\ rpcPc = "resume"
  /\ outcome[rpcJob] # "error"
  /\ rpcMethod = "press"
  /\ sent' = Append(sent, rpcJob)
  /\ \/ rpcLeft = 0 /\ Replied("value")
     \/ /\ rpcLeft > 0
        /\ rpcPc' = "press"
        /\ reply' = [reply EXCEPT ![rpcJob] = "value"]
        /\ UNCHANGED <<queue, jobVars, mainVars, rpcMethod, rpcJob, rpcLeft,
                       rpcPatient, played, exiting, shutdown>>

\* serve_forever looks at the request to shut down between two calls.
LoopEnds == /\ rpcPc = "accept"
            /\ shutdown
            /\ rpcPc' = "down"
            /\ UNCHANGED <<queue, jobVars, mainVars, rpcMethod, rpcJob, rpcLeft,
                           rpcPatient, reply, played, sent, exiting, shutdown>>
--------------------------------------------------------------------------------
Pump == Pop \/ Enter \/ Return \/ Raise \/ Leave

Stop == BeginStop \/ Joined \/ JoinTimesOut \/ Close

Call == CallKeys \/ CallAndWait("idle") \/ CallAndWait("quit")
        \/ CallAndWait("run") \/ CallNowait

Serve == Press \/ WaitReturns \/ WaitExpires \/ GiveUp \/ RaiseTimeout \/ ReRaise
         \/ AnswerIdle \/ AnswerValue \/ RecordPress \/ LoopEnds

Next == NvdaEvent \/ Pump \/ Stop \/ Call \/ Serve

Spec == Init /\ [][Next]_vars

\* A handler takes its own steps and its timer runs out, as long as there is
\* an NVDA process: the serving thread is a daemon, and from Close on it may
\* end with the process at any moment.  stop() takes its steps and its join
\* runs out.  Nothing is assumed of the jobs NVDA runs.
FairSpec == Spec /\ WF_vars(Serve /\ mainPc # "gone") /\ WF_vars(Stop)
--------------------------------------------------------------------------------
(* Properties.                                                             *)

(* A caller is told "value" or "error" only of a job that ended that way,  *)
(* and of no other job's end; a caller told of a timeout was right to give *)
(* up, because its own job had not ended when its time was up.             *)
RepliesAreTrue ==
  \A j \in Jobs :
    /\ reply[j] \in {"idle", "busy"} => j \in finished /\ outcome[j] = "value"
    /\ reply[j] = "value" /\ kind[j] # "nowait" =>
         j \in finished /\ outcome[j] = "value"
    /\ reply[j] = "error" => j \in finished /\ outcome[j] = "error"
    /\ j \in timedOut => reply[j] \in {"none", "hung", "neverStarted"}

(* A failure reaches the test or NVDA's log, never both: a runner that     *)
(* sees its caller gone logs, a caller that is there re-raises.            *)
FailureSurfacesOnce == \A j \in logged : reply[j] # "error"

(* Once wait_until_idle answers at all, every job queued before its no-op  *)
(* has run to its end, the ones whose own callers gave up included.        *)
IdleIsBarrier ==
  \A j \in Jobs : reply[j] \in {"idle", "busy"} => 1..(j - 1) \subseteq finished

(* keys_sent never reports a gesture NVDA has not processed, and reports   *)
(* the ones it does report in the order NVDA processed them, whatever was  *)
(* left behind in the queue by calls that timed out.                       *)
SentWasPlayedInOrder ==
  /\ \A i \in DOMAIN sent : \E a \in DOMAIN played : played[a] = sent[i]
  /\ \A i, k \in DOMAIN sent : \A a, b \in DOMAIN played :
       i < k /\ played[a] = sent[i] /\ played[b] = sent[k] => a < b

(* A gesture NVDA has processed is missing from keys_sent only if its      *)
(* press timed out, and only the press that is still waiting has yet to    *)
(* find out: keys_type loses no character of a text it goes on with.       *)
OnlyTimedOutUnreported ==
  rpcPc \notin {"wait", "expired", "resume"} =>
    \A a \in DOMAIN played :
      played[a] \in timedOut \/ \E i \in DOMAIN sent : sent[i] = played[a]

(* Whatever the three events of a job interleave to, run_on_main_thread is *)
(* one atomic call to those who use it: jobs run in order, and a call ends *)
(* with its own job's outcome or gives up before there is one.  A job is   *)
(* done when finished is set, and a caller has given up once its wait has  *)
(* expired, before it says so.                                             *)
Undone == IF mainPc \in {"popped", "running", "returned"}
          THEN <<mainJob>> \o queue
          ELSE queue

Calling == rpcPc \in {"wait", "resume"}

Bridge == INSTANCE JobQueue
            WITH Answers <- {"value", "error"},
                 pending <- [i \in DOMAIN Undone |->
                               rpcPc = "wait" /\ rpcJob = Undone[i]],
                 calling <- Calling,
                 answer  <- IF Calling /\ rpcJob \in finished
                            THEN outcome[rpcJob] ELSE "none"

ImplementsJobQueue == Bridge!Spec

(* Every call whose caller sets a limit is answered, whatever hangs on the *)
(* main thread, unless NVDA's process is gone first: the thread that       *)
(* answers is a daemon, and such a call ends as a lost connection.         *)
EveryCallAnswered ==
  (rpcPc \notin {"accept", "down"} /\ ~rpcPatient)
    ~> (rpcPc \in {"accept", "down"} \/ mainPc = "gone")

(* stop() returns although the loop it stops may be inside a handler that  *)
(* waits, without limit, for the very thread that called stop().           *)
StopReturns == (mainPc = "join") ~> (mainPc = "gone")
--------------------------------------------------------------------------------
(* What the docs and tests of the repository say and the code does not do. *)

(* A failure nobody is waiting for any more is logged (test_mainthread.py, *)
(* test_a_failure_after_the_caller_timed_out_is_logged); until its caller  *)
(* has been told, the failure may still be on its way.                     *)
LateFailureIsLogged ==
  \A j \in finished : outcome[j] = "error" /\ reply[j] \in {"hung", "neverStarted"}
                        => j \in logged

(* An empty queue proves nothing new arrived behind the no-op              *)
(* (wait_until_idle's docstring): when the answer is "idle", no job is in  *)
(* the main thread's hands.                                                *)
IdleMeansQuiet ==
  [][\A j \in Jobs : reply[j] # "idle" /\ reply'[j] = "idle" =>
       mainPc \notin {"popped", "running"}]_vars

(* sent() returns every gesture NVDA has processed this session, in order  *)
(* (docs, guide/keys): true whenever both threads are at rest.             *)
SentIsComplete ==
  mainPc = "pump" /\ rpcPc = "accept" => Len(sent) = Len(played)
================================================================================
