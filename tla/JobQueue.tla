-------------------------------- MODULE JobQueue -------------------------------
(***************************************************************************)
(* What a caller of NVDA's main thread is promised.  Jobs are run one at a *)
(* time, in the order they were queued.  One call at a time queues a job   *)
(* and waits for it: it returns the answer of its own job once that has    *)
(* run to its end, or gives up before that; then the job keeps its place   *)
(* and is run with nobody to tell.                                         *)
(*                                                                         *)
(* MainThread is shown to implement this, and so are ActionMark and        *)
(* NvdaTest, which take a job for one step or two.                         *)
(***************************************************************************)
EXTENDS Sequences

CONSTANT Answers            \* what a job may leave for its caller

VARIABLES pending,          \* of each job not yet run: a call waits for it
          calling,          \* a call is waiting, or about to return
          answer            \* what its job has left for it, or "none"

vars == <<pending, calling, answer>>

Init == /\ pending = <<>>
        /\ calling = FALSE
        /\ answer = "none"

\* No call is under way, or the one that is takes its answer and ends.
Idle == calling => answer # "none"

Call == /\ Idle
        /\ pending' = Append(pending, TRUE)
        /\ calling' = TRUE
        /\ answer' = "none"

\* A job nobody waits for.
Post == /\ pending' = Append(pending, FALSE)
        /\ UNCHANGED <<calling, answer>>

Run == /\ pending # <<>>
       /\ pending' = Tail(pending)
       /\ IF Head(pending) THEN answer' \in Answers ELSE answer' = answer
       /\ UNCHANGED calling

Return == /\ calling
          /\ answer # "none"
          /\ calling' = FALSE
          /\ answer' = "none"
          /\ UNCHANGED pending

GiveUp == /\ calling
          /\ answer = "none"
          /\ calling' = FALSE
          /\ pending' = [i \in DOMAIN pending |-> FALSE]
          /\ UNCHANGED answer

Next == Call \/ Post \/ Run \/ Return \/ GiveUp

Spec == Init /\ [][Next]_vars
--------------------------------------------------------------------------------
(* The same for a caller who may outlive NVDA.                             *)

\* NVDA ends, and its queue with it.
End == /\ pending' = <<>>
       /\ UNCHANGED <<calling, answer>>

\* A call that reaches no NVDA.
CallNobody == /\ Idle
              /\ calling' = TRUE
              /\ answer' = "none"
              /\ UNCHANGED pending

MortalNext == Next \/ End \/ CallNobody

MortalSpec == Init /\ [][MortalNext]_vars
================================================================================
