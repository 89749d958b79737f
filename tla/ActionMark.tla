------------------------------- MODULE ActionMark ------------------------------
(***************************************************************************)
(* Which action of a test an utterance counts for.  The client takes a     *)
(* mark before every action (client.mark_action): it waits for NVDA to go  *)
(* idle, though for no longer than a budget, and reads the speech log's    *)
(* index.  should_hear reads the log from the last mark, an                *)
(* expecting_speech block from the mark of its start, unless NVDA has been *)
(* relaunched since (dsl/hearing.py).  reset and a restart begin anew.     *)
(*                                                                         *)
(* NVDA works off a queue, as in MainThread, of which this keeps no more   *)
(* than the order; what an action sets off may be queued much later, and   *)
(* a gesture whose caller has given up is still processed.  The actions of *)
(* a test are numbered; 0 is none, "the start of the test".                *)
(***************************************************************************)
EXTENDS CappedLog

CONSTANTS MaxActions,       \* bound: actions of the test
          MaxIndex,         \* bound: utterances between two clears
          MaxQueue,         \* bound: jobs in the queue when a mark is begun or NVDA
                            \* queues another of its own
          MaxStarts         \* bound: NVDA processes

ASSUME BoundsAssumption == /\ MaxActions \in Nat /\ MaxIndex \in Nat
                           /\ MaxQueue \in Nat /\ MaxStarts \in Nat \ {0}

Actions == 0..MaxActions

\* A job of the queue: what it is, the action that caused it, and whether a
\* call still waits for its end.  "noop" is wait_until_idle's.
Jobs == [role : {"noop", "gesture", "work"}, of : Actions, awaited : BOOLEAN]

Nothing == [role |-> "none", of |-> 0, awaited |-> FALSE]

Entries == [of : Actions]

Marks == [index : Nat, action : Actions]

START == [index |-> 0, action |-> 0]

\* Where the test is: between two steps ("rest"), or in mark_action ("settle",
\* "idling", "asking", "index"), in the action's own call ("act", "acting"), in
\* a search of the speech log ("look", "clock"), or in reset ("reset").
Marking == {"settle", "idling", "asking", "index"}

Searching == {"look", "clock"}

Pcs == Marking \cup Searching \cup {"rest", "act", "acting", "reset"}

VARIABLES
  queue, running,   \* NVDA's event queue, the job of its main thread
  log,              \* the speech tap's log of this NVDA
  pid,              \* which NVDA this is
  pc,
  answered,         \* the job the test waits for has ended
  overdue,          \* the budget of the settle loop, or of the search, is spent
  settled,          \* ghost: the mark of this action was taken of an idle NVDA
  begun,            \* actions begun: the next one has the number begun + 1
  last,             \* last_action
  entry, entryPid,  \* _Expecting: the mark and the NVDA of the block's start
  block,            \* this mark, or search, is a block's
  cleared           \* ghost: marks older than the last clear of the log

nvdaVars == <<queue, running, log, pid>>
markVars == <<begun, last, entry, entryPid, cleared>>
waitVars == <<pc, answered, overdue, settled, block>>
vars     == <<nvdaVars, markVars, waitVars>>

TypeOK == /\ queue \in Seq(Jobs)
          /\ running \in Jobs \cup [role : {"none"}, of : {0}, awaited : {FALSE}]
          /\ log \in [items : Seq(Entries), dropped : Nat]
          /\ pid \in 1..MaxStarts
          /\ pc \in Pcs
          /\ answered \in BOOLEAN /\ overdue \in BOOLEAN
          /\ settled \in BOOLEAN /\ block \in BOOLEAN
          /\ begun \in Actions
          /\ last \in Marks /\ entry \in Marks
          /\ entryPid \in 0..MaxStarts          \* 0: no block is open
          /\ cleared \subseteq {"last", "entry"}

Init == /\ queue = <<>> /\ running = Nothing
        /\ log = EmptyLog /\ pid = 1
        /\ pc = "rest" /\ answered = FALSE /\ overdue = FALSE /\ settled = FALSE
        /\ block = FALSE
        /\ begun = 0 /\ last = START
        /\ entry = START /\ entryPid = 0 /\ cleared = {}
--------------------------------------------------------------------------------
(* NVDA.                                                                   *)

Queued(role, of, awaited) ==
  queue' = Append(queue, [role |-> role, of |-> of, awaited |-> awaited])

Take == /\ running = Nothing
        /\ queue # <<>>
        /\ running' = Head(queue)
        /\ queue' = Tail(queue)
        /\ UNCHANGED <<log, pid, markVars, waitVars>>

\* A job makes NVDA speak, and the tap captures it.
Speak == /\ running.role \in {"gesture", "work"}
         /\ IndexOf(log) < MaxIndex
         /\ log' = Appended(log, [of |-> running.of])
         /\ UNCHANGED <<queue, running, pid, markVars, waitVars>>

Finish == /\ running # Nothing
          /\ running' = Nothing
          /\ answered' = (answered \/ running.awaited)
          /\ UNCHANGED <<queue, log, pid, markVars, pc, overdue, settled, block>>

\* A job queued by a job, or an event that an action set off, or (0) NVDA's own.
FollowUp == /\ Len(queue) < MaxQueue
            /\ \E a \in 0..begun : /\ pc = "act" => a # begun
                                   /\ Queued("work", a, FALSE)
            /\ UNCHANGED <<running, log, pid, markVars, waitVars>>
--------------------------------------------------------------------------------
(* mark_action.                                                            *)

\* keys.press and its like, exec_nowait; or expecting(), while no block is open.
BeginMark == /\ pc = "rest"
             /\ begun < MaxActions
             /\ Len(queue) < MaxQueue
             /\ block' \in (IF entryPid = 0 THEN BOOLEAN ELSE {FALSE})
             /\ pc' = "settle"
             /\ UNCHANGED <<nvdaVars, markVars, answered, overdue, settled>>

\* The clock passes the deadline of the settle loop, or of a search.
BudgetSpent == /\ pc \in {"settle", "idling", "asking"} \cup Searching
               /\ ~overdue
               /\ overdue' = TRUE
               /\ UNCHANGED <<nvdaVars, markVars, pc, answered, settled, block>>

\* _idle_within calls wait_until_idle.
AskIdle == /\ pc = "settle"
           /\ Queued("noop", 0, TRUE)
           /\ answered' = FALSE
           /\ pc' = "idling"
           /\ UNCHANGED <<running, log, pid, markVars, overdue, settled, block>>

NoopHasRun == /\ pc = "idling"
              /\ answered
              /\ answered' = FALSE
              /\ pc' = "asking"
              /\ UNCHANGED <<nvdaVars, markVars, overdue, settled, block>>

\* eventQueue.empty(), and what the loop makes of it.
QueueIsEmpty == /\ pc = "asking"
                /\ queue = <<>>
                /\ settled' = TRUE
                /\ overdue' = FALSE
                /\ pc' = "index"
                /\ UNCHANGED <<nvdaVars, markVars, answered, block>>

QueueIsBusy == /\ pc = "asking"
               /\ queue # <<>>
               /\ pc' = IF overdue THEN "index" ELSE "settle"
               /\ overdue' = FALSE
               /\ UNCHANGED <<nvdaVars, markVars, answered, settled, block>>

\* Only the queue is looked through, not the job under way.
LetGoOfQueued ==
  /\ queue' = [k \in DOMAIN queue |-> [queue[k] EXCEPT !.awaited = FALSE]]
  /\ UNCHANGED running

\* Nobody waits for a job's end any more.
LetGo == /\ queue' = [k \in DOMAIN queue |-> [queue[k] EXCEPT !.awaited = FALSE]]
         /\ running' = [running EXCEPT !.awaited = FALSE]

\* A timeout of wait_until_idle taken for an idle NVDA.
ExpiredIsIdle == /\ pc = "idling"
                 /\ ~answered
                 /\ overdue
                 /\ LetGo
                 /\ settled' = TRUE
                 /\ overdue' = FALSE
                 /\ pc' = "index"
                 /\ UNCHANGED <<log, pid, markVars, answered, block>>

\* A settle loop that does not look at its deadline.
ExpiredIsRetried == /\ pc = "idling"
                    /\ ~answered
                    /\ overdue
                    /\ LetGo
                    /\ pc' = "settle"
                    /\ UNCHANGED <<log, pid, markVars, answered, overdue, settled,
                                   block>>

\* wait_until_idle times out with the budget: the mark is taken anyway.
IdleExpires == /\ pc = "idling"
               /\ ~answered
               /\ overdue
               /\ LetGo
               /\ overdue' = FALSE
               /\ pc' = "index"
               /\ UNCHANGED <<log, pid, markVars, answered, settled, block>>

\* speech_index, and the mark it makes; a block keeps a copy.
ReadIndex ==
  /\ pc = "index"
  /\ begun' = begun + 1
  /\ last' = [index |-> IndexOf(log), action |-> begun + 1]
  /\ block' = FALSE
  /\ \/ /\ block
        /\ entry' = last' /\ entryPid' = pid
        /\ cleared' = {}
        /\ pc' = "rest" /\ settled' = FALSE
     \/ /\ ~block
        /\ cleared' = cleared \ {"last"}
        /\ pc' = "act"
        /\ UNCHANGED <<entry, entryPid, settled>>
  /\ UNCHANGED <<nvdaVars, answered, overdue>>
--------------------------------------------------------------------------------
(* The action itself.                                                      *)

Press == /\ pc = "act"
         /\ Queued("gesture", begun, TRUE)
         /\ answered' = FALSE
         /\ pc' = "acting"
         /\ UNCHANGED <<running, log, pid, markVars, overdue, settled, block>>

\* press is done; press_all and keys_type may have a gesture to go.
PressReturns == /\ pc = "acting"
                /\ answered
                /\ answered' = FALSE
                /\ pc' \in {"act", "rest"}
                /\ settled' = (settled /\ pc' = "act")
                /\ UNCHANGED <<nvdaVars, markVars, overdue, block>>

\* keys_press gives up on a gesture that is still to come or under way.
PressExpires == /\ pc = "acting"
                /\ ~answered
                /\ LetGo
                /\ pc' = "rest" /\ settled' = FALSE
                /\ UNCHANGED <<log, pid, markVars, answered, overdue, block>>

\* exec_nowait
ExecNowait == /\ pc = "act"
              /\ Queued("work", begun, FALSE)
              /\ pc' = "rest" /\ settled' = FALSE
              /\ UNCHANGED <<running, log, pid, markVars, answered, overdue, block>>

\* A call is lost, with its request or only its answer: the error goes through
\* mark_action and the action to the test, as it does in SearchLost.
Lost == /\ pc \in Marking \cup {"act", "acting"}
        /\ LetGo
        /\ pc' = "rest"
        /\ answered' = FALSE /\ overdue' = FALSE /\ settled' = FALSE /\ block' = FALSE
        /\ UNCHANGED <<log, pid, markVars>>
--------------------------------------------------------------------------------
(* Searching the speech log: should_hear, should_not_hear, the end of a     *)
(* block.  The texts that match are those of the mark's action and later.   *)

\* _search_mark without the look at the process.
EntryMark == entry

\* _search_mark
SearchMark == IF entryPid = pid THEN entry ELSE [index |-> 0, action |-> entry.action]

\* No block is open any more.
BlockLeft == /\ entryPid' = 0 /\ entry' = START
             /\ cleared' = cleared \ {"entry"}
             /\ UNCHANGED <<begun, last>>

Search == /\ pc = "rest"
          /\ pc' = "look"
          /\ UNCHANGED <<nvdaVars, markVars, answered, overdue, settled, block>>

\* A block that raised keeps its own error; any other searches at its end.
LeaveBlock == /\ pc = "rest" /\ entryPid # 0
              /\ \/ /\ pc' = "look" /\ block' = TRUE
                    /\ UNCHANGED markVars
                 \/ BlockLeft /\ UNCHANGED <<pc, block>>
              /\ UNCHANGED <<nvdaVars, answered, overdue, settled>>

\* speech_since, from the mark.
Heard == LET mark  == IF block THEN SearchMark ELSE last
             texts == Since(log, mark.index)
         IN  \E k \in DOMAIN texts : texts[k].of >= mark.action

\* The search is over, and the block with it whose search it was.
SearchOver == /\ pc' = "rest" /\ overdue' = FALSE /\ block' = FALSE
              /\ IF block THEN BlockLeft ELSE UNCHANGED markVars
              /\ UNCHANGED <<nvdaVars, answered, settled>>

\* wait_until: one look, then one at the clock.
Look == /\ pc = "look"
        /\ \/ Heard /\ SearchOver
           \/ /\ ~Heard
              /\ pc' = "clock"
              /\ UNCHANGED <<nvdaVars, markVars, answered, overdue, settled, block>>

LookAgain == /\ pc = "clock" /\ ~overdue
             /\ pc' = "look"
             /\ UNCHANGED <<nvdaVars, markVars, answered, overdue, settled, block>>

NotHeard == /\ pc = "clock" /\ overdue
            /\ SearchOver

SearchLost == /\ pc = "look"
              /\ SearchOver
--------------------------------------------------------------------------------
(* What else the test does between two actions.                            *)

\* speech.clear()
SpeechClear == /\ pc = "rest"
               /\ log' = Cleared(log)
               /\ cleared' = {"last", "entry"}
               /\ UNCHANGED <<queue, running, pid, waitVars, begun, last, entry,
                              entryPid>>

\* reset, its first step, which may fail like any other.
ResetSpeech == /\ pc = "rest"
               /\ \/ log' = Cleared(log) /\ cleared' = {"last", "entry"}
                  \/ UNCHANGED <<log, cleared>>
               /\ pc' = "reset"
               /\ UNCHANGED <<queue, running, pid, begun, last, entry, entryPid,
                              answered, overdue, settled, block>>

\* A reset that forgets the mark.
ResetKeepsMark == /\ pc = "reset"
                  /\ cleared' = cleared \ {"last"}
                  /\ pc' = "rest"
                  /\ UNCHANGED <<nvdaVars, begun, last, entry, entryPid, answered,
                                 overdue, settled, block>>

\* reset, after all its steps: back to the start of the test.
ResetMark == /\ pc = "reset"
             /\ last' = START
             /\ cleared' = cleared \ {"last"}
             /\ pc' = "rest"
             /\ UNCHANGED <<nvdaVars, begun, entry, entryPid, answered, overdue,
                            settled, block>>

\* restart_harness and restart_nvda, when they succeed.
Restart == /\ pc = "rest"
           /\ pid < MaxStarts
           /\ begun < MaxActions
           /\ pid' = pid + 1
           /\ queue' = <<>> /\ running' = Nothing
           /\ log' = EmptyLog
           /\ begun' = begun + 1
           /\ last' = [index |-> 0, action |-> begun + 1]
           /\ cleared' = cleared \ {"last"}
           /\ UNCHANGED <<waitVars, entry, entryPid>>
--------------------------------------------------------------------------------
Nvda == Take \/ Speak \/ Finish \/ FollowUp

Mark == AskIdle \/ NoopHasRun \/ QueueIsEmpty \/ QueueIsBusy \/ IdleExpires
        \/ ReadIndex

Act == Press \/ PressReturns \/ PressExpires \/ ExecNowait \/ Lost

Wait == Look \/ LookAgain \/ NotHeard \/ SearchLost

Test == BeginMark \/ Search \/ LeaveBlock \/ SpeechClear \/ ResetSpeech \/ ResetMark
        \/ Restart

Next == Nvda \/ Mark \/ BudgetSpent \/ Act \/ Wait \/ Test

Spec == Init /\ [][Next]_vars

\* The client goes on with mark_action and its searches, and its clock goes on;
\* nothing is assumed of NVDA.
FairSpec == Spec /\ WF_vars(Mark) /\ WF_vars(Wait) /\ WF_vars(BudgetSpent)
--------------------------------------------------------------------------------
(* Properties.                                                             *)

\* All that this and later actions said, as far as the log still holds it, is
\* found by a search from index.
InReach(index, action) ==
  \A k \in DOMAIN log.items :
    log.items[k].of >= action => log.dropped + k > index

(* should_hear never overlooks what the last action made NVDA say, however *)
(* the action's call ended and whatever was reset or relaunched since;     *)
(* marks older than a speech.clear() of the test are left aside.           *)
OwnSpeechIsHeard ==
  pc \in {"rest", "look", "clock"} /\ "last" \notin cleared =>
    InReach(last.index, last.action)

(* An expecting_speech block finds everything that was said for an action  *)
(* inside it by the NVDA that runs when the block ends.                    *)
BlockIsCovered ==
  pc \in {"rest", "look", "clock"} /\ entryPid # 0
    /\ ("entry" \in cleared => entryPid # pid) =>
      InReach(SearchMark.index, entry.action)

(* While an action acts whose mark found NVDA idle, no gesture of an       *)
(* earlier action is still to be processed, not even one whose press had   *)
(* timed out.                                                              *)
SettledLeavesNoGesture ==
  settled /\ pc # "index" =>
    \A j \in {queue[k] : k \in DOMAIN queue} \cup {running} :
      j.role = "gesture" => j.of = begun

(* What marks and presses make of NVDA's main thread is what MainThread is *)
(* shown to be: one call at a time, which gets the end of its own job and  *)
(* no other, also when the call before it left its job behind.             *)
Undone == IF running = Nothing THEN queue ELSE <<running>> \o queue

Bridge == INSTANCE JobQueue
            WITH Answers <- {"done"},
                 pending <- [i \in DOMAIN Undone |-> Undone[i].awaited],
                 calling <- pc \in {"idling", "acting"},
                 answer  <- IF answered THEN "done" ELSE "none"

ImplementsJobQueue == Bridge!MortalSpec

(* mark_action comes to an end although NVDA may hang or never be idle, and *)
(* a search although NVDA may go on talking or never say a word.           *)
WaitsEnd == pc \in Marking \cup Searching ~> pc \notin Marking \cup Searching
--------------------------------------------------------------------------------
(* What the docs say and the code does not do.                             *)

(* should_hear waits for speech produced after the last action (docs,      *)
(* guide/dsl), also after the test has dropped older speech with clear().  *)
ClearKeepsHearing == pc = "rest" => InReach(last.index, last.action)
================================================================================
