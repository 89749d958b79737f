-------------------------------- MODULE NvdaTest --------------------------------
(***************************************************************************)
(* Tests that use the `nvda' fixture, one after the other, against one     *)
(* NVDA: the steps a test may take (dsl/nvda.py, dsl/dialogs.py,           *)
(* dsl/lifecycle.py), the teardown that follows it whatever happened       *)
(* (Nvda.finish, the nvda_reset fixture) and the spy's side of their       *)
(* calls.  Calls that need NVDA's main thread queue a job there and give   *)
(* up after a while; the job stays in the queue and is run when the main   *)
(* thread gets to it.  MainThread shows that wait in detail; here a job is *)
(* one step, and how many steps of NVDA's own pass is left open.           *)
(***************************************************************************)
EXTENDS Modal, AddonStore, ConfigTree

CONSTANTS Addons,           \* names of add-ons
          Baseline,         \* the configuration when the session began
          Paths,            \* what a test may set in the configuration
          MaxTests,         \* bound: tests in a session
          MaxDialogSteps,   \* bound: open_dialog and close_dialog, in all tests
          MaxSteps,         \* bound: other steps, in all tests
          MaxLate,          \* bound: jobs a slow main thread is behind by
          MaxDisturbances   \* bound: what happens on its own (Crash, Disturb)

ASSUME NvdaTestAssumption ==
  /\ MaxTests \in Nat /\ MaxDialogSteps \in Nat /\ MaxSteps \in Nat /\ MaxDisturbances \in Nat /\ MaxLate \in Nat
  /\ \A p \in Paths \cup DOMAIN Baseline : Len(p) > 0
  /\ Baseline = [p \in DOMAIN Baseline |-> Baseline[p]]

VARIABLES store,            \* NVDA's add-ons
          config,           \* NVDA's configuration
          blamed,           \* ghost: since the reset before a test cleared the log, an
                            \* earlier test's job has logged an error
          pc,               \* where the test is
          doing,            \* which call or restart it is in the middle of
          answer,           \* what the awaited job returned, or "none"
          name,             \* the add-on of the lifecycle step it is in
          initial,          \* simulate_modal's initial_hwnd
          isOpen,           \* Dialogs._open
          installed,        \* Lifecycle._installed
          undoing,          \* undo_all: the names it has yet to look at
          removed,          \* undo_all: it has asked for a removal
          problems,         \* close_leftover or undo_all has reported a problem
          leaked,           \* ghost: _open when the teardown began
          told,             \* ghost: names this test's install() returned for
          unattended,       \* ghost: names an install job put in with nobody waiting,
                            \* since install() last returned for them
          tests, dialogSteps, steps, disturbances  \* ghosts: the bounds' counters

nvda == <<alive, desktop, beliefs, store, config, blamed>>
dsl == <<isOpen, installed, undoing, removed, problems>>
local == <<name, initial>>
tally == <<tests, dialogSteps, steps, disturbances>>
ghosts == <<leaked, told, unattended, tally>>
vars == <<nvda, queue, pc, doing, answer, dsl, local, ghosts>>

\* The calls of a test that its guard protects, and the others.
Guarded == {"press", "settle", "install", "enabled", "remove", "gone"}
Doing == Guarded \cup {"none", "set", "relaunch", "close", "leak", "idle", "undoState",
                      "undoRemove", "undo", "fresh", "before", "after"}

Init ==
  /\ alive = TRUE /\ queue = <<>> /\ shown = "none"
  /\ foreground \in {"other", "frame"} /\ baseline = "unset" /\ keys = 0
  /\ misled = FALSE /\ missed = FALSE
  /\ store \in [Addons -> {Absent, Running}]
  /\ config = Baseline /\ blamed = FALSE
  /\ pc = "idle" /\ doing = "none" /\ answer = "none"
  /\ name = <<>> /\ initial = "none"
  /\ isOpen = FALSE /\ installed = <<>> /\ undoing = <<>> /\ removed = FALSE
  /\ problems = FALSE
  /\ leaked = FALSE /\ told = {} /\ unattended = {}
  /\ tests = 0 /\ dialogSteps = 0 /\ steps = 0 /\ disturbances = 0
--------------------------------------------------------------------------------
(* NVDA                                                                    *)

\* A callable of the spy on NVDA's main thread, from its start to its end; its
\* value reaches the caller only while the caller waits, and a failure is logged
\* otherwise.
RunJob(fn, value) ==
  /\ alive /\ shown = "none" /\ queue # <<>>
  /\ Head(queue).fn = fn
  /\ queue' = Tail(queue)
  /\ answer' = IF Head(queue).awaited THEN value ELSE answer
  /\ blamed' = (blamed \/ (doing = "before" /\ value = "failed" /\ ~Head(queue).awaited))
  /\ unattended' = unattended \cup
       {a \in Addons : fn = "install" /\ value = "ok" /\ ~Head(queue).awaited
                         /\ Head(queue).arg = <<a>>}
  /\ UNCHANGED <<alive, beliefs, pc, doing, dsl, local, leaked, told, tally>>

Arg == Head(queue).arg

\* The scenario of exec_in_nvda_nowait shows a dialog and goes on once that has
\* been closed; or it shows none, or raises.
RunScenario == /\ \/ RunJob("scenario", "ok") /\ \E w \in Dialogs : Show(w)
                  \/ (RunJob("scenario", "ok") \/ RunJob("scenario", "failed")) /\ UNCHANGED desktop
               /\ UNCHANGED <<store, config>>

\* The no-op of wait_until_idle, with or without a job behind it; a gesture.
RunNoop == /\ RunJob("noop", "ok") \/ RunJob("noop", "failed")
           /\ UNCHANGED <<desktop, store, config>>

RunSet == /\ RunJob("set", "ok")
          /\ config' = Assign(config, Arg, "changed")
          /\ UNCHANGED <<desktop, store>>

\* _restore, which NVDA may stop part of the way.
RunRestore == /\ \/ /\ RunJob("restore", "ok")
                    /\ config' = Restore(config, Baseline)
                 \/ /\ RunJob("restore", "failed")
                    /\ \E K \in RestorePrefixes(config, Baseline) :
                         config' = RestoreKeys(config, Baseline, K)
              /\ UNCHANGED <<desktop, store>>

\* _install; when it raises NVDA has not unpacked the bundle, or removed it.
RunInstall == /\ \/ /\ RunJob("install", "ok")
                    /\ store' = [store EXCEPT ![Arg[1]] = Unpack(@)]
                 \/ RunJob("install", "failed") /\ UNCHANGED store
              /\ UNCHANGED <<desktop, config>>

RunState == /\ queue # <<>> /\ Head(queue).fn = "state"
            /\ RunJob("state", StateOf(store[Arg[1]]))
            /\ UNCHANGED <<desktop, store, config>>

\* _remove: LookupError if the add-on is not there.
RunRemove ==
  /\ queue # <<>> /\ Head(queue).fn = "remove"
  /\ IF StateOf(store[Arg[1]]) = "NOT_INSTALLED"
     THEN RunJob("remove", "failed") /\ UNCHANGED store
     ELSE /\ RunJob("remove", "ok")
          /\ store' = [store EXCEPT ![Arg[1]] = RequestRemove(@)]
  /\ UNCHANGED <<desktop, config>>

KeyArrives == /\ KeyClosesDialog \/ KeyLeavesDialog \/ KeyGoesAstray
              /\ UNCHANGED <<store, config, blamed, pc, doing, answer, dsl, local, ghosts>>

\* Nobody this project knows of does it.
OnItsOwn == /\ disturbances < MaxDisturbances
            /\ disturbances' = disturbances + 1
            /\ UNCHANGED <<store, config, blamed, pc, doing, answer, dsl, local, leaked,
                           told, unattended, tests, dialogSteps, steps>>

Disturb == OnItsOwn /\ (FocusMoves \/ DialogEnds)

\* NVDA dies, and the jobs in its queue with it.
Crash == /\ OnItsOwn
         /\ alive /\ alive' = FALSE
         /\ Cleared
         /\ UNCHANGED beliefs
--------------------------------------------------------------------------------
(* One call of the test, and one restart                                   *)

\* RpcClient.call of a method that waits for NVDA's main thread.
Call(what, fn, arg) ==
  /\ pc' = "await" /\ doing' = what /\ answer' = "none"
  /\ queue' = IF alive THEN Append(queue, Job(fn, arg, TRUE)) ELSE queue

\* A caller that takes its job along when it gives up.
NoAnswerNoJob ==
  /\ pc = "await" /\ answer = "none"
  /\ alive /\ shown = "none" => Len(queue) <= MaxLate
  /\ queue' = SelectSeq(queue, LAMBDA job : ~job.awaited)
  /\ UNCHANGED answer

\* A caller that gives up without timed_out.set().
NoAnswerUnmarked == /\ pc = "await" /\ answer = "none"
                    /\ UNCHANGED <<queue, answer>>

\* The call is over: it returned, the spy gave up waiting for the main thread,
\* or the transport lost NVDA.  Only the second leaves a job behind.
Returned(value) == /\ pc = "await" /\ answer = value
                   /\ answer' = "none"
                   /\ UNCHANGED queue
NoAnswer == /\ pc = "await" /\ answer = "none"
            /\ alive /\ shown = "none" => Len(queue) <= MaxLate
            /\ queue' = [i \in DOMAIN queue |-> [queue[i] EXCEPT !.awaited = FALSE]]
            /\ UNCHANGED answer

Failed == Returned("failed") \/ NoAnswer

\* The test's thread goes on at `where', in the middle of no call.
Proceed(where) == pc' = where /\ doing' = "none"

\* A step raised: the test ends, or it expected as much and goes on.
Raised == Proceed("body") \/ Proceed("finish")

\* client.restart_harness: a new NVDA, which acts on the store's marks and may
\* find saved what the old one was set to; or none at all.
Restarted ==
  /\ pc = "restart"
  /\ alive' = TRUE
  /\ Cleared
  /\ store' \in {s \in [Addons -> Entry] : \A a \in Addons : s[a] \in Completed(store[a])}
  /\ config' \in {config, Baseline}
  /\ UNCHANGED <<beliefs, blamed, answer>>
RestartFailed ==
  /\ pc = "restart"
  /\ alive' = FALSE
  /\ Cleared
  /\ UNCHANGED <<beliefs, blamed, answer, store, config>>
--------------------------------------------------------------------------------
(* The fixture `nvda', before the test                                     *)

\* A test begins with an Nvda of its own.
StartTest ==
  /\ pc = "idle" /\ tests < MaxTests
  /\ tests' = tests + 1
  /\ isOpen' = FALSE /\ installed' = <<>> /\ problems' = FALSE
  /\ leaked' = FALSE /\ told' = {} /\ unattended' = {}
  /\ misled' = (misled /\ (keys > 0 \/ baseline # "unset"))
  /\ missed' = FALSE
  /\ \/ /\ pc' = "restart" /\ doing' = "fresh"    \* marked fresh_nvda
        /\ UNCHANGED <<queue, answer>>
     \/ Call("before", "restore", <<>>)
  /\ UNCHANGED <<alive, desktop, store, config, blamed, local, undoing, removed,
                 dialogSteps, steps, disturbances>>

\* client.reset; a failure is the test's setup error.
ResetBefore ==
  /\ doing = "before"
  /\ \/ Returned("ok") /\ Proceed("body")
     \/ Failed /\ Proceed("finish")
  /\ blamed' = FALSE
  /\ UNCHANGED <<alive, desktop, beliefs, store, config, dsl, local, ghosts>>

FreshNvda ==
  /\ doing = "fresh"
  /\ \/ Restarted /\ pc' = "resume" /\ UNCHANGED doing
     \/ RestartFailed /\ Proceed("finish")
  /\ UNCHANGED <<dsl, local, ghosts>>

ResetFresh ==
  /\ pc = "resume" /\ doing = "fresh"
  /\ Call("before", "restore", <<>>)
  /\ UNCHANGED <<nvda, dsl, local, ghosts>>
--------------------------------------------------------------------------------
(* The steps of a test                                                     *)

\* The next step of the test function: one on a dialog, or another.
DialogStep == /\ pc = "body" /\ dialogSteps < MaxDialogSteps
              /\ dialogSteps' = dialogSteps + 1
              /\ UNCHANGED <<leaked, told, unattended, tests, steps, disturbances>>

Step == /\ pc = "body" /\ steps < MaxSteps
        /\ steps' = steps + 1
        /\ UNCHANGED <<leaked, told, unattended, tests, dialogSteps, disturbances>>

\* _guarded left out.
Unguarded == TRUE

\* _guarded: require_none_open.
NoneOpen == ~isOpen

\* A guarded step that does no more than wait for the main thread (press,
\* type, should_have_addon, expecting_speech).
Press ==
  /\ Step /\ NoneOpen
  /\ Call("press", "noop", <<>>)
  /\ UNCHANGED <<nvda, dsl, local>>

\* nvda.config.set, which is not guarded.
SetConfig(path) ==
  /\ Step
  /\ Call("set", "set", path)
  /\ UNCHANGED <<nvda, dsl, local>>

\* What the last two steps wait for.
StepEnds ==
  /\ doing \in {"press", "set"}
  /\ \/ Returned("ok") /\ Proceed("body")
     \/ Failed /\ Raised
  /\ UNCHANGED <<nvda, dsl, local, ghosts>>

Relaunch ==
  /\ Step /\ NoneOpen
  /\ pc' = "restart" /\ doing' = "relaunch"
  /\ UNCHANGED <<nvda, queue, answer, dsl, local>>

Relaunched ==
  /\ doing = "relaunch"
  /\ \/ Restarted /\ Proceed("body")
     \/ RestartFailed /\ Raised
  /\ UNCHANGED <<dsl, local, ghosts>>

EndBody ==
  /\ pc = "body"
  /\ Proceed("finish")
  /\ UNCHANGED <<nvda, queue, answer, dsl, local, ghosts>>
--------------------------------------------------------------------------------
(* Dialogs                                                                 *)

\* Dialogs.open -> exec_nowait -> mark_action, which waits for NVDA to go idle.
OpenDialog ==
  /\ DialogStep /\ NoneOpen
  /\ Call("settle", "noop", <<>>)
  /\ UNCHANGED <<nvda, dsl, local>>

\* NVDA is idle, or the settling budget is spent: the mark is taken anyway.
Settled ==
  /\ doing = "settle"
  /\ \/ (Returned("ok") \/ Returned("failed")) /\ UNCHANGED misled
     \/ NoAnswer /\ alive /\ Misled
  /\ Proceed("open")
  /\ UNCHANGED <<alive, desktop, missed, store, config, blamed, dsl, local, ghosts>>

\* exec_in_nvda_nowait answers, and the dialog counts as open.
ScenarioQueued ==
  /\ pc = "open" /\ alive
  /\ Nowait(<<>>)
  /\ isOpen' = TRUE
  /\ Proceed("body")
  /\ UNCHANGED <<alive, beliefs, store, config, blamed, answer, installed, undoing, removed,
                 problems, local, ghosts>>

\* Its answer is lost on the way.
ScenarioAnswerLost ==
  /\ pc = "open" /\ alive
  /\ Nowait(<<>>)
  /\ Missed
  /\ Raised
  /\ UNCHANGED <<alive, misled, store, config, blamed, answer, dsl, local, ghosts>>

\* The scenario does not compile, or NVDA is gone.
ScenarioRefused ==
  /\ pc = "open"
  /\ Raised
  /\ UNCHANGED <<nvda, queue, answer, dsl, local, ghosts>>

SettleLost ==
  /\ doing = "settle" /\ ~alive
  /\ NoAnswer
  /\ Raised
  /\ UNCHANGED <<nvda, dsl, local, ghosts>>

\* simulate_modal begins to poll.
StartPolling(what) ==
  /\ alive
  /\ pc' = "poll" /\ doing' = what
  /\ initial' = TakenBaseline
  /\ baseline' = "unset"
  /\ misled' = (misled \/ baseline = "unset")
  /\ UNCHANGED <<alive, queue, shown, foreground, keys, missed, store, config, blamed, answer,
                 dsl, name>>

\* close_dialog, also the end of a dialog() block; it is not guarded.
CloseDialog ==
  /\ DialogStep
  /\ StartPolling("close")

\* close_dialog when NVDA is gone.
CloseLost ==
  /\ DialogStep /\ ~alive
  /\ Raised
  /\ UNCHANGED <<nvda, queue, answer, dsl, local>>

\* The window in the foreground is taken for the dialog, and the key is sent.
SendKey(what) ==
  /\ pc = "poll" /\ doing = what /\ alive
  /\ TakenForDialog(initial)
  /\ keys' = keys + 1
  /\ initial' = "none"
  /\ UNCHANGED <<alive, shown, foreground, baseline, beliefs, store, config, blamed, name,
                 installed, undoing, removed, problems, ghosts>>

CloseSent == /\ SendKey("close")
             /\ isOpen' = FALSE
             /\ Proceed("body")
             /\ UNCHANGED <<queue, answer>>

EscapeSent == /\ SendKey("leak")
              /\ Call("idle", "noop", <<>>)
              /\ UNCHANGED isOpen

\* The time is up: close() raises, close_leftover() does not ask.
PollExpires ==
  /\ pc = "poll" /\ alive
  /\ initial' = "none"
  /\ \/ doing = "close" /\ Raised /\ UNCHANGED <<queue, answer>>
     \/ doing = "leak" /\ Call("idle", "noop", <<>>)
  /\ UNCHANGED <<nvda, dsl, name, ghosts>>

\* SendInput refuses one half of the key, or NVDA is gone: RpcError.
PollFails ==
  /\ pc = "poll"
  /\ \/ alive /\ TakenForDialog(initial) /\ keys' \in {keys, keys + 1}
     \/ ~alive /\ UNCHANGED keys
  /\ initial' = "none"
  /\ \/ doing = "close" /\ Raised
     \/ doing = "leak" /\ pc' = "restart" /\ UNCHANGED doing
  /\ UNCHANGED <<alive, shown, foreground, baseline, beliefs, store, config, blamed, queue,
                 answer, dsl, name, ghosts>>
--------------------------------------------------------------------------------
(* Add-ons                                                                 *)

\* Lifecycle.install and Lifecycle.remove begin with their call.
InstallAddon(a) ==
  /\ Step /\ NoneOpen
  /\ Call("install", "install", <<a>>)
  /\ name' = <<a>>
  /\ UNCHANGED <<nvda, dsl, initial>>

RemoveAddon(a) ==
  /\ Step /\ NoneOpen
  /\ Call("remove", "remove", <<a>>)
  /\ name' = <<a>>
  /\ UNCHANGED <<nvda, dsl, initial>>

\* The add-on goes on the list before the restart that completes it.
Installed ==
  /\ doing = "install"
  /\ Returned("ok")
  /\ installed' = installed \o name
  /\ pc' = "restart" /\ doing' = "enabled"
  /\ told' = told \cup {name[1]}
  /\ unattended' = unattended \ {name[1]}
  /\ UNCHANGED <<nvda, isOpen, undoing, removed, problems, local, leaked, tally>>

NotInstalled ==
  /\ doing = "install"
  /\ Failed
  /\ Raised
  /\ UNCHANGED <<nvda, dsl, local, ghosts>>

RemovalMarked ==
  /\ doing = "remove"
  /\ \/ Returned("ok") /\ pc' = "restart" /\ doing' = "gone"
     \/ Failed /\ Raised
  /\ UNCHANGED <<nvda, dsl, local, ghosts>>

RestartToComplete ==
  /\ doing \in {"enabled", "gone"}
  /\ \/ Restarted /\ pc' = "resume" /\ UNCHANGED doing
     \/ RestartFailed /\ Raised
  /\ UNCHANGED <<dsl, local, ghosts>>

\* should_have
AskState ==
  /\ pc = "resume" /\ doing \in {"enabled", "gone"}
  /\ Call(doing, "state", name)
  /\ UNCHANGED <<nvda, dsl, local, ghosts>>

StateChecked ==
  /\ doing \in {"enabled", "gone"}
  /\ LET wanted == IF doing = "enabled" THEN "ENABLED" ELSE "NOT_INSTALLED"
     IN  \/ Returned(wanted) /\ Proceed("body")
         \/ (NoAnswer \/ \E s \in AddonState \ {wanted} : Returned(s)) /\ Raised
  /\ UNCHANGED <<nvda, dsl, local, ghosts>>
--------------------------------------------------------------------------------
(* Nvda.finish: every check runs, whatever the ones before it did           *)

\* check_at_teardown, under fail-on-log-errors: it reads NVDA's log, and what it
\* has to report keeps none of the other checks from running.
CheckLog ==
  /\ pc = "finish"
  /\ leaked' = isOpen
  /\ Proceed("leak")
  /\ UNCHANGED <<nvda, queue, answer, dsl, local, told, unattended, tally>>

\* undo_all goes through the names on the list.
BeginUndo == /\ undoing' = installed /\ removed' = FALSE
             /\ Proceed("undo")
             /\ UNCHANGED installed

\* close_leftover
NothingLeaked ==
  /\ pc = "leak" /\ ~isOpen
  /\ BeginUndo
  /\ UNCHANGED <<nvda, queue, answer, isOpen, problems, local, ghosts>>

CloseLeftover ==
  /\ pc = "leak" /\ isOpen
  /\ StartPolling("leak")
  /\ UNCHANGED ghosts

CloseLeftoverLost ==
  /\ pc = "leak" /\ isOpen /\ ~alive
  /\ pc' = "restart" /\ doing' = "leak"
  /\ UNCHANGED <<nvda, queue, answer, dsl, local, ghosts>>

\* The dialog counts as closed, and the test has a problem.
LeakReported == /\ isOpen' = FALSE /\ problems' = TRUE
                /\ BeginUndo
                /\ UNCHANGED <<local, ghosts>>

\* wait_until_idle whose outcome nobody looks at.
LeftoverLeft == /\ doing = "idle"
                /\ Returned("ok") \/ Failed
                /\ LeakReported
                /\ UNCHANGED nvda

\* wait_until_idle: the main thread is free, or NVDA must go.
LeftoverGone ==
  /\ doing = "idle"
  /\ \/ Returned("ok") /\ LeakReported
     \/ /\ Failed
        /\ pc' = "restart" /\ doing' = "leak"
        /\ UNCHANGED <<dsl, local, ghosts>>
  /\ UNCHANGED nvda

RestartForLeftover ==
  /\ doing = "leak"
  /\ Restarted \/ RestartFailed
  /\ LeakReported

UndoNext ==
  /\ pc = "undo" /\ undoing # <<>>
  /\ Call("undoState", "state", <<Head(undoing)>>)
  /\ UNCHANGED <<nvda, dsl, local, ghosts>>

\* The add-on is there, and its removal is asked for.
UndoPresent ==
  /\ pc = "await" /\ doing = "undoState"
  /\ answer \in AddonState \ {"NOT_INSTALLED"}
  /\ Call("undoRemove", "remove", <<Head(undoing)>>)
  /\ UNCHANGED <<nvda, dsl, local, ghosts>>

\* Done with this name: it was absent, it is marked, or a call failed.
UndoneOne ==
  /\ \/ /\ doing = "undoState" /\ Returned("NOT_INSTALLED")
        /\ UNCHANGED <<removed, problems>>
     \/ /\ doing = "undoRemove" /\ Returned("ok")
        /\ removed' = TRUE
        /\ UNCHANGED problems
     \/ /\ doing \in {"undoState", "undoRemove"} /\ Failed
        /\ problems' = TRUE
        /\ UNCHANGED removed
  /\ undoing' = Tail(undoing)
  /\ Proceed("undo")
  /\ UNCHANGED <<nvda, isOpen, installed, local, ghosts>>

\* The removals left to whatever restart comes next.
UndoneUnfinished ==
  /\ pc = "undo" /\ undoing = <<>>
  /\ installed' = <<>> /\ removed' = FALSE
  /\ Proceed("after")
  /\ UNCHANGED <<nvda, queue, answer, isOpen, undoing, problems, local, ghosts>>

\* All names looked at and forgotten; one restart completes the removals.
UndoneAll ==
  /\ pc = "undo" /\ undoing = <<>>
  /\ installed' = <<>> /\ removed' = FALSE
  /\ \/ removed /\ pc' = "restart" /\ doing' = "undo"
     \/ ~removed /\ Proceed("after")
  /\ UNCHANGED <<nvda, queue, answer, isOpen, undoing, problems, local, ghosts>>

RestartToUndo ==
  /\ doing = "undo"
  /\ \/ Restarted /\ UNCHANGED problems
     \/ RestartFailed /\ problems' = TRUE
  /\ Proceed("after")
  /\ UNCHANGED <<isOpen, installed, undoing, removed, local, ghosts>>
--------------------------------------------------------------------------------
(* The fixture nvda_reset, after the test: a failure is a warning           *)

ResetAfter ==
  /\ pc = "after"
  /\ Call("after", "restore", <<>>)
  /\ UNCHANGED <<nvda, dsl, local, ghosts>>

TestOver ==
  /\ doing = "after"
  /\ Returned("ok") \/ Failed
  /\ Proceed("idle")
  /\ UNCHANGED <<nvda, dsl, local, ghosts>>
--------------------------------------------------------------------------------
RunJobs == RunScenario \/ RunNoop \/ RunSet \/ RunRestore \/ RunInstall \/ RunState
           \/ RunRemove

Setup == StartTest \/ FreshNvda \/ ResetFresh \/ ResetBefore

Steps == Press \/ (\E p \in Paths : SetConfig(p)) \/ StepEnds \/ Relaunch
         \/ Relaunched \/ EndBody

DialogSteps == OpenDialog \/ Settled \/ SettleLost \/ ScenarioQueued
               \/ ScenarioAnswerLost \/ ScenarioRefused \/ CloseDialog \/ CloseLost
               \/ CloseSent \/ EscapeSent \/ PollExpires \/ PollFails

AddonSteps == (\E a \in Addons : InstallAddon(a) \/ RemoveAddon(a)) \/ Installed
              \/ NotInstalled \/ RemovalMarked \/ RestartToComplete \/ AskState
              \/ StateChecked

Teardown == CheckLog \/ NothingLeaked \/ CloseLeftover \/ CloseLeftoverLost
            \/ LeftoverGone \/ RestartForLeftover \/ UndoNext
            \/ UndoPresent \/ UndoneOne \/ UndoneAll \/ RestartToUndo \/ ResetAfter
            \/ TestOver

Test == Setup \/ Steps \/ DialogSteps \/ AddonSteps \/ Teardown

Next == Test \/ RunJobs \/ KeyArrives \/ Disturb \/ Crash

Spec == Init /\ [][Next]_vars
--------------------------------------------------------------------------------
(* Properties.                                                             *)

TypeOK ==
  /\ alive \in BOOLEAN
  /\ \A i \in DOMAIN queue :
       /\ queue[i].fn \in {"scenario", "noop", "set", "restore", "install", "state",
                           "remove"}
       /\ queue[i].awaited => i = Len(queue) /\ pc = "await" /\ answer = "none"
  /\ shown \in Dialogs \cup {"none"}
  /\ foreground \in Windows /\ baseline \in Windows \cup {"unset"}
  /\ keys \in Nat /\ misled \in BOOLEAN /\ missed \in BOOLEAN
  /\ store \in [Addons -> Entry]
  /\ pc \in {"idle", "restart", "await", "resume", "body", "open", "poll", "finish",
             "leak", "undo", "after"}
  /\ doing \in Doing
  /\ answer \in AddonState \cup {"none", "ok", "failed"}
  /\ isOpen \in BOOLEAN /\ removed \in BOOLEAN /\ problems \in BOOLEAN

(* A reset that works leaves nothing behind of the tests before it, neither *)
(* for the test function that starts on it nor, after a test, for the next *)
(* one to be blamed for: no dialog is up, no job waits in NVDA's queue and *)
(* the configuration has the leaves of the baseline, also after tests      *)
(* whose calls timed out.                                                  *)
CleanStart ==
  [][(doing = "before" /\ pc' = "body") \/ (doing = "after" /\ answer = "ok" /\ pc' = "idle") =>
       /\ shown = "none" /\ queue = <<>>
       /\ alive => config = Baseline]_vars

(* A guarded step waits for a main thread that is inside a dialog only if  *)
(* the dialog's key is on its way, or a key missed it, or it outlived its  *)
(* key, or the answer to the call that opened it was lost.                 *)
GuardedStepsSeeDialogs ==
  pc = "await" /\ doing \in Guarded /\ shown # "none" =>
    keys > 0 \/ missed

(* A key meant for a dialog reaches another window only if the focus moved *)
(* by other means, or simulate_modal had no baseline, or the scenario was  *)
(* queued before NVDA had gone idle.                                       *)
KeysReachTheDialog == [][KeyGoesAstray => misled]_vars

(* Once close_leftover is done, the dialog of a test that left one open is *)
(* gone, and so is a scenario that would still show one, whether or not    *)
(* its escape was sent and whatever window got it; the test has a problem. *)
LeakIsFreed ==
  leaked /\ pc \in {"undo", "after"} =>
    /\ shown = "none" /\ ~isOpen /\ problems
    /\ \A i \in DOMAIN queue : queue[i].fn # "scenario"

(* A test's calls are what MainThread's are shown to be: one at a time,    *)
(* each with its own job's answer or none, and a job left behind keeps its *)
(* place, through setup, steps and teardown and over the death of an NVDA. *)
Bridge == INSTANCE JobQueue
            WITH Answers <- AddonState \cup {"ok", "failed"},
                 pending <- [i \in DOMAIN queue |-> queue[i].awaited],
                 calling <- pc = "await"

ImplementsJobQueue == Bridge!MortalSpec

(* An add-on whose installation the test was told of is gone when the test *)
(* is over, or the teardown reports a problem.  One exception, which the   *)
(* docs (removal of what the test installed) do not make: a later install  *)
(* of the same add-on that went through when nobody waited for it any more *)
(* may leave a copy behind, which the removal of the first does not mark.  *)
LeftoverAddonIsReported ==
  pc = "idle" /\ ~problems =>
    \A a \in told \ unattended : StateOf(store[a]) = "NOT_INSTALLED"
--------------------------------------------------------------------------------
(* What the docs say and the code does not do.                             *)

(* A reset before a test returns NVDA to the state a test should start     *)
(* from (client.reset): no job an earlier test left behind has its error   *)
(* in the log that is held against this one.                               *)
ErrorsAreOwn == [][doing = "before" /\ pc' = "body" => ~blamed]_vars
================================================================================
