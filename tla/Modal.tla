--------------------------------- MODULE Modal ---------------------------------
(***************************************************************************)
(* NVDA's main thread and its windows, as modal_api.py and eval_api.py of  *)
(* the spy meet them.  A scenario queued without waiting may show a modal  *)
(* dialog; NVDA's main thread is inside that dialog for as long as it is   *)
(* up and takes no job from its queue.  simulate_modal runs on the RPC     *)
(* thread: it watches which window has the foreground and sends a key when *)
(* it takes that window for the dialog.  Windows delivers the key later,   *)
(* to whatever has the foreground then.                                    *)
(***************************************************************************)
EXTENDS Sequences, Integers

CONSTANT Dialogs            \* window handles of modal dialogs

\* Windows that are no dialog: NVDA's main frame has no owner, its panel an
\* enabled one; "other" belongs to another process, or is no window at all.
Standing == {"other", "frame", "panel"}

ASSUME DialogsAssumption == Dialogs # {} /\ Dialogs \cap (Standing \cup {"unset", "none"}) = {}

Windows == Standing \cup Dialogs

VARIABLES alive,            \* NVDA runs, and its spy answers
          queue,            \* queueHandler.eventQueue: the spy's jobs in it
          shown,            \* the dialog the main thread is inside, or "none"
          foreground,       \* GetForegroundWindow()
          baseline,         \* _pending_baseline: a window, or "unset"
          keys,             \* how many keys are sent and not yet delivered
          misled,           \* ghost: see Misled
          missed            \* ghost: see Missed

desktop == <<shown, foreground, baseline, keys>>
beliefs == <<misled, missed>>
modalVars == <<alive, queue, desktop, beliefs>>

\* What may have misled the spy about which window is the dialog, since the test
\* began: the foreground changed with no dialog shown, simulate_modal ran with
\* no baseline, or a scenario was queued before NVDA had gone idle.
Misled == misled' = TRUE

\* Why a dialog may be up that the test takes for closed: a key reached another
\* window, a dialog took its key and stayed, or the answer to the call that
\* queued it was lost.
Missed == missed' = TRUE
--------------------------------------------------------------------------------
(* NVDA and the desktop                                                    *)

\* A scenario shows its dialog, which takes the foreground unconditionally.
Show(w) == /\ shown' = w
           /\ foreground' = w
           /\ UNCHANGED <<baseline, keys>>

\* The dialog goes and some other window gets the foreground.
Gone == /\ shown' = "none"
        /\ foreground' \in {"other", "frame"}

\* The user, or another program, brings a window to the foreground; the owner
\* of a dialog is disabled for as long as the dialog is up.
FocusMoves == /\ foreground' \in (IF shown = "none" THEN Standing
                                  ELSE {"other", shown}) \ {foreground}
              /\ Misled
              /\ UNCHANGED <<alive, queue, shown, baseline, keys, missed>>

\* The dialog ends on its own: a timer, or the user.
DialogEnds == /\ shown # "none"
              /\ Gone
              /\ Misled
              /\ UNCHANGED <<alive, queue, baseline, keys, missed>>

\* Windows hands a key to the window in the foreground.
KeyClosesDialog == /\ keys > 0 /\ foreground = shown
                   /\ keys' = keys - 1
                   /\ Gone
                   /\ UNCHANGED <<alive, queue, baseline, misled, missed>>

\* A dialog may stay: "tab" moves its focus, one that cannot be cancelled
\* ignores "escape".
KeyLeavesDialog == /\ keys > 0 /\ foreground = shown
                   /\ keys' = keys - 1
                   /\ Missed
                   /\ UNCHANGED <<alive, queue, shown, foreground, baseline, misled>>

KeyGoesAstray == /\ keys > 0 /\ foreground # shown
                 /\ keys' = keys - 1
                 /\ Missed
                 /\ UNCHANGED <<alive, queue, shown, foreground, baseline, misled>>

\* What is left of the desktop once an NVDA has gone.
Cleared == /\ queue' = <<>>
           /\ shown' = "none"
           /\ foreground' \in {"other", "frame"}
           /\ baseline' = "unset"
           /\ keys' = 0
--------------------------------------------------------------------------------
(* The spy                                                                 *)

\* A job NVDA's main thread is to run; `awaited' while its caller waits.
Job(fn, arg, awaited) == [fn |-> fn, arg |-> arg, awaited |-> awaited]

\* remember_foreground_baseline
RememberBaseline == baseline' = foreground

\* exec_in_nvda_nowait, of a source that compiles.
Nowait(arg) == /\ RememberBaseline
               /\ queue' = Append(queue, Job("scenario", arg, FALSE))
               /\ UNCHANGED <<shown, foreground, keys>>

\* _take_baseline
TakenBaseline == IF baseline = "unset" THEN foreground ELSE baseline

\* _is_owned_modal: a window of this process whose owner, if it has one, is
\* disabled.
IsOwnedModal(w) == w \in Dialogs \cup {"frame"}

\* A loop that takes any modal-looking window for the dialog.
AnyModal(initial) == IsOwnedModal(foreground)

\* The condition of simulate_modal's loop.
TakenForDialog(initial) == foreground # initial /\ IsOwnedModal(foreground)
================================================================================
