# nvda-addon-testkit in TLA+

Specifications, model-checking runs and machine-checked proofs for
nvda-addon-testkit, a kit that drives the NVDA screen reader from pytest. The
kit has two halves. A *spy* add-on (`spy/globalPlugins/nvda_testkit_spy`) runs
inside NVDA: it captures speech, braille and log lines and serves XML-RPC on a
thread of its own. A *host* (`src/nvda_testkit`) runs in pytest: it provisions
an NVDA, starts and stops it, and turns calls of a test into RPCs. The two meet
in an HTTP connection, in a handshake file and in process handles.

Every module is translated from the Python source. `PROJECT.json` names, for
each definition, the lines it stands for.

## Inventory

| Component | State it keeps | Operations | What is hard, and what makes it correct |
|---|---|---|---|
| Main-thread bridge (`mainthread.py`, used by every handler that touches NVDA) | per job: `outcome` and the events `started`, `finished`, `timed_out`; NVDA's event queue | queue a job, wait with a timeout, run it, give up, re-raise, log late failures | Two threads and no lock over the three events. A reply must tell the truth about its own job; a failure must surface exactly once; a job left behind by a timeout still runs. |
| Spy RPC server (`server.py`, `registry.py`) | socket, thread, handshake file | start, serve one call at a time, `wait_until_idle`, `quit`, stop | stop runs on the thread the serve loop may be waiting for. Every call must be answered and stop must return. |
| Input (`input_api.py`) | `_SENT` | `keys_press`, `keys_type`, `keys_sent` | The gesture is played on one thread and recorded on another, after a wait that may fail. |
| Capped log (`capped_log.py`) | items, dropped, capacity | append, index, since, mark_last, clear | Indices survive eviction. |
| Speech tap (`speech_tap.py`) | a capped log, a count of cancellations, a lock | capture and cancel on the main thread; index, since, clear on the RPC thread | Neither a cancellation nor a clear is one step. A test must see an unbounded history. |
| Braille and log taps (`braille_tap.py`, `log_tap.py`) | a capped log each, a cell count | the same without cancellation | They must be there before the socket is and gone after it, and an install may fail half-way. |
| RPC path (`server.py`, `registry.py`, `rpcclient.py`) | the registry, the session's tokens | check the header, dispatch, check the token, wrap what a handler raises, classify the fault | The client tells a rejected token from a failed scenario by a type name; what a scenario raises must not look like a rejected token. |
| Modal dialogs (`modal_api.py`, `dsl/dialogs.py`) | the foreground baseline; `_open` | run a scenario, wait for a dialog, answer it, clean up a leftover | The baseline is used once; a lost reply and a gesture that leaves the dialog open make `_open` wrong. |
| Add-ons (`addons_api.py`, `dsl/lifecycle.py`) | NVDA's add-on states; the list of add-ons to undo | two-phase install and removal, undo | Late installs, partial undo. |
| Configuration (`config_api.py`) | NVDA's configuration, a snapshot on the host | get, set, snapshot, restore | restore must undo what a test set, also after calls that timed out. |
| Test fixture (`plugin.py`, `dsl/nvda.py`, `dsl/teardown.py`) | the problems of a teardown | reset, run the test, finish, reset again | Every step of the teardown runs whatever the ones before it did, and the next test starts clean. |
| NVDA process (`process.py`, `handshake.py`) | `_proc`, `_handshake`, `_ownership`, the handshake file | start, quit, kill, restart, adopt, teardown | NVDA exits, crashes and relaunches itself at any moment, and any NVDA may write or remove the file. No child may be lost and no stale handshake accepted. |
| Client (`client.py`, `actionmark.py`, `dsl/hearing.py`) | the RPC client, the last action's mark | restart_harness, restart_nvda, mark_action, reset, hear | Speech must be attributed to the action that caused it. |
| Launcher cache (`resolve.py`, `download.py`) | cached launchers and their pins | look up, check, fetch, verify, pin, discard | Several sessions and crashes over one directory. |
| Session (`provisioning.py`, `portable.py`, the session fixture) | a work directory, an NVDA | make a portable NVDA, put the spy in, start, tear down | Any step may fail and what was made until then must go. |
| Settings, command line, texts, build scripts | files, options | merge, parse, print | Sequential and pure; not modelled. |

Interactions: a test calls the client, the client calls the spy's server over
RPC, a handler queues a job on NVDA's main thread and waits, the job makes NVDA
speak, the tap captures it on that thread, and the client reads the tap by
index. The process owner learns of a new spy through the handshake file only,
and of an exit through the handle of its child or not at all.

## Modules

    CappedLog            pure operators over a log record
      SpeechTap          EXTENDS CappedLog; two threads over one log
        SpyPlugin        EXTENDS SpeechTap; the plugin's life, its three taps,
                         its server, and one RPC at a time through it
      ActionMark         EXTENDS CappedLog; the client's marks and searches, the
                         event queue and the speech log together
    SpeechHistory        abstract: an unbounded history with an atomic clear,
                         implemented by SpeechTap (INSTANCE ... WITH)
    JobQueue             abstract: one call at a time queues a job of NVDA's main
                         thread and gets its answer, or gives up; implemented
                         by MainThread, ActionMark and NvdaTest
    MainThread           the RPC thread, NVDA's main thread and the event queue
    NvdaProcess          the host's process owner, the client's restarts, and
                         the NVDA processes and their handshake file
    Modal                windows, keys and the foreground baseline
    AddonStore           pure operators: what NVDA keeps of an add-on
    ConfigTree           pure operators: assign and restore over a tree
      NvdaTest           EXTENDS the last three; tests, one after the other,
                         their steps and their teardowns
    Launcher             sessions over one cache of launchers
      Provisioning       EXTENDS Launcher; each session to its teardown

`X_proofs` holds the theorems about X (CappedLog, SpeechTap, SpyPlugin,
MainThread, NvdaProcess, ActionMark, NvdaTest, Provisioning). `MCNvdaTest` and
`MCProvisioning` define the values and the symmetry of the runs.

### CappedLog, SpeechTap, SpeechHistory

A log is a record of its retained `items` and the number `dropped`. Each method
holds the log's own lock for its whole body, so each is one operator. In
SpeechTap the steps are what each thread does under one lock:
`_on_speech_canceled` is two steps (`CountCancellation` under `_LOCK`, then
`MarkCancelled` outside it), and `speech_clear` is two steps (`ClearLog`,
`ZeroCount`) that hold `_LOCK` throughout, which is `clearing`. The main thread
is one thread: while `marking` it does nothing else. `history` is a ghost: what
the log would be without a capacity.

SpeechHistory is what a test is promised: `ReadSince(i)` returns everything
from position i, and may leave out old entries only when the newest `Capacity`
are returned. SpeechTap implements it with the count read as zero while a clear
is in progress, because nobody can read it then.

`timestamp`s and the texts of an utterance are not modelled; an utterance is
its number. `mark_last` is modelled for its one caller, `cancelled=True`.

### SpyPlugin

`step` is where `GlobalPlugin` is: `__init__` from `new` to `up`, `_teardown`
from `stop` to `down`, whether `terminate` began it or a step of the start that
raised. `Abort` is that second way. A step of the teardown does its work (`Does`)
or raises (`Fails`), which `_best_effort` swallows; `failed` remembers which did.
The three steps of `SpyServer.stop` are one of `_best_effort`'s: when one raises
the rest of them are left out, and the taps are taken down all the same. A tap
whose uninstall failed counts as installed and may capture on, although one of
its two callbacks may be gone. While it goes on the taps capture, and a
client that has found the handshake calls: `Request` to `Answered` is one call,
through the token header (`RejectHeader`), the dispatcher (`RefuseCall`), the
handler and `_classify_fault`. `outcome` is what the client made of it. A speech
call is SpeechTap's own action; the main thread is one, so `terminate` waits for
the half of a cancellation it is in.

What the model shows that a test of one layer does not: a method nobody
registered is a `LookupError` before the token is looked at, so a client with a
foreign token and a wrong name is not told of the token. A tap's install that
fails between its two registrations leaves `_INSTALLED` false and one callback
registered (`stray`), and uninstall does nothing about it. A handshake that the
host has open when it is to be removed stays, and so does one whose server could
not be stopped.

### JobQueue

What `run_on_main_thread` is to those who use it, and the joint between the
modules: `Call` queues a job and waits, `Run` ends the job in front of the queue,
`Return` takes the answer of one's own job, `GiveUp` leaves without one and the
job stays where it is. `Spec` is that; `MortalSpec` adds that NVDA may end
(`End`) and that a call may reach nobody (`CallNobody`). MainThread implements
`Spec`, with its three events per job and a step for each access: a call is over
when its wait returned or expired, not when the answer is on its way. ActionMark
and NvdaTest, which take a job as one step or two, implement `MortalSpec`. So
what both assume of NVDA's main thread is what MainThread shows.

### MainThread

Jobs are numbered in the order they are queued. `started`, `finished` and
`timedOut` are the sets of jobs whose event of that name is set, and every read
and every write of one is a step of its own. What each field stands for:
`mainPc` is where NVDA's main thread is in `runner`, `rpcPc` where the serving
thread is in `run_on_main_thread` or in the handler around it, `reply[j]` what
the caller of job j was told. The guard `~rpcPatient` of `WaitExpires` says that a
caller may have asked for a timeout longer than the run; such a caller makes no
demand on liveness and is why stop's join needs its limit.

External, modelled from how the spy uses it: NVDA's queue gives up a job before
it runs it (`Pop`, then `Enter`), and NVDA logs what a queued callable raises;
`SimpleXMLRPCServer` serves one call at a time and looks at a shutdown request
between two calls. `JoinTimesOut` may happen as soon as the loop has not ended,
which is more than a five-second join will see in practice. When NVDA's process
is gone (`mainPc = "gone"`) so is the serving thread, a daemon: the call it is in
ends at the client as a lost connection, and nothing is asked of that thread any
more. For jobs that are
not `runner`s (`nowait`, `event`) `started` and `finished` are ghosts.

### NvdaProcess

Processes are numbered in the order they are born; a number stands for the pid,
the port and the session token of a process, so pids are not reused. `status`
is what a process is, whoever started it, and the host never reads it except
through the handle of its child (`Poll`, `RequestQuit`, `QuitExited`,
`SawExit`). The host's `pc` follows `start`, `quit` and `restart_nvda`
statement by statement where another process can act in between.

Assumptions about the outside: `core.restart()` starts the replacement last, as
the old process ends, hence after its spy has removed its handshake; any NVDA
may exit or crash at any time (this includes `--quit`, and a second NVDA that
ousts the first); `Popen.kill` succeeds; `taskkill` may fail, and what it fails
to kill is in `survivors`. `RpcClient.close` drops a keep-alive connection and
nothing else, so `rpc` keeps its value over it. A handshake file that is there
may always be found invalid (`ReadInvalid`); one that is only half written reads
as absent, but the spy replaces the file atomically. The initial state has a
left-over file of a dead process or none. `_reset_for_start` may raise before it
has cleared anything (`ResetFails`), and then the host, which has seen its last
child gone, is left with that child's handshake and no child. Not modelled: log
file numbering, diagnostics, the working directory.

### ActionMark

A test's actions are numbered as their marks are read, and every job of NVDA's
queue and every entry of the speech log carries the number of the action that
caused it; 0 is NVDA's own doing, and what `speech.speak` queues. `last` is the
client's `last_action`, `entry` and `entryPid` what an `expecting_speech` block
keeps. `pc` follows `mark_action` (`settle`, `idling`, `asking`, `index`), the
action's calls (`act`, `acting`), the searches of `should_hear`,
`should_not_hear` and a block's end (`look`, `clock`) and `reset`. `settled` and
`cleared` are ghosts: that the last mark was taken because NVDA reported to be
idle, and which marks are older than the last clear of the log.

Of MainThread this keeps the order of the queue and the caller who may give up;
a job nobody waits for any more stays queued. `FollowUp` lets what any earlier
action set off arrive at any time, which is more than NVDA does. `Lost` ends
the action at whatever call it is in; the server takes calls one at a time, so a
request that is served late is in the queue before the next call's. Of `reset`
the speech step, which may fail, and the mark are modelled here, its other steps
in NvdaTest. Relaunches succeed; failing ones are NvdaProcess's and NvdaTest's.

A search (`wait_until`) looks once and then looks at the clock, and is over when
it has heard or the clock has run out; `overdue` is that clock, and the settle
loop's. Between the last look and the clock speech may arrive that the search
does not see. `OwnSpeechIsHeard` and `BlockIsCovered` are about what a look
could overlook: they hold at every look and so at the last one. The docstring of
`mark_action` admits that speech of an earlier action may be blamed on the next
one when the budget is spent. `SettledLeavesNoGesture` says how far that goes
when it is not spent.

### Modal, AddonStore, ConfigTree, NvdaTest

Modal is one desktop: the dialog the main thread is inside (`shown`; it takes no
job while there is one), the window in the foreground, the baseline
`exec_in_nvda_nowait` remembers and `simulate_modal` takes, and the keys sent and
not yet delivered. Windows delivers a key to whatever has the foreground then.
`misled` and `missed` are ghosts that name the excuses: what may have made the
spy take a wrong window for the dialog, and why a dialog may be up that the test
takes for closed.

AddonStore keeps of each add-on the copy NVDA started with and the one that
waits for the next start. `StateOf` is `_state`, `RequestRemove` marks the copy
`_find` returns, and of two copies only that one. ConfigTree is the
configuration by its leaves; `RestorePrefixes` are the ways `_restore` may have
stopped half-way.

NvdaTest runs tests against that NVDA. A test's body takes any steps in any
order; the guard `_guarded` is `NoneOpen`. `pc` is where the test's thread is and
`doing` the call, poll or restart it is in. A call that needs the main thread
queues a job (`Call`) and ends with the job's answer (`Returned`) or without one
(`NoAnswer`); a caller that gives up leaves its job, which is run later with
nobody to tell. Then `Nvda.finish` step by step: `CheckLog`, `CloseLeftover` to
`RestartForLeftover`, `UndoNext` to `RestartToUndo`, each of them whatever the
ones before it did; and the reset of `nvda_reset`. `FreshNvda` is a test marked
`fresh_nvda`. A restart (`Restarted`) empties queue and desktop, completes the
store's marks and may find a saved configuration; `RestartFailed` leaves no
NVDA. `Crash` and `Disturb` are what happens on its own.

`MaxLate` bounds how far a main thread falls behind: with more than so many jobs
in its queue, and no dialog, the caller that waits is not the one to give up.
One add-on name stands for the bundle that has it.

What the model shows on the way, and the properties name as their exceptions: a
second `simulate_modal` without a scenario between them takes the dialog itself
for the baseline, and then only the restart frees a leftover; a baseline whose
scenario's answer was lost survives into the next test; an install that timed
out is completed later and is on nobody's list, and where the same add-on was on
the list already its second copy may outlive the undo (`unattended`), although
the guide says without exception that an installed add-on is removed when the
test ends; `undo_all` removes
whatever has the name, also what `addon_under_test` had installed.

### Launcher, Provisioning

All sessions of a behaviour want the same launcher, since launchers of other
versions share no file with it. A digest is the content it is the digest of.
Every access of `ensure_launcher` to the cache is a step, in the code's order:
look for the file, read the pins, compare, discard file and pins one after the
other, fetch, write the `.part` file, verify, replace, pin twice. A note that is
there may be read or found unreadable (`NoteRead`, `NoNote`): `_read_note` makes
no difference between that and no note. `GiveUp` ends a session at any of them,
with an error or by its death; the `.part` file may stay behind, since the error
of its removal is suppressed, and the note being written may be left empty.
`Damage` changes the cached file. Ghosts name what the properties except:
`unread` (a note of this session's could not be read, and it did not go on to
discard launcher and notes), `refused` (a file or directory it should have
deleted is still there), `exposed` (the file changed after this session had found
it good), `blind` (it changed between `os.replace` and the SHA-256 pin, which is
taken of what is in the cache by then), `alone` and `intact`.

Provisioning goes on from there: work directory, `create_portable`, the spy's
bundle, start, tests, and the teardown in the code's order, where each step may
fail. `missed` is an NVDA that quit did not find; `RemoveWorkdir` may leave the
directory, since `rmtree` is told to ignore errors, and `refused` says so. A
session may be one of `nvda-testkit provision` (`CommandOver`, with or without a
portable copy at a path of the user's, which is the user's to remove) or run the
fake NVDA of the kit's own tests (`BeginFake`). Two sessions that overlap may
leave one with a path whose file the other has discarded (`NoLauncher`).
`NothingLeftBehind` is about sessions that are over, the ones that died while they
got their launcher included; a session that dies later is not modelled. A new
session does not ask for what the last one left, and so `workdir` and `partial`
begin empty.

## Runs

| Run | Bounds | Shows |
|---|---|---|
| `spyplugin` | capacity 2, 3 utterances, 1 cancellation between clears, 1 record at a time in the braille and NVDA logs, every method of the taps | marks stay within the count; the log is the newest end of the history; the tap inside the plugin implements the history; a plugin that is down is inert but for what a step failed to take back; an announced one captures; only a wrong token is a rejected token |
| `mainthread` | 3 jobs, texts of up to 2 characters | replies are true, failures surface once, `wait_until_idle` is a barrier, `keys_sent` is a true report and leaves out only presses that timed out, `run_on_main_thread` implements JobQueue, every limited call is answered while NVDA lives, stop returns |
| `nvdaprocess` | 4 processes ever | no child is lost, no stale handshake is accepted, a dead child ends its start, quit returns |
| `actionmark` | capacity 1, 2 actions, 2 utterances between clears, a queue of 2 before a mark, 2 processes | a search from the last mark overlooks nothing of the last action, a block nothing said inside it; a settled mark leaves no gesture of an earlier action behind; the calls are JobQueue's; marking and searching end |
| `nvdatest` | 2 tests, 3 steps on dialogs, 2 other steps, a main thread 1 job behind, 1 crash or disturbance, 2 dialogs, 1 add-on, 1 path | guarded steps do not wait behind a dialog, keys reach theirs, leftovers are freed, add-ons the test was told of are undone or reported (but for later installs it did not wait for), a reset that works leaves a clean NVDA before and after a test, the calls are JobQueue's |
| `provisioning` | 2 sessions, 4 begun, 1 damage, 2 contents | only trusted launchers are run, a session alone leaves the cache complete, a complete cache that can be read is reused, sessions leave nothing behind but what they could not delete |
| `latefailure` | as `mainthread` | violated: see Disagreements |
| `falseidle` | as `mainthread` | violated |
| `lostkeys` | as `mainthread` | violated |
| `orphan` | as `nvdaprocess` | violated |
| `clearhides` | capacity 2, 1 action, 2 utterances, 1 process | violated |
| `blame` | as `nvdatest`, 1 step of each kind, nothing on its own | violated |

Why the bounds are enough. *spyplugin*: with two utterances and a capacity of
one, the log evicts, is cleared in between, and an index read before the
eviction is used after it, at any point of the plugin's life; a client makes any
number of calls; the one cancellation meets a clear in any order, and any number
of steps of the teardown may fail. Larger logs and further cancellations are
left to the theorems. *mainthread*: three jobs are a job left behind by a
timeout, a job of NVDA's own, and the call that meets them; two characters are a
text that fails in the middle. *nvdaprocess*: four processes are a left-over
one, a child, a replacement the host misses, and one more child or replacement.
*actionmark*: two actions are one whose press has timed out and the next one, or
a block and the relaunch inside it; with a capacity of one the second utterance
puts the mark behind what the log still holds. *nvdatest*: two tests are one
that leaves something and the one that meets it; three steps on dialogs are an
open, a close and the open that meets a dialog or a key of the first; two other
steps are an install and what may go wrong after it; a step of each kind leaves
room for every order of calls that time out; the one path is in a section the
baseline lacks, and a key added inside a section it has is left to the theorem,
which is for any set of paths. *provisioning*: four sessions two at a time are
two that overlap, one that finds what they left, and one more that overlaps with
it. The two dialogs, and the two sessions, are symmetric. Each bound is a guard
of the action that would pass it, and is named so in the module that declares
it. The theorems hold for every bound.

Deadlock is not checked in `spyplugin`, `mainthread`, `nvdaprocess`, `nvdatest`,
`blame` and `provisioning`: the plugin is down, NVDA has exited or the last
session is over, and then nothing is left to do.

### Fairness

*MainThread*: `WF(Serve)` as long as NVDA's process is there, the RPC thread, a
daemon, goes on with the call it is in and its timer runs out, and `WF(Stop)`,
the thread that calls stop goes on and its join runs out. Nothing is assumed of
the jobs NVDA runs: a job may hang forever, and that is the case the two
liveness properties are about. *NvdaProcess*: weak fairness of the host's own
steps in `start`, `quit` and `restart_nvda`, whose loops are bounded by clocks.
Nothing is assumed of NVDA, and the deadline of a start is not assumed to
strike: a start whose child has died ends without it. *ActionMark*: `WF(Mark)`
and `WF(Wait)`, the client goes on with `mark_action` and with its searches,
whose every call the spy answers or the transport fails (`EveryCallAnswered`; if
NVDA ends, the connection does), and `WF(BudgetSpent)`, its clock goes on.
Nothing is assumed of NVDA. *SpyPlugin*, *NvdaTest* and *Provisioning* state no
fairness: every wait of theirs ends by a step that is always enabled, so that
their liveness would say no more than that time goes on.

### Disagreements

Each of these runs checks what a doc, a docstring or a test says, and TLC finds
a behaviour of the code in which it fails.

* `latefailure`: the wait ends, the job fails, and only then is `timed_out` set.
  `runner` does not log, since it saw no timeout, and the caller raises a bare
  `TimeoutError`. The job's error is lost. A check of `finished` after
  `timed_out.set()` would close the gap.
* `falseidle`: `wait_until_idle` answers that NVDA is idle while NVDA runs a job
  that arrived behind the no-op, because the queue has already given it up. The
  answer still is a barrier for everything in front of the no-op
  (`IdleIsBarrier`).
* `lostkeys`: a press that times out is processed later and never reported by
  `keys_sent`, which the guide says lists every gesture of the session.
* `orphan`: a `restart_nvda` that fails before the adoption leaves the old
  handle in place. Teardown finds that child exited and is done; the replacement
  goes on running.
* `clearhides`: `speech.clear()` makes the log count from zero, but `last_action`
  and an open block keep their index. Until the new log is longer than the old
  one was at the mark, `should_hear` finds nothing the guide says it waits for.
  `reset` does move the mark.
* `blame`: `reset` clears the log in one of its first steps and waits for the main
  thread only in its last, the restore of the configuration. A job that an
  earlier test left behind by a timeout is run in that wait; if it fails, its
  error is in the log that `fail_on_log_errors` holds against the test that
  begins.

## Proofs

TLAPS proves the following for every value of the constants that the named
assumptions of the modules allow. Every invariant and every action property of
the passing runs has its theorem, and so has every refinement.

* `SpeechTap_proofs`: `LogIsAlwaysNewest`, `CancelledAlwaysWithinCount` and
  `TapImplementsHistory`. `LogIsNewestHistory` is inductive next to the types,
  given lemmas on what an append, a mark and a read do to `NewestOf`. The
  refinement rests on it and has one step per action: a clear maps to `Clear`
  and a stutter, a read to a read of a suffix. `CancelledWithinCount` is not
  inductive: `CountInv` adds that between counting and marking the count is one
  ahead unless a clear has emptied the log meanwhile, and that while
  `speech_clear` holds the lock the log holds no mark.
* `SpyPlugin_proofs`: `PluginUsesTap`, every step of the plugin is a step of
  SpeechTap or leaves the tap alone; so the three theorems above hold of the
  plugin (`PluginImplementsHistory`, `PluginLogIsNewest`,
  `PluginCountsCancellations`). `DownIsInert` and `HandshakeMeansCapture` need
  an invariant that says, for every place `step` can be, what has been made and
  not yet taken down, and which step failed at what is still there after it; the
  second is about what captures, not about a server that still answers;
  `OnlyTokensAreRejected` follows from the guards of one call. `PluginIsTyped`
  adds the bounds of the two other logs.
* `MainThread_proofs`: `MainThreadIsTyped`, `RepliesAreAlwaysTrue`,
  `FailureAlwaysSurfacesOnce`, `IdleIsAlwaysBarrier`, `SentAlwaysPlayedInOrder`,
  `OnlyTimedOutPressesAreUnreported`, `BridgeImplementsJobQueue`. The properties
  alone are not inductive. `QueueInv` and `MainInv` say that the queue holds the
  last numbers in their order and that the finished jobs are all the ones
  before, but for the one the main thread still has; `WaitInv` and `ReplyInv`,
  that a caller waits for a job of its own that nobody has been told of yet. For
  `keys_sent`, `PlayInv` and `SentInv` say that both lists grow by ever larger
  numbers of presses that ended well, and `PressInv` that every press queued is
  waited for, reported, given up or failed. The refinement needs `Inv`: what the
  main thread has in hand and the queue are the jobs that are not finished, in
  order, so that finishing one is `Run`, and a caller whose wait expires does so
  while its job is among them. Every other step is a stutter.
* `NvdaProcess_proofs`: `ProcessesAreTyped`, `ChildrenAlwaysHeldOrDead`,
  `HandshakeAlwaysFresh`, `HandshakeAlwaysOwn`. `BirthInv` says that numbers
  above `born` are unused and known to nobody; `FileInv`, that while the host
  waits for a handshake the file is not one of an NVDA that had announced itself
  before, because each NVDA announces itself once; `OwnInv`, that without a
  relaunch every NVDA that runs is a child, hence the held one, and the file can
  only be its; when the host holds none, a reset that failed may have left it
  the handshake of one that is gone.
* `ActionMark_proofs`: `ActionMarkIsTyped`, `OwnSpeechIsAlwaysHeard`,
  `BlocksAreCovered`, `SettlingSeparatesActions`, `TestImplementsJobQueue`. No
  job and no entry bears a number above `begun`, so that an entry of a mark's
  action or later can only have been appended after the mark was read; a mark
  lies within the log unless a clear has made it stale, and an append never
  moves a position. For the third, once the no-op of a settling mark has run and
  the queue is empty, what the queue gets until the action ends is no gesture of
  an earlier action. The refinement rests on lemmas on the flags of the queue:
  what an append, the end of the job in front, and letting go of all do to them.
  A call that is lost is a `GiveUp`, or a `Return` if its job had ended, which
  `QueueInv` tells apart.
* `NvdaTest_proofs`: `Typed` carries next to the types that at most one job has
  a caller that waits, the last one in the queue, and that it fits the call the
  test is in; every other proof needs it to know whose answer has arrived.
  `TestsStartClean`: a call that has its answer had everything in front of it
  run (`AnswerInv`), so the answered restore found an empty queue and no dialog,
  and nothing but a crash changes the configuration before the answer is read
  (`CleanInv`). `CallsImplementJobQueue`: `BridgeMoves` sorts every step of a
  test and of NVDA into the few kinds JobQueue has; `Typed` says where no call
  is. `LeaksAreFreed`: `LeakInv` follows `leaked` from the check to the reset.
  `KeysAreSound`: `KeyInv` says that unless the spy was misled at most one key
  is under way, its dialog is up and in the foreground, and the baseline is the
  window the dialog will take the foreground from. That holds because a scenario
  is only queued once NVDA is idle: after a close that has just sent its key, it
  is the settling of the next open that keeps the old dialog from being the
  baseline of the new one. `GuardsAreSound`: `OwedInv` counts; the scenarios
  still queued and the dialog that is up are together no more than the keys
  under way, and one more if the test knows a dialog to be open.
  `AddonsAreUndone`: `ListInv` keeps what was told on the list, `NextInv` says
  that a told add-on that is not `unattended` has no copy waiting for a restart
  but for the restart of its own install, and `UndoInv` follows each name
  through the undo and its restart.
* `Provisioning_proofs`: `ProvisioningIsTyped`, `OnlyTrustedLaunchersRun`,
  `IntactIsReused`, `AloneCompletes`, `SessionsLeaveNothing`. The invariants say
  what a pin in the cache is worth, what a session that is alone knows of the
  cache at each of its steps (unless it could not read a note), and which of its
  work directory, `.part` file and NVDA a session has at each of its own.

Five of the six properties that the code violates have a theorem that says how
far it does keep them:

- `latefailure`: `LateFailuresAreLogged`. A failure is logged unless it was raised
  while its caller waited or had not yet set `timed_out`: a caller that waits is
  told of it if the job ends in time, and the rest is the gap the run shows.
- `falseidle`: `IdleLeavesOneAtMost`. Behind an answer "idle" only the job under
  way has not ended.
- `lostkeys`: `OnlyTimedOutPressesAreUnreported`.
- `orphan`: `SessionsLeaveNoChild`. Only an NVDA that came of a relaunch outlives
  its session.
- `clearhides`: `OwnSpeechIsAlwaysHeard`, which excepts marks older than a clear.

Only model-checked: liveness (`EveryCallAnswered`, `StopReturns`,
`DeadChildEndsStart`, `QuitReturns`, `WaitsEnd`), which rests on fairness and
ENABLED and is out of the prover's reach. No module uses a recursive definition,
whose values for every input would need induction over data. The six violated
properties are shown by counterexample.

## Not modelled

* Pure functions over text: settings and their files, option parsing, the merge
  and rendering of `nvda.ini`, the version and release a channel means, matching
  of utterances, conversion of values (`serialise.py`), message texts, reports.
* Pure I/O and glue: the Win32 structures of `modal_api.py`, log file numbering,
  diagnostics and the checks of `doctor`, the namespaces of the client that wrap
  one RPC each, the build scripts, the example add-on, CI.
* Of modelled components: `xmlrpc.client`'s one retry after a reset connection
  (a call is lost or answered, never run twice); `braille_set_display`'s cell
  count, one locked assignment; `speech.wait_for` and `log.wait_for`, the same
  loop as the searches of ActionMark; `addon_under_test`, which installs once per
  session and is part of NvdaTest's initial store; half a key that Windows took
  before `SendInput` failed; an empty section of the configuration; process ids
  that are used again; log levels, timestamps and the cells of a braille line.
* `MainThread` is not composed with ActionMark and NvdaTest: a job there is one
  step or two, and how many steps of NVDA's own pass before it is left open. What
  joins them is JobQueue, which all three are proved to implement; what JobQueue
  does not say, such as which jobs are logged or how long one takes, is not carried
  over.
