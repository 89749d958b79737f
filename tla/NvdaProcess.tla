------------------------------ MODULE NvdaProcess ------------------------------
(***************************************************************************)
(* The NVDA under test, from the host's side (process.py, with the parts   *)
(* of client.py and provisioning.py that drive it), and the NVDA processes *)
(* themselves as far as the host can see them: alive or not, and what the  *)
(* handshake file says (server.py).                                        *)
(*                                                                         *)
(* The host starts NVDA, restarts it from outside (restart_harness), has   *)
(* it restart itself and adopts the replacement (restart_nvda), and tears  *)
(* it down.  It watches its child through a process handle, every other    *)
(* NVDA only through the file, which any NVDA may write or remove at any   *)
(* moment.  Processes are numbered in the order they are born, and a       *)
(* number stands for the pid, the port and the session token of a process. *)
(***************************************************************************)
EXTENDS Integers, FiniteSets

CONSTANT MaxProcesses       \* bound: NVDA processes ever born

ASSUME BoundAssumption == MaxProcesses \in Nat \ {0}

Processes == 1..MaxProcesses

None == 0                   \* no process, no handshake

\* "leaving": told to exit, its handshake still published; "withdrawn": its
\* handshake removed, the process still there.
Statuses == {"unborn", "booting", "serving", "leaving", "withdrawn", "dead"}

\* Where the host is: at rest between two calls of a test, or inside one.
Pcs == {"rest", "reset", "spawn", "poll", "read", "fail",   \* start
        "quit", "exiting",                                  \* quit
        "trigger", "adopt",                                 \* restart_nvda
        "ended"}

Goals == {"provision", "restart", "teardown"}

VARIABLES
  status,       \* of every process
  born,         \* how many processes there have been
  file,         \* the handshake file: whose it is, or None
  relaunching,  \* processes in which core.restart() has run
  pc, goal,     \* the host
  proc,         \* _proc: the child the host holds a handle of
  handshake,    \* _handshake
  ownership,    \* _ownership
  rpc,          \* the process the client's RpcClient talks to
  spawned,      \* ghost: the children ever started
  stale,        \* ghost: who had announced itself before this start or restart
  survivors     \* ghost: processes a taskkill failed to kill

nvdaVars == <<status, born, file, relaunching>>
hostVars == <<pc, goal, proc, handshake, ownership, rpc>>
ghosts   == <<spawned, stale, survivors>>
vars     == <<nvdaVars, hostVars, ghosts>>

TypeOK == /\ status \in [Processes -> Statuses]
          /\ born \in 0..MaxProcesses
          /\ file \in Processes \cup {None}
          /\ relaunching \subseteq Processes
          /\ pc \in Pcs /\ goal \in Goals
          /\ proc \in Processes \cup {None}
          /\ handshake \in Processes \cup {None}
          /\ ownership \in {"spawned", "adopted"}
          /\ rpc \in Processes \cup {None}
          /\ spawned \subseteq Processes
          /\ stale \subseteq Processes
          /\ survivors \subseteq Processes
          \* Where the code goes through _proc or _handshake it is not None.
          /\ pc \in {"poll", "read", "fail", "exiting"} => proc # None
          /\ pc \in {"trigger", "adopt"} \/ ownership = "adopted" => handshake # None
          /\ pc \in {"reset", "spawn"} => proc = None
          /\ pc \in {"rest", "trigger", "adopt", "quit", "exiting"}
               \/ goal # "provision" => rpc # None

\* A file left by an earlier session may be there: _reset_for_start has yet to
\* run.  Its process is long dead and takes the number 1.
Init == /\ \E left \in BOOLEAN :
             /\ born = (IF left THEN 1 ELSE 0)
             /\ status = [n \in Processes |->
                            IF left /\ n = 1 THEN "dead" ELSE "unborn"]
             /\ file = IF left THEN 1 ELSE None
        /\ relaunching = {}
        /\ pc = "reset" /\ goal = "provision"
        /\ proc = None /\ handshake = None /\ ownership = "spawned"
        /\ rpc = None
        /\ spawned = {} /\ stale = {} /\ survivors = {}

Running == {n \in Processes :
              status[n] \in {"booting", "serving", "leaving", "withdrawn"}}

Announced == {n \in Processes : status[n] \notin {"unborn", "booting"}}
--------------------------------------------------------------------------------
(* The NVDA processes.  Any of them may exit or die at any moment, asked   *)
(* to or not; none of them is sure to do anything.                         *)

\* SpyServer.start: serve, then publish the handshake.
Announce(n) == /\ status[n] = "booting"
               /\ status' = [status EXCEPT ![n] = "serving"]
               /\ file' = n
               /\ UNCHANGED <<born, relaunching, hostVars, ghosts>>

\* NVDA begins to exit; the spy stops serving.
Withdraw(n) == /\ status[n] = "serving"
               /\ status' = [status EXCEPT ![n] = "leaving"]
               /\ UNCHANGED <<born, file, relaunching, hostVars, ghosts>>

\* SpyServer._remove_handshake: whoever's file it is.
RemoveHandshake(n) == /\ status[n] = "leaving"
                      /\ status' = [status EXCEPT ![n] = "withdrawn"]
                      /\ file' = None
                      /\ UNCHANGED <<born, relaunching, hostVars, ghosts>>

\* A process that exits after core.restart() starts its replacement last.
Exit(n) == /\ status[n] \in {"leaving", "withdrawn"}
           /\ IF n \in relaunching /\ born < MaxProcesses
              THEN /\ born' = born + 1
                   /\ status' = [status EXCEPT ![n] = "dead", ![born + 1] = "booting"]
              ELSE /\ born' = born
                   /\ status' = [status EXCEPT ![n] = "dead"]
           /\ UNCHANGED <<file, relaunching, hostVars, ghosts>>

Crash(n) == /\ n \in Running
            /\ status' = [status EXCEPT ![n] = "dead"]
            /\ UNCHANGED <<born, file, relaunching, hostVars, ghosts>>
--------------------------------------------------------------------------------
(* NvdaProcess.start                                                       *)

\* Where a start that raises leaves the host: provision gives up the session,
\* restart_harness passes the error on to the test.
AfterFailure == IF goal = "provision" THEN "ended" ELSE "rest"

\* _reset_for_start that trusts the file it finds.
ResetKeepingFile == /\ pc = "reset"
                    /\ handshake' = None
                    /\ ownership' = "spawned"
                    /\ stale' = Announced
                    /\ pc' = "spawn"
                    /\ UNCHANGED <<nvdaVars, goal, proc, rpc, spawned, survivors>>

\* _reset_for_start
Reset == /\ pc = "reset"
         /\ file' = None
         /\ handshake' = None
         /\ ownership' = "spawned"
         /\ stale' = Announced
         /\ pc' = "spawn"
         /\ UNCHANGED <<status, born, relaunching, goal, proc, rpc, spawned,
                        survivors>>

\* mkdir or unlink raises OSError before _handshake is cleared: what the host
\* knew of the last child stays, the child being gone.
ResetFails == /\ pc = "reset"
              /\ pc' = AfterFailure
              /\ UNCHANGED <<nvdaVars, goal, proc, handshake, ownership, rpc, ghosts>>

Spawn == /\ pc = "spawn"
         /\ born < MaxProcesses
         /\ born' = born + 1
         /\ status' = [status EXCEPT ![born + 1] = "booting"]
         /\ proc' = born + 1
         /\ spawned' = spawned \cup {born + 1}
         /\ pc' = "poll"
         /\ UNCHANGED <<file, relaunching, goal, handshake, ownership, rpc, stale,
                        survivors>>

\* Popen raises.
SpawnFails == /\ pc = "spawn"
              /\ pc' = AfterFailure
              /\ UNCHANGED <<nvdaVars, goal, proc, handshake, ownership, rpc, ghosts>>

\* A poll that watches the file only, as adopt_relaunched_handshake does.
PollFileOnly == /\ pc = "poll"
                /\ pc' = "read"
                /\ UNCHANGED <<nvdaVars, goal, proc, handshake, ownership, rpc,
                               ghosts>>

\* on_poll of start: _raise_if_exited
Poll == /\ pc = "poll"
        /\ pc' = IF status[proc] = "dead" THEN "fail" ELSE "read"
        /\ UNCHANGED <<nvdaVars, goal, proc, handshake, ownership, rpc, ghosts>>

\* No file yet: sleep and poll again.
ReadNothing == /\ pc = "read"
               /\ file = None
               /\ pc' = "poll"
               /\ UNCHANGED <<nvdaVars, goal, proc, handshake, ownership, rpc, ghosts>>

\* start accepts any handshake; the caller attaches its client to it.
ReadHandshake == /\ pc = "read"
                 /\ file # None
                 /\ handshake' = file
                 /\ rpc' = file
                 /\ pc' = "rest"
                 /\ UNCHANGED <<nvdaVars, goal, proc, ownership, ghosts>>

\* The file is there and is not a handshake of this protocol.
ReadInvalid == /\ pc = "read"
               /\ file # None
               /\ pc' = "fail"
               /\ UNCHANGED <<nvdaVars, goal, proc, handshake, ownership, rpc, ghosts>>

HandshakeTimesOut == /\ pc = "poll"
                     /\ pc' = "fail"
                     /\ UNCHANGED <<nvdaVars, goal, proc, handshake, ownership, rpc,
                                    ghosts>>

\* A failed start that leaves its child to itself.
FailWithoutKill == /\ pc = "fail"
                   /\ proc' = None
                   /\ handshake' = None
                   /\ pc' = AfterFailure
                   /\ UNCHANGED <<nvdaVars, goal, ownership, rpc, ghosts>>

\* kill() of a spawned child, and the error on its way to the caller.
Fail == /\ pc = "fail"
        /\ status' = [status EXCEPT ![proc] = "dead"]
        /\ proc' = None
        /\ handshake' = None
        /\ pc' = AfterFailure
        /\ UNCHANGED <<born, file, relaunching, goal, ownership, rpc, ghosts>>

\* Ctrl-C in the middle of a start, or a file that cannot be read or decoded,
\* neither of which start turns into an NvdaStartupError: provision kills the
\* child and passes it on, restart_harness only passes it on.
Interrupt ==
  /\ pc \in {"poll", "read"}
  /\ pc' = AfterFailure
  /\ IF goal = "provision"
     THEN status' = [status EXCEPT ![proc] = "dead"] /\ proc' = None
     ELSE UNCHANGED <<status, proc>>
  /\ UNCHANGED <<born, file, relaunching, goal, handshake, ownership, rpc, ghosts>>
--------------------------------------------------------------------------------
(* NvdaProcess.quit, on the way to a restart or at the end of the session  *)

RestartHarness == /\ pc = "rest"
                  /\ goal' = "restart"
                  /\ pc' = "quit"
                  /\ UNCHANGED <<nvdaVars, proc, handshake, ownership, rpc, ghosts>>

Teardown == /\ pc = "rest"
            /\ goal' = "teardown"
            /\ pc' = "quit"
            /\ UNCHANGED <<nvdaVars, proc, handshake, ownership, rpc, ghosts>>

AfterQuit == IF goal = "restart" THEN "reset" ELSE "ended"

\* _release_adopted: a taskkill of the adopted pid, which may fail, and the end
\* of the child the session once started.
ReleaseAdopted ==
  /\ pc = "quit"
  /\ ownership = "adopted"
  /\ \E killed \in {{handshake}, {}} :
       /\ status' = [n \in Processes |->
                       IF n \in (killed \cup {proc}) THEN "dead" ELSE status[n]]
       /\ survivors' = survivors \cup ({handshake} \ killed)
  /\ handshake' = None
  /\ proc' = None
  /\ ownership' = "spawned"
  /\ pc' = AfterQuit
  /\ UNCHANGED <<born, file, relaunching, goal, rpc, spawned, stale>>

\* No child, or one that has exited already.
QuitExited == /\ pc = "quit"
              /\ ownership = "spawned"
              /\ proc \notin Running
              /\ proc' = None
              /\ pc' = AfterQuit
              /\ UNCHANGED <<nvdaVars, goal, handshake, ownership, rpc, ghosts>>

\* Ask NVDA to quit, which it may or may not do.
RequestQuit == /\ pc = "quit"
               /\ ownership = "spawned"
               /\ proc \in Running
               /\ pc' = "exiting"
               /\ UNCHANGED <<nvdaVars, goal, proc, handshake, ownership, rpc, ghosts>>

SawExit == /\ pc = "exiting"
           /\ status[proc] = "dead"
           /\ proc' = None
           /\ pc' = AfterQuit
           /\ UNCHANGED <<nvdaVars, goal, handshake, ownership, rpc, ghosts>>

\* A wait for the exit that has no limit.
QuitWaitsForever == FALSE /\ UNCHANGED vars

\* A quit that lets go of an NVDA that does not.
QuitGivesUp == /\ pc = "exiting"
               /\ proc' = None
               /\ handshake' = None
               /\ pc' = AfterQuit
               /\ UNCHANGED <<nvdaVars, goal, ownership, rpc, ghosts>>

\* _exited_within is false: kill().
QuitTimesOut == /\ pc = "exiting"
                /\ status' = [status EXCEPT ![proc] = "dead"]
                /\ proc' = None
                /\ handshake' = None
                /\ pc' = AfterQuit
                /\ UNCHANGED <<born, file, relaunching, goal, ownership, rpc, ghosts>>
--------------------------------------------------------------------------------
(* NvdaClient.restart_nvda                                                 *)

\* A restart of an NVDA that is not known to run.
RestartUnchecked == /\ pc = "rest"
                    /\ file' = None
                    /\ stale' = Announced
                    /\ pc' = "trigger"
                    /\ UNCHANGED <<status, born, relaunching, goal, proc, handshake,
                                   ownership, rpc, spawned, survivors>>

\* Refused while there is no handshake; else the file goes first.
RestartNvda == /\ pc = "rest"
               /\ handshake # None
               /\ file' = None
               /\ stale' = Announced
               /\ pc' = "trigger"
               /\ UNCHANGED <<status, born, relaunching, goal, proc, handshake,
                              ownership, rpc, spawned, survivors>>

\* core.restart() runs in NVDA, or the connection is lost, before or after it.
Trigger == /\ pc = "trigger"
           /\ \/ status[rpc] = "serving" /\ relaunching' = relaunching \cup {rpc}
              \/ UNCHANGED relaunching
           /\ pc' = "adopt"
           /\ UNCHANGED <<status, born, file, goal, proc, handshake, ownership, rpc,
                          ghosts>>

\* The call fails in any other way; it may still run, as a late job.
TriggerFails == /\ pc = "trigger"
                /\ \/ status[rpc] = "serving" /\ relaunching' = relaunching \cup {rpc}
                   \/ UNCHANGED relaunching
                /\ pc' = "rest"
                /\ UNCHANGED <<status, born, file, goal, proc, handshake, ownership,
                               rpc, ghosts>>

\* adopt_relaunched_handshake: a handshake of another pid.
Adopt == /\ pc = "adopt"
         /\ file \notin {None, handshake}
         /\ handshake' = file
         /\ ownership' = "adopted"
         /\ rpc' = file
         /\ pc' = "rest"
         /\ UNCHANGED <<nvdaVars, goal, proc, ghosts>>

\* No other handshake in time, or one that is not valid.
AdoptFails == /\ pc = "adopt"
              /\ pc' = "rest"
              /\ UNCHANGED <<nvdaVars, goal, proc, handshake, ownership, rpc, ghosts>>
--------------------------------------------------------------------------------
Nvda == \E n \in Processes : \/ Announce(n) \/ Withdraw(n) \/ RemoveHandshake(n)
                             \/ Exit(n) \/ Crash(n)

\* The steps of a start that need no clock to run out.
Start == Reset \/ ResetFails \/ Spawn \/ SpawnFails \/ Poll \/ ReadNothing
         \/ ReadHandshake \/ ReadInvalid \/ Fail

Quit == ReleaseAdopted \/ QuitExited \/ RequestQuit \/ SawExit \/ QuitTimesOut

Restart == Trigger \/ TriggerFails \/ Adopt \/ AdoptFails

Test == RestartHarness \/ RestartNvda \/ Teardown

Next == Nvda \/ Start \/ HandshakeTimesOut \/ Interrupt \/ Quit \/ Restart \/ Test

Spec == Init /\ [][Next]_vars

\* The host runs on and its clocks run out; nothing is assumed of NVDA, nor of
\* the test, and no start is assumed to be interrupted or to reach its deadline.
FairSpec == Spec /\ WF_vars(Start) /\ WF_vars(Quit) /\ WF_vars(Restart)
--------------------------------------------------------------------------------
(* Properties.                                                             *)

(* No child is ever lost: on every path through start, quit, kill and      *)
(* adoption, a process the host started is held by its handle or is dead.  *)
ChildrenHeldOrDead == \A n \in spawned : n = proc \/ status[n] = "dead"

(* A start or a restart never accepts the handshake of an NVDA that was    *)
(* there before it: the file is removed first, and written once by each.   *)
HandshakeIsFresh ==
  [][handshake' \notin {None, handshake} => handshake' \notin stale]_vars

(* Unless an NVDA of this session was ever told to relaunch itself, the    *)
(* handshake the host has is its own child's, though start accepts any;    *)
(* once it holds no child, the last one's that it started and saw gone     *)
(* (left by a restart that failed before it cleared it).                   *)
HandshakeIsOwn ==
  handshake # None /\ relaunching = {} =>
    \/ handshake = proc
    \/ proc = None /\ handshake \in spawned

(* A child that dies before its handshake ends the start without the       *)
(* deadline (process.py: it must fail in seconds, not at the deadline).    *)
DeadChildEndsStart ==
  (pc \in {"poll", "read"} /\ status[proc] = "dead") ~> (pc \notin {"poll", "read"})

(* quit returns, with NVDA gone or killed, whatever NVDA does.             *)
QuitReturns == (pc \in {"quit", "exiting"}) ~> (pc \in {"reset", "ended"})
--------------------------------------------------------------------------------
(* What the code says of itself and does not do.                           *)

(* Provisioned is "a running NVDA plus everything needed to tear it down": *)
(* after teardown no NVDA of the session runs, but for a process that the  *)
(* best-effort kill of a pid could not stop.                               *)
TeardownIsComplete == pc = "ended" => Running \subseteq survivors
================================================================================
