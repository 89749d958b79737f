------------------------------ MODULE Provisioning ------------------------------
(***************************************************************************)
(* A session from its launcher to its teardown (provisioning.py, with      *)
(* portable.create_portable and the session fixture _nvda_provisioned): it *)
(* makes a work directory, runs the launcher to get a portable NVDA there, *)
(* puts the spy into it, starts it, and takes all of that down again.      *)
(* NvdaProcess shows how an NVDA is started and quit.                      *)
(***************************************************************************)
EXTENDS Launcher

VARIABLES keep,             \* settings.keep_portable
          workdir,          \* what each session has of its work directory
          ran,              \* the launcher each session ran, or "none"
          nvda              \* its NVDA: "none", "up", or "missed" by the teardown

tail == <<keep, workdir, ran, nvda>>
vars == <<launcherVars, tail>>

Workdir == {"none", "portable", "spied"}

Init ==
  /\ LauncherInit
  /\ keep \in BOOLEAN
  /\ workdir = [s \in Sessions |-> "none"]
  /\ ran = [s \in Sessions |-> "none"]
  /\ nvda = [s \in Sessions |-> "none"]

\* A step of the session after its launcher.
Move(s, here, there) == /\ Goto(s, here, there)
                        /\ UNCHANGED <<published, cache, session, history, counters, keep>>

\* A new session knows nothing of what an earlier one left.
BeginSession(s) == /\ Begin(s)
                   /\ ran' = [ran EXCEPT ![s] = "none"]
                   /\ workdir' = [workdir EXCEPT ![s] = "none"]
                   /\ nvda' = [nvda EXCEPT ![s] = "none"]
                   /\ UNCHANGED keep

\* provision_fake needs no launcher and no portable NVDA.
BeginFake(s) == /\ runs < MaxRuns /\ runs' = runs + 1
                /\ Goto(s, "idle", "start")
                /\ ran' = [ran EXCEPT ![s] = "none"]
                /\ workdir' = [workdir EXCEPT ![s] = "spied"]
                /\ nvda' = [nvda EXCEPT ![s] = "none"]
                /\ partial' = [partial EXCEPT ![s] = FALSE]
                /\ refused' = [refused EXCEPT ![s] = FALSE]
                /\ UNCHANGED <<published, cache, note, payload, served, alone, unread,
                               exposed, blind, intact, damage, keep>>

\* `nvda-testkit provision' wants no more than the launcher, or a portable copy at a
\* place of its user's.
CommandOver(s) ==
  /\ Move(s, "have", "idle")
  /\ ran' \in {ran, [ran EXCEPT ![s] = launcher]}
  /\ UNCHANGED <<workdir, nvda>>

MakeWorkdir(s) ==
  /\ Move(s, "have", "portable")
  /\ workdir' = [workdir EXCEPT ![s] = "portable"]
  /\ UNCHANGED <<ran, nvda>>

\* create_portable runs the launcher, if it is there, and expects an nvda.exe
\* before its time is up.
CreatePortable(s) ==
  /\ launcher # "none"
  /\ Move(s, "portable", "extract") \/ Move(s, "portable", "rmtree")
  /\ ran' = [ran EXCEPT ![s] = launcher]
  /\ UNCHANGED <<workdir, nvda>>

NoLauncher(s) == /\ launcher = "none"
                 /\ Move(s, "portable", "rmtree")
                 /\ UNCHANGED <<workdir, ran, nvda>>

\* extract_addon, of the spy's bundle; `doctor --full' stops before it.
ExtractSpy(s) ==
  /\ \/ /\ Move(s, "extract", "start")
        /\ workdir' = [workdir EXCEPT ![s] = "spied"]
     \/ Move(s, "extract", "rmtree") /\ UNCHANGED workdir
  /\ UNCHANGED <<ran, nvda>>

\* A start that fails has its NVDA killed.
Start(s) ==
  /\ \/ /\ Move(s, "start", "up")
        /\ nvda' = [nvda EXCEPT ![s] = "up"]
     \/ Move(s, "start", "rmtree") /\ UNCHANGED nvda
  /\ UNCHANGED <<workdir, ran>>

\* The tests are over.
SessionEnds(s) == /\ Move(s, "up", "close")
                  /\ UNCHANGED <<workdir, ran, nvda>>

\* A teardown that gives up when the transport does.
CloseOrGiveUp(s) ==
  /\ Move(s, "close", "quit") \/ Move(s, "close", "idle")
  /\ UNCHANGED <<workdir, ran, nvda>>

\* RpcClient.close; what it raises is raised again at the end.
Close(s) == /\ Move(s, "close", "quit")
            /\ UNCHANGED <<workdir, ran, nvda>>

\* NvdaProcess.quit, which may overlook an NVDA (NvdaProcess: TeardownIsComplete).
Quit(s) == /\ Move(s, "quit", IF keep THEN "idle" ELSE "rmtree")
           /\ \E n \in {"none", "missed"} : nvda' = [nvda EXCEPT ![s] = n]
           /\ UNCHANGED <<workdir, ran>>

\* rmtree does not mind files it cannot remove: those of an NVDA that still runs,
\* of a launcher whose time was up, or that something else has open.
RemoveWorkdir(s) ==
  /\ Goto(s, "rmtree", "idle")
  /\ \/ workdir' = [workdir EXCEPT ![s] = "none"] /\ UNCHANGED refused
     \/ refused' = [refused EXCEPT ![s] = TRUE] /\ UNCHANGED workdir
  /\ UNCHANGED <<published, cache, session, served, alone, unread, exposed, blind, intact,
                 counters, keep, ran, nvda>>

Next == \/ \E s \in Sessions :
             \/ BeginSession(s) \/ BeginFake(s)
             \/ Ensure(s) /\ UNCHANGED tail
             \/ CommandOver(s) \/ MakeWorkdir(s) \/ CreatePortable(s)
             \/ NoLauncher(s) \/ ExtractSpy(s) \/ Start(s) \/ SessionEnds(s)
             \/ Close(s) \/ Quit(s) \/ RemoveWorkdir(s)
        \/ Damage /\ UNCHANGED tail

Spec == Init /\ [][Next]_vars
--------------------------------------------------------------------------------
(* Properties.                                                             *)

TypeOK ==
  /\ published \in Contents \cup {"none"}
  /\ launcher \in Digests /\ sha1Note \in Contents \cup {"none"} /\ sha256Note \in Digests
  /\ pc \in [Sessions -> CachePcs \cup {"idle", "have", "portable", "extract", "start",
                                         "up", "close", "quit", "rmtree"}]
  /\ note \in [Sessions -> Digests] /\ payload \in [Sessions -> Contents \cup {"none"}]
  /\ partial \in [Sessions -> BOOLEAN]
  /\ served \subseteq Contents
  /\ alone \in [Sessions -> BOOLEAN] /\ exposed \in [Sessions -> BOOLEAN]
  /\ unread \in [Sessions -> BOOLEAN] /\ refused \in [Sessions -> BOOLEAN]
  /\ blind \in BOOLEAN /\ intact \in BOOLEAN
  /\ runs \in Nat /\ damage \in Nat
  /\ keep \in BOOLEAN
  /\ workdir \in [Sessions -> Workdir] /\ ran \in [Sessions -> Digests]
  /\ nvda \in [Sessions -> {"none", "up", "missed"}]

(* A session only runs a launcher with the published digest, or, where     *)
(* none is published, one that a session downloaded: whatever other        *)
(* sessions do to the cache and however they died, unless the file changed *)
(* after this session had found it good, or before it was pinned.          *)
LauncherIsTrusted ==
  \A s \in Sessions :
    \/ ran[s] \in {"none", published}
    \/ published = "none" /\ (ran[s] \in served \/ blind)
    \/ exposed[s]

(* A session that had the cache to itself while it ensured its launcher    *)
(* leaves a launcher there that later sessions can trust, in whatever      *)
(* state it found the cache; where it could not read the SHA-256 pin and   *)
(* went by the SHA-1 pin, the other may be an old one.                     *)
AloneLeavesItComplete ==
  [][\A s \in Sessions : pc[s] # "have" /\ pc'[s] = "have" /\ alone[s] =>
       /\ launcher' # "none"
       /\ IF published # "none" THEN launcher' = published
          ELSE \/ sha256Note' = launcher'
               \/ sha1Note' = launcher' /\ (sha256Note' = "none" \/ unread[s])]_vars

(* What such a session left is neither discarded nor downloaded again by   *)
(* another that has the cache to itself, unless that one cannot read a pin.*)
CompleteIsReused ==
  \A s \in Sessions : pc[s] \in {"unlink", "fetch"} /\ alone[s] /\ intact => unread[s]

(* A session that is over has tried to stop its NVDA and left no .part     *)
(* file and no work directory, wherever it failed, except a directory it   *)
(* was to keep, and what it tried to delete and could not or did not live  *)
(* to delete.                                                              *)
NothingLeftBehind ==
  \A s \in Sessions : pc[s] = "idle" =>
    /\ partial[s] => refused[s]
    /\ nvda[s] # "up"
    /\ workdir[s] = "none" \/ refused[s] \/ (keep /\ workdir[s] = "spied")
================================================================================
