-------------------------- MODULE NvdaProcess_proofs --------------------------
(***************************************************************************)
(* Theorems about NvdaProcess for any number of NVDA processes, checked by *)
(* TLAPS.                                                                  *)
(*                                                                         *)
(* The argument: a process is born under a number nobody knows yet, and an *)
(* NVDA announces itself once, before anything that counts as "there       *)
(* before" it.  So a file removed at the start of an operation can only    *)
(* come back from a process that was not there before; and while no NVDA   *)
(* relaunches itself, the only such process is the child the host holds.   *)
(***************************************************************************)
EXTENDS NvdaProcess, TLAPS

\* Numbers beyond born are unused, and known to nobody.
BirthInv == /\ \A n \in Processes : n > born <=> status[n] = "unborn"
            /\ \A n \in spawned : n <= born
            /\ proc <= born /\ handshake <= born /\ file <= born

\* A start resets the ownership, and a child asked to quit is no adopted one.
OwnershipInv ==
  pc \in {"spawn", "poll", "read", "fail", "exiting"} => ownership = "spawned"

\* While the host waits for a handshake the file is not an old one.
FileInv ==
  /\ stale \subseteq Announced
  /\ pc \in {"spawn", "poll", "read", "fail", "trigger", "adopt"} => file \notin stale

\* The child is one the host started.  As long as no NVDA has been told to relaunch
\* itself, every NVDA that runs is a child, what appears in the file is the child's,
\* and so is what the host takes from it, which it may keep when the child is gone.
OwnInv ==
  /\ proc # None => proc \in spawned
  /\ pc \in {"spawn", "poll", "read", "fail"} => handshake = None
  /\ relaunching = {} =>
       /\ Running \subseteq spawned
       /\ pc \in {"spawn", "poll", "read", "fail", "trigger", "adopt"} =>
            file \in {None, proc}
       /\ handshake # None => \/ handshake = proc
                              \/ proc = None /\ handshake \in spawned

Inv == TypeOK /\ OwnershipInv /\ BirthInv /\ ChildrenHeldOrDead /\ FileInv

USE BoundAssumption

LEMMA InvInit == Init => Inv /\ OwnInv
<1> SUFFICES ASSUME Init PROVE Inv /\ OwnInv
  OBVIOUS
<1>1. TypeOK
  BY DEF Init, TypeOK, Statuses, Processes, None, Pcs, Goals
<1>2. BirthInv
  BY DEF Init, BirthInv, Processes, None
<1>3. OwnershipInv /\ ChildrenHeldOrDead /\ FileInv
  BY DEF Init, OwnershipInv, ChildrenHeldOrDead, FileInv
<1>4. OwnInv
  BY DEF Init, OwnInv, Running, None
<1> QED BY <1>1, <1>2, <1>3, <1>4 DEF Inv

LEMMA TypeStep == Inv /\ [Next]_vars => TypeOK'
<1> SUFFICES ASSUME Inv, [Next]_vars PROVE TypeOK'
  OBVIOUS
<1>t. TypeOK /\ OwnershipInv
  BY DEF Inv
<1> USE <1>t DEF TypeOK, OwnershipInv, nvdaVars, hostVars, ghosts, Statuses, Pcs, Goals
<1>1. ASSUME NEW n \in Processes,
             Announce(n) \/ Withdraw(n) \/ RemoveHandshake(n) \/ Exit(n) \/ Crash(n)
      PROVE  TypeOK'
  <2>1. CASE Announce(n)
    BY <2>1 DEF Announce
  <2>2. CASE Withdraw(n)
    BY <2>2 DEF Withdraw
  <2>3. CASE RemoveHandshake(n)
    BY <2>3 DEF RemoveHandshake
  <2>4. CASE Exit(n)
    BY <2>4 DEF Exit, Processes
  <2>5. CASE Crash(n)
    BY <2>5 DEF Crash
  <2> QED BY <1>1, <2>1, <2>2, <2>3, <2>4, <2>5
<1>2. CASE Start
  <2>1. CASE Reset \/ ResetFails
    BY <2>1 DEF Reset, ResetFails, Announced, AfterFailure
  <2>2. CASE Spawn
    BY <2>2 DEF Spawn, Processes, None
  <2>3. CASE SpawnFails
    BY <2>3 DEF SpawnFails, AfterFailure
  <2>4. CASE Poll \/ ReadNothing \/ ReadInvalid
    BY <2>4 DEF Poll, ReadNothing, ReadInvalid
  <2>5. CASE ReadHandshake
    BY <2>5 DEF ReadHandshake
  <2>6. CASE Fail
    BY <2>6 DEF Fail, AfterFailure
  <2> QED BY <1>2, <2>1, <2>2, <2>3, <2>4, <2>5, <2>6 DEF Start
<1>3. CASE HandshakeTimesOut
  BY <1>3 DEF HandshakeTimesOut
<1>4. CASE Interrupt
  BY <1>4 DEF Interrupt, AfterFailure
<1>5. CASE Quit
  <2>1. CASE ReleaseAdopted
    BY <2>1 DEF ReleaseAdopted, AfterQuit
  <2>2. CASE QuitExited \/ SawExit
    BY <2>2 DEF QuitExited, SawExit, AfterQuit
  <2>3. CASE RequestQuit
    BY <2>3 DEF RequestQuit, Running, None, Processes
  <2>4. CASE QuitTimesOut
    BY <2>4 DEF QuitTimesOut, AfterQuit
  <2> QED BY <1>5, <2>1, <2>2, <2>3, <2>4 DEF Quit
<1>6. CASE Restart
  <2>1. CASE Trigger \/ TriggerFails
    <3>1. rpc \in Processes
      BY <2>1 DEF Trigger, TriggerFails
    <3> QED BY <2>1, <3>1 DEF Trigger, TriggerFails
  <2>2. CASE Adopt \/ AdoptFails
    BY <2>2 DEF Adopt, AdoptFails
  <2> QED BY <1>6, <2>1, <2>2 DEF Restart
<1>7. CASE Test
  <2>1. CASE RestartHarness \/ Teardown
    BY <2>1 DEF RestartHarness, Teardown
  <2>2. CASE RestartNvda
    BY <2>2 DEF RestartNvda, Announced
  <2> QED BY <1>7, <2>1, <2>2 DEF Test
<1>8. CASE UNCHANGED vars
  BY <1>8 DEF vars
<1> QED BY <1>1, <1>2, <1>3, <1>4, <1>5, <1>6, <1>7, <1>8 DEF Next, Nvda

LEMMA OwnershipStep == Inv /\ [Next]_vars => OwnershipInv'
<1> SUFFICES ASSUME Inv, [Next]_vars PROVE OwnershipInv'
  OBVIOUS
<1>1. OwnershipInv
  BY DEF Inv
<1>2. CASE UNCHANGED <<pc, ownership>>
  BY <1>1, <1>2 DEF OwnershipInv
<1>3. CASE Start \/ HandshakeTimesOut \/ Interrupt
  BY <1>1, <1>3 DEF OwnershipInv, Start, Reset, Spawn, ResetFails, SpawnFails, Poll,
       ReadNothing, ReadInvalid, ReadHandshake, Fail, HandshakeTimesOut, Interrupt,
       AfterFailure
<1>4. CASE Quit
  BY <1>1, <1>4 DEF OwnershipInv, Quit, ReleaseAdopted, QuitExited, RequestQuit, SawExit,
       QuitTimesOut, AfterQuit
<1>5. CASE Restart \/ Test
  BY <1>1, <1>5 DEF OwnershipInv, Restart, Trigger, TriggerFails, Adopt, AdoptFails, Test,
       RestartHarness, Teardown, RestartNvda
<1>6. CASE Nvda \/ UNCHANGED vars
  BY <1>2, <1>6 DEF Nvda, Announce, Withdraw, RemoveHandshake, Exit, Crash, hostVars, vars
<1> QED BY <1>3, <1>4, <1>5, <1>6 DEF Next

\* A step is a birth, or it moves one or two processes on, or none.
LEMMA BirthStep == Inv /\ [Next]_vars => BirthInv'
<1> SUFFICES ASSUME Inv, [Next]_vars PROVE BirthInv'
  OBVIOUS
<1>t. /\ born \in Int /\ BirthInv /\ spawned \subseteq Processes /\ TypeOK
      /\ status \in [Processes -> Statuses] /\ None <= born
      /\ \A n \in Processes : n \in Int
  BY DEF Inv, TypeOK, None, Processes
<1> USE DEF nvdaVars, hostVars, ghosts
<1>1. ASSUME UNCHANGED born, UNCHANGED spawned,
             \A n \in Processes : \/ status'[n] = status[n]
                                  \/ n <= born /\ status'[n] # "unborn",
             proc' \in {proc, None}, handshake' \in {handshake, file, None},
             file' \in {file, None} \/ (file' \in Processes /\ file' <= born)
      PROVE  BirthInv'
  BY <1>1, <1>t DEF BirthInv
<1>2. ASSUME NEW m \in Processes,
             Announce(m) \/ Withdraw(m) \/ RemoveHandshake(m) \/ Exit(m) \/ Crash(m)
      PROVE  BirthInv'
  <2>0. status[m] # "unborn" /\ m <= born
    <3>1. status[m] # "unborn"
      BY <1>2 DEF Announce, Withdraw, RemoveHandshake, Exit, Crash, Running
    <3> QED BY <1>t, <3>1 DEF BirthInv
  <2>1. CASE Announce(m)
    BY <1>1, <1>t, <2>0, <2>1 DEF Announce
  <2>2. CASE Withdraw(m) \/ Crash(m)
    BY <1>1, <1>t, <2>0, <2>2 DEF Withdraw, Crash
  <2>3. CASE RemoveHandshake(m)
    BY <1>1, <1>t, <2>0, <2>3 DEF RemoveHandshake
  <2>4. CASE Exit(m)
    <3>1. CASE born' = born
      BY <1>1, <1>t, <2>0, <2>4, <3>1 DEF Exit
    <3>2. CASE born' = born + 1
      <4>1. \A n \in Processes : n > born' <=> status'[n] = "unborn"
        BY <1>t, <2>0, <2>4, <3>2 DEF Exit, BirthInv, Processes
      <4>2. UNCHANGED <<spawned, proc, handshake, file>> /\ born' = born + 1
        BY <1>t, <2>4, <3>2 DEF Exit
      <4>3. \A n \in spawned' : n <= born'
        BY <1>t, <4>2 DEF BirthInv, Processes
      <4>4. proc' <= born' /\ handshake' <= born' /\ file' <= born'
        BY <1>t, <3>2, <4>2 DEF BirthInv, TypeOK, None, Processes
      <4> QED BY <4>1, <4>3, <4>4 DEF BirthInv
    <3> QED BY <2>4, <3>1, <3>2 DEF Exit
  <2> QED BY <1>2, <2>1, <2>2, <2>3, <2>4
<1>3. CASE Spawn
  <2>1. \A n \in Processes : n > born' <=> status'[n] = "unborn"
    BY <1>t, <1>3 DEF Spawn, BirthInv, Processes
  <2>2. /\ spawned' = spawned \cup {born + 1} /\ proc' = born + 1
        /\ UNCHANGED <<handshake, file>> /\ born' = born + 1
    BY <1>t, <1>3 DEF Spawn
  <2>3. \A n \in spawned' : n <= born'
    BY <1>t, <2>2 DEF BirthInv
  <2>4. proc' <= born' /\ handshake' <= born' /\ file' <= born'
    BY <1>t, <2>2 DEF BirthInv, TypeOK, None, Processes
  <2> QED BY <2>1, <2>3, <2>4 DEF BirthInv
<1>4. CASE Fail \/ QuitTimesOut \/ Interrupt
  <2>1. \A n \in Processes : \/ status'[n] = status[n]
                             \/ n <= born /\ status'[n] # "unborn"
    BY <1>t, <1>4 DEF Fail, QuitTimesOut, Interrupt, BirthInv
  <2> QED BY <1>1, <1>4, <2>1 DEF Fail, QuitTimesOut, Interrupt
<1>5. CASE ReleaseAdopted
  <2>1. \A n \in Processes : \/ status'[n] = status[n]
                             \/ n <= born /\ status'[n] # "unborn"
    BY <1>t, <1>5 DEF ReleaseAdopted, BirthInv
  <2> QED BY <1>1, <1>5, <2>1 DEF ReleaseAdopted
<1>6. CASE \/ Reset \/ ResetFails \/ SpawnFails \/ Poll \/ ReadNothing
           \/ ReadInvalid \/ ReadHandshake \/ HandshakeTimesOut \/ QuitExited
           \/ RequestQuit \/ SawExit
  BY <1>1, <1>6 DEF Reset, ResetFails, SpawnFails, Poll, ReadNothing, ReadInvalid,
       ReadHandshake, HandshakeTimesOut, QuitExited, RequestQuit, SawExit
<1>7. CASE Restart \/ Test \/ UNCHANGED vars
  BY <1>1, <1>7 DEF Restart, Test, Trigger, TriggerFails, Adopt, AdoptFails,
       RestartHarness, Teardown, RestartNvda, vars
<1> QED BY <1>2, <1>3, <1>4, <1>5, <1>6, <1>7 DEF Next, Nvda, Start, Quit

LEMMA ChildrenStep == Inv /\ [Next]_vars => ChildrenHeldOrDead'
<1> SUFFICES ASSUME Inv, [Next]_vars PROVE ChildrenHeldOrDead'
  OBVIOUS
<1>t. /\ born \in Int /\ BirthInv /\ spawned \subseteq Processes /\ TypeOK
      /\ status \in [Processes -> Statuses] /\ ChildrenHeldOrDead
      /\ \A n \in Processes : n \in Int
  BY DEF Inv, TypeOK, Processes
<1> USE DEF nvdaVars, hostVars, ghosts
\* The handle kept: no child may come back to life.
<1>1. ASSUME UNCHANGED spawned, UNCHANGED proc,
             \A n \in spawned : status[n] = "dead" => status'[n] = "dead"
      PROVE  ChildrenHeldOrDead'
  BY <1>1, <1>t DEF ChildrenHeldOrDead
\* The handle given up: its process is dead.
<1>2. ASSUME UNCHANGED spawned, proc' = None,
             proc \in Processes => status'[proc] = "dead",
             \A n \in spawned : status[n] = "dead" => status'[n] = "dead"
      PROVE  ChildrenHeldOrDead'
  BY <1>2, <1>t DEF ChildrenHeldOrDead
<1>3. ASSUME NEW m \in Processes,
             Announce(m) \/ Withdraw(m) \/ RemoveHandshake(m) \/ Exit(m) \/ Crash(m)
      PROVE  ChildrenHeldOrDead'
  <2>1. CASE Announce(m) \/ Withdraw(m) \/ RemoveHandshake(m) \/ Crash(m)
    BY <1>1, <1>t, <2>1 DEF Announce, Withdraw, RemoveHandshake, Crash
  <2>2. CASE Exit(m)
    <3>1. \A n \in spawned : n # born + 1
      BY <1>t DEF BirthInv
    <3>2. \A n \in spawned : status[n] = "dead" => status'[n] = "dead"
      BY <1>t, <2>2, <3>1 DEF Exit
    <3> QED BY <1>1, <2>2, <3>2 DEF Exit
  <2> QED BY <1>3, <2>1, <2>2
<1>4. CASE Spawn
  <2>1. proc = None /\ \A n \in spawned : status[n] = "dead" /\ n # born + 1
    BY <1>t, <1>4 DEF Spawn, TypeOK, ChildrenHeldOrDead, BirthInv, None, Processes
  <2> QED BY <1>t, <1>4, <2>1 DEF Spawn, ChildrenHeldOrDead
<1>5. CASE Fail \/ QuitTimesOut
  <2>1. proc \in Processes
    BY <1>t, <1>5 DEF Fail, QuitTimesOut, TypeOK
  <2> QED BY <1>2, <1>t, <1>5, <2>1 DEF Fail, QuitTimesOut
<1>6. CASE Interrupt
  <2>1. proc \in Processes
    BY <1>t, <1>6 DEF Interrupt, TypeOK
  <2>2. CASE goal = "provision"
    BY <1>2, <1>t, <1>6, <2>1, <2>2 DEF Interrupt
  <2>3. CASE goal # "provision"
    BY <1>1, <1>6, <2>3 DEF Interrupt
  <2> QED BY <2>2, <2>3
<1>7. CASE ReleaseAdopted
  BY <1>2, <1>t, <1>7 DEF ReleaseAdopted
<1>8. CASE QuitExited \/ SawExit
  <2>1. proc \in Processes => status[proc] = "dead"
    <3>1. CASE SawExit
      BY <3>1 DEF SawExit
    <3>2. CASE QuitExited
      <4>1. proc \in Processes => status[proc] # "unborn"
        BY <1>t DEF BirthInv
      <4> QED BY <1>t, <3>2, <4>1 DEF QuitExited, Running, Statuses
    <3> QED BY <1>8, <3>1, <3>2
  <2> QED BY <1>2, <1>8, <2>1 DEF QuitExited, SawExit
<1>9. CASE \/ Reset \/ ResetFails \/ SpawnFails \/ Poll \/ ReadNothing
           \/ ReadInvalid \/ ReadHandshake \/ HandshakeTimesOut \/ RequestQuit
           \/ Restart \/ Test \/ UNCHANGED vars
  BY <1>1, <1>9 DEF Reset, ResetFails, SpawnFails, Poll, ReadNothing, ReadInvalid,
       ReadHandshake, HandshakeTimesOut, RequestQuit, Restart, Test, Trigger,
       TriggerFails, Adopt, AdoptFails, RestartHarness, Teardown, RestartNvda, vars
<1> QED BY <1>3, <1>4, <1>5, <1>6, <1>7, <1>8, <1>9 DEF Next, Nvda, Start, Quit

LEMMA FileStep == Inv /\ [Next]_vars => FileInv'
<1> SUFFICES ASSUME Inv, [Next]_vars PROVE FileInv'
  OBVIOUS
<1>t. /\ BirthInv /\ FileInv /\ TypeOK /\ status \in [Processes -> Statuses]
      /\ stale \subseteq Processes /\ None \notin Processes /\ born \in Int
      /\ \A n \in Processes : n \in Int
  BY DEF Inv, TypeOK, None, Processes
<1> USE DEF nvdaVars, hostVars, ghosts
<1> DEFINE Past(n) == status[n] \notin {"unborn", "booting"}
           Waits   == pc \in {"spawn", "poll", "read", "fail", "trigger", "adopt"}
<1>1. ASSUME UNCHANGED stale, \A n \in Processes : Past(n) => Past(n)',
             Waits' => (Waits /\ file' = file) \/ file' \notin stale
      PROVE  FileInv'
  BY <1>1, <1>t DEF FileInv, Announced
<1>2. ASSUME stale' = Announced, UNCHANGED status, file' = None
      PROVE  FileInv'
  BY <1>2, <1>t DEF FileInv, Announced
<1>3. ASSUME NEW m \in Processes,
             Announce(m) \/ Withdraw(m) \/ RemoveHandshake(m) \/ Exit(m) \/ Crash(m)
      PROVE  FileInv'
  <2>1. CASE Announce(m)
    <3>1. m \notin stale
      BY <1>t, <2>1 DEF Announce, FileInv, Announced
    <3> QED BY <1>1, <1>t, <2>1, <3>1 DEF Announce
  <2>2. CASE Withdraw(m) \/ Crash(m)
    BY <1>1, <1>t, <2>2 DEF Withdraw, Crash
  <2>3. CASE RemoveHandshake(m)
    BY <1>1, <1>t, <2>3 DEF RemoveHandshake
  <2>4. CASE Exit(m)
    <3>1. born + 1 \in Processes => ~Past(born + 1)
      BY <1>t DEF BirthInv
    <3> QED BY <1>1, <1>t, <2>4, <3>1 DEF Exit
  <2> QED BY <1>3, <2>1, <2>2, <2>3, <2>4
<1>4. CASE Spawn
  <2>1. born + 1 \in Processes => ~Past(born + 1)
    BY <1>t DEF BirthInv
  <2> QED BY <1>1, <1>t, <1>4, <2>1 DEF Spawn
<1>5. CASE Fail \/ QuitTimesOut \/ Interrupt \/ ReleaseAdopted
  <2>1. \A n \in Processes : Past(n) => Past(n)'
    BY <1>t, <1>5 DEF Fail, QuitTimesOut, Interrupt, ReleaseAdopted
  <2>2. UNCHANGED stale /\ pc' \in {"rest", "ended", "reset"}
    BY <1>5 DEF Fail, QuitTimesOut, Interrupt, ReleaseAdopted, AfterFailure, AfterQuit
  <2> QED BY <1>1, <2>1, <2>2
<1>6. CASE Reset \/ RestartNvda
  BY <1>2, <1>6 DEF Reset, RestartNvda
<1>7. CASE \/ ResetFails \/ SpawnFails \/ Poll \/ ReadNothing \/ ReadInvalid
           \/ ReadHandshake \/ HandshakeTimesOut \/ QuitExited \/ RequestQuit
           \/ SawExit \/ Restart
           \/ RestartHarness \/ Teardown \/ UNCHANGED vars
  <2>1. UNCHANGED <<stale, status, file>>
    BY <1>7 DEF ResetFails, SpawnFails, Poll, ReadNothing, ReadInvalid, ReadHandshake,
         HandshakeTimesOut, QuitExited, RequestQuit, SawExit, Restart, Trigger,
         TriggerFails, Adopt, AdoptFails, RestartHarness, Teardown, vars
  <2>2. Waits' => Waits
    BY <1>7 DEF ResetFails, SpawnFails, Poll, ReadNothing, ReadInvalid,
         ReadHandshake, AfterFailure, HandshakeTimesOut, QuitExited, RequestQuit,
         SawExit, Restart, Trigger, TriggerFails, Adopt, AdoptFails, RestartHarness, Teardown, vars, AfterQuit
  <2> QED BY <1>1, <2>1, <2>2
<1> QED BY <1>3, <1>4, <1>5, <1>6, <1>7 DEF Next, Nvda, Start, Quit, Test

LEMMA InvHolds == Spec => []Inv
<1>1. Inv /\ [Next]_vars => Inv'
  BY TypeStep, OwnershipStep, BirthStep, ChildrenStep, FileStep DEF Inv
<1> QED BY InvInit, <1>1, PTL DEF Spec

(* For any number of processes: the types, among them that the host has a  *)
(* child, a handshake and a client wherever its code goes through them.    *)
THEOREM ProcessesAreTyped == Spec => []TypeOK
<1>1. Inv => TypeOK
  BY DEF Inv
<1> QED BY InvHolds, <1>1, PTL

(* For any number of processes: the host loses no child it started         *)
(* (process.py, start, quit, kill and _release_adopted).                   *)
THEOREM ChildrenAlwaysHeldOrDead == Spec => []ChildrenHeldOrDead
<1>1. Inv => ChildrenHeldOrDead
  BY DEF Inv
<1> QED BY InvHolds, <1>1, PTL

(* For any number of processes: no start and no restart accepts the        *)
(* handshake of an NVDA that was there before it.                          *)
THEOREM HandshakeAlwaysFresh == Spec => HandshakeIsFresh
<1>1. Inv /\ [Next]_vars =>
        [handshake' \notin {None, handshake} => handshake' \notin stale]_vars
  <2> SUFFICES ASSUME Inv, [Next]_vars, handshake' \notin {None, handshake}
               PROVE  handshake' \notin stale
    OBVIOUS
  <2>1. ReadHandshake \/ Adopt
    BY DEF Next, Nvda, Start, Quit, Restart, Test, Announce, Withdraw, RemoveHandshake,
       Exit, Crash, Reset, Spawn, ResetFails, SpawnFails, Poll, ReadNothing,
       ReadInvalid, Fail, HandshakeTimesOut, Interrupt, ReleaseAdopted, QuitExited,
       RequestQuit, SawExit, QuitTimesOut, Trigger, TriggerFails, AdoptFails,
       RestartHarness, Teardown,
       RestartNvda, vars, hostVars
  <2>2. handshake' = file /\ pc \in {"read", "adopt"}
    BY <2>1 DEF ReadHandshake, Adopt
  <2> QED BY <2>2 DEF Inv, FileInv
<1> QED BY InvHolds, <1>1, PTL DEF Spec, HandshakeIsFresh

LEMMA OwnStep == Inv /\ OwnInv /\ [Next]_vars => OwnInv'
<1> SUFFICES ASSUME Inv, OwnInv, [Next]_vars PROVE OwnInv'
  OBVIOUS
<1>t. /\ BirthInv /\ OwnInv /\ TypeOK /\ status \in [Processes -> Statuses]
      /\ None \notin Processes /\ ChildrenHeldOrDead
      /\ pc \in {"poll", "read", "fail", "exiting"} => proc # None
      /\ pc \in {"reset", "spawn"} => proc = None
  BY DEF Inv, TypeOK, None, Processes
<1> USE DEF nvdaVars, hostVars, ghosts
<1>r. relaunching' = {} => relaunching = {}
  BY DEF Next, Nvda, Start, Quit, Restart, Test, Announce, Withdraw, RemoveHandshake,
     Exit, Crash, Reset, Spawn, ResetFails, SpawnFails, Poll, ReadNothing,
     ReadInvalid, ReadHandshake, Fail, HandshakeTimesOut, Interrupt, ReleaseAdopted,
     QuitExited, RequestQuit, SawExit,
     QuitTimesOut, Trigger, TriggerFails, Adopt, AdoptFails, RestartHarness, Teardown,
     RestartNvda, vars
\* What appears in the file while no NVDA relaunches itself is the child's.
<1>o. relaunching = {} => \A n \in Running : n = proc
  BY <1>t DEF OwnInv, ChildrenHeldOrDead, Running
<1>1. ASSUME NEW m \in Processes,
             Announce(m) \/ Withdraw(m) \/ RemoveHandshake(m) \/ Exit(m) \/ Crash(m)
      PROVE  OwnInv'
  <2>0. UNCHANGED <<pc, handshake, proc, relaunching, spawned>>
    BY <1>1 DEF Announce, Withdraw, RemoveHandshake, Exit, Crash
  <2>1. relaunching = {} => Running' \subseteq Running
    BY <1>1, <1>t DEF Announce, Withdraw, RemoveHandshake, Exit, Crash, Running
  <2>2. relaunching = {} => file' \in {file, None, proc}
    BY <1>1, <1>o DEF Announce, Withdraw, RemoveHandshake, Exit, Crash, Running
  <2> QED BY <1>t, <2>0, <2>1, <2>2 DEF OwnInv
<1>2. CASE Reset
  BY <1>2, <1>t DEF Reset, OwnInv, Running
<1>3. CASE Spawn
  <2>1. /\ UNCHANGED <<handshake, relaunching, file>> /\ pc = "spawn" /\ pc' = "poll"
        /\ Running' \subseteq Running \cup {born + 1}
        /\ spawned' = spawned \cup {born + 1} /\ proc' = born + 1
    BY <1>3, <1>t DEF Spawn, Running
  <2>2. relaunching = {} => file = None
    BY <1>t, <2>1 DEF OwnInv
  <2> QED BY <1>t, <2>1, <2>2 DEF OwnInv
<1>4. CASE Fail \/ QuitTimesOut
  BY <1>4, <1>t DEF Fail, QuitTimesOut, AfterFailure, AfterQuit, OwnInv, Running
<1>5. CASE Interrupt
  BY <1>5, <1>t DEF Interrupt, AfterFailure, OwnInv, Running
<1>6. CASE ReleaseAdopted
  BY <1>6, <1>t DEF ReleaseAdopted, AfterQuit, OwnInv, Running
<1>7. CASE ResetFails \/ SpawnFails \/ Poll \/ ReadNothing \/ ReadInvalid
           \/ HandshakeTimesOut
  BY <1>7, <1>t DEF ResetFails, SpawnFails, Poll, ReadNothing, ReadInvalid,
     HandshakeTimesOut, AfterFailure, OwnInv, Running
<1>8. CASE ReadHandshake
  BY <1>8, <1>t DEF ReadHandshake, OwnInv, Running
<1>9. CASE QuitExited \/ RequestQuit \/ SawExit
  BY <1>9, <1>t DEF QuitExited, RequestQuit, SawExit, AfterQuit, OwnInv, Running
<1>10. CASE Trigger \/ TriggerFails \/ Adopt \/ AdoptFails
  BY <1>10, <1>t, <1>r DEF Trigger, TriggerFails, Adopt, AdoptFails, OwnInv, Running
<1>11. CASE Test
  BY <1>11, <1>t DEF Test, RestartHarness, Teardown, RestartNvda, OwnInv, Running
<1>12. CASE UNCHANGED vars
  BY <1>12, <1>t DEF vars, OwnInv, Running
<1> QED BY <1>1, <1>2, <1>3, <1>4, <1>5, <1>6, <1>7, <1>8, <1>9, <1>10, <1>11, <1>12
        DEF Next, Nvda, Start, Quit, Restart

(* For any number of processes: while no NVDA relaunches itself, the host  *)
(* only ever has the handshake of the child it holds or, holding none, of  *)
(* one that it started before, though start accepts any handshake.         *)
THEOREM HandshakeAlwaysOwn == Spec => []HandshakeIsOwn
<1>1. OwnInv => HandshakeIsOwn
  BY DEF OwnInv, HandshakeIsOwn
<1>2. Inv /\ OwnInv /\ [Next]_vars => OwnInv'
  BY OwnStep
<1> QED BY InvInit, InvHolds, <1>1, <1>2, PTL DEF Spec
--------------------------------------------------------------------------------
(* TeardownIsComplete does not hold; what does hold at the end of every     *)
(* session is that no child of the host runs, and that nothing runs at all *)
(* unless some NVDA of the session was told to relaunch itself.            *)
OnlyRelaunchedOutlive ==
  pc = "ended" => /\ Running \cap spawned = {}
                  /\ relaunching = {} => Running = {}

\* Every way out of a session lets go of the handle.
EndInv == pc = "ended" => proc = None

LEMMA EndStep == Inv /\ EndInv /\ [Next]_vars => EndInv'
<1> SUFFICES ASSUME Inv, EndInv, [Next]_vars, pc' = "ended" PROVE proc' = None
  BY DEF EndInv
<1>1. CASE pc = "ended"
  <2>1. UNCHANGED proc
    BY <1>1 DEF Next, Nvda, Start, Quit, Restart, Test, Announce, Withdraw, RemoveHandshake,
       Exit, Crash, Reset, Spawn, ResetFails, SpawnFails, Poll, ReadNothing,
       ReadInvalid, ReadHandshake, Fail, HandshakeTimesOut, Interrupt, ReleaseAdopted,
       QuitExited, RequestQuit, SawExit,
       QuitTimesOut, Trigger, TriggerFails, Adopt, AdoptFails, RestartHarness, Teardown,
       RestartNvda, vars, hostVars
  <2> QED BY <1>1, <2>1 DEF EndInv
<1>2. CASE pc # "ended"
  <2>1. ResetFails \/ SpawnFails \/ Fail \/ Interrupt \/ Quit
    BY <1>2 DEF Next, Nvda, Start, Restart, Test, Announce, Withdraw, RemoveHandshake,
       Exit, Crash, Reset, Spawn, Poll, ReadNothing, ReadInvalid, ReadHandshake,
       HandshakeTimesOut, Trigger, TriggerFails, Adopt, AdoptFails, RestartHarness,
       Teardown, RestartNvda, vars, hostVars
  <2>2. CASE ResetFails \/ SpawnFails
    BY <2>2 DEF ResetFails, SpawnFails, Inv, TypeOK
  <2>3. CASE Fail
    BY <2>3 DEF Fail
  <2>4. CASE Interrupt
    BY <2>4 DEF Interrupt, AfterFailure
  <2>5. CASE Quit
    BY <2>5 DEF Quit, ReleaseAdopted, QuitExited, RequestQuit, SawExit, QuitTimesOut
  <2> QED BY <2>1, <2>2, <2>3, <2>4, <2>5
<1> QED BY <1>1, <1>2

(* For any number of processes: only an NVDA that came of a relaunch can   *)
(* outlive the session.                                                    *)
THEOREM SessionsLeaveNoChild == Spec => []OnlyRelaunchedOutlive
<1>1. Inv /\ OwnInv /\ EndInv => OnlyRelaunchedOutlive
  <2> SUFFICES ASSUME Inv, OwnInv, EndInv, pc = "ended"
               PROVE  /\ Running \cap spawned = {}
                      /\ relaunching = {} => Running = {}
    BY DEF OnlyRelaunchedOutlive
  <2>1. ASSUME NEW n \in spawned PROVE n \notin Running
    <3>1. n \in Processes /\ n # proc
      BY DEF Inv, TypeOK, EndInv, None, Processes
    <3> QED BY <3>1 DEF Inv, ChildrenHeldOrDead, Running
  <2> QED BY <2>1 DEF OwnInv
<1>2. Init => EndInv
  BY DEF Init, EndInv
<1> QED BY InvInit, InvHolds, OwnStep, EndStep, <1>1, <1>2, PTL DEF Spec
===============================================================================
