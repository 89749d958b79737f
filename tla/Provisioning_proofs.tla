-------------------------- MODULE Provisioning_proofs ---------------------------
(***************************************************************************)
(* Theorems about Provisioning, checked by TLAPS, for any number of        *)
(* sessions that share the cache, any contents a URL may serve, and any    *)
(* number of runs and of damaged files.                                    *)
(***************************************************************************)
EXTENDS Provisioning, TLAPS

--------------------------------------------------------------------------------
(* Every step is one session's, or damage.                                 *)

\* The steps of a session up to its launcher, but for its end on the way there.
Locate(s) == Exists(s) \/ ReadPin256(s) \/ ReadPin1(s) \/ Compare(s) \/ Unlink(s)
Download(s) == Fetch(s) \/ Write(s) \/ Verify(s) \/ Replace(s) \/ PinSha1(s) \/ PinSha256(s)
Fills(s) == MakeWorkdir(s) \/ CreatePortable(s) \/ NoLauncher(s) \/ ExtractSpy(s)
Works(s) == CommandOver(s) \/ Fills(s) \/ Start(s) \/ SessionEnds(s) \/ Close(s)
            \/ Quit(s) \/ RemoveWorkdir(s)

LEMMA Steps ==
  ASSUME Next
  PROVE  \/ \E s \in Sessions :
              \/ BeginSession(s) \/ BeginFake(s)
              \/ (Locate(s) \/ Download(s) \/ GiveUp(s)) /\ UNCHANGED tail
              \/ Works(s)
         \/ Damage /\ UNCHANGED tail
  BY DEF Next, Ensure, Locate, Download, Fills, Works

--------------------------------------------------------------------------------
Pcs == CachePcs \cup {"idle", "have", "portable", "extract", "start", "up", "close",
                      "quit", "rmtree"}

LEMMA TypeInit == Init => TypeOK
<1> SUFFICES ASSUME Init PROVE TypeOK
  OBVIOUS
<1>1. published \in Contents \cup {"none"}
  <2>1. PICK c \in DOMAIN Published : published \in Published[c]
    BY DEF Init, LauncherInit
  <2>2. Published[c] \subseteq Contents \cup {"none"}
    BY DEF Published
  <2> QED BY <2>1, <2>2
<1>2. pc \in [Sessions -> Pcs]
  BY DEF Init, LauncherInit, Pcs
<1> QED BY <1>1, <1>2, LauncherAssumption
        DEF Init, LauncherInit, TypeOK, Digests, Workdir, Pcs

LEMMA TypeStep == TypeOK /\ [Next]_vars => TypeOK'
<1> SUFFICES ASSUME TypeOK, [Next]_vars PROVE TypeOK'
  OBVIOUS
<1> USE LauncherAssumption DEF TypeOK, Digests, CachePcs, Goto, cache, session, past,
        history, counters, tail
<1>1. ASSUME NEW s \in Sessions, BeginSession(s)
      PROVE  TypeOK'
  BY <1>1 DEF BeginSession, Begin, Workdir
<1>2. ASSUME NEW s \in Sessions, BeginFake(s)
      PROVE  TypeOK'
  BY <1>2 DEF BeginFake, Workdir
<1>3. ASSUME NEW s \in Sessions, Locate(s), UNCHANGED tail
      PROVE  TypeOK'
  <2>1. CASE Exists(s)
    BY <1>3, <2>1 DEF Exists
  <2>2. CASE ReadPin256(s)
    <3>1. unread' \in [Sessions -> BOOLEAN]
      BY <2>2, Zenon DEF ReadPin256, NoteRead, NoNote
    <3> QED BY <1>3, <2>2, <3>1 DEF ReadPin256, NoteRead, NoNote
  <2>3. CASE ReadPin1(s)
    <3>1. unread' \in [Sessions -> BOOLEAN]
      BY <2>3, Zenon DEF ReadPin1, NoteRead, NoNote
    <3> QED BY <1>3, <2>3, <3>1 DEF ReadPin1, NoteRead, NoNote
  <2>4. CASE Compare(s)
    BY <1>3, <2>4 DEF Compare, Completed
  <2>5. CASE Unlink(s)
    BY <1>3, <2>5 DEF Unlink
  <2> QED BY <1>3, <2>1, <2>2, <2>3, <2>4, <2>5 DEF Locate
<1>4. ASSUME NEW s \in Sessions, Download(s), UNCHANGED tail
      PROVE  TypeOK'
  <2>1. CASE Fetch(s)
    BY <1>4, <2>1 DEF Fetch
  <2>2. CASE Write(s)
    BY <1>4, <2>2 DEF Write
  <2>3. CASE Verify(s)
    BY <1>4, <2>3 DEF Verify
  <2>4. CASE Replace(s)
    BY <1>4, <2>4 DEF Replace, Completed
  <2>5. CASE PinSha1(s)
    BY <1>4, <2>5 DEF PinSha1
  <2>6. CASE PinSha256(s)
    BY <1>4, <2>6 DEF PinSha256, Completed
  <2> QED BY <1>4, <2>1, <2>2, <2>3, <2>4, <2>5, <2>6 DEF Download
<1>5. ASSUME NEW s \in Sessions, GiveUp(s), UNCHANGED tail
      PROVE  TypeOK'
  BY <1>5 DEF GiveUp
<1>6. ASSUME NEW s \in Sessions, Works(s)
      PROVE  TypeOK'
  <2> USE DEF Move, Workdir
  <2>1. CASE CommandOver(s) \/ MakeWorkdir(s) \/ NoLauncher(s)
    BY <2>1 DEF CommandOver, MakeWorkdir, NoLauncher
  <2>2. CASE CreatePortable(s)
    BY <2>2 DEF CreatePortable
  <2>3. CASE ExtractSpy(s)
    BY <2>3 DEF ExtractSpy
  <2>4. CASE Start(s) \/ SessionEnds(s) \/ Close(s)
    BY <2>4 DEF Start, SessionEnds, Close
  <2>5. CASE Quit(s)
    BY <2>5 DEF Quit
  <2>6. CASE RemoveWorkdir(s)
    BY <2>6 DEF RemoveWorkdir
  <2> QED BY <1>6, <2>1, <2>2, <2>3, <2>4, <2>5, <2>6 DEF Works, Fills
<1>7. CASE Damage /\ UNCHANGED tail
  <2>1. blind' \in BOOLEAN
    BY <1>7, Zenon DEF Damage
  <2>2. exposed' \in [Sessions -> BOOLEAN] /\ alone' \in [Sessions -> BOOLEAN]
    BY <1>7, Zenon DEF Damage
  <2>3. UNCHANGED <<published, sha1Note, sha256Note, pc, session, served, unread, refused,
                 runs, tail>>
    BY <1>7 DEF Damage
  <2>4. launcher' \in Digests /\ damage' \in Nat /\ intact' \in BOOLEAN
    <3>1. launcher' = "junk" /\ damage' = damage + 1
      BY <1>7 DEF Damage
    <3>2. intact' \in BOOLEAN
      <4> HIDE DEF TypeOK, past, history, counters, tail, session, cache
      <4> QED BY <1>7 DEF Damage
    <3> QED BY <3>1, <3>2
  <2>5. /\ published' \in Contents \cup {"none"}
        /\ sha1Note' \in Contents \cup {"none"} /\ sha256Note' \in Digests
        /\ pc' \in [Sessions -> Pcs]
        /\ note' \in [Sessions -> Digests] /\ payload' \in [Sessions -> Contents \cup {"none"}]
        /\ partial' \in [Sessions -> BOOLEAN]
        /\ unread' \in [Sessions -> BOOLEAN] /\ refused' \in [Sessions -> BOOLEAN]
        /\ served' \subseteq Contents /\ runs' \in Nat /\ keep' \in BOOLEAN
        /\ workdir' \in [Sessions -> Workdir] /\ ran' \in [Sessions -> Digests]
        /\ nvda' \in [Sessions -> {"none", "up", "missed"}]
    BY <2>3, SMT DEF Pcs
  <2> QED BY <2>1, <2>2, <2>4, <2>5, Zenon DEF Pcs
<1>8. CASE UNCHANGED vars
  BY <1>8 DEF vars, launcherVars
<1> QED BY <1>1, <1>2, <1>3, <1>4, <1>5, <1>6, <1>7, <1>8, Steps

(* Every reachable state is typed; in particular a SHA-1 pin is never of a *)
(* file that was damaged.                                                  *)
THEOREM ProvisioningIsTyped == Spec => []TypeOK
  BY TypeInit, TypeStep, PTL DEF Spec
--------------------------------------------------------------------------------
(* What a session runs.                                                    *)

Good(file) == \/ file \in {"none", published}
              \/ published = "none" /\ (file \in served \/ blind)

TrustInv ==
  /\ published = "none" => Good(sha1Note) /\ Good(sha256Note)
  /\ \A s \in Sessions :
       /\ payload[s] \in served \cup {"none"}
       /\ pc[s] \in {"pin256", "pin1"} => published = "none"
       /\ pc[s] = "compare" => Good(note[s])
       /\ pc[s] = "replace" => published \in {"none", payload[s]}
       /\ pc[s] \in {"note1", "note256"} => published = "none" /\ Good(launcher)
       /\ pc[s] \in {"have", "portable"} => Good(launcher) \/ exposed[s]
       /\ Good(ran[s]) \/ exposed[s]

LEMMA TrustInit == Init => TrustInv
  BY DEF Init, LauncherInit, TrustInv, Good

LEMMA TrustStep == TypeOK /\ TrustInv /\ [Next]_vars => TrustInv'
<1> SUFFICES ASSUME TypeOK, TrustInv, [Next]_vars PROVE TrustInv'
  OBVIOUS
<1> USE LauncherAssumption DEF TypeOK, Digests, TrustInv, Good, Goto, cache, session, past,
        history, counters, tail
<1>1. ASSUME NEW s \in Sessions, BeginSession(s)
      PROVE  TrustInv'
  BY <1>1 DEF BeginSession, Begin
<1>2. ASSUME NEW s \in Sessions, BeginFake(s)
      PROVE  TrustInv'
  BY <1>2 DEF BeginFake
<1>3. ASSUME NEW s \in Sessions, Locate(s), UNCHANGED tail
      PROVE  TrustInv'
  <2>1. CASE Exists(s)
    BY <1>3, <2>1 DEF Exists
  <2>2. CASE ReadPin256(s)
    BY <1>3, <2>2 DEF ReadPin256, NoteRead, NoNote
  <2>3. CASE ReadPin1(s)
    BY <1>3, <2>3 DEF ReadPin1, NoteRead, NoNote
  <2>4. CASE Compare(s)
    BY <1>3, <2>4 DEF Compare
  <2>5. CASE Unlink(s)
    BY <1>3, <2>5 DEF Unlink
  <2> QED BY <1>3, <2>1, <2>2, <2>3, <2>4, <2>5 DEF Locate
<1>4. ASSUME NEW s \in Sessions, Download(s), UNCHANGED tail
      PROVE  TrustInv'
  <2>1. CASE Fetch(s)
    BY <1>4, <2>1 DEF Fetch
  <2>2. CASE Write(s)
    BY <1>4, <2>2 DEF Write
  <2>3. CASE Verify(s)
    BY <1>4, <2>3 DEF Verify
  <2>4. CASE Replace(s)
    BY <1>4, <2>4 DEF Replace
  <2>5. CASE PinSha1(s)
    BY <1>4, <2>5 DEF PinSha1
  <2>6. CASE PinSha256(s)
    BY <1>4, <2>6 DEF PinSha256
  <2> QED BY <1>4, <2>1, <2>2, <2>3, <2>4, <2>5, <2>6 DEF Download
<1>5. ASSUME NEW s \in Sessions, GiveUp(s), UNCHANGED tail
      PROVE  TrustInv'
  BY <1>5 DEF GiveUp
<1>6. ASSUME NEW s \in Sessions, Works(s)
      PROVE  TrustInv'
  <2> USE DEF Move
  <2>1. CASE CommandOver(s) \/ MakeWorkdir(s) \/ NoLauncher(s)
    BY <2>1 DEF CommandOver, MakeWorkdir, NoLauncher
  <2>2. CASE CreatePortable(s)
    BY <2>2 DEF CreatePortable
  <2>3. CASE ExtractSpy(s) \/ Start(s) \/ SessionEnds(s)
    BY <2>3 DEF ExtractSpy, Start, SessionEnds
  <2>4. CASE Close(s) \/ Quit(s) \/ RemoveWorkdir(s)
    BY <2>4 DEF Close, Quit, RemoveWorkdir
  <2> QED BY <1>6, <2>1, <2>2, <2>3, <2>4 DEF Works, Fills
<1>7. CASE Damage /\ UNCHANGED tail
  BY <1>7 DEF Damage
<1>8. CASE UNCHANGED vars
  BY <1>8 DEF vars, launcherVars
<1> QED BY <1>1, <1>2, <1>3, <1>4, <1>5, <1>6, <1>7, <1>8, Steps

(* Where a digest is published, no session runs a launcher that has        *)
(* another one; where none is, one that no session downloaded from the URL *)
(* (it is not checked against anything else then).  This whatever the      *)
(* other sessions do and however they end, except in the two windows that  *)
(* exposed and blind name.                                                 *)
THEOREM OnlyTrustedLaunchersRun == Spec => []LauncherIsTrusted
<1>1. TrustInv => LauncherIsTrusted
  BY DEF TrustInv, LauncherIsTrusted, Good
<1> QED BY <1>1, TypeInit, TypeStep, TrustInit, TrustStep, PTL DEF Spec
--------------------------------------------------------------------------------
(* A cache that one session has to itself.                                 *)

\* What the steps after the launcher leave alone.
LEMMA WorksLeavesCache ==
  ASSUME TypeOK, NEW s \in Sessions, Works(s)
  PROVE  /\ UNCHANGED <<published, launcher, sha1Note, sha256Note>>
         /\ UNCHANGED <<note, payload, partial>>
         /\ UNCHANGED <<served, alone, unread, exposed, blind, intact, runs, damage, keep>>
         /\ pc' = [pc EXCEPT ![s] = pc'[s]]
         /\ pc[s] \notin CachePcs \cup {"idle"}
         /\ pc'[s] \notin CachePcs \cup {"have"}
<1> USE DEF TypeOK, Move, Goto, cache, session, past, history, counters, CachePcs
<1>1. CASE CommandOver(s)
  BY <1>1 DEF CommandOver
<1>2. CASE Fills(s)
  BY <1>2 DEF Fills, MakeWorkdir, CreatePortable, NoLauncher, ExtractSpy
<1>3. CASE Start(s) \/ SessionEnds(s) \/ Close(s)
  BY <1>3 DEF Start, SessionEnds, Close
<1>4. CASE Quit(s) \/ RemoveWorkdir(s)
  BY <1>4 DEF Quit, RemoveWorkdir
<1> QED BY <1>1, <1>2, <1>3, <1>4 DEF Works

Complete == /\ launcher # "none"
            /\ IF published # "none" THEN launcher = published
               ELSE \/ sha256Note = launcher
                    \/ sha256Note = "none" /\ sha1Note = launcher

AloneInv ==
  \A s \in Sessions : alone[s] =>
    /\ \A t \in Sessions \ {s} : ~Caching(t)
    /\ pc[s] \in {"pin256", "pin1"} => published = "none"
    /\ pc[s] = "pin1" => sha256Note = "none" \/ unread[s]
    /\ pc[s] = "compare" => note[s] # "none"
    /\ pc[s] = "compare" => IF published # "none" THEN note[s] = published
                            ELSE \/ sha256Note = note[s]
                                 \/ /\ sha1Note = note[s]
                                    /\ sha256Note = "none" \/ unread[s]
    /\ pc[s] = "replace" => payload[s] \in Contents /\ published \in {"none", payload[s]}
    /\ pc[s] = "verify" => payload[s] \in Contents
    /\ pc[s] = "write" => payload[s] \in Contents
    /\ pc[s] \in {"note1", "note256"} => published = "none"
    /\ intact => Complete /\ pc[s] \notin {"unlink1", "unlink256", "fetch", "write",
                                          "verify", "replace", "note1", "note256"}
    /\ intact /\ pc[s] = "unlink" => unread[s]

IntactInv == intact => /\ Complete
                       /\ \A s \in Sessions : Caching(s) => alone[s]

LEMMA AloneInit == Init => AloneInv /\ IntactInv
  BY DEF Init, LauncherInit, AloneInv, IntactInv

LEMMA AloneStep == TypeOK /\ AloneInv /\ IntactInv /\ [Next]_vars => AloneInv' /\ IntactInv'
<1> SUFFICES ASSUME TypeOK, AloneInv, IntactInv, [Next]_vars PROVE AloneInv' /\ IntactInv'
  OBVIOUS
<1> USE LauncherAssumption DEF TypeOK, Digests, AloneInv, IntactInv, Caching, CachePcs,
        Complete, Goto, cache, session, past, history, counters, tail
<1>1. ASSUME NEW s \in Sessions, BeginSession(s)
      PROVE  AloneInv' /\ IntactInv'
  <2> DEFINE quiet == ~\E t \in Sessions : Caching(t)
  <2>1. /\ alone' = [t \in Sessions |-> t = s /\ quiet] /\ intact' = (intact /\ quiet)
        /\ pc[s] = "idle" /\ pc' = [pc EXCEPT ![s] = "exists"]
        /\ UNCHANGED <<published, launcher, sha1Note, sha256Note, payload>>
    BY <1>1, Zenon DEF BeginSession, Begin
  <2>2. \A t \in Sessions : alone'[t] => t = s /\ quiet
    BY <2>1, Zenon
  <2>3. quiet => alone'[s]
    BY <2>1, Zenon
  <2>4. intact' => intact /\ quiet
    BY <2>1, Zenon
  <2> QED BY <2>1, <2>2, <2>3, <2>4
<1>2. ASSUME NEW s \in Sessions, BeginFake(s)
      PROVE  AloneInv' /\ IntactInv'
  BY <1>2 DEF BeginFake
<1>3. ASSUME NEW s \in Sessions, Locate(s), UNCHANGED tail
      PROVE  AloneInv' /\ IntactInv'
  <2>1. CASE Exists(s)
    BY <1>3, <2>1 DEF Exists
  <2>2. CASE ReadPin256(s)
    BY <1>3, <2>2 DEF ReadPin256, NoteRead, NoNote
  <2>3. CASE ReadPin1(s)
    BY <1>3, <2>3 DEF ReadPin1, NoteRead, NoNote
  <2>4. CASE Compare(s)
    <3>1. intact' => intact \/ (alone[s] /\ ~unread[s] /\ pc'[s] = "have")
      BY <2>4, Zenon DEF Compare, Completed
    <3>2. /\ launcher # "none" /\ pc[s] = "compare"
          /\ pc' = [pc EXCEPT ![s] = IF launcher = note[s] THEN "have" ELSE "unlink"]
          /\ note' = [note EXCEPT ![s] = "none"]
          /\ UNCHANGED <<published, launcher, sha1Note, sha256Note, payload, alone, unread>>
      BY <2>4 DEF Compare
    <3>3. alone[s] /\ ~unread[s] /\ launcher = note[s] => Complete
      BY <3>2
    <3>4. intact' => intact \/ (alone[s] /\ ~unread[s] /\ launcher = note[s])
      BY <3>1, <3>2
    <3>5. intact' => Complete'
      BY <3>2, <3>3, <3>4
    <3>6. \A t \in Sessions : Caching(t)' => Caching(t)
      BY <3>2
    <3>7. intact' => \A t \in Sessions : Caching(t)' => alone'[t]
      <4>1. CASE intact
        BY <3>2, <3>6, <4>1
      <4>2. CASE alone[s] /\ ~unread[s] /\ launcher = note[s]
        BY <3>2, <4>2
      <4> QED BY <3>4, <4>1, <4>2
    <3>8. IntactInv'
      BY <3>5, <3>7
    <3>9. intact' /\ alone[s] => pc'[s] = "have" \/ (pc'[s] = "unlink" /\ unread[s])
      <4>1. CASE intact
        BY <3>2, <4>1
      <4>2. CASE launcher = note[s]
        BY <3>2, <4>2
      <4> QED BY <3>4, <4>1, <4>2
    <3>10. ASSUME NEW t \in Sessions, alone'[t], t # s
           PROVE  FALSE
      BY <3>2, <3>10
    <3>11. AloneInv'
      BY <3>2, <3>5, <3>6, <3>9, <3>10
    <3> QED BY <3>8, <3>11
  <2>5. CASE Unlink(s)
    BY <1>3, <2>5 DEF Unlink
  <2> QED BY <1>3, <2>1, <2>2, <2>3, <2>4, <2>5 DEF Locate
<1>4. ASSUME NEW s \in Sessions, Download(s), UNCHANGED tail
      PROVE  AloneInv' /\ IntactInv'
  <2>1. CASE Fetch(s)
    BY <1>4, <2>1 DEF Fetch
  <2>2. CASE Write(s)
    BY <1>4, <2>2 DEF Write
  <2>3. CASE Verify(s)
    BY <1>4, <2>3 DEF Verify
  <2>4. CASE Replace(s)
    BY <1>4, <2>4 DEF Replace, Completed
  <2>5. CASE PinSha1(s)
    BY <1>4, <2>5 DEF PinSha1
  <2>6. CASE PinSha256(s)
    BY <1>4, <2>6 DEF PinSha256, Completed
  <2> QED BY <1>4, <2>1, <2>2, <2>3, <2>4, <2>5, <2>6 DEF Download
<1>5. ASSUME NEW s \in Sessions, GiveUp(s), UNCHANGED tail
      PROVE  AloneInv' /\ IntactInv'
  BY <1>5 DEF GiveUp
<1>6. ASSUME NEW s \in Sessions, Works(s)
      PROVE  AloneInv' /\ IntactInv'
  BY <1>6, WorksLeavesCache
<1>7. CASE Damage /\ UNCHANGED tail
  BY <1>7 DEF Damage
<1>8. CASE UNCHANGED vars
  BY <1>8 DEF vars, launcherVars
<1> QED BY <1>1, <1>2, <1>3, <1>4, <1>5, <1>6, <1>7, <1>8, Steps

(* What a session that was alone with the cache left there, whole and      *)
(* pinned, is used again by the next one that is, and neither discarded    *)
(* nor fetched again, unless that one cannot read a pin.                   *)
THEOREM IntactIsReused == Spec => []CompleteIsReused
<1>1. AloneInv => CompleteIsReused
  BY DEF AloneInv, CompleteIsReused
<1> QED BY <1>1, TypeInit, TypeStep, AloneInit, AloneStep, PTL DEF Spec

(* A session that is alone with the cache leaves a launcher there that a   *)
(* later session will trust, in whatever state it found the directory:     *)
(* after a crash between the file and its pins, or between the pins.  Only *)
(* where it could not read the SHA-256 pin, and the SHA-1 pin was right,   *)
(* may the first still be an old one.                                      *)
THEOREM AloneCompletes == Spec => AloneLeavesItComplete
<1>1. TypeOK /\ AloneInv /\ [Next]_vars =>
        [\A s \in Sessions : pc[s] # "have" /\ pc'[s] = "have" /\ alone[s] =>
           /\ launcher' # "none"
           /\ IF published # "none" THEN launcher' = published
              ELSE \/ sha256Note' = launcher'
                   \/ sha1Note' = launcher' /\ (sha256Note' = "none" \/ unread[s])]_vars
  <2> SUFFICES ASSUME TypeOK, AloneInv, Next, NEW s \in Sessions,
                      pc[s] # "have", pc'[s] = "have", alone[s]
               PROVE  /\ launcher' # "none"
                      /\ IF published # "none" THEN launcher' = published
                         ELSE \/ sha256Note' = launcher'
                              \/ /\ sha1Note' = launcher'
                                 /\ sha256Note' = "none" \/ unread[s]
    OBVIOUS
  <2>1. Compare(s) \/ Replace(s) \/ PinSha256(s)
    <3> USE DEF TypeOK, Goto
    <3>1. ASSUME NEW t \in Sessions, BeginSession(t) \/ BeginFake(t)
          PROVE  FALSE
      BY <3>1 DEF BeginSession, BeginFake, Begin
    <3>2. ASSUME NEW t \in Sessions, Locate(t)
          PROVE  Compare(s)
      BY <3>2 DEF Locate, Exists, ReadPin256, ReadPin1, NoteRead, NoNote,
                    Compare, Unlink
    <3>3. ASSUME NEW t \in Sessions, Download(t)
          PROVE  Replace(s) \/ PinSha256(s)
      BY <3>3 DEF Download, Fetch, Write, Verify, Replace, PinSha1, PinSha256
    <3>4. ASSUME NEW t \in Sessions, GiveUp(t)
          PROVE  FALSE
      BY <3>4 DEF GiveUp
    <3>5. ASSUME NEW t \in Sessions, Works(t)
          PROVE  FALSE
      BY <3>5, WorksLeavesCache
    <3>6. ~Damage
      BY DEF Damage
    <3> QED BY <3>1, <3>2, <3>3, <3>4, <3>5, <3>6, Steps
  <2> QED BY <2>1, LauncherAssumption
          DEF TypeOK, Digests, AloneInv, Goto, cache, Compare, Replace, PinSha256
<1> QED BY <1>1, TypeInit, TypeStep, AloneInit, AloneStep, PTL
        DEF Spec, AloneLeavesItComplete
--------------------------------------------------------------------------------
(* What a session leaves behind.                                           *)

LeftInv ==
  \A s \in Sessions :
    /\ partial[s] => pc[s] \in {"verify", "replace"} \/ (pc[s] = "idle" /\ refused[s])
    /\ nvda[s] = "up" => pc[s] \in {"up", "close", "quit"}
    /\ pc[s] \in CachePcs \cup {"have"} => workdir[s] = "none"
    /\ pc[s] \in {"start", "up", "close", "quit"} => workdir[s] = "spied"
    /\ pc[s] = "idle" => \/ workdir[s] = "none" \/ refused[s]
                         \/ keep /\ workdir[s] = "spied"

LEMMA LeftInit == Init => LeftInv
  BY DEF Init, LauncherInit, LeftInv, CachePcs

LEMMA LeftStep == TypeOK /\ LeftInv /\ [Next]_vars => LeftInv'
<1> SUFFICES ASSUME TypeOK, LeftInv, [Next]_vars PROVE LeftInv'
  OBVIOUS
<1> USE LauncherAssumption DEF TypeOK, LeftInv, CachePcs, Workdir, Goto, cache, session,
        past, history, counters, tail
<1>1. ASSUME NEW s \in Sessions, BeginSession(s)
      PROVE  LeftInv'
  BY <1>1 DEF BeginSession, Begin
<1>2. ASSUME NEW s \in Sessions, BeginFake(s)
      PROVE  LeftInv'
  BY <1>2 DEF BeginFake
<1>3. ASSUME NEW s \in Sessions, Locate(s), UNCHANGED tail
      PROVE  LeftInv'
  <2>1. CASE Exists(s)
    BY <1>3, <2>1 DEF Exists
  <2>2. CASE ReadPin256(s)
    BY <1>3, <2>2 DEF ReadPin256, NoteRead, NoNote
  <2>3. CASE ReadPin1(s)
    BY <1>3, <2>3 DEF ReadPin1, NoteRead, NoNote
  <2>4. CASE Compare(s)
    BY <1>3, <2>4 DEF Compare
  <2>5. CASE Unlink(s)
    BY <1>3, <2>5 DEF Unlink
  <2> QED BY <1>3, <2>1, <2>2, <2>3, <2>4, <2>5 DEF Locate
<1>4. ASSUME NEW s \in Sessions, Download(s), UNCHANGED tail
      PROVE  LeftInv'
  <2>1. CASE Fetch(s)
    BY <1>4, <2>1 DEF Fetch
  <2>2. CASE Write(s)
    BY <1>4, <2>2 DEF Write
  <2>3. CASE Verify(s)
    BY <1>4, <2>3 DEF Verify
  <2>4. CASE Replace(s)
    BY <1>4, <2>4 DEF Replace
  <2>5. CASE PinSha1(s)
    BY <1>4, <2>5 DEF PinSha1
  <2>6. CASE PinSha256(s)
    BY <1>4, <2>6 DEF PinSha256
  <2> QED BY <1>4, <2>1, <2>2, <2>3, <2>4, <2>5, <2>6 DEF Download
<1>5. ASSUME NEW s \in Sessions, GiveUp(s), UNCHANGED tail
      PROVE  LeftInv'
  BY <1>5 DEF GiveUp, Caching
<1>6. ASSUME NEW s \in Sessions, Works(s)
      PROVE  LeftInv'
  <2> USE DEF Move
  <2>1. CASE CommandOver(s) \/ MakeWorkdir(s) \/ NoLauncher(s)
    BY <2>1 DEF CommandOver, MakeWorkdir, NoLauncher
  <2>2. CASE CreatePortable(s)
    BY <2>2 DEF CreatePortable
  <2>3. CASE ExtractSpy(s) \/ Start(s) \/ SessionEnds(s)
    BY <2>3 DEF ExtractSpy, Start, SessionEnds
  <2>4. CASE Close(s) \/ Quit(s) \/ RemoveWorkdir(s)
    BY <2>4 DEF Close, Quit, RemoveWorkdir
  <2> QED BY <1>6, <2>1, <2>2, <2>3, <2>4 DEF Works, Fills
<1>7. CASE Damage /\ UNCHANGED tail
  BY <1>7 DEF Damage
<1>8. CASE UNCHANGED vars
  BY <1>8 DEF vars, launcherVars
<1> QED BY <1>1, <1>2, <1>3, <1>4, <1>5, <1>6, <1>7, <1>8, Steps

(* A session that is over has left no NVDA it did not try to stop, and no  *)
(* part of a download and no work directory but what it was to keep, what  *)
(* the file system did not let it delete, and what it did not live to      *)
(* delete while it was getting its launcher.                               *)
THEOREM SessionsLeaveNothing == Spec => []NothingLeftBehind
<1>1. LeftInv => NothingLeftBehind
  BY DEF LeftInv, NothingLeftBehind
<1> QED BY <1>1, TypeInit, TypeStep, LeftInit, LeftStep, PTL DEF Spec
================================================================================
