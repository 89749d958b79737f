-------------------------------- MODULE Launcher --------------------------------
(***************************************************************************)
(* The cache of NVDA launchers that the sessions of one machine share      *)
(* (resolve.py, download.py).  A launcher is named after its digest, or    *)
(* after channel and version when nvaccess publishes none, so launchers    *)
(* share no file and the sessions of a behaviour all want the same one.    *)
(* Each access to the cache directory is a step of its own.  A digest is   *)
(* modelled by the content it is the digest of.                            *)
(***************************************************************************)
EXTENDS Naturals

CONSTANTS Sessions,         \* runs of pytest or nvda-testkit on this machine
          Contents,         \* what the launcher's URL may serve
          MaxRuns,          \* bound: sessions begun in all
          MaxDamage         \* bound: files of the cache that change by themselves

ASSUME LauncherAssumption ==
  /\ Contents # {} /\ Contents \cap {"none", "junk"} = {}
  /\ MaxRuns \in Nat /\ MaxDamage \in Nat

VARIABLES published,        \* LauncherInfo.sha1, or "none"
          launcher,         \* the cached file: its content, or "none"
          sha1Note,         \* the note beside it: a digest, or "none"
          sha256Note,       \* the other note
          pc,               \* where each session is
          note,             \* the pin it compares with
          payload,          \* what it has downloaded
          partial,          \* it has a .part file
          served,           \* ghost: what was downloaded, by any session
          alone,            \* ghost: nothing else has touched the cache since it began
          unread,           \* ghost: it met a note it could not read, and did not
                            \* go on to discard the launcher and its notes
          refused,          \* ghost: it could not delete all it should have: the file
                            \* system refused, or it was dead
          exposed,          \* ghost: the cached file changed after it was found good
          blind,            \* ghost: the cached file changed before it was pinned
          intact,           \* ghost: what a session completed has been left alone
          runs, damage      \* ghosts: the bounds' counters

cache == <<launcher, sha1Note, sha256Note>>
session == <<note, payload, partial>>
past == <<served, alone, unread, refused, exposed, blind>>
history == <<past, intact>>
counters == <<runs, damage>>
launcherVars == <<published, cache, pc, session, history, counters>>

Digests == Contents \cup {"none", "junk"}

\* resolve_launcher: the update check publishes a digest, if it knows one, with
\* the launcher of a released channel; a snapshot and a pinned version have none.
Published == [c \in {"stable", "beta", "alpha", "pinned"} |->
                IF c \in {"stable", "beta"} THEN Contents \cup {"none"} ELSE {"none"}]

LauncherInit ==
  /\ \E c \in DOMAIN Published : published \in Published[c]
  /\ launcher = "none" /\ sha1Note = "none" /\ sha256Note = "none"
  /\ pc = [s \in Sessions |-> "idle"]
  /\ note = [s \in Sessions |-> "none"]
  /\ payload = [s \in Sessions |-> "none"]
  /\ partial = [s \in Sessions |-> FALSE]
  /\ served = {} /\ blind = FALSE /\ intact = FALSE
  /\ alone = [s \in Sessions |-> FALSE]
  /\ unread = [s \in Sessions |-> FALSE] /\ refused = [s \in Sessions |-> FALSE]
  /\ exposed = [s \in Sessions |-> FALSE]
  /\ runs = 0 /\ damage = 0
--------------------------------------------------------------------------------
Goto(s, here, there) == /\ pc[s] = here
                        /\ pc' = [pc EXCEPT ![s] = there]

\* Inside ensure_launcher.
CachePcs == {"exists", "pin256", "pin1", "compare", "unlink", "unlink1", "unlink256",
             "fetch", "write", "verify", "replace", "note1", "note256"}

Caching(s) == pc[s] \in CachePcs

\* resolve_launcher has found out which launcher the session wants.
Begin(s) ==
  /\ runs < MaxRuns /\ runs' = runs + 1
  /\ Goto(s, "idle", "exists")
  /\ LET quiet == ~\E t \in Sessions : Caching(t)
     IN  /\ alone' = [t \in Sessions |-> t = s /\ quiet]
         /\ intact' = (intact /\ quiet)
  /\ exposed' = [exposed EXCEPT ![s] = FALSE]
  /\ unread' = [unread EXCEPT ![s] = FALSE]
  /\ refused' = [refused EXCEPT ![s] = FALSE]
  /\ partial' = [partial EXCEPT ![s] = FALSE]
  /\ UNCHANGED <<published, cache, note, payload, served, blind, damage>>

\* A session that has the cache to itself, and can read it, leaves it complete.
Completed(s) == intact' = (intact \/ (alone[s] /\ ~unread[s] /\ pc'[s] = "have"))

\* A published digest that is not consulted.
ExistsByPins(s) ==
  /\ Goto(s, "exists", IF launcher = "none" THEN "fetch" ELSE "pin256")
  /\ UNCHANGED <<published, cache, session, history, counters>>

\* ensure_launcher asks whether it has the launcher.
Exists(s) ==
  /\ Goto(s, "exists", CASE launcher = "none" -> "fetch"
                         [] published # "none" -> "compare"
                         [] OTHER -> "pin256")
  /\ note' = [note EXCEPT ![s] = published]
  /\ UNCHANGED <<published, cache, payload, partial, history, counters>>

\* _read_note: there is no such note, it is empty, or it cannot be read or decoded.
NoNote(s, pin) == /\ unread' = [unread EXCEPT ![s] = @ \/ pin # "none"]
                  /\ UNCHANGED note

NoteRead(s, pin) == /\ pin # "none"
                    /\ note' = [note EXCEPT ![s] = pin]
                    /\ UNCHANGED unread

\* _cached_is_trusted without a published digest: the SHA-256 pin counts, the
\* SHA-1 pin only if there is no other.
ReadPin256(s) ==
  /\ \/ Goto(s, "pin256", "compare") /\ NoteRead(s, sha256Note)
     \/ Goto(s, "pin256", "pin1") /\ NoNote(s, sha256Note)
  /\ UNCHANGED <<published, cache, payload, partial, served, alone, refused, exposed, blind,
                 intact, counters>>

ReadPin1(s) ==
  /\ \/ Goto(s, "pin1", "compare") /\ NoteRead(s, sha1Note)
     \/ Goto(s, "pin1", "unlink") /\ NoNote(s, sha1Note)
  /\ UNCHANGED <<published, cache, payload, partial, served, alone, refused, exposed, blind,
                 intact, counters>>

\* A cached file that needs no check.
Unchecked(s) ==
  /\ launcher # "none"
  /\ Goto(s, "compare", "have")
  /\ note' = [note EXCEPT ![s] = "none"]
  /\ Completed(s)
  /\ UNCHANGED <<published, cache, payload, partial, past, counters>>

\* The cached file has the digest asked for, or is to go.
Compare(s) ==
  /\ launcher # "none"
  /\ Goto(s, "compare", IF launcher = note[s] THEN "have" ELSE "unlink")
  /\ note' = [note EXCEPT ![s] = "none"]
  /\ Completed(s)
  /\ UNCHANGED <<published, cache, payload, partial, past, counters>>

\* _discard: the file and its pins, one after the other.
Unlink(s) ==
  /\ \/ /\ Goto(s, "unlink", "unlink1")
        /\ launcher' = "none" /\ UNCHANGED <<sha1Note, sha256Note>>
     \/ /\ Goto(s, "unlink1", "unlink256")
        /\ sha1Note' = "none" /\ UNCHANGED <<launcher, sha256Note>>
     \/ /\ Goto(s, "unlink256", "fetch")
        /\ sha256Note' = "none" /\ UNCHANGED <<launcher, sha1Note>>
  /\ intact' = FALSE
  /\ unread' = [unread EXCEPT ![s] = FALSE]
  /\ UNCHANGED <<published, session, served, alone, refused, exposed, blind, counters>>

\* fetch_url
Fetch(s) ==
  /\ Goto(s, "fetch", "write")
  /\ \E c \in Contents : /\ payload' = [payload EXCEPT ![s] = c]
                         /\ served' = served \cup {c}
  /\ UNCHANGED <<published, cache, note, partial, alone, unread, refused, exposed, blind,
                 intact, counters>>

\* The .part file is made and filled.
Write(s) ==
  /\ Goto(s, "write", "verify")
  /\ partial' = [partial EXCEPT ![s] = TRUE]
  /\ UNCHANGED <<published, cache, note, payload, history, counters>>

\* A download that is not looked at.
Unverified(s) ==
  /\ Goto(s, "verify", "replace")
  /\ UNCHANGED <<published, cache, session, history, counters>>

\* A download without the published digest is not let into the cache.
Verify(s) ==
  /\ published \in {"none", payload[s]}
  /\ Goto(s, "verify", "replace")
  /\ UNCHANGED <<published, cache, session, history, counters>>

\* os.replace
Replace(s) ==
  /\ Goto(s, "replace", IF published = "none" THEN "note1" ELSE "have")
  /\ launcher' = payload[s]
  /\ partial' = [partial EXCEPT ![s] = FALSE]
  /\ payload' = [payload EXCEPT ![s] = IF published = "none" THEN @ ELSE "none"]
  /\ Completed(s)
  /\ UNCHANGED <<published, sha1Note, sha256Note, note, past, counters>>

\* A SHA-1 pin of what is in the cache by then.
PinSha1Late(s) ==
  /\ Goto(s, "note1", "note256")
  /\ sha1Note' = launcher
  /\ payload' = [payload EXCEPT ![s] = "none"]
  /\ UNCHANGED <<published, launcher, sha256Note, note, partial, history, counters>>

\* The SHA-1 pin is of what was downloaded.
PinSha1(s) ==
  /\ Goto(s, "note1", "note256")
  /\ sha1Note' = payload[s]
  /\ payload' = [payload EXCEPT ![s] = "none"]
  /\ UNCHANGED <<published, launcher, sha256Note, note, partial, history, counters>>

\* The SHA-256 pin is of what is in the cache by then.
PinSha256(s) ==
  /\ launcher # "none"
  /\ Goto(s, "note256", "have")
  /\ sha256Note' = launcher
  /\ Completed(s)
  /\ UNCHANGED <<published, launcher, sha1Note, session, past, counters>>

\* ensure_launcher raises (the network, the file system, a file that another
\* session took away, the wrong digest), or the session dies.  Its .part file stays
\* if the file system does not let it go, and a note it was writing may be empty.
GiveUp(s) ==
  /\ Caching(s)
  /\ pc' = [pc EXCEPT ![s] = "idle"]
  /\ note' = [note EXCEPT ![s] = "none"]
  /\ payload' = [payload EXCEPT ![s] = "none"]
  /\ \E left \in IF pc[s] \in {"write", "verify", "replace"} THEN BOOLEAN ELSE {FALSE} :
       /\ partial' = [partial EXCEPT ![s] = left]
       /\ refused' = [refused EXCEPT ![s] = left]
  /\ sha1Note' \in {sha1Note} \cup (IF pc[s] = "note1" THEN {"none"} ELSE {})
  /\ sha256Note' \in {sha256Note} \cup (IF pc[s] = "note256" THEN {"none"} ELSE {})
  /\ UNCHANGED <<published, launcher, served, alone, unread, exposed, blind, intact, counters>>

\* The cached file changes: a bad sector, a cleaner, a restored backup.
Damage ==
  /\ damage < MaxDamage /\ damage' = damage + 1
  /\ launcher # "none" /\ launcher' = "junk"
  /\ alone' = [s \in Sessions |-> FALSE]
  /\ exposed' = [s \in Sessions |-> exposed[s] \/ pc[s] \in {"have", "portable"}]
  /\ blind' = (blind \/ \E s \in Sessions : pc[s] \in {"note1", "note256"})
  /\ intact' = FALSE
  /\ UNCHANGED <<published, sha1Note, sha256Note, pc, session, served, unread, refused, runs>>

Ensure(s) == Exists(s) \/ ReadPin256(s) \/ ReadPin1(s) \/ Compare(s)
             \/ Unlink(s) \/ Fetch(s) \/ Write(s) \/ Verify(s) \/ Replace(s)
             \/ PinSha1(s) \/ PinSha256(s) \/ GiveUp(s)
================================================================================
