------------------------------ MODULE AddonStore ------------------------------
(***************************************************************************)
(* NVDA's store of add-ons as the spy's addons_api.py sees and changes it. *)
(* NVDA installs and removes in two phases: a call leaves a mark, and the  *)
(* next start of NVDA acts on it.  Of each add-on the store may hold the   *)
(* copy NVDA started with (now) and one waiting for the next start (next). *)
(***************************************************************************)

AddonState == {"NOT_INSTALLED", "PENDING_INSTALL", "ENABLED", "DISABLED",
               "PENDING_REMOVE"}

\* What NVDA keeps of one add-on: a copy is absent, in use, off, or leaving.
Entry == [now : {"none", "on", "off", "leaving"}, next : {"none", "on", "leaving"}]

Absent == [now |-> "none", next |-> "none"]
Running == [now |-> "on", next |-> "none"]

\* _state: the first copy NVDA lists, _state_of, or NOT_INSTALLED.
StateOf(e) ==
  CASE e.now = "leaving" \/ (e.now = "none" /\ e.next = "leaving") -> "PENDING_REMOVE"
    [] e.now = "none" /\ e.next = "on" -> "PENDING_INSTALL"
    [] e.now = "off" -> "DISABLED"
    [] e.now = "on" -> "ENABLED"
    [] OTHER -> "NOT_INSTALLED"

\* installAddonBundle: unpacked, and waiting for the next start.
Unpack(e) == [e EXCEPT !.next = "on"]

\* requestRemove, of the copy _find returns.
RequestRemove(e) == IF e.now # "none" THEN [e EXCEPT !.now = "leaving"]
                                      ELSE [e EXCEPT !.next = "leaving"]

\* What the next start of NVDA makes of an entry; it may refuse to enable a
\* new copy.
Completed(e) ==
  IF e.next = "on"
  THEN {[now |-> n, next |-> "none"] : n \in {"on", "off"}}
  ELSE {[now |-> IF e.now = "leaving" THEN "none" ELSE e.now, next |-> "none"]}
================================================================================
