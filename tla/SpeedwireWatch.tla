----------------------------- MODULE SpeedwireWatch -----------------------------
(***************************************************************************)
(* What the coordinator takes the passive observation for: somebody who    *)
(* listens or does not, who has heard traffic lately or not, who knows of  *)
(* an unclassified sender or not, and whose permission is right whenever   *)
(* it is stated.  SpeedwireMonitor, with its addresses, timeouts and ages, *)
(* implements it, and so does the monitor of ActiveControl.                *)
(***************************************************************************)
CONSTANT Confirmed   \* control ownership is confirmed in the options

VARIABLES
  listening,  \* a socket is open
  heard,      \* "never", "fresh" or "old" traffic
  external,   \* an unclassified sender is known to who listens
  clear       \* the permission, as it was last stated

vars == <<listening, heard, external, clear>>

(* Each statement is made from what is known after the step.               *)
Publish == clear' = (Confirmed /\ listening' /\ heard' = "fresh" /\ ~external')

Init ==
  /\ listening = FALSE
  /\ heard = "never"
  /\ external = FALSE
  /\ clear = FALSE

(* Senders heard before are classified anew.                               *)
Open ==
  /\ ~listening
  /\ listening' = TRUE
  /\ external' \in IF heard = "never" THEN {FALSE} ELSE BOOLEAN
  /\ UNCHANGED heard
  /\ Publish

(* A sender that is no stranger does not make up for one that is.          *)
Hear(stranger) ==
  /\ listening
  /\ heard' = "fresh"
  /\ external' = (external \/ stranger)
  /\ UNCHANGED listening
  /\ Publish

Report ==
  /\ listening
  /\ UNCHANGED <<listening, heard, external>>
  /\ Publish

Fail ==
  /\ listening
  /\ listening' = FALSE
  /\ external' = FALSE
  /\ UNCHANGED heard
  /\ Publish

(* The one step that changes what would be right and states nothing.       *)
Age ==
  /\ heard = "fresh"
  /\ heard' = "old"
  /\ UNCHANGED <<listening, external, clear>>

Next == Open \/ (\E e \in BOOLEAN : Hear(e)) \/ Report \/ Fail \/ Age

Spec == Init /\ [][Next]_vars
=============================================================================
