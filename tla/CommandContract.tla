---------------------------- MODULE CommandContract ----------------------------
(***************************************************************************)
(* What a bounded command session promises to the inverter's owner,        *)
(* whatever fails: setpoints reach the inverter only while a session is    *)
(* armed and only within the configured bound, and an armed session is     *)
(* never just forgotten, it passes through recovery first.                 *)
(***************************************************************************)
EXTENDS Integers

CONSTANT MaxPower   \* the largest setpoint, in either direction

VARIABLES
  phase,     \* "idle", "armed" or "recovering"
  setpoint   \* what the inverter was last told

vars == <<phase, setpoint>>

Bounded == -MaxPower..MaxPower

Init ==
  /\ phase = "idle"
  /\ setpoint \in Int

Arm ==
  /\ phase = "idle"
  /\ phase' = "armed"
  /\ UNCHANGED setpoint

(* One more setpoint; it may be the last one.                              *)
Command ==
  /\ phase = "armed"
  /\ setpoint' \in Bounded
  /\ phase' \in {"armed", "recovering"}

(* Recovery, also of a session that was stopped before it was armed.       *)
Recover ==
  /\ phase \in {"idle", "armed"}
  /\ phase' = "recovering"
  /\ UNCHANGED setpoint

Release ==
  /\ phase = "recovering"
  /\ phase' = "idle"
  /\ UNCHANGED setpoint

Next == Arm \/ Command \/ Recover \/ Release

Spec == Init /\ [][Next]_vars
=============================================================================
