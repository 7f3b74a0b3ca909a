---------------------------- MODULE MCActiveControl ----------------------------
(* Small instances of ActiveControl.  One tick is the shortest time a      *)
(* session can be asked to last; telemetry is fresh for one tick.          *)
EXTENDS ActiveControl, TLC

(* The battery allows either of two targets, or none.                      *)
MCPermitted == {Powers, {}}

Symmetry == Permutations(Sessions)
=============================================================================
