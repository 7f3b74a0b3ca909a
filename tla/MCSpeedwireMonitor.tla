-------------------------- MODULE MCSpeedwireMonitor --------------------------
(* Three senders: the inverter, a classified reporter and an unknown one.  *)
(* The name of the inverter is no address, and it may be resolved anew.    *)
EXTENDS SpeedwireMonitor

CONSTANTS inverter, reporter, stranger

MCHosts == {inverter, reporter, stranger}
MCReporters == {reporter}
MCMoving == {{inverter}, {stranger}}
=============================================================================
