---------------------------- MODULE MCClosedLoop ----------------------------
(* Small instances of ClosedLoop.  Powers are in hundredths of the         *)
(* battery's capacity per hour; one tick is the time between two           *)
(* heartbeats the meters may change in.                                    *)
EXTENDS ClosedLoop

Rule(name, p, h, c) == [id |-> name, priority |-> p, hold |-> h, cooldown |-> c]

NoCondition ==
  [gridBelow |-> None, gridAbove |-> None, socBelow |-> None, socAbove |-> None,
   priceBelow |-> None, priceAbove |-> None, pvAbove |-> None,
   surplusAbove |-> None, between |-> None]

(* Charge from a measured export for three ticks, discharge without one.   *)
MCRules == <<Rule("charge", 2, 3, 0), Rule("discharge", 1, 0, 0)>>
MCTargets == <<2, -2>>
MCConditions ==
  <<[NoCondition EXCEPT !.gridBelow = -1],
    [NoCondition EXCEPT !.gridAbove = -1, !.socAbove = 20]>>

MCDefaults ==
  [maxCharge |-> 5, maxDischarge |-> 5, minSoc |-> 10, maxSoc |-> 98,
   maxAge |-> 2, maxSkew |-> 0, states |-> {"Ok"}, warnings |-> {7613}]

(* A dim hour and a bright one, whose surplus is beyond active control.    *)
MCSuns == {[pv |-> 3, load |-> 1], [pv |-> 5, load |-> 1]}

(* The grid, the load, or every entity is late while the others report.    *)
Late(whose) ==
  [entity \in Entities |-> IF entity \in whose THEN "silent" ELSE "reports"]
MCAnswers == {Late({"grid"}), Late({"load"}), Late(Entities)}

(* All entities report, or the one of the grid becomes unavailable.        *)
MCUnavailable == {Late({}), [Late({}) EXCEPT !["grid"] = "unusable"]}

(* A sunny rest of the day: charge to 50, then keep the room.              *)
Sunny ==
  [timestamp |-> 0, online |-> TRUE, pv |-> 60, load |-> 10, pvPower |-> None]

DeadPrice == [timestamp |-> 0, online |-> FALSE, price |-> None]

Battery(soc, floor, power) ==
  [soc |-> soc, floor |-> floor, power |-> power, state |-> "Ok"]

(* A battery at the reserve with and without a price source that is dead,  *)
(* one above it and one at the inverter's own floor without a forecast.    *)
MCReadings ==
  {[battery |-> Battery(30, None, 0), price |-> None, forecast |-> Sunny],
   [battery |-> Battery(30, None, 0), price |-> DeadPrice, forecast |-> Sunny],
   [battery |-> Battery(60, 20, -2), price |-> None, forecast |-> Sunny],
   [battery |-> Battery(60, 60, None), price |-> None, forecast |-> None]}
=============================================================================
