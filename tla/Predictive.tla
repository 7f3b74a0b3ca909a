----------------------------- MODULE Predictive -----------------------------
(***************************************************************************)
(* The predictive planner (control/predictive.py), as the coordinator      *)
(* calls it.                                                               *)
(*                                                                         *)
(* Energy is counted in hundredths of the usable capacity, so that a state *)
(* of charge is an energy, and power in hundredths of it per hour.         *)
(***************************************************************************)
EXTENDS Safety

(* Inputs the planner does not refuse with a PredictivePlanningError.      *)
ValidInputs(i) ==
  /\ i.hours > 0
  /\ NotFinite \notin {i.soc, i.endSoc, i.reserve, i.remainingPv, i.remainingLoad,
                       i.uncertainty, i.export, i.maxCharge, i.chargeLimit, i.surplus}
  /\ 0 <= i.reserve /\ i.reserve <= i.endSoc /\ i.endSoc <= 100
  /\ i.soc \in 0..100
  /\ i.remainingPv >= 0 /\ i.remainingLoad >= 0
  /\ i.uncertainty >= 0 /\ i.export >= 0 /\ i.maxCharge >= 0
  /\ i.chargeLimit # None => i.chargeLimit >= 0
  /\ i.surplus # None => i.surplus >= 0

RequiredCharge(i) == Larger(i.endSoc - i.soc, 0)
ForecastSurplus(i) == Larger(i.remainingPv - i.remainingLoad - i.uncertainty, 0)
AbsorbableSurplus(i) == ForecastSurplus(i) - Smaller(i.export, ForecastSurplus(i))
Headroom(i) == 100 - i.soc
TargetSoc(i) == Larger(i.reserve, 100 - Smaller(AbsorbableSurplus(i), Headroom(i)))

Limited(power, limit) == IF limit = None THEN power ELSE Smaller(power, limit)

(* The battery is full enough: what the sun will still bring needs room.   *)
Inhibits(i) == AbsorbableSurplus(i) > 0 /\ i.soc >= TargetSoc(i)

SunPower(i) ==
  IF RequiredCharge(i) > 0 /\ i.surplus # None
  THEN Limited(Smaller(i.maxCharge, i.surplus), i.chargeLimit) ELSE 0

DeficitPower(i) ==
  Limited(Smaller(i.maxCharge,
                  (RequiredCharge(i) - AbsorbableSurplus(i)) \div i.hours),
          i.chargeLimit)

(* Only what the forecast will not bring is ever charged from the grid.    *)
GridPower(i) ==
  IF RequiredCharge(i) > AbsorbableSurplus(i) /\ i.gridAllowed
  THEN Larger(0, DeficitPower(i)) ELSE 0

Plan(i) ==
  [power |-> IF Inhibits(i) THEN 0
             ELSE IF SunPower(i) > 0 THEN SunPower(i) ELSE GridPower(i),
   inhibit |-> Inhibits(i),
   targetSoc |-> TargetSoc(i),
   reason |->
     CASE Inhibits(i) -> "preserve_forecast_headroom"
       [] ~Inhibits(i) /\ SunPower(i) > 0 -> "charge_from_pv_surplus"
       [] ~Inhibits(i) /\ SunPower(i) = 0 /\ RequiredCharge(i) <= AbsorbableSurplus(i)
            -> "defer_to_forecast_surplus"
       [] OTHER -> IF i.gridAllowed THEN "charge_to_end_target"
                   ELSE "grid_charging_disabled"]
=============================================================================
