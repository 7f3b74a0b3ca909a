------------------------------- MODULE Safety -------------------------------
(***************************************************************************)
(* What a rule asks of the telemetry (control/policy.py), and what an      *)
(* intent must satisfy before it may become a command (control/safety.py). *)
(*                                                                         *)
(* An energy state is a record of sources; each source carries its         *)
(* timestamp and whether its provider calls it online.  Readings are       *)
(* integers; None is a missing one, NotFinite an infinity or a NaN.        *)
(* Charging is positive, grid import is positive.                          *)
(***************************************************************************)
EXTENDS Integers

CONSTANTS
  None,       \* a source or a reading that is missing
  NotFinite   \* a number that is not finite

ASSUME SafetyAssumption == None \notin Int /\ NotFinite \notin Int

Larger(a, b) == IF a >= b THEN a ELSE b
Smaller(a, b) == IF a <= b THEN a ELSE b

-----------------------------------------------------------------------------
(* Conditions of a rule: a record of thresholds, None where it has none,   *)
(* and of a window of minutes, or None.                                    *)

(* A condition on a missing reading does not hold.                         *)
Below(threshold, v) == threshold # None => v # None /\ v < threshold
Above(threshold, v) == threshold # None => v # None /\ v > threshold

InTimeWindow(t, w) ==
  IF w.start <= w.end THEN w.start <= t /\ t < w.end
                      ELSE t >= w.start \/ t < w.end

ExpectedSurplus(f) ==
  IF f.pv = None \/ f.load = None THEN None ELSE f.pv - f.load

(* A reading of a source that may be missing as a whole.                   *)
Reading(source, field) == IF source = None THEN None ELSE source[field]

Matches(c, energy, minute) ==
  /\ Below(c.gridBelow, Reading(energy.grid, "power"))
  /\ Above(c.gridAbove, Reading(energy.grid, "power"))
  /\ Below(c.socBelow, energy.battery.soc)
  /\ Above(c.socAbove, energy.battery.soc)
  /\ Below(c.priceBelow, Reading(energy.price, "price"))
  /\ Above(c.priceAbove, Reading(energy.price, "price"))
  /\ Above(c.pvAbove, Reading(energy.forecast, "pvPower"))
  /\ Above(c.surplusAbove, IF energy.forecast = None THEN None
                           ELSE ExpectedSurplus(energy.forecast))
  /\ c.between # None => InTimeWindow(minute, c.between)

-----------------------------------------------------------------------------
(* The safety validation.  cfg is a SafetyConfig, at the time of the call. *)

ValidConfig(cfg) ==
  /\ NotFinite \notin {cfg.maxCharge, cfg.maxDischarge, cfg.minSoc, cfg.maxSoc}
  /\ cfg.maxCharge >= 0 /\ cfg.maxDischarge >= 0
  /\ 0 <= cfg.minSoc /\ cfg.minSoc <= cfg.maxSoc /\ cfg.maxSoc <= 100
  /\ cfg.maxAge >= 0 /\ cfg.maxSkew >= 0
  /\ cfg.states # {}

Fresh(timestamp, at, cfg) ==
  /\ at - timestamp >= -cfg.maxSkew
  /\ at - timestamp <= cfg.maxAge

(* Power the sun leaves after the household, and no more than is exported. *)
AvailablePvSurplus(grid) ==
  IF grid = None THEN None
  ELSE IF NotFinite \in {grid.power, grid.pv, grid.load} \/ None \in {grid.pv, grid.load}
  THEN None
  ELSE LET surplus == Larger(grid.pv - grid.load, 0)
       IN  IF grid.power = None THEN surplus
           ELSE Smaller(surplus, Larger(-grid.power, 0))

OperatingStateAllows(target, battery, cfg) ==
  \/ battery.state \in cfg.states
  \/ target > 0 /\ battery.state = "Warning" /\ battery.event \in cfg.warnings

ChargeAllowed(target, energy, cfg) ==
  LET limit == energy.battery.chargeLimit
      surplus == AvailablePvSurplus(energy.grid)
  IN  /\ energy.battery.soc < cfg.maxSoc
      /\ limit # None => limit # NotFinite /\ limit >= 0 /\ target <= limit
      /\ surplus # None /\ target <= surplus

(* Mutation: discharge is allowed down to the minimum and at it.           *)
DischargeAllowedAtFloor(energy, cfg) == energy.battery.soc >= cfg.minSoc

DischargeAllowed(energy, cfg) ==
  LET floor == energy.battery.socFloor
  IN  /\ floor # None => floor # NotFinite /\ floor \in 0..100
      /\ energy.battery.soc > IF floor = None THEN cfg.minSoc
                              ELSE Larger(cfg.minSoc, floor)

Sources(energy) == {energy.grid, energy.price, energy.forecast} \ {None}

Accepted(target, energy, cfg, at) ==
  LET soc == energy.battery.soc
  IN  /\ ValidConfig(cfg)
      /\ target # NotFinite
      /\ energy.battery.online
      /\ Fresh(energy.timestamp, at, cfg)
      /\ Fresh(energy.battery.timestamp, at, cfg)
      /\ \A s \in Sources(energy) : s.online /\ Fresh(s.timestamp, at, cfg)
      /\ OperatingStateAllows(target, energy.battery, cfg)
      /\ soc # None => soc # NotFinite /\ soc \in 0..100
      /\ -cfg.maxDischarge <= target /\ target <= cfg.maxCharge
      /\ target # 0 => soc # None
      /\ target > 0 => ChargeAllowed(target, energy, cfg)
      /\ target < 0 => DischargeAllowed(energy, cfg)
=============================================================================
