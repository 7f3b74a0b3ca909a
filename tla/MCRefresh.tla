------------------------------ MODULE MCRefresh ------------------------------
(***************************************************************************)
(* Entries that differ in where their telemetry comes from.                *)
(***************************************************************************)
EXTENDS Refresh

CONSTANTS south, west, packA, cloudA, cloudB

Inverter(generation, battery, forecast) ==
  [generation |-> generation, battery |-> battery, forecast |-> forecast]

Bare == [grid |-> {}, price |-> "none", pvForecast |-> {}, loadForecast |-> {},
         estimate |-> FALSE, inverters |-> {}, dashGrid |-> {}, dashPrice |-> "none",
         dashForecast |-> {}, dashInverters |-> {}]

(* A meter with separate counters, a PV entity, and a load from history.   *)
Site == [Bare EXCEPT !.grid = {"import", "export", "pv"}, !.price = "entity",
                     !.pvForecast = {"east", "roof"}, !.estimate = TRUE,
                     !.dashForecast = {cloudA}]

(* Everything from the Energy Dashboard: meters, inverters and a battery.  *)
Dashboard == [Bare EXCEPT !.dashGrid = {"meterA", "meterB"}, !.dashPrice = "static",
                          !.dashForecast = {cloudA, cloudB},
                          !.dashInverters = {Inverter(south, None, None),
                                             Inverter(west, None, None),
                                             Inverter(None, packA, None)}]

(* Inverters of its own with a forecast each, and a forecast of the load.  *)
Roofs == [Bare EXCEPT !.grid = {"load"},
                      !.loadForecast = {"demand"},
                      !.inverters = {Inverter(south, None, "southForecast"),
                                     Inverter(west, None, "westForecast")}]

MCSetups == {Site, Dashboard, Roofs}
=============================================================================
