------------------------------- MODULE Refresh -------------------------------
(***************************************************************************)
(* One refresh of the coordinator (_async_update_data): the reading of the *)
(* Sunny Island over its own connection, the retry delay and the repair    *)
(* issues that follow, the optional providers of Home Assistant, and the   *)
(* energy state merged from them.                                          *)
(*                                                                         *)
(* A reading is the set of the sources it was computed from, None if there *)
(* is none: what matters here is where a number comes from and how old it  *)
(* is.  Timestamps count from the battery reading of the refresh.          *)
(***************************************************************************)
EXTENDS Safety, FiniteSets

CONSTANTS
  Setups,      \* option sets of entries: see MCRefresh
  Base, Longest, \* scan interval and MAX_SCAN_INTERVAL_SECONDS
  HistoryDays, \* load_forecast_history_days
  MaxAge,      \* telemetry_max_age
  Skew,        \* max_future_skew_seconds
  CacheTime,   \* ticks the dashboard's forecast is cached for
  MaxLate,     \* bound: ticks the providers of one refresh take
  MaxFailures, \* bound: consecutive failures that are told apart
  LastHour     \* bound: hours that pass

ASSUME RefreshAssumption ==
  /\ Base \in Nat \ {0} /\ Longest \in Nat /\ Base <= Longest
  /\ HistoryDays \in Nat \ {0} /\ MaxAge \in Nat /\ Skew \in Nat
  /\ CacheTime \in Nat \ {0} /\ MaxLate \in Nat /\ MaxFailures \in Nat
  /\ LastHour \in Nat
  /\ \A s \in Setups : "history" \notin s.loadForecast   \* it is no entity

VARIABLES
  setup,     \* the options of the entry
  phase,     \* what the refresh awaits, or "idle"
  open,      \* whether the Modbus connection is open
  failures,  \* _failures of the backoff
  delay,     \* update_interval
  issues,    \* repair issues that are open
  late,      \* ticks since the battery was read
  part,      \* what the providers have said so far
  dashCache, \* _forecast_cache: its age and its value, or None
  history,   \* the history cache: its hour, value and the days behind it
  hour,      \* the local hour
  energy     \* the energy state of the refresh that has just ended, or None

deviceVars == <<open, failures, delay, issues>>
vars == <<setup, phase, deviceVars, late, part, dashCache, history, hour, energy>>

Phases == {"idle", "info", "battery", "dashboard", "grid", "price", "forecast", "inverters"}
NothingYet == [firmware |-> TRUE, power |-> FALSE, dash |-> None, grid |-> None,
               price |-> None, forecast |-> None]
Future == Skew + MaxLate + 1          \* a stamp that no refresh catches up with
Aged == -(MaxAge + 1)                 \* one that no validation accepts
Config == [maxAge |-> MaxAge, maxSkew |-> Skew]

-----------------------------------------------------------------------------
(* The device: connect, identify, read the battery, close.                 *)

PowerOfTwo[n \in Nat] == IF n = 0 THEN 1 ELSE 2 * PowerOfTwo[n - 1]

(* Mutation: the delay doubles without a bound.                            *)
UnboundedDelay(n) == Base * PowerOfTwo[n - 1]

(* Mutation: a delay beyond the longest starts again with the shortest.    *)
WrappedDelay(n) ==
  IF UnboundedDelay(n) > Longest THEN Base ELSE UnboundedDelay(n)

(* record_failure: the delay after the n-th failure in a row.              *)
RetryDelay(n) == Smaller(Base * PowerOfTwo[n - 1], Longest)

(* Every way out of the async with block closes the connection.            *)
ReadingEnds == open' = FALSE

Fails(issue) ==
  /\ phase' = "idle"
  /\ failures' = Smaller(failures + 1, MaxFailures)
  /\ delay' = RetryDelay(failures + 1)
  /\ issues' = issues \cup {issue}
  /\ ReadingEnds
  /\ part' = NothingYet /\ energy' = None
  /\ UNCHANGED <<setup, late, dashCache, history, hour>>

Connect ==
  /\ phase = "idle"
  /\ phase' = "info"
  /\ open' = TRUE
  /\ energy' = None
  /\ UNCHANGED <<setup, failures, delay, issues, late, part, dashCache, history, hour>>

ConnectFails == phase = "idle" /\ Fails("communication_failure")

(* get_device_info: the type decides; a sentinel in one of the firmware    *)
(* registers is covered by the other.                                      *)
Identify(firmware) ==
  /\ phase = "info"
  /\ phase' = "battery"
  /\ part' = [part EXCEPT !.firmware = firmware]
  /\ UNCHANGED <<setup, deviceVars, late, dashCache, history, hour, energy>>

Unsupported == phase = "info" /\ Fails("unsupported_device")

ReadFails == phase \in {"info", "battery"} /\ Fails("communication_failure")

IssuesAfterReading ==
  (issues \ {"communication_failure", "firmware_unavailable"})
     \cup IF part.firmware THEN {} ELSE {"firmware_unavailable"}

(* read_battery_state, and what a successful reading does at once; the     *)
(* power of the battery may be a sentinel.                                 *)
ReadBattery(power) ==
  /\ phase = "battery"
  /\ phase' = "dashboard"
  /\ ReadingEnds
  /\ failures' = 0
  /\ delay' = Base
  /\ issues' = IssuesAfterReading
  /\ late' = 0
  /\ part' = [NothingYet EXCEPT !.power = power]
  /\ UNCHANGED <<setup, dashCache, history, hour, energy>>

-----------------------------------------------------------------------------
(* Home Assistant's entities.  Each one is fresh, stale, beyond even the   *)
(* two hours a forecast may be old, unusable (a fresh state that is not a  *)
(* number with a unit) or absent.                                          *)
Conditions == {"fresh", "stale", "expired", "unusable", "absent"}

(* normalize_power_state: withheld unless fresh and a number.              *)
Power(st, e) == IF e # None /\ st[e] = "fresh" THEN {e} ELSE None

(* communication_state_for_timestamp, of the latest of them.               *)
SomeRecent(st, entities) == \E e \in entities : st[e] \in {"fresh", "unusable"}

(* The latest timestamp of some entities, or now if none of them has one.  *)
LatestOf(st, entities) ==
  IF SomeRecent(st, entities) \/ \A e \in entities : st[e] = "absent" THEN late ELSE Aged

Sum(a, b) == IF None \in {a, b} THEN None ELSE a \cup b
Union(readings) == UNION (readings \ {None})

(* HomeAssistantEntityGridProvider.read_grid_state                         *)
SiteGrid(st) ==
  LET g == setup.grid
      values == {Power(st, e) : e \in g}
      Of(k) == IF k \in g THEN Power(st, k) ELSE None
  IN  [stamp |-> late,
       online |-> values \ {None} # {} \/ SomeRecent(st, g),
       power |-> IF Of("grid") # None THEN Of("grid")
                 ELSE Sum(Of("import"), Of("export")),
       pv |-> Of("pv"), load |-> Of("load")]

(* _read_grid of the dashboard: all of its entities or none.               *)
DashboardGrid(st) ==
  LET g == setup.dashGrid
  IN  IF g = {} THEN None
      ELSE [stamp |-> LatestOf(st, g),
            online |-> SomeRecent(st, g),
            power |-> IF \A e \in g : st[e] = "fresh" THEN g ELSE None,
            pv |-> None, load |-> None]

(* HomeAssistantEntityPriceProvider.read_price_state: a price that is late *)
(* is withheld, and stamped now.                                           *)
Price(source, st) ==
  CASE source = "static" -> [stamp |-> late, online |-> TRUE, value |-> {"static"}]
    [] source = "entity" ->
         [stamp |-> late, online |-> SomeRecent(st, {"price"}), value |-> Power(st, "price")]
    [] OTHER -> None

(* _read_energy: a forecast may be two hours old.                          *)
Remaining(st, e) == IF st[e] \in {"fresh", "stale"} THEN {e} ELSE None

(* _read_energy_total: one value that is missing withholds the sum.        *)
RemainingTotal(st, es) ==
  IF es = {} \/ \E e \in es : Remaining(st, e) = None THEN None ELSE es

-----------------------------------------------------------------------------
(* The providers, one after the other.                                     *)

(* _read_solar_forecast: the entries whose platform answers, added up; the *)
(* stamp is that of the last sample, or now if all of them are past.       *)
SolarForecast(answering, ahead) ==
  IF answering = {} THEN None
  ELSE [stamp |-> IF ahead THEN Future ELSE late, online |-> TRUE,
        pv |-> answering, load |-> None]

ReadDashboard(st, answering, ahead) ==
  LET cached == dashCache # None /\ dashCache.age < CacheTime
      forecast == IF setup.dashForecast = {} THEN None
                  ELSE IF cached THEN dashCache.value ELSE SolarForecast(answering, ahead)
  IN  /\ phase = "dashboard"
      /\ phase' = "grid"
      /\ dashCache' = IF setup.dashForecast = {} \/ cached THEN dashCache
                      ELSE [age |-> 0, value |-> forecast]
      /\ part' = [part EXCEPT !.dash = [grid |-> DashboardGrid(st), forecast |-> forecast,
                                        price |-> Price(setup.dashPrice, st),
                                        inverters |-> setup.dashInverters]]
      /\ UNCHANGED <<setup, deviceVars, late, history, hour, energy>>

(* _read_energy_dashboard: an exception, or no manager, leaves nothing.    *)
NoDashboard ==
  /\ phase = "dashboard"
  /\ phase' = "grid"
  /\ part' = [part EXCEPT !.dash = [grid |-> None, forecast |-> None, price |-> None,
                                    inverters |-> {}]]
  /\ UNCHANGED <<setup, deviceVars, late, dashCache, history, hour, energy>>

ReadGrid(st) ==
  /\ phase = "grid"
  /\ phase' = "price"
  /\ part' = [part EXCEPT !.grid = IF setup.grid # {} THEN SiteGrid(st) ELSE part.dash.grid]
  /\ UNCHANGED <<setup, deviceVars, late, dashCache, history, hour, energy>>

ReadPrice(st) ==
  /\ phase = "price"
  /\ phase' = "forecast"
  /\ part' = [part EXCEPT !.price = IF setup.price # "none" THEN Price(setup.price, st)
                                          ELSE part.dash.price]
  /\ UNCHANGED <<setup, deviceVars, late, dashCache, history, hour, energy>>

ForecastConfigured == setup.pvForecast # {} \/ setup.loadForecast # {} \/ setup.estimate

(* Mutation: the hour of an estimate is not looked at.                     *)
EstimateEver(days) ==
  IF history # None THEN history
  ELSE [hour |-> hour, days |-> days, value |-> IF days = HistoryDays THEN {"history"} ELSE None]

(* _estimate_remaining_load_kwh: asked once per hour; a history that lacks *)
(* a day, or a recorder that fails, leaves nothing for the rest of it.     *)
Estimate(days) ==
  IF history # None /\ history.hour = hour THEN history
  ELSE [hour |-> hour, days |-> days, value |-> IF days = HistoryDays THEN {"history"} ELSE None]

SiteForecast(st, estimate) ==
  LET pv == RemainingTotal(st, setup.pvForecast)
      entity == RemainingTotal(st, setup.loadForecast)
      load == IF entity = None /\ setup.estimate /\ setup.loadForecast = {}
              THEN estimate.value ELSE entity
      entities == setup.pvForecast \cup setup.loadForecast
  IN  [stamp |-> IF load = {"history"} THEN late ELSE LatestOf(st, entities),
       online |-> pv # None \/ load # None \/ SomeRecent(st, entities),
       pv |-> pv, load |-> load]

ReadForecast(st, days) ==
  LET asks == setup.estimate /\ setup.loadForecast = {}
  IN  /\ phase = "forecast"
      /\ phase' = "inverters"
      /\ history' = IF asks THEN Estimate(days) ELSE history
      /\ part' = [part EXCEPT !.forecast =
                    IF ForecastConfigured THEN SiteForecast(st, history')
                    ELSE part.dash.forecast]
      /\ UNCHANGED <<setup, deviceVars, late, dashCache, hour, energy>>

-----------------------------------------------------------------------------
(* HomeAssistantEntityInverterProvider.read_states and the merge.          *)

(* Sources named in the options replace those of the dashboard.            *)
Inverters == IF setup.inverters # {} THEN setup.inverters
             ELSE IF part.dash = None THEN {} ELSE part.dash.inverters

EntitiesOf(i) == {i.generation, i.battery, i.forecast} \ {None}

InverterState(i, st) ==
  LET generation == Power(st, i.generation)
      forecast == IF i.forecast = None THEN None ELSE Remaining(st, i.forecast)
  IN  [stamp |-> LatestOf(st, EntitiesOf(i)),
       online |-> {generation, forecast} # {None} \/ SomeRecent(st, EntitiesOf(i)),
       generation |-> generation, forecast |-> forecast]

Latest(states) == IF \E s \in states : s.stamp # Aged THEN late ELSE Aged

(* _aggregate_inverter_grid                                                *)
InverterGrid(states) ==
  LET pv == {s.generation : s \in states} \ {None}
  IN  IF pv = {} THEN None
      ELSE [stamp |-> Latest(states), online |-> \E s \in states : s.online,
            power |-> None, pv |-> Union(pv), load |-> None]

MergedGrid(grid, inverters) ==
  IF grid = None THEN inverters
  ELSE IF grid.pv # None \/ inverters = None THEN grid
  ELSE [grid EXCEPT !.pv = inverters.pv]

(* _derive_load_power                                                      *)
DerivedLoad(grid) ==
  IF grid = None \/ ~part.power THEN grid
  ELSE IF grid.load # None \/ None \in {grid.power, grid.pv} \/ ~grid.online THEN grid
  ELSE [grid EXCEPT !.load = {"battery"} \cup grid.power \cup grid.pv]

Forecasting(inverters) == {i \in inverters : i.generation # None /\ i.forecast # None}

(* Mutation: what the inverters' forecasts say, be they all there or not.  *)
InverterForecastPartial(st) ==
  LET readings == {InverterState(i, st) : i \in Forecasting(Inverters)}
      known == {s \in readings : s.forecast # None}
  IN  IF known = {} THEN None
      ELSE [stamp |-> Latest(known), online |-> TRUE, load |-> None,
            pv |-> Union({s.forecast : s \in known})]

(* _aggregate_inverter_forecast                                            *)
InverterForecast(st) ==
  LET readings == {InverterState(i, st) : i \in Forecasting(Inverters)}
  IN  IF readings = {} \/ \E s \in readings : ~s.online \/ s.forecast = None THEN None
      ELSE [stamp |-> Latest(readings), online |-> TRUE, load |-> None,
            pv |-> Union({s.forecast : s \in readings})]

(* _merge_forecasts: the first one's stamp and state, gaps filled in.      *)
Merged(site, other) ==
  IF site = None THEN other
  ELSE IF other = None THEN site
  ELSE [site EXCEPT !.pv = IF @ # None THEN @ ELSE other.pv]

ReadInverters(st) ==
  LET states == {InverterState(i, st) : i \in Inverters}
  IN  /\ phase = "inverters"
      /\ phase' = "idle"
      /\ energy' =
           [grid |-> DerivedLoad(MergedGrid(part.grid, InverterGrid(states))),
            price |-> part.price,
            forecast |-> Merged(Merged(part.forecast, part.dash.forecast),
                                InverterForecast(st)),
            hour |-> hour, history |-> history, inverters |-> Inverters, late |-> late]
      /\ part' = NothingYet
      /\ UNCHANGED <<setup, deviceVars, late, dashCache, history, hour>>

-----------------------------------------------------------------------------
(* Time passes between the awaits, and between refreshes.                  *)
Wait ==
  /\ phase \in {"grid", "price", "forecast", "inverters"}
  /\ late < MaxLate
  /\ late' = late + 1
  /\ UNCHANGED <<setup, phase, deviceVars, part, dashCache, history, hour, energy>>

Poll ==
  /\ phase = "idle"
  /\ dashCache # None /\ dashCache.age < CacheTime
  /\ dashCache' = [dashCache EXCEPT !.age = @ + 1]
  /\ UNCHANGED <<setup, phase, deviceVars, late, part, history, hour, energy>>

NextHour ==
  /\ phase = "idle"
  /\ hour < LastHour
  /\ hour' = hour + 1
  /\ UNCHANGED <<setup, phase, deviceVars, late, part, dashCache, history, energy>>

Init ==
  /\ setup \in Setups
  /\ phase = "idle" /\ open = FALSE
  /\ failures = 0 /\ delay = Base /\ issues = {}
  /\ late = 0 /\ part = NothingYet
  /\ dashCache = None /\ history = None /\ hour = 0 /\ energy = None

(* The entities one provider reads, in whatever condition they are.        *)
PriceEntity(source) == IF source = "entity" THEN {"price"} ELSE {}

Entities(p) ==
  CASE p = "dashboard" -> setup.dashGrid \cup PriceEntity(setup.dashPrice)
    [] p = "grid" -> setup.grid
    [] p = "price" -> PriceEntity(setup.price)
    [] p = "forecast" -> setup.pvForecast \cup setup.loadForecast
    [] OTHER -> UNION {EntitiesOf(i) : i \in Inverters}

Answers == [Entities(phase) -> Conditions]

Provide ==
  \/ phase = "dashboard" /\ \E st \in Answers, answering \in SUBSET setup.dashForecast,
                              ahead \in BOOLEAN : ReadDashboard(st, answering, ahead)
  \/ NoDashboard
  \/ phase = "grid" /\ \E st \in Answers : ReadGrid(st)
  \/ phase = "price" /\ \E st \in Answers : ReadPrice(st)
  \/ phase = "forecast" /\ \E st \in Answers, days \in {0, HistoryDays - 1, HistoryDays} :
                              ReadForecast(st, days)
  \/ phase = "inverters" /\ \E st \in Answers : ReadInverters(st)

Device ==
  \/ ConnectFails \/ Unsupported \/ ReadFails
  \/ \E firmware \in BOOLEAN : Identify(firmware)
  \/ \E power \in BOOLEAN : ReadBattery(power)

Next == Connect \/ Device \/ Provide \/ Wait \/ Poll \/ NextHour

Spec == Init /\ [][Next]_vars

-----------------------------------------------------------------------------
Sourced(s) == s # None => s.stamp \in Aged..Future /\ s.online \in BOOLEAN

TypeOK ==
  /\ setup \in Setups
  /\ phase \in Phases
  /\ open \in BOOLEAN
  /\ failures \in 0..MaxFailures
  /\ delay \in Base..Longest
  /\ issues \subseteq {"communication_failure", "unsupported_device", "firmware_unavailable"}
  /\ late \in 0..MaxLate /\ hour \in 0..LastHour
  /\ dashCache # None => dashCache.age \in 0..CacheTime /\ Sourced(dashCache.value)
  /\ history # None => history.hour \in 0..LastHour /\ history.days \in 0..HistoryDays
  /\ energy # None =>
       Sourced(energy.grid) /\ Sourced(energy.price) /\ Sourced(energy.forecast)

(* An outage never shortens the delay until the next attempt, and the      *)
(* first reading that succeeds puts the configured interval back.          *)
OutageBacksOff ==
  [][IF phase = "battery" /\ phase' = "dashboard" THEN delay' = Base
     ELSE delay' >= delay]_vars

(* A load estimated from the history rests on every day that was asked for *)
(* and on the hour it is used in, whatever the cache was filled with.      *)
EstimateComplete ==
  energy # None /\ energy.forecast # None =>
    (energy.forecast.load = {"history"} =>
       energy.history.days = HistoryDays /\ energy.history.hour = energy.hour)

ForecastsOf(inverters) == {i.forecast : i \in Forecasting(inverters)}

(* A sum of separate forecasts is a sum of all of them: site entities and  *)
(* inverters are never mixed or left out, whichever sources are stale.     *)
ForecastComplete ==
  energy # None /\ energy.forecast # None =>
    energy.forecast.pv \in {None, setup.pvForecast, ForecastsOf(energy.inverters)}
                             \cup SUBSET setup.dashForecast

-----------------------------------------------------------------------------
(* A promise of the documentation the code does not keep.                  *)

(* A refresh with a forecast from the dashboard can justify a command.     *)
Usable(source) ==
  source # None => source.online /\ Fresh(source.stamp, 0, Config)

DashboardForecastUsable ==
  energy # None =>
    (~ForecastConfigured /\ energy.late = 0 => Usable(energy.forecast))
=============================================================================
