---------------------------- MODULE RefreshProofs ----------------------------
(***************************************************************************)
(* What a refresh puts together is complete, for every set of options and  *)
(* whichever entities are stale, unusable or absent: sums have all of      *)
(* their parts, an estimate all of its days.                               *)
(***************************************************************************)
EXTENDS Refresh, WellFoundedInduction, TLAPS

(* A mark of absence is no set of one source.                              *)
NoneApart == \A source : {source} # None

Providing == {"grid", "price", "forecast", "inverters"}

GridFields == {"stamp", "online", "power", "pv", "load"}
ForecastFields == {"stamp", "online", "pv", "load"}

(* A grid state, of entities or of the dashboard.                          *)
GridSound(g) == g # None => DOMAIN g = GridFields

(* A forecast of the dashboard, whatever answered.                         *)
SolarSound(f) ==
  f # None => /\ DOMAIN f = ForecastFields /\ f.load = None
              /\ f.pv \in SUBSET setup.dashForecast

(* A forecast of the site's own entities, or else the dashboard's.         *)
SiteSound(f) ==
  f # None =>
    /\ DOMAIN f = ForecastFields
    /\ f.pv \in {None, setup.pvForecast} \cup SUBSET setup.dashForecast
    /\ f.load = {"history"} => history.days = HistoryDays /\ history.hour = hour

PartInv ==
  /\ DOMAIN part = DOMAIN NothingYet
  /\ phase \in Providing => GridSound(part.dash.grid) /\ SolarSound(part.dash.forecast)
  /\ phase \in Providing \ {"grid"} => GridSound(part.grid)
  /\ phase = "inverters" => SiteSound(part.forecast)

CacheInv ==
  /\ dashCache # None => DOMAIN dashCache = {"age", "value"} /\ SolarSound(dashCache.value)
  /\ history # None => (history.value = {"history"} => history.days = HistoryDays)

IInv ==
  /\ setup \in Setups /\ phase \in Phases
  /\ PartInv /\ CacheInv
  /\ EstimateComplete /\ ForecastComplete

-----------------------------------------------------------------------------
(* Time passes, an attempt fails: what was put together stays or goes.     *)
LEMMA NothingSound ==
  ASSUME IInv, setup' = setup, part' = NothingYet, phase' \notin Providing,
         UNCHANGED <<dashCache, history>>
  PROVE  PartInv' /\ CacheInv'
BY DEF IInv, PartInv, CacheInv, SolarSound, Providing

LEMMA FailsHolds ==
  ASSUME IInv, NEW issue, Fails(issue)
  PROVE  IInv'
<1>1. /\ setup' = setup /\ part' = NothingYet /\ phase' = "idle" /\ energy' = None
      /\ UNCHANGED <<dashCache, history>>
  BY DEF Fails
<1>2. PartInv' /\ CacheInv'
  BY <1>1, NothingSound DEF Providing
<1> QED BY <1>1, <1>2 DEF IInv, Phases, EstimateComplete, ForecastComplete

(* Steps that prepare a result, and leave the one before it alone.         *)
LEMMA Kept ==
  ASSUME IInv, UNCHANGED <<setup, energy>>
  PROVE  EstimateComplete' /\ ForecastComplete'
BY DEF IInv, EstimateComplete, ForecastComplete

LEMMA DeviceHolds ==
  ASSUME IInv, Connect \/ Device
  PROVE  IInv'
<1>1. CASE Connect
  <2>1. phase = "idle" /\ phase' = "info" /\ energy' = None
        /\ UNCHANGED <<setup, part, dashCache, history>>
    BY <1>1 DEF Connect
  <2> QED BY <2>1 DEF IInv, PartInv, CacheInv, SolarSound, Providing, Phases,
             EstimateComplete, ForecastComplete
<1>2. ASSUME NEW issue, Fails(issue) PROVE IInv'
  BY <1>2, FailsHolds
<1>3. ASSUME NEW firmware \in BOOLEAN, Identify(firmware) PROVE IInv'
  <2>1. /\ phase' = "battery" /\ part' = [part EXCEPT !.firmware = firmware]
        /\ UNCHANGED <<setup, dashCache, history, energy>>
    BY <1>3 DEF Identify
  <2>2. PartInv' /\ CacheInv'
    BY <2>1 DEF IInv, PartInv, CacheInv, SolarSound, Providing
  <2> QED BY <2>1, <2>2, Kept DEF IInv, Phases
<1>4. ASSUME NEW power \in BOOLEAN, ReadBattery(power) PROVE IInv'
  <2>1. /\ phase' = "dashboard" /\ part' = [NothingYet EXCEPT !.power = power]
        /\ UNCHANGED <<setup, dashCache, history, energy>>
    BY <1>4 DEF ReadBattery
  <2>2. DOMAIN part' = DOMAIN NothingYet
    BY <2>1 DEF NothingYet
  <2>3. PartInv' /\ CacheInv'
    BY <2>1, <2>2 DEF IInv, PartInv, CacheInv, SolarSound, Providing
  <2> QED BY <2>1, <2>3, Kept DEF IInv, Phases
<1> QED BY <1>1, <1>2, <1>3, <1>4 DEF Device, ConnectFails, Unsupported, ReadFails

-----------------------------------------------------------------------------
(* The providers.                                                          *)
LEMMA DashboardHolds ==
  ASSUME IInv, NEW st, NEW answering \in SUBSET setup.dashForecast, NEW ahead \in BOOLEAN,
         ReadDashboard(st, answering, ahead)
  PROVE  IInv'
<1> DEFINE cached == dashCache # None /\ dashCache.age < CacheTime
           forecast == IF setup.dashForecast = {} THEN None
                       ELSE IF cached THEN dashCache.value ELSE SolarForecast(answering, ahead)
           dash == [grid |-> DashboardGrid(st), forecast |-> forecast,
                    price |-> Price(setup.dashPrice, st), inverters |-> setup.dashInverters]
<1>1. /\ phase' = "grid" /\ part' = [part EXCEPT !.dash = dash]
      /\ dashCache' = IF setup.dashForecast = {} \/ cached THEN dashCache
                      ELSE [age |-> 0, value |-> forecast]
      /\ UNCHANGED <<setup, history, energy>>
  BY DEF ReadDashboard
<1>2. SolarSound(SolarForecast(answering, ahead))
  BY DEF SolarForecast, SolarSound, ForecastFields
<1>3. SolarSound(forecast)
  BY <1>2 DEF IInv, CacheInv, SolarSound
<1>4. GridSound(DashboardGrid(st))
  BY DEF DashboardGrid, GridSound, GridFields
<1>5. part'.dash = dash /\ DOMAIN part' = DOMAIN NothingYet
  BY <1>1 DEF IInv, PartInv, NothingYet
<1>6. dash.grid = DashboardGrid(st) /\ dash.forecast = forecast
  OBVIOUS
<1> HIDE DEF forecast, dash
<1>7. PartInv'
  BY <1>1, <1>3, <1>4, <1>5, <1>6 DEF PartInv, GridSound, SolarSound, Providing
<1>8. CacheInv'
  <2>1. CASE dashCache' = dashCache
    BY <1>1, <2>1 DEF IInv, CacheInv, SolarSound
  <2>2. CASE dashCache' = [age |-> 0, value |-> forecast]
    BY <1>1, <1>3, <2>2 DEF IInv, CacheInv, SolarSound
  <2> QED BY <1>1, <2>1, <2>2
<1> QED BY <1>1, <1>7, <1>8, Kept DEF IInv, Phases

LEMMA NoDashboardHolds ==
  ASSUME IInv, NoDashboard
  PROVE  IInv'
<1> DEFINE dash == [grid |-> None, forecast |-> None, price |-> None, inverters |-> {}]
<1>1. /\ phase' = "grid" /\ part' = [part EXCEPT !.dash = dash]
      /\ UNCHANGED <<setup, dashCache, history, energy>>
  BY DEF NoDashboard
<1>2. part'.dash = dash /\ DOMAIN part' = DOMAIN NothingYet
  BY <1>1 DEF IInv, PartInv, NothingYet
<1>3. dash.grid = None /\ dash.forecast = None
  OBVIOUS
<1> HIDE DEF dash
<1>4. PartInv' /\ CacheInv'
  BY <1>1, <1>2, <1>3 DEF IInv, PartInv, CacheInv, GridSound, SolarSound, Providing
<1> QED BY <1>1, <1>4, Kept DEF IInv, Phases

LEMMA GridHolds ==
  ASSUME IInv, phase = "grid", NEW st, ReadGrid(st)
  PROVE  IInv'
<1> DEFINE grid == IF setup.grid # {} THEN SiteGrid(st) ELSE part.dash.grid
<1>1. /\ phase' = "price" /\ part' = [part EXCEPT !.grid = grid]
      /\ UNCHANGED <<setup, dashCache, history, energy>>
  BY DEF ReadGrid
<1>2. GridSound(SiteGrid(st))
  BY DEF SiteGrid, GridSound, GridFields
<1>3. GridSound(grid)
  BY <1>2 DEF IInv, PartInv, Providing
<1>4. part'.grid = grid /\ part'.dash = part.dash /\ DOMAIN part' = DOMAIN NothingYet
  BY <1>1 DEF IInv, PartInv, NothingYet
<1> HIDE DEF grid
<1>5. PartInv' /\ CacheInv'
  BY <1>1, <1>3, <1>4 DEF IInv, PartInv, CacheInv, GridSound, SolarSound, Providing
<1> QED BY <1>1, <1>5, Kept DEF IInv, Phases

LEMMA PriceHolds ==
  ASSUME IInv, phase = "price", NEW st, ReadPrice(st)
  PROVE  IInv'
<1> DEFINE price == IF setup.price # "none" THEN Price(setup.price, st) ELSE part.dash.price
<1>1. /\ phase' = "forecast" /\ part' = [part EXCEPT !.price = price]
      /\ UNCHANGED <<setup, dashCache, history, energy>>
  BY DEF ReadPrice
<1> HIDE DEF price
<1>2. part'.grid = part.grid /\ part'.dash = part.dash /\ DOMAIN part' = DOMAIN NothingYet
  BY <1>1 DEF IInv, PartInv, NothingYet
<1>3. PartInv' /\ CacheInv'
  BY <1>1, <1>2 DEF IInv, PartInv, CacheInv, GridSound, SolarSound, Providing
<1> QED BY <1>1, <1>3, Kept DEF IInv, Phases

(* An estimate that has a value has its days, and is of this hour.         *)
LEMMA EstimateSound ==
  ASSUME NoneApart, CacheInv, NEW days
  PROVE  Estimate(days).value = {"history"} =>
           Estimate(days).days = HistoryDays /\ Estimate(days).hour = hour
<1>1. CASE history # None /\ history.hour = hour
  BY <1>1 DEF Estimate, CacheInv
<1>2. CASE ~(history # None /\ history.hour = hour)
  BY <1>2 DEF Estimate, NoneApart
<1> QED BY <1>1, <1>2

LEMMA ForecastHolds ==
  ASSUME NoneApart, IInv, phase = "forecast", NEW st, NEW days, ReadForecast(st, days)
  PROVE  IInv'
<1> DEFINE asks == setup.estimate /\ setup.loadForecast = {}
<1>0. PICK h : h = history'
  OBVIOUS
<1> DEFINE forecast == IF ForecastConfigured THEN SiteForecast(st, h) ELSE part.dash.forecast
<1>1. /\ phase' = "inverters" /\ part' = [part EXCEPT !.forecast = forecast]
      /\ h = (IF asks THEN Estimate(days) ELSE history)
      /\ UNCHANGED <<setup, dashCache, hour, energy>>
  BY <1>0 DEF ReadForecast
<1>2. setup.loadForecast # {"history"}
  BY RefreshAssumption DEF IInv
<1>3. SolarSound(part.dash.forecast)
  BY DEF IInv, PartInv, Providing
<1>4. /\ DOMAIN SiteForecast(st, h) = ForecastFields
      /\ SiteForecast(st, h).pv \in {None, setup.pvForecast}
  BY DEF SiteForecast, ForecastFields, RemainingTotal
<1>5. SiteForecast(st, h).load = {"history"} => h.days = HistoryDays /\ h.hour = hour
  <2>1. SiteForecast(st, h).load =
          IF RemainingTotal(st, setup.loadForecast) = None /\ asks THEN h.value
          ELSE RemainingTotal(st, setup.loadForecast)
    BY DEF SiteForecast
  <2>2. RemainingTotal(st, setup.loadForecast) \in {None, setup.loadForecast}
    BY DEF RemainingTotal
  <2>3. CASE asks
    <3>1. h.value = {"history"} => h.days = HistoryDays /\ h.hour = hour
      BY <1>1, <2>3, EstimateSound DEF IInv
    <3> QED BY <1>2, <2>1, <2>2, <3>1 DEF NoneApart
  <2>4. CASE ~asks
    BY <1>2, <2>1, <2>2, <2>4 DEF NoneApart
  <2> QED BY <2>3, <2>4
<1>6. forecast # None =>
        /\ DOMAIN forecast = ForecastFields
        /\ forecast.pv \in {None, setup.pvForecast} \cup SUBSET setup.dashForecast
        /\ forecast.load = {"history"} => h.days = HistoryDays /\ h.hour = hour
  <2>1. CASE ForecastConfigured
    BY <1>4, <1>5, <2>1
  <2>2. CASE ~ForecastConfigured
    BY <1>3, <2>2 DEF SolarSound, NoneApart
  <2> QED BY <2>1, <2>2
<1>7. /\ part'.forecast = forecast /\ part'.grid = part.grid /\ part'.dash = part.dash
      /\ DOMAIN part' = DOMAIN NothingYet
  BY <1>1 DEF IInv, PartInv, NothingYet
<1> HIDE DEF forecast
<1>8. PartInv'
  BY <1>0, <1>1, <1>6, <1>7 DEF IInv, PartInv, GridSound, SolarSound, SiteSound, Providing
<1>9. CacheInv'
  <2>1. h # None => (h.value = {"history"} => h.days = HistoryDays)
    BY <1>1, EstimateSound DEF IInv, CacheInv
  <2> QED BY <1>0, <1>1, <2>1 DEF IInv, CacheInv, SolarSound
<1> QED BY <1>1, <1>8, <1>9, Kept DEF IInv, Phases

-----------------------------------------------------------------------------
(* The merge.                                                              *)

(* Forecasts of inverters are added up only when all of them are there.    *)
LEMMA InverterForecastSum ==
  ASSUME NEW st, NEW f, f = InverterForecast(st), f # None
  PROVE  /\ DOMAIN f = ForecastFields /\ f.load = None
         /\ f.pv = ForecastsOf(Inverters)
<1> DEFINE forecasting == Forecasting(Inverters)
           readings == {InverterState(i, st) : i \in forecasting}
           parts == {s.forecast : s \in readings}
<1>1. /\ DOMAIN f = ForecastFields /\ f.load = None /\ f.pv = Union(parts)
      /\ \A s \in readings : s.forecast # None
  BY DEF InverterForecast, ForecastFields
<1>2. ASSUME NEW i \in forecasting PROVE InverterState(i, st).forecast = {i.forecast}
  <2>1. InverterState(i, st) \in readings
    OBVIOUS
  <2>2. InverterState(i, st).forecast # None
    BY <1>1, <2>1
  <2>3. InverterState(i, st).forecast =
          IF i.forecast = None THEN None ELSE Remaining(st, i.forecast)
    BY DEF InverterState
  <2> QED BY <2>2, <2>3 DEF Remaining
<1>3. parts = {{i.forecast} : i \in forecasting}
  <2>1. parts = {InverterState(i, st).forecast : i \in forecasting}
    OBVIOUS
  <2> QED BY <1>2, <2>1
<1>4. None \notin parts
  BY <1>1
<1>5. UNION (parts \ {None}) = {i.forecast : i \in forecasting}
  BY <1>3, <1>4, ZenonT(40)
<1> QED BY <1>1, <1>5 DEF Union, ForecastsOf

LEMMA InvertersHolds ==
  ASSUME NoneApart, IInv, phase = "inverters", NEW st, ReadInverters(st)
  PROVE  IInv'
<1>1. PICK grid : grid = DerivedLoad(MergedGrid(part.grid,
                                   InverterGrid({InverterState(i, st) : i \in Inverters})))
  OBVIOUS
<1>2. PICK f : f = Merged(Merged(part.forecast, part.dash.forecast), InverterForecast(st))
  OBVIOUS
<1>3. PICK v : v = InverterForecast(st)
  OBVIOUS
<1>4. PICK inverters : inverters = Inverters
  OBVIOUS
<1>5. /\ phase' = "idle" /\ part' = NothingYet
      /\ energy' = [grid |-> grid, price |-> part.price, forecast |-> f, hour |-> hour,
                    history |-> history, inverters |-> inverters, late |-> late]
      /\ UNCHANGED <<setup, dashCache, history, hour>>
  BY <1>1, <1>2, <1>4 DEF ReadInverters
<1>6. /\ energy'.grid = grid /\ energy'.forecast = f /\ energy'.hour = hour
      /\ energy'.history = history /\ energy'.inverters = inverters
  BY <1>5
<1>7. PartInv' /\ CacheInv'
  BY <1>5, NothingSound DEF Providing
<1>8. SiteSound(part.forecast) /\ SolarSound(part.dash.forecast)
  BY DEF IInv, PartInv, Providing
<1>9. v # None => DOMAIN v = ForecastFields /\ v.load = None /\ v.pv = ForecastsOf(inverters)
  BY <1>3, <1>4, InverterForecastSum
<1>10. PICK both : both = Merged(part.forecast, part.dash.forecast)
  OBVIOUS
<1>11. SiteSound(both)
  <2>1. CASE part.forecast = None
    BY <1>8, <1>10, <2>1 DEF Merged, SiteSound, SolarSound, NoneApart
  <2>2. CASE part.forecast # None /\ part.dash.forecast = None
    BY <1>8, <1>10, <2>2 DEF Merged
  <2>3. CASE part.forecast # None /\ part.dash.forecast # None
    <3>1. both = [part.forecast EXCEPT !.pv = IF part.forecast.pv # None THEN part.forecast.pv
                                              ELSE part.dash.forecast.pv]
      BY <1>10, <2>3 DEF Merged
    <3>2. /\ DOMAIN both = ForecastFields /\ both.load = part.forecast.load
          /\ both.pv = IF part.forecast.pv # None THEN part.forecast.pv
                       ELSE part.dash.forecast.pv
      BY <1>8, <2>3, <3>1 DEF SiteSound, ForecastFields
    <3> QED BY <1>8, <2>3, <3>2 DEF SiteSound, SolarSound
  <2> QED BY <2>1, <2>2, <2>3
<1>12. f = Merged(both, v)
  BY <1>2, <1>3, <1>10
<1>13. f # None =>
         /\ f.pv \in {None, setup.pvForecast, ForecastsOf(inverters)} \cup SUBSET setup.dashForecast
         /\ f.load = {"history"} => history.days = HistoryDays /\ history.hour = hour
  <2>1. CASE both = None
    BY <1>9, <1>12, <2>1 DEF Merged, NoneApart
  <2>2. CASE both # None /\ v = None
    BY <1>11, <1>12, <2>2 DEF Merged, SiteSound
  <2>3. CASE both # None /\ v # None
    <3>1. f = [both EXCEPT !.pv = IF both.pv # None THEN both.pv ELSE v.pv]
      BY <1>12, <2>3 DEF Merged
    <3>2. f.load = both.load /\ f.pv = IF both.pv # None THEN both.pv ELSE v.pv
      BY <1>11, <2>3, <3>1 DEF SiteSound, ForecastFields
    <3> QED BY <1>9, <1>11, <2>3, <3>2 DEF SiteSound
  <2> QED BY <2>1, <2>2, <2>3
<1>14. EstimateComplete' /\ ForecastComplete'
  BY <1>5, <1>6, <1>13 DEF EstimateComplete, ForecastComplete, ForecastsOf, Forecasting
<1> QED BY <1>5, <1>7, <1>14 DEF IInv, Phases

-----------------------------------------------------------------------------
LEMMA WaitHolds ==
  ASSUME IInv, Wait \/ Poll \/ NextHour
  PROVE  IInv'
<1>1. CASE Wait
  <2>1. UNCHANGED <<setup, phase, part, dashCache, history, hour, energy>>
    BY <1>1 DEF Wait
  <2>2. PartInv' /\ CacheInv'
    BY <2>1 DEF IInv, PartInv, CacheInv, GridSound, SolarSound, SiteSound
  <2> QED BY <2>1, <2>2, Kept DEF IInv
<1>2. CASE Poll
  <2>1. /\ phase = "idle" /\ dashCache # None
        /\ dashCache' = [dashCache EXCEPT !.age = dashCache.age + 1]
        /\ UNCHANGED <<setup, phase, part, history, energy>>
    BY <1>2 DEF Poll
  <2>2. DOMAIN dashCache' = {"age", "value"} /\ dashCache'.value = dashCache.value
    BY <2>1 DEF IInv, CacheInv
  <2>3. PartInv' /\ CacheInv'
    BY <2>1, <2>2 DEF IInv, PartInv, CacheInv, SolarSound, Providing
  <2> QED BY <2>1, <2>3, Kept DEF IInv
<1>3. CASE NextHour
  <2>1. phase = "idle" /\ UNCHANGED <<setup, phase, part, dashCache, history, energy>>
    BY <1>3 DEF NextHour
  <2>2. PartInv' /\ CacheInv'
    BY <2>1 DEF IInv, PartInv, CacheInv, SolarSound, Providing
  <2> QED BY <2>1, <2>2, Kept DEF IInv
<1> QED BY <1>1, <1>2, <1>3

LEMMA NextHolds ==
  ASSUME NoneApart, IInv, [Next]_vars
  PROVE  IInv'
<1>1. CASE UNCHANGED vars
  <2>1. UNCHANGED <<setup, phase, part, dashCache, history, hour, energy>>
    BY <1>1 DEF vars
  <2>2. PartInv' /\ CacheInv'
    BY <2>1 DEF IInv, PartInv, CacheInv, GridSound, SolarSound, SiteSound
  <2> QED BY <2>1, <2>2, Kept DEF IInv
<1>2. CASE Provide
  BY <1>2, DashboardHolds, NoDashboardHolds, GridHolds, PriceHolds, ForecastHolds,
     InvertersHolds DEF Provide
<1> QED BY <1>1, <1>2, DeviceHolds, WaitHolds DEF Next

LEMMA InitHolds == Init => IInv
BY DEF Init, IInv, Phases, PartInv, CacheInv, Providing, EstimateComplete, ForecastComplete

-----------------------------------------------------------------------------
(* What is collected and cached in the course of a refresh is sound.       *)
THEOREM Collected ==
  ASSUME NoneApart
  PROVE  Spec => []IInv
<1>1. IInv /\ [Next]_vars => IInv'
  BY NextHolds
<1> QED BY <1>1, InitHolds, PTL DEF Spec

(* An estimated load has all of its days and is of the hour it is used in  *)
(* (_estimate_remaining_load_kwh).                                         *)
THEOREM EstimatesWhole ==
  ASSUME NoneApart
  PROVE  Spec => []EstimateComplete
<1>1. IInv => EstimateComplete
  BY DEF IInv
<1> QED BY <1>1, Collected, PTL

(* A sum of forecasts has all of its parts (_read_energy_total and         *)
(* _aggregate_inverter_forecast), however many inverters there are.        *)
THEOREM ForecastsWhole ==
  ASSUME NoneApart
  PROVE  Spec => []ForecastComplete
<1>1. IInv => ForecastComplete
  BY DEF IInv
<1> QED BY <1>1, Collected, PTL

-----------------------------------------------------------------------------
(***************************************************************************)
(* The retry delay.  What holds of every power of two is shown by the      *)
(* least number for which it would fail.                                   *)
(***************************************************************************)

(* Every set of natural numbers that is not empty has a least element.     *)
LEMMA Least ==
  ASSUME NEW S \in SUBSET Nat, S # {}
  PROVE  \E n \in S : \A m \in S : n <= m
<1> DEFINE R == {p \in Nat \X Nat : p[1] < p[2]}
<1>0. R = OpToRel(<, Nat)
  BY DEF OpToRel
<1>1. IsWellFoundedOn(R, Nat)
  BY <1>0, NatLessThanWellFounded
<1> HIDE DEF R
<1>2. PICK n \in S : \A m \in S : ~(<<m, n>> \in R)
  BY <1>1, WFMin
<1>3. \A m \in S : ~(m < n)
  BY <1>2 DEF R
<1> QED BY <1>3

(* A function that keeps the equations of PowerOfTwo up to n.              *)
Powers(f, n) ==
  /\ f \in [0..n -> Nat]
  /\ \A k \in 0..n : f[k] = IF k = 0 THEN 1 ELSE 2 * f[k - 1]

LEMMA PowersExist == \A n \in Nat : \E f : Powers(f, n)
<1> DEFINE Missing == {n \in Nat : ~\E f : Powers(f, n)}
<1> SUFFICES ASSUME Missing # {} PROVE FALSE
  OBVIOUS
<1>1. PICK n \in Missing : \A m \in Missing : n <= m
  BY Least
<1>2. CASE n = 0
  <2>1. Powers([k \in 0..0 |-> 1], 0)
    BY DEF Powers
  <2> QED BY <1>1, <1>2, <2>1
<1>3. CASE n # 0
  <2>1. n - 1 \in Nat /\ n - 1 \notin Missing
    BY <1>1, <1>3
  <2>2. PICK g : Powers(g, n - 1)
    BY <2>1
  <2> DEFINE f == [k \in 0..n |-> IF k = n THEN 2 * g[n - 1] ELSE g[k]]
  <2>3. Powers(f, n)
    BY <2>1, <2>2 DEF Powers
  <2> QED BY <1>1, <2>3
<1> QED BY <1>2, <1>3

LEMMA PowersAgree ==
  ASSUME NEW m \in Nat, NEW n \in Nat, m <= n, NEW f, NEW g, Powers(f, m), Powers(g, n)
  PROVE  f[m] = g[m]
<1> DEFINE Apart == {k \in 0..m : f[k] # g[k]}
<1> SUFFICES ASSUME Apart # {} PROVE FALSE
  OBVIOUS
<1>1. PICK k \in Apart : \A j \in Apart : k <= j
  <2>1. Apart \in SUBSET Nat
    OBVIOUS
  <2> QED BY <2>1, Least
<1>2. CASE k = 0
  BY <1>1, <1>2 DEF Powers
<1>3. CASE k # 0
  <2>1. k \in 1..m /\ k - 1 \notin Apart
    BY <1>1, <1>3
  <2>2. f[k - 1] = g[k - 1]
    BY <2>1
  <2> QED BY <1>1, <2>1, <2>2 DEF Powers
<1> QED BY <1>2, <1>3

(* The recursive definition defines a function.                            *)
LEMMA PowerOfTwoDefined ==
  PowerOfTwo = [n \in Nat |-> IF n = 0 THEN 1 ELSE 2 * PowerOfTwo[n - 1]]
<1> DEFINE F == [n \in Nat |-> (CHOOSE f : Powers(f, n))[n]]
<1>1. \A n \in Nat : Powers(CHOOSE f : Powers(f, n), n)
  BY PowersExist
<1>2. ASSUME NEW n \in Nat PROVE F[n] = IF n = 0 THEN 1 ELSE 2 * F[n - 1]
  <2> DEFINE f == CHOOSE g : Powers(g, n)
  <2>1. Powers(f, n) /\ F[n] = f[n]
    BY <1>1
  <2>2. CASE n = 0
    BY <2>1, <2>2 DEF Powers
  <2>3. CASE n # 0
    <3> DEFINE g == CHOOSE h : Powers(h, n - 1)
    <3>1. n - 1 \in Nat
      BY <2>3
    <3>2. Powers(g, n - 1) /\ F[n - 1] = g[n - 1]
      BY <1>1, <3>1
    <3>3. g[n - 1] = f[n - 1]
      <4> HIDE DEF f, g
      <4> QED BY <2>1, <3>1, <3>2, PowersAgree
    <3> HIDE DEF f, g, F
    <3>4. f[n] = 2 * f[n - 1]
      BY <2>1, <2>3 DEF Powers
    <3> QED BY <2>1, <2>3, <3>2, <3>3, <3>4
  <2> QED BY <2>2, <2>3
<1>3. F = [n \in Nat |-> IF n = 0 THEN 1 ELSE 2 * F[n - 1]]
  <2>1. F = [n \in Nat |-> F[n]]
    OBVIOUS
  <2> HIDE DEF F
  <2> QED BY <1>2, <2>1
<1> HIDE DEF F
<1> QED BY <1>3 DEF PowerOfTwo

LEMMA Doubling ==
  /\ PowerOfTwo[0] = 1
  /\ \A n \in Nat : PowerOfTwo[n] \in Nat \ {0} /\ PowerOfTwo[n + 1] = 2 * PowerOfTwo[n]
<1>1. PowerOfTwo[0] = 1
  BY PowerOfTwoDefined
<1>2. \A n \in Nat : PowerOfTwo[n + 1] = 2 * PowerOfTwo[n]
  BY PowerOfTwoDefined
<1> DEFINE Odd == {n \in Nat : PowerOfTwo[n] \notin Nat \ {0}}
<1>3. Odd = {}
  <2> SUFFICES ASSUME Odd # {} PROVE FALSE
    OBVIOUS
  <2>1. PICK n \in Odd : \A m \in Odd : n <= m
    BY Least
  <2>2. n # 0 /\ n - 1 \in Nat /\ n - 1 \notin Odd
    BY <1>1, <2>1
  <2>3. PowerOfTwo[n] = 2 * PowerOfTwo[n - 1]
    BY <1>2, <2>2
  <2> QED BY <2>1, <2>2, <2>3
<1> QED BY <1>1, <1>2, <1>3

LEMMA DelayGrows ==
  ASSUME NEW n \in Nat
  PROVE  /\ RetryDelay(n + 1) \in Base..Longest
         /\ RetryDelay(n + 1) <= RetryDelay(n + 2)
<1> DEFINE d == Base * PowerOfTwo[n]
<1>1. PowerOfTwo[n] \in Nat \ {0} /\ PowerOfTwo[n + 1] = 2 * PowerOfTwo[n]
  BY Doubling
<1>2. Base \in Nat \ {0} /\ Longest \in Nat /\ Base <= Longest
  BY RefreshAssumption
<1>3. d \in Nat /\ d >= Base
  BY <1>1, <1>2
<1>4. Base * PowerOfTwo[n + 1] = 2 * d
  BY <1>1, <1>2
<1>5. RetryDelay(n + 1) = Smaller(d, Longest) /\ RetryDelay(n + 2) = Smaller(2 * d, Longest)
  BY <1>4 DEF RetryDelay
<1> HIDE DEF d
<1> QED BY <1>2, <1>3, <1>5 DEF Smaller

(* The delay never overtakes the one the next failure would give.          *)
BackoffInv ==
  /\ failures \in 0..MaxFailures
  /\ delay \in Base..Longest
  /\ delay <= RetryDelay(failures + 1)

LEMMA FailsBacksOff ==
  ASSUME BackoffInv, NEW issue, Fails(issue)
  PROVE  BackoffInv' /\ delay' >= delay
<1>1. /\ failures \in Nat /\ MaxFailures \in Nat /\ failures <= MaxFailures
      /\ delay' = RetryDelay(failures + 1)
      /\ failures' = Smaller(failures + 1, MaxFailures)
  BY RefreshAssumption DEF BackoffInv, Fails
<1>2. /\ RetryDelay(failures + 1) \in Base..Longest
      /\ RetryDelay(failures + 1) <= RetryDelay(failures + 2)
  BY <1>1, DelayGrows
<1>3. failures' \in 0..MaxFailures /\ failures' \in {failures, failures + 1}
  BY <1>1 DEF Smaller
<1>4. RetryDelay(failures + 1) <= RetryDelay(failures' + 1)
  BY <1>1, <1>2, <1>3, RefreshAssumption
<1> QED BY <1>1, <1>2, <1>3, <1>4, RefreshAssumption DEF BackoffInv

LEMMA NextBacksOff ==
  ASSUME BackoffInv, Next
  PROVE  /\ BackoffInv'
         /\ IF phase = "battery" /\ phase' = "dashboard" THEN delay' = Base
            ELSE delay' >= delay
<1>1. delay \in Int /\ Base \in Nat \ {0} /\ Longest \in Nat /\ Base <= Longest
  BY RefreshAssumption DEF BackoffInv
<1>2. ASSUME NEW issue, Fails(issue) PROVE phase' = "idle" /\ BackoffInv' /\ delay' >= delay
  BY <1>2, FailsBacksOff DEF Fails
<1>3. ASSUME UNCHANGED <<failures, delay>>, ~(phase = "battery" /\ phase' = "dashboard")
      PROVE  /\ BackoffInv'
             /\ IF phase = "battery" /\ phase' = "dashboard" THEN delay' = Base
                ELSE delay' >= delay
  BY <1>1, <1>3 DEF BackoffInv
<1>4. ASSUME NEW power, ReadBattery(power)
      PROVE  BackoffInv' /\ delay' = Base /\ phase = "battery" /\ phase' = "dashboard"
  <2>1. /\ failures' = 0 /\ delay' = Base /\ phase = "battery" /\ phase' = "dashboard"
    BY <1>4 DEF ReadBattery
  <2>2. RetryDelay(1) \in Base..Longest
    BY DelayGrows
  <2> QED BY <1>1, <2>1, <2>2, RefreshAssumption DEF BackoffInv
<1>5. CASE Connect \/ Provide \/ Wait \/ Poll \/ NextHour
  <2>1. UNCHANGED <<failures, delay>> /\ ~(phase = "battery" /\ phase' = "dashboard")
    BY <1>5 DEF Connect, Provide, ReadDashboard, NoDashboard, ReadGrid, ReadPrice,
                ReadForecast, ReadInverters, Wait, Poll, NextHour, deviceVars
  <2> QED BY <1>3, <2>1
<1>6. CASE \E firmware \in BOOLEAN : Identify(firmware)
  <2>1. UNCHANGED <<failures, delay>> /\ phase' = "battery"
    BY <1>6 DEF Identify, deviceVars
  <2> QED BY <1>3, <2>1
<1> QED BY <1>2, <1>4, <1>5, <1>6 DEF Next, Device, ConnectFails, Unsupported, ReadFails

LEMMA Backoff == Spec => []BackoffInv
<1>1. Init => BackoffInv
  <2>1. RetryDelay(1) \in Base..Longest
    BY DelayGrows
  <2> QED BY <2>1, RefreshAssumption DEF Init, BackoffInv
<1>2. BackoffInv /\ UNCHANGED vars => BackoffInv'
  BY DEF BackoffInv, vars, deviceVars
<1> QED BY <1>1, <1>2, NextBacksOff, PTL DEF Spec

(* An outage only ever lengthens the time between two attempts, within the *)
(* longest delay, and the first success ends it (ExponentialBackoff).      *)
THEOREM OutagesBackOff == Spec => OutageBacksOff
<1>1. BackoffInv /\ [Next]_vars =>
        [IF phase = "battery" /\ phase' = "dashboard" THEN delay' = Base
         ELSE delay' >= delay]_vars
  BY NextBacksOff
<1> QED BY <1>1, Backoff, PTL DEF Spec, OutageBacksOff

-----------------------------------------------------------------------------
(***************************************************************************)
(* Types.  A stamp lies between the two that stand for too old and too     *)
(* new, wherever it has been passed on.                                    *)
(***************************************************************************)

SourcedInv ==
  /\ phase \in Providing =>
       Sourced(part.dash.grid) /\ Sourced(part.dash.price) /\ Sourced(part.dash.forecast)
  /\ phase \in Providing \ {"grid"} => Sourced(part.grid)
  /\ phase \in {"forecast", "inverters"} => Sourced(part.price)
  /\ phase = "inverters" => Sourced(part.forecast)

TypeInv == TypeOK /\ SourcedInv

LEMMA Stamps ==
  /\ \A n \in 0..MaxLate : n \in Aged..Future
  /\ {Aged, Future} \subseteq Aged..Future
BY RefreshAssumption DEF Aged, Future

LEMMA LatestStamp ==
  ASSUME late \in 0..MaxLate, NEW st, NEW es
  PROVE  LatestOf(st, es) \in Aged..Future /\ SomeRecent(st, es) \in BOOLEAN
BY Stamps DEF LatestOf, SomeRecent

(* What each provider returns is stamped.                                  *)
LEMMA ProvidersSourced ==
  ASSUME late \in 0..MaxLate, NEW st
  PROVE  /\ Sourced(SiteGrid(st)) /\ Sourced(DashboardGrid(st))
         /\ \A source : Sourced(Price(source, st))
         /\ \A answering, ahead : Sourced(SolarForecast(answering, ahead))
         /\ \A estimate : Sourced(SiteForecast(st, estimate))
         /\ \A states : (\A s \in states : s.online \in BOOLEAN) => Sourced(InverterGrid(states))
         /\ Sourced(InverterForecast(st))
<1> USE Stamps, LatestStamp
<1>1. Sourced(SiteGrid(st))
  <2>1. SiteGrid(st).stamp = late /\ SiteGrid(st).online \in BOOLEAN
    BY DEF SiteGrid
  <2> QED BY <2>1 DEF Sourced
<1>2. Sourced(DashboardGrid(st))
  BY DEF Sourced, DashboardGrid
<1>3. ASSUME NEW source PROVE Sourced(Price(source, st))
  BY DEF Sourced, Price
<1>4. ASSUME NEW answering, NEW ahead PROVE Sourced(SolarForecast(answering, ahead))
  BY DEF Sourced, SolarForecast
<1>5. ASSUME NEW estimate PROVE Sourced(SiteForecast(st, estimate))
  <2>1. /\ SiteForecast(st, estimate).stamp \in Aged..Future
        /\ SiteForecast(st, estimate).online \in BOOLEAN
    BY DEF SiteForecast
  <2> QED BY <2>1 DEF Sourced
<1>6. ASSUME NEW states, \A s \in states : s.online \in BOOLEAN
      PROVE  Sourced(InverterGrid(states))
  BY DEF Sourced, InverterGrid, Latest
<1>7. Sourced(InverterForecast(st))
  BY DEF Sourced, InverterForecast, Latest
<1> QED BY <1>1, <1>2, <1>3, <1>4, <1>5, <1>6, <1>7

(* Merging keeps the stamp of one of the parts.                            *)
LEMMA MergeSourced ==
  ASSUME NEW a, NEW b, Sourced(a), Sourced(b)
  PROVE  /\ (a # None => DOMAIN a = ForecastFields) => Sourced(Merged(a, b))
         /\ GridSound(a) => Sourced(MergedGrid(a, b))
         /\ GridSound(a) => Sourced(DerivedLoad(a))
<1>1. ASSUME a # None => DOMAIN a = ForecastFields PROVE Sourced(Merged(a, b))
  BY <1>1 DEF Merged, Sourced, ForecastFields
<1>2. ASSUME GridSound(a) PROVE Sourced(MergedGrid(a, b))
  BY <1>2 DEF MergedGrid, Sourced, GridSound, GridFields
<1>3. ASSUME GridSound(a) PROVE Sourced(DerivedLoad(a))
  BY <1>3 DEF DerivedLoad, Sourced, GridSound, GridFields
<1> QED BY <1>1, <1>2, <1>3

-----------------------------------------------------------------------------
(* The types, but for the delay, are kept by each step.                    *)
LEMMA FailsTyped ==
  ASSUME TypeInv, BackoffInv', NEW issue \in {"communication_failure", "unsupported_device"},
         Fails(issue)
  PROVE  TypeInv'
BY DEF TypeInv, TypeOK, BackoffInv, SourcedInv, Providing, Phases, Fails, ReadingEnds, Sourced

LEMMA DeviceTyped ==
  ASSUME TypeInv, BackoffInv', Connect \/ Device
  PROVE  TypeInv'
<1>1. CASE Connect
  BY <1>1 DEF Connect, TypeInv, TypeOK, SourcedInv, Providing, Phases, Sourced
<1>2. ASSUME NEW firmware \in BOOLEAN, Identify(firmware) PROVE TypeInv'
  BY <1>2 DEF Identify, TypeInv, TypeOK, SourcedInv, Providing, Phases, Sourced, deviceVars
<1>3. ASSUME NEW power \in BOOLEAN, ReadBattery(power) PROVE TypeInv'
  <2>1. issues' \subseteq {"communication_failure", "unsupported_device", "firmware_unavailable"}
    BY <1>3 DEF ReadBattery, IssuesAfterReading, TypeInv, TypeOK
  <2>2. SourcedInv'
    BY <1>3 DEF ReadBattery, SourcedInv, Providing
  <2>3. /\ phase' = "dashboard" /\ open' = FALSE /\ late' = 0
        /\ UNCHANGED <<setup, dashCache, history, hour, energy>>
    BY <1>3 DEF ReadBattery, ReadingEnds
  <2>4. failures' \in 0..MaxFailures /\ delay' \in Base..Longest
    BY DEF BackoffInv
  <2>5. setup' \in Setups /\ phase' \in Phases /\ open' \in BOOLEAN
        /\ late' \in 0..MaxLate /\ hour' \in 0..LastHour
    <3>1. setup \in Setups /\ hour \in 0..LastHour
      BY DEF TypeInv, TypeOK
    <3>2. 0 \in 0..MaxLate
      BY RefreshAssumption
    <3> QED BY <2>3, <3>1, <3>2 DEF Phases
  <2>6. /\ dashCache' # None => dashCache'.age \in 0..CacheTime /\ Sourced(dashCache'.value)
        /\ history' # None => history'.hour \in 0..LastHour /\ history'.days \in 0..HistoryDays
        /\ energy' # None =>
             Sourced(energy'.grid) /\ Sourced(energy'.price) /\ Sourced(energy'.forecast)
    BY <2>3 DEF TypeInv, TypeOK
  <2>7. TypeOK'
    BY <2>1, <2>4, <2>5, <2>6 DEF TypeOK, Sourced
  <2> QED BY <2>2, <2>7 DEF TypeInv
<1> QED BY <1>1, <1>2, <1>3, FailsTyped DEF Device, ConnectFails, Unsupported, ReadFails

LEMMA TypesKept ==
  ASSUME TypeOK, UNCHANGED <<setup, deviceVars, late, hour>>, phase' \in Phases,
         dashCache' # None => dashCache'.age \in 0..CacheTime /\ Sourced(dashCache'.value),
         history' # None => history'.hour \in 0..LastHour /\ history'.days \in 0..HistoryDays,
         energy' # None => /\ Sourced(energy'.grid) /\ Sourced(energy'.price)
                           /\ Sourced(energy'.forecast)
  PROVE  TypeOK'
BY DEF TypeOK, deviceVars, Sourced

(* What TypeOK says of the caches and of the last result.                  *)
LEMMA DataTyped ==
  ASSUME TypeOK
  PROVE  /\ late \in 0..MaxLate /\ hour \in 0..LastHour
         /\ dashCache # None => dashCache.age \in 0..CacheTime /\ Sourced(dashCache.value)
         /\ history # None => history.hour \in 0..LastHour /\ history.days \in 0..HistoryDays
         /\ energy # None =>
              Sourced(energy.grid) /\ Sourced(energy.price) /\ Sourced(energy.forecast)
BY DEF TypeOK

LEMMA DashboardTyped ==
  ASSUME IInv, TypeInv, NEW st, NEW answering, NEW ahead, ReadDashboard(st, answering, ahead)
  PROVE  TypeInv'
<1> DEFINE cached == dashCache # None /\ dashCache.age < CacheTime
           forecast == IF setup.dashForecast = {} THEN None
                       ELSE IF cached THEN dashCache.value ELSE SolarForecast(answering, ahead)
           dash == [grid |-> DashboardGrid(st), forecast |-> forecast,
                    price |-> Price(setup.dashPrice, st), inverters |-> setup.dashInverters]
<1>1. /\ phase' = "grid" /\ part' = [part EXCEPT !.dash = dash]
      /\ dashCache' = IF setup.dashForecast = {} \/ cached THEN dashCache
                      ELSE [age |-> 0, value |-> forecast]
      /\ UNCHANGED <<setup, deviceVars, late, history, hour, energy>>
  BY DEF ReadDashboard
<1>2. late \in 0..MaxLate
  BY DataTyped DEF TypeInv
<1>3. Sourced(None)
  BY DEF Sourced
<1>4. Sourced(forecast)
  BY <1>2, <1>3, ProvidersSourced, DataTyped DEF TypeInv
<1>5. part'.dash = dash
  BY <1>1 DEF IInv, PartInv, NothingYet
<1>6. /\ dash.grid = DashboardGrid(st) /\ dash.forecast = forecast
      /\ dash.price = Price(setup.dashPrice, st)
  OBVIOUS
<1> HIDE DEF forecast, dash
<1>7. SourcedInv'
  <2>1. Sourced(dash.grid) /\ Sourced(dash.price) /\ Sourced(dash.forecast)
    BY <1>2, <1>4, <1>6, ProvidersSourced
  <2> QED BY <1>1, <1>5, <2>1 DEF SourcedInv, Sourced
<1>8. dashCache' # None => dashCache'.age \in 0..CacheTime /\ Sourced(dashCache'.value)
  <2>1. CASE dashCache' = dashCache
    BY <2>1, DataTyped DEF TypeInv
  <2>2. CASE dashCache' = [age |-> 0, value |-> forecast]
    BY <1>4, <2>2, RefreshAssumption
  <2> QED BY <1>1, <2>1, <2>2
<1> QED BY <1>1, <1>7, <1>8, TypesKept, DataTyped DEF TypeInv, Phases

LEMMA NoDashboardTyped ==
  ASSUME IInv, TypeInv, NoDashboard
  PROVE  TypeInv'
<1> DEFINE dash == [grid |-> None, forecast |-> None, price |-> None, inverters |-> {}]
<1>1. /\ phase' = "grid" /\ part' = [part EXCEPT !.dash = dash]
      /\ UNCHANGED <<setup, deviceVars, late, dashCache, history, hour, energy>>
  BY DEF NoDashboard
<1>2. part'.dash = dash
  BY <1>1 DEF IInv, PartInv, NothingYet
<1>3. SourcedInv'
  BY <1>1, <1>2 DEF SourcedInv, Sourced
<1> QED BY <1>1, <1>3, TypesKept, DataTyped DEF TypeInv, Phases

LEMMA GridTyped ==
  ASSUME IInv, TypeInv, phase = "grid", NEW st, ReadGrid(st)
  PROVE  TypeInv'
<1> DEFINE grid == IF setup.grid # {} THEN SiteGrid(st) ELSE part.dash.grid
<1>1. /\ phase' = "price" /\ part' = [part EXCEPT !.grid = grid]
      /\ UNCHANGED <<setup, deviceVars, late, dashCache, history, hour, energy>>
  BY DEF ReadGrid
<1>2. Sourced(grid)
  BY ProvidersSourced, DataTyped DEF TypeInv, SourcedInv, Providing
<1>3. part'.grid = grid /\ part'.dash = part.dash
  BY <1>1 DEF IInv, PartInv, NothingYet
<1> HIDE DEF grid
<1>4. SourcedInv'
  BY <1>1, <1>2, <1>3 DEF TypeInv, SourcedInv, Sourced, Providing
<1> QED BY <1>1, <1>4, TypesKept, DataTyped DEF TypeInv, Phases

LEMMA PriceTyped ==
  ASSUME IInv, TypeInv, phase = "price", NEW st, ReadPrice(st)
  PROVE  TypeInv'
<1> DEFINE price == IF setup.price # "none" THEN Price(setup.price, st) ELSE part.dash.price
<1>1. /\ phase' = "forecast" /\ part' = [part EXCEPT !.price = price]
      /\ UNCHANGED <<setup, deviceVars, late, dashCache, history, hour, energy>>
  BY DEF ReadPrice
<1>2. Sourced(price)
  BY ProvidersSourced, DataTyped DEF TypeInv, SourcedInv, Providing
<1>3. part'.price = price /\ part'.grid = part.grid /\ part'.dash = part.dash
  BY <1>1 DEF IInv, PartInv, NothingYet
<1> HIDE DEF price
<1>4. SourcedInv'
  BY <1>1, <1>2, <1>3 DEF TypeInv, SourcedInv, Sourced, Providing
<1> QED BY <1>1, <1>4, TypesKept, DataTyped DEF TypeInv, Phases

LEMMA ForecastTyped ==
  ASSUME IInv, TypeInv, phase = "forecast", NEW st,
         NEW days \in {0, HistoryDays - 1, HistoryDays}, ReadForecast(st, days)
  PROVE  TypeInv'
<1>0. PICK h : h = history'
  OBVIOUS
<1> DEFINE forecast == IF ForecastConfigured THEN SiteForecast(st, h) ELSE part.dash.forecast
<1>1. /\ phase' = "inverters" /\ part' = [part EXCEPT !.forecast = forecast]
      /\ h \in {Estimate(days), history}
      /\ UNCHANGED <<setup, deviceVars, late, dashCache, hour, energy>>
  BY <1>0 DEF ReadForecast
<1>2. Sourced(forecast)
  BY ProvidersSourced, DataTyped DEF TypeInv, SourcedInv, Providing
<1>3. h # None => h.hour \in 0..LastHour /\ h.days \in 0..HistoryDays
  <2>1. days \in 0..HistoryDays
    BY RefreshAssumption
  <2>2. Estimate(days) # None =>
          Estimate(days).hour \in 0..LastHour /\ Estimate(days).days \in 0..HistoryDays
    BY <2>1, DataTyped DEF Estimate, TypeInv
  <2> QED BY <1>1, <2>2, DataTyped DEF TypeInv
<1>4. /\ part'.forecast = forecast /\ part'.price = part.price
      /\ part'.grid = part.grid /\ part'.dash = part.dash
  BY <1>1 DEF IInv, PartInv, NothingYet
<1> HIDE DEF forecast
<1>5. SourcedInv'
  BY <1>1, <1>2, <1>4 DEF TypeInv, SourcedInv, Sourced, Providing
<1> QED BY <1>0, <1>1, <1>3, <1>5, TypesKept, DataTyped DEF TypeInv, Phases

LEMMA InvertersTyped ==
  ASSUME IInv, TypeInv, phase = "inverters", NEW st, ReadInverters(st)
  PROVE  TypeInv'
<1> DEFINE states == {InverterState(i, st) : i \in Inverters}
<1>1. PICK g : g = MergedGrid(part.grid, InverterGrid(states))
  OBVIOUS
<1>2. PICK both : both = Merged(part.forecast, part.dash.forecast)
  OBVIOUS
<1>3. PICK f : f = Merged(both, InverterForecast(st))
  OBVIOUS
<1>4. PICK grid : grid = DerivedLoad(g)
  OBVIOUS
<1>5. /\ phase' = "idle" /\ part' = NothingYet
      /\ energy' = [grid |-> grid, price |-> part.price, forecast |-> f, hour |-> hour,
                    history |-> history, inverters |-> Inverters, late |-> late]
      /\ UNCHANGED <<setup, deviceVars, late, dashCache, history, hour>>
  BY <1>1, <1>2, <1>3, <1>4 DEF ReadInverters
<1>6. late \in 0..MaxLate
  BY DataTyped DEF TypeInv
<1>7. \A s \in states : s.online \in BOOLEAN
  <2>1. ASSUME NEW i \in Inverters PROVE InverterState(i, st).online \in BOOLEAN
    BY DEF InverterState, SomeRecent
  <2> QED BY <2>1
<1>8. Sourced(InverterGrid(states)) /\ Sourced(InverterForecast(st))
  BY <1>6, <1>7, ProvidersSourced
<1>9. /\ GridSound(part.grid) /\ Sourced(part.grid) /\ Sourced(part.price)
      /\ SiteSound(part.forecast) /\ Sourced(part.forecast)
      /\ SolarSound(part.dash.forecast) /\ Sourced(part.dash.forecast)
  BY DEF IInv, PartInv, TypeInv, SourcedInv, Providing
<1>10. GridSound(InverterGrid(states))
  BY DEF InverterGrid, GridSound, GridFields
<1> HIDE DEF states
<1>11. Sourced(grid)
  <2>1. Sourced(g)
    BY <1>1, <1>8, <1>9, MergeSourced
  <2>2. GridSound(g)
    BY <1>1, <1>9, <1>10 DEF MergedGrid, GridSound, GridFields
  <2> QED BY <1>4, <2>1, <2>2, MergeSourced
<1>12. Sourced(f)
  <2>1. part.forecast # None => DOMAIN part.forecast = ForecastFields
    BY <1>9 DEF SiteSound
  <2>2. Sourced(both)
    BY <1>2, <1>9, <2>1, MergeSourced
  <2>3. both # None => DOMAIN both = ForecastFields
    BY <1>2, <1>9 DEF Merged, SiteSound, SolarSound, ForecastFields
  <2> QED BY <1>3, <1>8, <2>2, <2>3, MergeSourced
<1>13. SourcedInv'
  BY <1>5 DEF SourcedInv, Providing
<1>14. Sourced(energy'.grid) /\ Sourced(energy'.price) /\ Sourced(energy'.forecast)
  <2>1. energy'.grid = grid /\ energy'.price = part.price /\ energy'.forecast = f
    BY <1>5
  <2> QED BY <1>9, <1>11, <1>12, <2>1
<1> QED BY <1>5, <1>13, <1>14, TypesKept, DataTyped DEF TypeInv, Phases

LEMMA TimeTyped ==
  ASSUME IInv, TypeInv, Wait \/ Poll \/ NextHour
  PROVE  TypeInv'
<1>1. CASE Wait
  <2>1. late' \in 0..MaxLate
    BY <1>1, DataTyped, RefreshAssumption DEF Wait, TypeInv
  <2> QED BY <1>1, <2>1 DEF Wait, TypeInv, TypeOK, SourcedInv, Sourced, deviceVars
<1>2. CASE Poll
  <2>1. DOMAIN dashCache = {"age", "value"} /\ dashCache.age \in 0..CacheTime
    BY <1>2, DataTyped DEF Poll, IInv, CacheInv, TypeInv
  <2>2. dashCache'.age \in 0..CacheTime /\ dashCache'.value = dashCache.value
    BY <1>2, <2>1, RefreshAssumption DEF Poll
  <2>3. SourcedInv'
    BY <1>2 DEF Poll, TypeInv, SourcedInv, Sourced
  <2>4. Sourced(dashCache'.value) /\ phase' \in Phases
        /\ UNCHANGED <<setup, deviceVars, late, history, hour, energy>>
    BY <1>2, <2>2, DataTyped DEF Poll, TypeInv, Phases
  <2> QED BY <2>2, <2>3, <2>4, TypesKept, DataTyped DEF TypeInv
<1>3. CASE NextHour
  <2>1. hour' \in 0..LastHour
    BY <1>3, DataTyped, RefreshAssumption DEF NextHour, TypeInv
  <2> QED BY <1>3, <2>1 DEF NextHour, TypeInv, TypeOK, SourcedInv, Sourced, deviceVars
<1> QED BY <1>1, <1>2, <1>3

LEMMA NextTyped ==
  ASSUME IInv, TypeInv, BackoffInv, [Next]_vars
  PROVE  TypeInv'
<1>1. CASE UNCHANGED vars
  BY <1>1 DEF vars, deviceVars, TypeInv, TypeOK, SourcedInv, Sourced
<1>2. CASE Next
  <2>1. BackoffInv'
    BY <1>2, NextBacksOff
  <2>2. CASE Provide
    BY <2>2, DashboardTyped, NoDashboardTyped, GridTyped, PriceTyped, ForecastTyped,
       InvertersTyped DEF Provide
  <2> QED BY <1>2, <2>1, <2>2, DeviceTyped, TimeTyped DEF Next
<1> QED BY <1>1, <1>2

(* Every stamp, age, hour and delay stays within its bounds, for any       *)
(* options and however often the device or its providers fail.             *)
THEOREM TypeCorrect ==
  ASSUME NoneApart
  PROVE  Spec => []TypeOK
<1>1. Init => TypeInv
  <2> SUFFICES ASSUME Init PROVE TypeInv
    OBVIOUS
  <2>1. SourcedInv
    BY DEF Init, SourcedInv, Providing
  <2>2. delay \in Base..Longest /\ failures \in 0..MaxFailures
        /\ late \in 0..MaxLate /\ hour \in 0..LastHour
    BY RefreshAssumption DEF Init
  <2> QED BY <2>1, <2>2 DEF Init, TypeInv, TypeOK, Phases
<1>2. TypeInv => TypeOK
  BY DEF TypeInv
<1> QED BY <1>1, <1>2, NextTyped, Backoff, Collected, PTL DEF Spec
=============================================================================
