----------------------------- MODULE ClosedLoop -----------------------------
(***************************************************************************)
(* Scheduled control as a closed loop: what the meters show decides what   *)
(* the coordinator commands, and what it commands changes what they show.  *)
(* A refresh of the coordinator drives the rule engine (ControlRuntime),   *)
(* the planner (Predictive) and the validation (Safety), and reconciles    *)
(* the session with their result; each heartbeat validates again.          *)
(*                                                                         *)
(* The interleavings around starts and stops are in ActiveControl and the  *)
(* session's own steps in CommandSession; here ownership is clear, a       *)
(* session has a target and a remaining time, and one tick separates two   *)
(* heartbeats.  Timestamps count from the battery reading of their refresh.*)
(*                                                                         *)
(* The site is measured by three entities that report, fail and fall       *)
(* silent each on its own: "grid" stands for the signed entity or for the  *)
(* pair of import and export, "pv" also for the inverters behind the       *)
(* site.  One that is not configured is one that never reports.            *)
(***************************************************************************)
EXTENDS Predictive, Sequences

CONSTANTS
  Rules, Timeout, \* the rule document and the watchdog (ControlRuntime)
  Targets,        \* the target power of each rule
  Conditions,     \* the conditions of each rule
  Modes,          \* values predictive_control_enabled may have
  ActiveMax,      \* active_control_max_power_w
  PredictiveMax,  \* predictive_max_charge_power_w
  Reserve,        \* predictive_reserve_soc_percent
  EndSoc,         \* predictive_end_soc_percent
  MaxAge,         \* telemetry_max_age
  MaxDuration,    \* active_control_max_duration_seconds
  PlanHold,       \* the hold time of a recommendation, 300 s in the code
  Defaults,       \* the SafetyConfig the rule engine is built with
  Suns,           \* pairs of PV and load power the site may have
  Answers,        \* what the entities may do in one tick
  Readings        \* what a refresh may read of battery, price and forecast

Entities == {"grid", "pv", "load"}

ASSUME LoopAssumption ==
  /\ Rules \in Seq([id : STRING, priority : Int, hold : Nat, cooldown : Nat])
  /\ Timeout \in Nat \ {0}
  /\ Modes \subseteq BOOLEAN
  /\ MaxAge \in Nat /\ MaxDuration \in Nat \ {0} /\ PlanHold \in Nat
  /\ ActiveMax \in Nat /\ PredictiveMax \in Nat /\ Reserve \in Int
  /\ Suns \subseteq [pv : Nat, load : Nat]
  /\ Answers \subseteq [Entities -> {"reports", "unusable", "silent"}]
  /\ \A r \in Readings :
       r.battery \in [soc : 0..100, power : Int \cup {None},
                      floor : (0..100) \cup {None}, state : STRING]
  /\ Targets \in [DOMAIN Rules -> Int]

VARIABLES
  held, heldFor, cooldown, silent, decision, input, rest, spell,  \* the rule engine
  planned,  \* whether predictive_control_enabled is set
  since,    \* ticks since the engine's last cycle
  meter,    \* what each of the site's entities shows, and for how long it has
  data,     \* the coordinator's data, or None before the first refresh
  age,      \* ticks since the battery was read for the data
  result,   \* the refresh that is being reconciled, or None
  pending,  \* ticks since the battery was read for it
  session,  \* the command session, or None
  sent      \* the heartbeat of the last step and what it rested on, or None

Engine == INSTANCE ControlRuntime WITH Gaps <- Nat

engineVars == <<held, heldFor, cooldown, silent, decision, input, rest, spell>>
vars == <<engineVars, planned, since, meter, data, age, result, pending, session, sent>>

AgeCap == MaxAge + 1      \* ages beyond it are alike
SinceCap == Timeout        \* so are gaps the watchdog does not allow

(* Mutation: ages are counted without the bound.                           *)
OlderForever(n) == n + 1

Older(n) == IF n < AgeCap THEN n + 1 ELSE AgeCap

Config(charge) ==
  [maxCharge |-> charge, maxDischarge |-> ActiveMax, minSoc |-> Reserve,
   maxSoc |-> Defaults.maxSoc, maxAge |-> MaxAge, maxSkew |-> Defaults.maxSkew,
   states |-> Defaults.states, warnings |-> Defaults.warnings]

SessionConfig == Config(ActiveMax)
PlanConfig == Config(Smaller(ActiveMax, PredictiveMax))

-----------------------------------------------------------------------------
(* One refresh: the telemetry it assembles and what it makes of it.        *)

(* A reading beyond the maximum age is withheld, each on its own.          *)
Recent(entity) == meter[entity].age <= MaxAge
ReadPower(entity) == IF Recent(entity) THEN meter[entity].value ELSE None

(* One entity that was heard of within the maximum age makes the whole     *)
(* grid state online, and the state is stamped now.                        *)
SiteGrid ==
  [timestamp |-> 0, online |-> \E entity \in Entities : Recent(entity),
   power |-> ReadPower("grid"), pv |-> ReadPower("pv"), load |-> ReadPower("load")]

(* _derive_load_power, where the battery's power is that of its register,  *)
(* positive when discharging, read at another instant than the meters.     *)
GridState(batteryPower) ==
  IF SiteGrid.online /\ SiteGrid.load = None
       /\ None \notin {SiteGrid.power, SiteGrid.pv, batteryPower}
  THEN [SiteGrid EXCEPT !.load = SiteGrid.power + SiteGrid.pv + batteryPower]
  ELSE SiteGrid

(* How long the oldest of these readings has been shown.                   *)
AgeOf(entity) == IF ReadPower(entity) = None THEN 0 ELSE meter[entity].age
Lag == Larger(AgeOf("grid"), Larger(AgeOf("pv"), AgeOf("load")))

(* No part of the program ever sets charge_limit_w.                        *)
Energy(r) ==
  [timestamp |-> 0,
   battery |-> [timestamp |-> 0, online |-> TRUE, soc |-> r.battery.soc,
                state |-> r.battery.state, event |-> 7613,
                chargeLimit |-> None, socFloor |-> r.battery.floor],
   grid |-> GridState(r.battery.power), price |-> r.price, forecast |-> r.forecast]

(* Mutation: what is exported does not bound the surplus of a plan.        *)
PlannedSurplusUnmetered(grid) == AvailablePvSurplus([grid EXCEPT !.power = None])

(* The coordinator has its own copy of the computation in safety.py.       *)
PlannedSurplus(grid) ==
  IF None \in {grid.pv, grid.load} \/ NotFinite \in {grid.power, grid.pv, grid.load}
  THEN None
  ELSE LET surplus == Larger(grid.pv - grid.load, 0)
       IN  IF grid.power # None THEN Smaller(surplus, Larger(-grid.power, 0)) ELSE surplus

PlanInputs(e) ==
  [hours |-> 1, soc |-> e.battery.soc, endSoc |-> EndSoc, reserve |-> Reserve,
   remainingPv |-> e.forecast.pv, remainingLoad |-> e.forecast.load,
   uncertainty |-> 0, export |-> 0, maxCharge |-> PredictiveMax,
   chargeLimit |-> e.battery.chargeLimit,
   surplus |-> PlannedSurplus(e.grid), gridAllowed |-> ~planned]

PredictivePlan(e) ==
  IF e.forecast = None THEN None
  ELSE IF ~e.forecast.online \/ None \in {e.forecast.pv, e.forecast.load, e.battery.soc}
          \/ ~ValidInputs(PlanInputs(e))
  THEN None ELSE Plan(PlanInputs(e))

Command(target, hold) ==
  [target |-> target, for |-> Larger(1, Smaller(hold, MaxDuration))]

(* The intent of the rule the engine has accepted.                         *)
RuleCommand(d) ==
  IF d.accepted THEN Command(Targets[d.rule], Rules[d.rule].hold) ELSE None

(* What the session should do.  The planner replaces every rule but one    *)
(* that discharges; its own recommendation is validated afresh.            *)
Wanted(e, plan, d) ==
  IF ~planned THEN RuleCommand(d)
  ELSE IF plan = None THEN None
  ELSE IF plan.power > 0
  THEN IF Accepted(plan.power, e, PlanConfig, 0)
       THEN Command(plan.power, Smaller(PlanHold, MaxDuration))
       ELSE None
  ELSE IF d.accepted /\ Targets[d.rule] < 0 THEN RuleCommand(d)
  ELSE None

Refresh(reading) ==
  LET e == Energy(reading)
      plan == PredictivePlan(e)
  IN  /\ result = None
      /\ data = None \/ since > 0
      /\ Engine!Cycle([gap |-> since,
                       matching |-> {r \in DOMAIN Rules : Matches(Conditions[r], e, 0)},
                       safe |-> {r \in DOMAIN Rules : Accepted(Targets[r], e, Defaults, 0)},
                       enabled |-> TRUE])
      /\ since' = 0
      /\ result' = [energy |-> e, plan |-> plan, lag |-> Lag,
                    wanted |-> Wanted(e, plan, decision')]
      /\ pending' = 0
      /\ sent' = None
      /\ UNCHANGED <<planned, meter, data, age, session>>

(* The refresh returns: its result becomes the coordinator's data.         *)
Install ==
  /\ data' = result /\ age' = pending
  /\ result' = None /\ pending' = 0
  /\ sent' = None
  /\ UNCHANGED <<engineVars, planned, since, meter>>

-----------------------------------------------------------------------------
(* _reconcile_scheduled_control.  While it waits for a session to end none *)
(* of these steps is enabled, and the session goes on with the old data.   *)

FirstRefresh ==
  /\ result # None /\ data = None
  /\ session' = session
  /\ Install

(* Mutation: a session is kept although another target is wanted.          *)
KeepAnySession ==
  /\ result # None /\ data # None /\ session # None
  /\ result.wanted # None
  /\ session' = session
  /\ Install

KeepSession ==
  /\ result # None /\ data # None /\ session # None
  /\ result.wanted # None
  /\ result.wanted.target = session.target
  /\ session' = session
  /\ Install

(* Mutation: a running session is left alone when nothing is wanted.       *)
LeaveRunning ==
  /\ result # None /\ data # None
  /\ result.wanted = None
  /\ session' = session
  /\ Install

LeaveStopped ==
  /\ result # None /\ data # None /\ session = None
  /\ result.wanted = None
  /\ session' = session
  /\ Install

(* start_active_control checks the command against the data of the refresh *)
(* before: the result of this one is not installed yet.                    *)
StartSession ==
  /\ result # None /\ data # None /\ session = None
  /\ result.wanted # None
  /\ LET target == result.wanted.target
     IN  session' = IF /\ target \in -ActiveMax..ActiveMax
                       /\ Accepted(target, data.energy, SessionConfig, age)
                    THEN [target |-> target, left |-> result.wanted.for]
                    ELSE None
  /\ Install

-----------------------------------------------------------------------------
(* Time passes: the sun and the household change, entities may report.     *)

Ageing(snapshot, n) == IF snapshot = None THEN 0 ELSE Older(n)

(* The powers of a site whose battery runs at the given power.             *)
Actual(s, power) ==
  [entity \in Entities |-> CASE entity = "grid" -> s.load + power - s.pv
                             [] entity = "pv" -> s.pv
                             [] entity = "load" -> s.load]

(* What is shown too long says no more than an entity that is not there.   *)
Gone == [value |-> None, age |-> AgeCap]

Answered(answer, reading, value) ==
  CASE answer = "reports" -> [value |-> value, age |-> 0]
    [] answer = "unusable" -> [value |-> None, age |-> 0]
    [] answer = "silent" -> IF reading.age < MaxAge
                            THEN [reading EXCEPT !.age = Older(@)] ELSE Gone

Shown(readings, answers, s, power) ==
  [entity \in Entities |->
     Answered(answers[entity], readings[entity], Actual(s, power)[entity])]

(* The battery runs at this power for a tick, which the meters may show.   *)
TimePasses(s, power) ==
  /\ \E answers \in Answers : meter' = Shown(meter, answers, s, power)
  /\ age' = Ageing(data, age)
  /\ pending' = Ageing(result, pending)
  /\ since' = IF since < SinceCap THEN since + 1 ELSE SinceCap
  /\ UNCHANGED <<engineVars, planned, data, result>>

(* The inverter's own regulation: the battery idles or takes the surplus.  *)
OwnRegulation(s) ==
  /\ session' = None
  /\ sent' = None
  /\ \E power \in {0, s.pv - s.load} : TimePasses(s, power)

Uncommanded(s) ==
  /\ session = None
  /\ OwnRegulation(s)

(* Mutation: a command is validated when it starts, not with heartbeats.   *)
JustifiedOnce == session.left >= 0

Justified == Accepted(session.target, data.energy, SessionConfig, age)

Heartbeat(s) ==
  /\ session # None
  /\ session.left > 0
  /\ Justified
  /\ session' = [session EXCEPT !.left = @ - 1]
  /\ sent' = [target |-> session.target, grid |-> data.energy.grid,
              soc |-> data.energy.battery.soc, floor |-> data.energy.battery.socFloor,
              age |-> age,
              measured |-> data.lag + age]
  /\ TimePasses(s, session.target)

(* The session ends and its baseline is restored.                          *)
SessionEnds(s) ==
  /\ session # None
  /\ session.left = 0 \/ ~Justified
  /\ OwnRegulation(s)

-----------------------------------------------------------------------------
Init ==
  /\ Engine!Init
  /\ planned \in Modes
  /\ since = 0
  /\ \E s \in Suns, answers \in Answers :
       meter = Shown([entity \in Entities |-> Gone], answers, s, 0)
  /\ data = None /\ age = 0 /\ result = None /\ pending = 0
  /\ session = None /\ sent = None

Next ==
  \/ \E r \in Readings : Refresh(r)
  \/ FirstRefresh \/ KeepSession \/ LeaveStopped \/ StartSession
  \/ \E s \in Suns : Uncommanded(s) \/ Heartbeat(s) \/ SessionEnds(s)

Spec == Init /\ [][Next]_vars

-----------------------------------------------------------------------------
(* The engine's variables have the types ControlRuntime gives them.        *)
Snapshot(d) ==
  d # None =>
    /\ d.lag \in 0..MaxAge
    /\ d.energy.battery.soc \in 0..100
    /\ d.wanted # None => d.wanted.target \in Int /\ d.wanted.for \in 1..MaxDuration

TypeOK ==
  /\ planned \in BOOLEAN
  /\ since \in 0..SinceCap
  /\ meter \in [Entities -> [value : Int \cup {None}, age : 0..AgeCap]]
  /\ Snapshot(data) /\ Snapshot(result)
  /\ age \in 0..AgeCap /\ pending \in 0..AgeCap
  /\ session # None => session.target \in Int /\ session.left \in 0..MaxDuration

(* The battery is never made to charge with more than PV power less the    *)
(* load, nor with more than is exported where the export is known; and     *)
(* none of the readings behind it, although every validation calls them    *)
(* fresh, is older than twice the maximum age: an entity may have shown    *)
(* its value for that long when a refresh stamped it anew.                 *)
ChargedFromSun ==
  sent # None /\ sent.target > 0 =>
    /\ sent.target <= sent.grid.pv - sent.grid.load
    /\ sent.grid.power # None => sent.target <= -sent.grid.power
    /\ sent.measured <= 2 * MaxAge

(* No heartbeat discharges the battery below the reserve or the inverter's *)
(* own floor as it last reported them, whichever of rule, plan and         *)
(* validation the command comes from.                                      *)
ReserveKept ==
  sent # None /\ sent.target < 0 =>
    /\ sent.soc > Reserve
    /\ sent.floor # None => sent.soc > sent.floor
    /\ sent.age <= MaxAge

(* A session never outlives the decision behind it: between two refreshes  *)
(* it does what the last one wanted, or nothing.                           *)
SessionFollowsDecision ==
  result = None /\ session # None =>
    data.wanted # None /\ data.wanted.target = session.target

(* With the planner in charge, room it keeps for the forecast surplus is   *)
(* not filled: no session charges once a plan that inhibits is installed.  *)
InhibitHonoured ==
  planned /\ result = None /\ session # None /\ data.plan # None =>
    (data.plan.inhibit => session.target < 0)

(* Planner and validation, each with a surplus of its own, agree: what the *)
(* planner recommends is refused only for the state of the battery, for a  *)
(* price or a forecast the validation does not take, because it is more    *)
(* than active control may command at all, or for a reserve above the      *)
(* state of charge up to which the validation lets anything charge.        *)
PlanAcceptable ==
  result # None /\ planned /\ result.plan # None =>
    LET e == result.energy
    IN  result.plan.power > 0 /\ result.wanted = None =>
          \/ e.battery.soc >= Defaults.maxSoc
          \/ ~OperatingStateAllows(result.plan.power, e.battery, Defaults)
          \/ \E s \in {e.price, e.forecast} \ {None} :
               ~s.online \/ ~Fresh(s.timestamp, 0, SessionConfig)
          \/ result.plan.power > ActiveMax
          \/ Reserve > Defaults.maxSoc

-----------------------------------------------------------------------------
(* Two promises the code does not keep.  README.md:124-126 and control-    *)
(* plan.md: a charge stays within PV power less load and within the        *)
(* measured export.  An entity of the grid that is late, unusable or not   *)
(* there is withheld alone, and the charge is accepted without it.         *)
ChargedWithinExport ==
  sent # None /\ sent.target > 0 =>
    sent.grid.power # None /\ sent.target <= -sent.grid.power

(* strings.json on predictive_max_charge_power_w: the upper bound for      *)
(* recommendations and for commands.  Where active control allows less, a  *)
(* recommendation is not bounded by it but refused as a whole.             *)
PlanNeverTooLarge ==
  result # None /\ planned /\ result.plan # None => result.plan.power <= ActiveMax
=============================================================================
