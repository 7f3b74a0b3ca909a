-------------------------------- MODULE Entry --------------------------------
(***************************************************************************)
(* The life of the configuration entry: the flow that creates it, the      *)
(* options form with its inverter profiles, the set-up of the coordinator  *)
(* from what was saved, reload, unload, and a restart of Home Assistant at *)
(* any moment.                                                             *)
(*                                                                         *)
(* A set of options is a record; an entity is there or not.  The session   *)
(* of the coordinator is seen from outside: what started it, and whether   *)
(* the inverter follows a command (CommandSession has the inside).         *)
(***************************************************************************)
EXTENDS Integers, FiniteSets

CONSTANTS
  None,        \* an option that is not set, a coordinator that is not there
  Imported,    \* the inverters exactly as the Energy Dashboard has them
  Malformed,   \* a document that is not YAML, or a number that is none
  Inputs,      \* what a user fills into the options form
  Profiles,    \* what a user fills into the inverter form
  Dashboards,  \* Energy Dashboard configurations
  MaxSaves     \* bound: times the options are saved

ASSUME EntryAssumption == MaxSaves \in Nat

VARIABLES
  options,   \* the options of the entry, None before it is created
  saves,     \* times they were saved
  form,      \* the options flow: closed, open, or collecting profiles
  dashboard, \* what the Energy Dashboard says
  derived,   \* the derived load sensor is in the entity registry
  entry,     \* where the set-up or the unload of the entry stands
  then,      \* what follows once the coordinator is stopped
  reload,    \* the update listener has been called
  running,   \* the options of the coordinator in hass.data, None if none
  listening, \* its Speedwire observer runs
  session,   \* what started the session in progress, None if there is none
  inverter,  \* "own" rule or "commanded"
  failsafe   \* the inverter's fallback is configured

formVars == <<options, saves, form>>
coordinatorVars == <<running, listening, session, inverter>>
vars == <<formVars, dashboard, derived, entry, then, reload, coordinatorVars, failsafe>>

Nothing == [grid |-> {}, load |-> FALSE, estimate |-> FALSE, loadForecast |-> FALSE,
            pvForecast |-> FALSE, price |-> FALSE, static |-> None, rules |-> None,
            inverters |-> None, reserve |-> 30, end |-> 80, active |-> FALSE,
            scheduled |-> FALSE, predictive |-> FALSE, confirmed |-> FALSE,
            senders |-> {}, profiles |-> 0]

(* What a user fills in is a value for each of the fields, and the mark of *)
(* imported inverters is no collection of profiles.                        *)
ASSUME InputsAssumption ==
  /\ \A in \in Inputs : DOMAIN in = DOMAIN Nothing /\ in.profiles \in Nat
  /\ Imported # None /\ \A collected \in SUBSET Profiles : collected # Imported

Closed == [at |-> "closed", pending |-> None, collected |-> {}]

-----------------------------------------------------------------------------
(* The documents of the options, as both the form and the coordinator read *)
(* them.                                                                   *)

ValidRule(r) ==
  /\ r.hold >= 0 /\ r.cooldown >= 0
  /\ {r.socBelow, r.socAbove} \ {None} \subseteq 0..100
  /\ None \notin {r.socBelow, r.socAbove} => r.socAbove < r.socBelow
  /\ \A bound \in {r.priceBelow, r.priceAbove, r.surplusAbove, r.pvAbove} \ {None} : bound >= 0

(* parse_rules_document: it is accepted, given the gate for enabled rules. *)
RulesParse(document, allowEnabled) ==
  document # None =>
    /\ document # Malformed
    /\ document.version = 1
    /\ document.enabled => allowEnabled
    /\ \A r \in document.rules : ValidRule(r)

(* parse_inverter_sources, of the profiles of a document.                  *)
ValidProfile(p) ==
  /\ p.role = "pv" => p.generation /\ ~p.battery
  /\ p.role = "battery" => p.battery /\ ~p.generation
  /\ p.role = "hybrid" => p.generation \/ p.battery
  /\ p.forecast => p.role # "battery" /\ p.generation

InvertersParse(document) ==
  document \notin {None, Imported} =>
    /\ document # Malformed
    /\ \A p \in document : ValidProfile(p)
    /\ \A p, q \in document : p.id = q.id => p = q

-----------------------------------------------------------------------------
(* The options form.                                                       *)

Or(typed, default) == IF typed = None THEN default ELSE typed

(* Mutation: the form suggests earlier values without returning them.      *)
FilledAsTyped(in) == in

(* The schema: a field left out comes back with its default, which is what *)
(* was saved before or what the dashboard and the registry offer.          *)
Filled(in) ==
  [in EXCEPT
     !.grid = @ \cup options.grid \cup IF "power" \notin options.grid /\ dashboard.grid
                                       THEN {"power"} ELSE {},
     !.load = @ \/ options.load \/ derived,
     !.loadForecast = @ \/ options.loadForecast,
     !.pvForecast = @ \/ options.pvForecast,
     !.price = @ \/ options.price \/ dashboard.price,
     !.static = Or(@, Or(options.static, dashboard.static)),
     !.rules = Or(@, options.rules),
     !.inverters = Or(@, Or(options.inverters, IF dashboard.inverters THEN Imported ELSE None))]

(* async_step_init, check by check.                                        *)
HasLoad(in) == in.load \/ options.load \/ derived

SourcesAgree(in) ==
  /\ ~("power" \in in.grid /\ in.grid \cap {"import", "export"} # {})
  /\ "import" \in in.grid <=> "export" \in in.grid
  /\ ~(in.estimate /\ in.loadForecast)
  /\ in.estimate => HasLoad(in)
  /\ ~(in.inverters # None /\ in.profiles > 0)
  /\ ~(in.price /\ in.static # None)
  /\ in.static # None => in.static # Malformed /\ in.static >= 0
  /\ in.reserve <= in.end

DocumentsParse(in) ==
  /\ RulesParse(in.rules, in.active /\ in.scheduled)
  /\ InvertersParse(in.inverters)

Commissioned(in) ==
  /\ in.scheduled => in.active
  /\ in.predictive => in.scheduled
  /\ in.active => in.confirmed

SendersNamed(in) == Malformed \notin in.senders

(* A dashboard that is configured must be complete, or completed here.     *)
HasLoadForecast(in) == in.loadForecast \/ (in.estimate /\ HasLoad(in))

DashboardCovered(in) ==
  LET asImported == in.inverters = IF dashboard.inverters THEN Imported ELSE None
  IN  dashboard.configured =>
        /\ "power" \in in.grid \/ {"import", "export"} \subseteq in.grid \/ dashboard.grid
        /\ HasLoadForecast(in)
        /\ in.profiles = 0 /\ asImported =>
             /\ dashboard.missing \cap {"generation", "inverters"} = {}
             /\ "forecast" \in dashboard.missing => in.pvForecast \/ options.pvForecast

Acceptable(in) ==
  SourcesAgree(in) /\ DocumentsParse(in) /\ Commissioned(in) /\ SendersNamed(in)
    /\ DashboardCovered(in)

(* The update listener is registered behind the set-up, and called until   *)
(* the unload is complete.                                                 *)
Listening == entry \in {"loaded", "unloading"} \/ (entry = "stopping" /\ then = "new")

(* Mutation: the dashboard's inverters are saved as if they were typed in. *)
SaveAsTyped(in) ==
  /\ saves' = saves + 1
  /\ form' = Closed
  /\ options' = [in EXCEPT !.profiles = 0]
  /\ reload' = (reload \/ Listening)

(* What is saved: inverters that are still the dashboard's stay imported.  *)
Save(in) ==
  /\ saves' = saves + 1
  /\ form' = Closed
  /\ options' = [in EXCEPT !.profiles = 0,
                           !.inverters = IF @ = Imported THEN None ELSE @]
  /\ reload' = (reload \/ Listening)

OpenForm ==
  /\ options # None /\ form = Closed /\ saves < MaxSaves
  /\ form' = [Closed EXCEPT !.at = "open"]
  /\ UNCHANGED <<options, saves, dashboard, derived, entry, then, reload,
                 coordinatorVars, failsafe>>

Submit(typed) ==
  LET in == Filled(typed)
  IN  /\ form.at = "open"
      /\ Acceptable(in)
      /\ IF in.profiles = 0 THEN Save(in)
         ELSE /\ form' = [at |-> "inverter", pending |-> in, collected |-> {}]
              /\ UNCHANGED <<options, saves, reload>>
      /\ UNCHANGED <<dashboard, derived, entry, then, coordinatorVars, failsafe>>

(* Mutation: a profile is checked by itself, not with those before it.     *)
ProfileAcceptableAlone(collected, p) == ValidProfile(p)

ProfileAcceptable(collected, p) ==
  p \notin collected /\ InvertersParse(collected \cup {p})

(* async_step_inverter: one profile after the other.                       *)
SubmitProfile(p) ==
  /\ form.at = "inverter"
  /\ ProfileAcceptable(form.collected, p)
  /\ LET collected == form.collected \cup {p}
     IN  IF Cardinality(collected) < form.pending.profiles
         THEN form' = [form EXCEPT !.collected = collected]
              /\ UNCHANGED <<options, saves, reload>>
         ELSE Save([form.pending EXCEPT !.inverters = collected])
  /\ UNCHANGED <<dashboard, derived, entry, then, coordinatorVars, failsafe>>

CloseForm ==
  /\ form # Closed
  /\ form' = Closed
  /\ UNCHANGED <<options, saves, dashboard, derived, entry, then, reload,
                 coordinatorVars, failsafe>>

-----------------------------------------------------------------------------
(* Set-up and unload.                                                      *)

(* PowerManagerCoordinator.__init__: the documents are parsed once more.   *)
Loads(o) ==
  RulesParse(o.rules, o.active /\ o.scheduled) /\ InvertersParse(o.inverters)

(* The flow has read the device: the entry exists.                         *)
Create ==
  /\ entry = "none"
  /\ options' = Nothing
  /\ entry' = "new"
  /\ UNCHANGED <<saves, form, dashboard, derived, then, reload, coordinatorVars, failsafe>>

SetUp ==
  /\ entry = "new" \/ (entry = "retry" /\ ~reload)
  /\ entry' = IF Loads(options) THEN "refreshing" ELSE "unusable"
  /\ running' = IF Loads(options) THEN options ELSE None
  /\ UNCHANGED <<formVars, dashboard, derived, then, reload, listening, session, inverter,
                 failsafe>>

FirstRefreshFails ==
  /\ entry = "refreshing"
  /\ entry' = "retry"
  /\ running' = None
  /\ UNCHANGED <<formVars, dashboard, derived, then, reload, listening, session, inverter,
                 failsafe>>

(* The observer starts only behind a reading that succeeded.               *)
FirstRefresh ==
  /\ entry = "refreshing"
  /\ entry' = "forwarding"
  /\ listening' = TRUE
  /\ UNCHANGED <<formVars, dashboard, derived, then, reload, running, session, inverter,
                 failsafe>>

Forwarded ==
  /\ entry = "forwarding"
  /\ entry' = "loaded"
  /\ derived' = TRUE
  /\ UNCHANGED <<formVars, dashboard, then, reload, coordinatorVars, failsafe>>

(* The platforms fail: what was started is stopped, and the error goes on. *)
ForwardFails ==
  /\ entry = "forwarding"
  /\ entry' = "stopping"
  /\ then' = "failed"
  /\ UNCHANGED <<formVars, dashboard, derived, reload, coordinatorVars, failsafe>>

Reload ==
  /\ reload /\ entry \in {"loaded", "retry", "failed", "unusable"}
  /\ reload' = FALSE
  /\ entry' = IF entry = "loaded" THEN "unloading" ELSE "new"
  /\ then' = "new"
  /\ UNCHANGED <<formVars, dashboard, derived, coordinatorVars, failsafe>>

(* Mutation: the unload begins once no session is in progress.             *)
PlatformsUnloadedIdle ==
  /\ entry = "unloading" /\ session = None
  /\ entry' = "stopping"
  /\ UNCHANGED <<formVars, dashboard, derived, then, reload, coordinatorVars, failsafe>>

PlatformsUnloaded ==
  /\ entry = "unloading"
  /\ entry' = "stopping"
  /\ UNCHANGED <<formVars, dashboard, derived, then, reload, coordinatorVars, failsafe>>

(* Mutation: nobody waits for the session.                                 *)
StoppedAtOnce ==
  /\ entry = "stopping"
  /\ entry' = then
  /\ running' = None /\ listening' = FALSE
  /\ UNCHANGED <<formVars, dashboard, derived, then, reload, session, inverter, failsafe>>

(* stop_speedwire_monitor has waited for the session and for the observer. *)
Stopped ==
  /\ entry = "stopping"
  /\ session = None
  /\ entry' = then
  /\ running' = None /\ listening' = FALSE
  /\ UNCHANGED <<formVars, dashboard, derived, then, reload, session, inverter, failsafe>>

-----------------------------------------------------------------------------
(* Sessions of the coordinator in hass.data.                               *)

(* The static gates of _active_control_block_reason.                       *)
Gates(o) == o.active /\ o.confirmed

(* Mutation: the fallback of the inverter is not looked at.                *)
PreparedBlindly == TRUE

(* verify_failsafe, before the first write.                                *)
Prepared == failsafe

Starts(kind) ==
  /\ session = None /\ listening /\ Gates(running) /\ Prepared
  /\ session' = kind
  /\ inverter' = "commanded"
  /\ UNCHANGED <<formVars, dashboard, derived, entry, then, reload, running, listening,
                 failsafe>>

(* The service reaches the coordinator in hass.data.  A start that slips   *)
(* in while the observer is cancelled sends nothing: see UnloadQuiets of   *)
(* ActiveControl.                                                          *)
StartManually == entry \in {"forwarding", "loaded", "unloading"} /\ Starts("manual")

(* _reconcile_scheduled_control, from a refresh the entities ask for.      *)
StartScheduled(kind) ==
  /\ entry \in {"loaded", "unloading"}
  /\ running.scheduled
  /\ kind = "plan" => running.predictive
  /\ kind = "rules" => running.rules # None
  /\ Starts(kind)

SessionEnds ==
  /\ session # None
  /\ session' = None
  /\ inverter' = "own"
  /\ UNCHANGED <<formVars, dashboard, derived, entry, then, reload, running, listening,
                 failsafe>>

(* The inverter's own timer, fed by nobody.                                *)
Fallback ==
  /\ inverter = "commanded" /\ session = None /\ failsafe
  /\ inverter' = "own"
  /\ UNCHANGED <<formVars, dashboard, derived, entry, then, reload, running, listening,
                 session, failsafe>>

(* Home Assistant is killed and starts again: what is saved remains.       *)
Crash ==
  /\ options # None
  /\ form' = Closed /\ reload' = FALSE
  /\ entry' = "new"
  /\ running' = None /\ listening' = FALSE /\ session' = None
  /\ UNCHANGED <<options, saves, dashboard, derived, then, inverter, failsafe>>

Init ==
  /\ options = None /\ saves = 0 /\ form = Closed
  /\ dashboard \in Dashboards /\ derived = FALSE
  /\ entry = "none" /\ then = "new" /\ reload = FALSE
  /\ running = None /\ listening = FALSE /\ session = None
  /\ inverter = "own" /\ failsafe \in BOOLEAN

Lifecycle ==
  \/ SetUp \/ FirstRefreshFails \/ FirstRefresh \/ Forwarded \/ ForwardFails
  \/ Reload \/ PlatformsUnloaded \/ Stopped

User ==
  \/ Create \/ OpenForm \/ CloseForm
  \/ \E in \in Inputs : Submit(in)
  \/ \E p \in Profiles : SubmitProfile(p)

Next ==
  \/ User \/ Lifecycle \/ Crash
  \/ StartManually \/ (\E kind \in {"rules", "plan"} : StartScheduled(kind))
  \/ SessionEnds \/ Fallback

Spec == Init /\ [][Next]_vars

(* Home Assistant carries out what it has begun, a session is bounded in   *)
(* time, and so is the wait of the inverter for a command.                 *)
FairSpec ==
  Spec /\ WF_vars(Lifecycle) /\ WF_vars(SessionEnds) /\ WF_vars(Fallback)

-----------------------------------------------------------------------------
TypeOK ==
  /\ options # None => options.profiles = 0 /\ options.inverters # Imported
  /\ saves \in 0..MaxSaves
  /\ form.at \in {"closed", "open"} \/ Cardinality(form.collected) < form.pending.profiles
  /\ entry \in {"none", "new", "refreshing", "retry", "forwarding", "loaded", "unloading",
                "stopping", "failed", "unusable"}
  /\ then \in {"new", "failed"} /\ reload \in BOOLEAN
  /\ listening \in BOOLEAN /\ derived \in BOOLEAN
  /\ session \in {None, "manual", "rules", "plan"}
  /\ inverter \in {"own", "commanded"}

(* Whatever the forms save, the coordinator can be built from: both parse  *)
(* the documents, each with a gate of its own, and control that is enabled *)
(* is not locked for want of a confirmation.                               *)
SavedOptionsWork ==
  /\ entry # "unusable"
  /\ options # None => Loads(options) /\ (options.active => Gates(options))

(* With an Energy Dashboard the form insists on a forecast of the load; the*)
(* provider that is built from what was saved then has one, although the   *)
(* form also counts what it found elsewhere.                               *)
ForecastReached ==
  dashboard.configured /\ saves > 0 =>
    options.loadForecast \/ (options.estimate /\ options.load)

(* Retries and reloads inherit nothing: while no coordinator is set up     *)
(* there is no observer and no session.                                    *)
NothingLeft ==
  entry \in {"none", "new", "retry", "failed", "unusable"} =>
    running = None /\ ~listening /\ session = None

(* A command that nobody renews does not last, not even when Home          *)
(* Assistant dies with the session.                                        *)
CommandsEnd == inverter = "commanded" /\ session = None ~> inverter = "own" \/ session # None

(* Every save that a listener hears of is taken up, and neither a session  *)
(* in progress nor the ones that could follow it prevent the reload.       *)
ReloadSettles == (reload \/ entry = "unloading") ~> entry = "refreshing"

(* What ReloadSettles rests on.  Once a reload is due, by a save that a     *)
(* listener heard of or by an unload or a restart that is under way, no    *)
(* step forgets it, and whichever step moves the entry brings it nearer to *)
(* the next reading; no session starts while the unload waits for one.     *)
ReloadDue ==
  reload \/ entry \in {"unloading", "new"} \/ (entry = "stopping" /\ then = "new")

Distance ==
  CASE entry = "refreshing" -> 0
    [] entry = "new" -> 1
    [] entry = "stopping" /\ then = "new" -> 2
    [] entry = "unloading" -> 3
    [] entry \in {"loaded", "retry", "failed", "unusable"} -> 4
    [] entry = "stopping" /\ then = "failed" -> 5
    [] entry = "forwarding" -> 6
    [] OTHER -> 7

ReloadAdvances ==
  [][ReloadDue /\ entry # "refreshing" =>
       /\ ReloadDue' \/ entry' = "refreshing"
       /\ entry' # entry => Distance' < Distance
       /\ entry \in {"stopping", "new"} => session' \in {session, None}]_vars

(* What CommandsEnd rests on: a command is in force only where a session   *)
(* ends it or the inverter's own timer does.                               *)
CommandGuarded ==
  /\ inverter = "commanded" => failsafe
  /\ session # None => inverter = "commanded" /\ listening

-----------------------------------------------------------------------------
(* A promise of the form the code does not keep (strings.json:82): rules   *)
(* that are not enabled are for simulation, they start no session.         *)
DisabledRulesSimulate ==
  session = "rules" /\ running # None => running.rules.enabled
=============================================================================
