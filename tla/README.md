# PowerManager in TLA+

TLA+ specifications of PowerManager, a Home Assistant integration that monitors
an SMA Sunny Island battery inverter over Modbus TCP and, once commissioned,
commands it in short bounded sessions. The models follow the source under
`custom_components/powermanager` (below `HA`) and its library
`custom_components/powermanager/core/powermanager_core` (below `CORE`).

Everything runs on one asyncio event loop. Code between two `await`s is atomic;
everything hard happens because other coroutines, timers and cancellations run
at an `await`. The models therefore name the await each coroutine is suspended
in, and one action leads from one await to the next.

## Inventory

| Part | State it keeps | Operations | Talks to |
|---|---|---|---|
| Command session and adapter (`CORE/backends/sma_sunny_island/control_adapter.py`) | `_active`, the event log, baseline, phase and remembered error of `run`; the adapter's guard | `run`, `run_for`, `restore_baseline`, `verify_failsafe`, the configuration writes | Modbus transport, a validation callback, the stop event |
| Active-control coordination (`HA/coordinator.py`) | session task, its stop event, reported power, last error, `self.data` | start/stop services, the periodic refresh with its reconcile, unload | one session at a time, rule engine, monitor, entities |
| Rule engine (`CORE/control/runtime.py`, `policy.py`, `watchdog.py`) | held intent, end of the cooldown, last heartbeat of the watchdog | `cycle` | called by every refresh; safety validation |
| Speedwire observation (`CORE/backends/sma_speedwire/*`, `_observe_speedwire`) | observed senders, resolved addresses, listening flag, time of the last frame | receive, publish, retry | publishes into `self.data`, from which sessions are validated |
| Refresh (`_async_update_data`, `CORE/backends/sma_sunny_island/device.py`, `CORE/telemetry.py`, `CORE/inverters.py`) | connection, count of failures, update interval, repair issues | read device and state, back off, assemble the energy state | providers, rule engine |
| Providers (`HA/ha_*_provider.py`, `HA/ha_energy_dashboard.py`) | two caches | read Home Assistant state | refresh, forms |
| Safety validation (`CORE/control/safety.py`) | none | `validate_intent` | rule engine, planner, every heartbeat |
| Rule documents (`CORE/control/rules.py`, conditions in `policy.py`) | none | parse, match | forms, coordinator, rule engine |
| Predictive planner (`CORE/control/predictive.py`) | none | `plan_predictive_charge` | refresh |
| Forms (`HA/config_flow.py`) | the options, the inverters collected so far | create, options, inverter form | dashboard, registry, parsers |
| Entry (`HA/__init__.py`) | the entry's state, the coordinator in `hass.data` | set up, reload, unload, services | all of the above |
| Registers and codecs (`CORE/modbus/decoder.py`, `registers.py`, encoders of the adapter, `commissioning.py`) | none | encode, decode, verify | session, device reader |
| Transports (`CORE/modbus/client.py`) | a TCP client | connect, read, write, close | device reader, adapter |
| Entities, diagnostics, CLI, models, simulation actuator, frame decoder | a trace, none otherwise | views, printing | Home Assistant, the shell |

What is hard, and what has to be right, part by part:

- **Command session.** A cancellation (of the task, or by the timer of
  `run_for`) may come at every await, in the recovery too. A Modbus write may
  fail and have been carried out. Validation and transport take time the
  heartbeat interval does not know of. Correct means: no heartbeat from a
  session that is not armed, the inverter's fallback timer fed in time, the
  deadline kept, the captured state restored and the outcome told truthfully.
- **Coordination.** Operator, scheduled policy and unload stop the same session
  and each clears shared fields after its await; a refresh can be suspended in
  its reconcile for a whole session and installs its snapshot afterwards; the
  monitor publishes in between. Correct means: one session at a time, always
  known to the coordinator; entities that report what runs; a permission that
  is withdrawn at once; stops that return, end the heartbeat and win over rules.
- **Closed loop.** The meters show what the battery was told to do, late or at
  once, and are stamped anew by each refresh; rules, planner, reconcile,
  `start_active_control` and every heartbeat judge by different snapshots.
  Correct means: a command rests on what was really measured, and recently; a
  session follows the latest decision; planner and validation do not contradict
  each other.
- **Rule engine.** Watchdog, hold, preemption and cooldown meet in one cycle;
  their order decides what survives. Correct means: priority decides, a hold is
  bounded and gives way only upwards, a cooldown is kept, an expiry recovers.
- **Observation.** Permission depends on the current time but is published only
  on events; addresses are resolved anew on every retry. Correct means: a
  published permission is earned and fresh.
- **Refresh.** Each of a dozen sources may be fresh, stale, expired, unusable or
  absent, two of them come out of caches, and the device may be gone. Correct
  means: sums are complete, caches do not pass old data for new, the retry delay stays
  within its bounds and is reset.
- **Forms and entry.** Form, parsers and coordinator check the same options each
  in its own way; set-up fails half way, is retried, reloaded, unloaded and
  killed. Correct means: what is saved can be loaded, nothing is inherited, no
  command outlives its session, a reload happens.
- **Codecs** must compute what they say at the boundaries of 16 and 32 bits.

## Modules

| Module | What it is |
|---|---|
| `CommandContract` | What a bounded session promises, in three phases: the abstract specification of `CommandSession` |
| `SpeedwireWatch` | What the passive observation promises of its permission: the abstract specification of `SpeedwireMonitor`, and of the monitor in `ActiveControl` |
| `CommandSession` | One session, its adapter and the inverter's holding registers |
| `ActiveControl` | The coordinator with several (overlapping, late) sessions, the refresh, the monitor, the services, the unload |
| `ControlRuntime` | The decision cycle of the rule engine |
| `SpeedwireMonitor` | The observing task, the monitor and the listener |
| `Safety` | Conditions of a rule and `validate_intent`, as operators |
| `Predictive` | The planner, as operators over `Safety` |
| `ClosedLoop` | Composes `ControlRuntime` (an instance), `Predictive` and `Safety` with a site, a refresh and a session |
| `Refresh` | One refresh: device, backoff, providers, caches, merge |
| `Entry` | Forms, set-up, reload, unload, crash |
| `Registers` | Encodings, sentinels, preflight and commissioning report; theorems only |
| `...Proofs` | Theorems and proofs about the module of that name; `CommandSessionProofs` also holds the refinement of `CommandContract`, `ClosedLoopProofs` that of `ControlRuntime`, `SpeedwireMonitorProofs` and `ActiveControlProofs` those of `SpeedwireWatch` |
| `MC...` | Instances for TLC; one or more `.cfg` each |

A definition below `(* Mutation:` is not part of a specification: it
is a plausible mistake in the definition that follows it, used to show that the
properties notice it.

### CommandSession

`pc` names the await: `preflight`, `capture`, `validate`, `heartbeat`, `wait`,
`restore`, `readback`, `configure`. `op` says which public method runs.
`active`, `guard`, `baseline`, `primary`, `events` are the fields and locals of
the code (`primary` is `primary_error`); `got` and `todo` are what has been read
and what is still to be written in the phase. `reg` is the inverter. Each
transaction has a successful and a failing action; a failing write may have
landed (`MaybeLanded`). `RunForTimeout` and `CancelTask` cancel at any await.
Returning, failing and being cancelled all go through `LeaveBody`, the `finally`
block. A call while another is active is `RejectOverlap`.

Time is a set of counters that run down (`timers`): `budget` to the deadline of
`run`, `wake` to the end of the wait, `left` to that of `run_for`, `io` to
the end of the transaction or validation, and `silent`, which counts up since
the last heartbeat. A transaction ends within `IoTimeout` and a validation
within `ValidateTime`: the transport has a timeout, and the callback given by the
coordinator awaits nothing that lasts.

Data is reduced: setpoints are integers (their two-word encoding is in
`Registers`), event records are their names and the log is cut at `MaxEvents`.

`KeepsContract` is the refinement: idle, armed or recovering, and the setpoint
register. It says that the setpoint register changes only in an armed session
and only within the bound, and that no armed session ends but through recovery.

`CallAdvances` is the safety under "every call ends". `TimeLeft` bounds the
time a call may still take from where it is, `StepsLeft` the steps it can take
before the clock has to move again; whatever moves a call lowers the pair, the
time first.

### ActiveControl

A session here is a thread of a few awaits: `connecting`, `preparing`,
`sending`, `waiting`, `restoring`, `closing`. `task`, `stopEvent`, `status`,
`data` are `_active_control_task`, `_active_control_stop`,
`_active_control_power_w` and `self.data`; `told` records whose stop event was
set. The stop event is *not* a guard of any session step, because the code does
not hand it to the session. `waits` and `ahead` model the callers suspended in
`stop_active_control`; a finished task wakes its waiters in the order in which
they asked, as asyncio does. Whether the wait on a task that is already over
suspends its caller once or not at all depends on the `asyncio.gather` of the
Python version; both are allowed. `poll` is one refresh: reading the
inverter, collecting the provider data, and possibly waiting in its reconcile.
Home Assistant runs one refresh at a time and installs its result when it
returns. The commissioning options are taken as set; the energy state is the set
of targets it permits.

### ControlRuntime

One action is one call of `cycle`. Instants are kept relative to the last
cycle (`heldFor`, `cooldown`, `silent`), so no absolute clock is needed. Inputs are
the time since the last cycle, which rules match, which intents are safe,
whether control is enabled. `rest` and `spell` are history variables to compare with what
the code kept. `rest` is the cooldown as promised. `spell` is the rule that was last
accepted afresh and how long ago that was, counted over what the cycles
return and forgotten when one of them asks to return to normal. `HoldBounded` and
`HoldRespected` measure a hold by it and not by the engine's own stamp: an
engine that stamped a kept intent anew would hold it for ever and be noticed.

### SpeedwireMonitor

`at` is the await of `_observe_speedwire`: resolving, receiving, sleeping after
a failure, over. `Publish` computes state and permission from the monitor as it
is after the step, as `_publish_observation` does. `quiet` is how long the
current `receive` has waited, `age` how old the last frame is. `ActiveControl`
has the same monitor in three values, because there only the permission counts.

`SpeedwireWatch` is what ties the two together. It knows whether somebody
listens, what was heard (`never`, `fresh`, `old`), whether a stranger is known,
and the permission as it was last stated; every step but the ageing of the
traffic states it anew, and rightly. `SpeedwireMonitor` implements it with
`heard` a function of the age and `external` of the senders and addresses;
`ActiveControl` with its own three values and the permission in `self.data`.
Both mappings hide the stranger from who does not listen: a resolution whose
socket then fails to open changes the addresses and with them who is a stranger,
but nothing is stated by that.

### Safety, Predictive, ClosedLoop

`Safety` and `Predictive` are translations of pure functions: an energy state is
a record of sources, a reading an integer, `None` or `NotFinite`. Predictive
energies are hundredths of the usable capacity, so that a state of charge is an
energy.

`ClosedLoop` is the composition. The site is measured by three entities, each of
which reports, is unusable or falls silent on its own (`meter`, with its real
age): "grid" stands for the signed entity or the pair of import and export, "pv"
also for the inverters. A `Refresh` reads the battery (state of charge, the
register of its power, the floor the inverter reports) and the entities. A value
beyond the maximum age is withheld alone (`ReadPower`); one recent entity makes the
grid state online, and the state is stamped now (`SiteGrid`). A missing load is
derived from the others (`GridState`). The price source may be dead. The refresh
then runs a cycle of the engine on the rules that match and the intents that
validate, computes the plan, for which the coordinator has a surplus of its own
(`PlannedSurplus`), and what the session should do (`Wanted`; a recommendation is
held for `PlanHold`, the code's 300 s, or the maximum duration if that is less).
`chargeLimit` is always `None`, because no part of the program ever sets
`charge_limit_w`. The reconcile is a step of its own
(`KeepSession`, `LeaveStopped`, `StartSession`, disabled while a session has to
end), because it may wait, and in the meantime the session is validated against
the data of the refresh before. `start_active_control` judges by those old data
too. With each `Heartbeat` time passes: the sun and the household change, the
meters show the battery's power or keep what they showed. `age` and `pending`
are the ages of the battery readings behind `data` and `result`; `sent` is the
heartbeat of the last step, if it was one, and what it rested on. Ages beyond the
maximum age are alike, and so are gaps between refreshes beyond the watchdog's
timeout. The engine's variables are those of
`ControlRuntime`, whose `Cycle` the refresh takes as a conjunct.

### Refresh

`phase` is the await: device information, battery, dashboard, grid, price,
forecast, inverters. A reading is the *set of sources* it was computed from,
because what is at stake is whether a sum is complete and how old its parts are.
Every provider step chooses, entity by entity, whether its state is fresh,
stale, unusable or absent. `dashCache` and `history` are the two caches with
their ages and the hour they were filled in. `delay`, `failures`, `issues` and
`open` belong to the device and the backoff. `Setups` are option sets that
differ in where telemetry comes from.

### Entry

`form` is the options flow: closed, open, or collecting inverter profiles on top
of pending options. `Filled` puts in the defaults in the order of the code
(typed, saved, registry, dashboard), `Acceptable` is the list of checks,
`Save` what is stored. `Loads` is what the constructor of the coordinator
demands of the same options, `Gates` what control demands. `entry` follows
`async_setup_entry`, `async_reload_entry`, `async_unload_entry` (`ReloadAdvances`
measures how far it is from the next reading); `Crash` kills
Home Assistant at any moment: only the options, the entity registry and the
inverter survive. The session is seen from outside (`session`, `inverter`); its
inside is in `CommandSession`.

### Registers

Words, masks, signs and sentinels at full width, the writes of the adapter, the
preflight and the commissioning report. Nothing here changes state, and
2^32 is beyond TLC's integers, so it has no run: what it promises is proved.

## Runs

Passing runs, with the distinct states TLC finds:

| Run | Module and configuration | Shows | States |
|---|---|---|---|
| `session` | `MCCommandSession` | All safety of a session, the refinement of `CommandContract`, that every step of a call brings it nearer to its end, and that every call ends | 737,266 |
| `scheduled` | `MCScheduledControl` | The policy alone, until an unload races a refresh in flight: no session is lost, status is truthful, sessions exclude each other, nothing is sent once the entry is gone, every stop returns | 351,852 |
| `manual` | `MCManualControl` | Services and unload without the policy: the snapshot's permission keeps `SpeedwireWatch`, and no heartbeat follows a stranger or the loss of the listener | 484,078 |
| `runtime` | `MCControlRuntime` | The rule engine: priority decides, a hold is kept and bounded, whatever is matched, rejected or expires meanwhile | 2,753 |
| `speedwire` | `MCSpeedwireMonitor` | The permission is fresh, and the observing task keeps `SpeedwireWatch` | 719 |
| `closed_loop` | `MCClosedLoop` | Commands rest on recent measurements and follow decisions; what the planner recommends is refused only for the reasons that are named | 1,673,533 |
| `refresh` | `MCRefresh` | Backoff, caches and sums through outages and stale sources | 324,396 |
| `entry` | `MCEntry` | Forms, set-up, reload, unload and crash | 40,978 |

Four more runs, `stop_ends_heartbeat`, `no_overlap`, `dashboard_forecast` and
`charge_unmetered`, end in a counterexample: see below.

### Bounds

- `session`: interval 2, deadline 4, transaction and validation 1 tick each: at
  least two heartbeats fit, and the deadline can come in every phase. Two powers,
  one beyond the bound. Two guards, one with a revoked gate. Two register
  contents: `40151` readable or write-only, with a valid and an invalid failsafe.
  A log of two events is enough for "the latest event".
- `scheduled`, `manual`: two sessions, since every known way to lose
  or overlap one needs two; two targets where replacing a session matters;
  telemetry that is fresh for no more than one tick, so that it ages during a
  session. A session's name is free again once it is over and nobody waits for it,
  so behaviours with any number of successive sessions are covered. Sessions are
  interchangeable, hence the symmetry (never where liveness is checked).
- `runtime`: three rules: a low one with a cooldown and a hold of 6, longer than
  the watchdog waits, one with a hold of 3 that outranks it, and an equal of that. Gaps of
  1, 2 and 5 with a timeout of 4 lead to cycles
  within and beyond every hold, cooldown and the timeout. Relative times are cut
  off where no comparison changes any more, so the run is complete for these rules.
- `speedwire`: an inverter, a classified reporter and a stranger; a host that
  resolves to either of two addresses; a maximum age of 3 and a timeout of 2.
  `Horizon` cuts the age off one tick after the last one anything depends on.
- `closed_loop`: a charging rule that needs a measured export and holds for three
  ticks, a discharging rule that needs the absence of an export and a state of
  charge above 20, so below the reserve of 30; with and without the planner. As
  in the shipped options active control allows less (3) than the planner (4). A dim
  hour, whose surplus both allow, and a bright one, whose surplus only the planner does,
  in which the grid, the load or all entities are late (in `charge_unmetered`: none,
  or the grid becomes unusable). Batteries at the reserve, with
  and without a dead price source, above it while charging, and at the inverter's own
  floor of 60; with a forecast that first asks to charge and then to keep room, or
  without any. `MaxAge = 1` and a watchdog of 2 let data, entities and engine expire
  within a session of up to three ticks.
- `refresh`: three entries: own meters with a load from history, everything from
  the Energy Dashboard with two forecasts and three inverters, and inverters
  with a forecast each. Three consecutive failures pass the longest delay
  (2, 4, then cut at 5). Two hours and a cache of one tick are enough for every
  cache to be used, expire and be filled anew; two days of history, so that one
  can be missing.
- `entry`: forms filled with every combination of the control flags and five
  rule documents (none, not YAML, disabled, enabled, contradictory), the telemetry
  fields against each other, inverters typed, imported, malformed or collected up
  to two, over three dashboards, one of them with a fixed price;
  saved at most twice, so that a save meets what
  an earlier one left.

### Fairness

- `CommandSession`: weak fairness of every step of the running coroutine, and of
  the clock. The event loop runs what is ready, a transaction ends because the
  transport has a timeout, and time passes. Nothing is assumed of callers: nobody
  has to set the stop event or to cancel.
- `ActiveControl`: weak fairness of the steps of sessions, waiters and the clock,
  for the same reasons; none of the operator, of traffic or of starts. The order
  in which waiters wake is the event loop's.
- `Entry`: weak fairness of what Home Assistant and the event loop do on their
  own (set-up proceeds, platforms are unloaded, a coordinator that is told to
  stop does, a session ends by its duration) and of the inverter's fallback,
  which is the inverter's own timer. None of users, saves, dashboards or crashes.

### Disagreements between documentation and code

Each of these runs ends in a counterexample that the code can follow.
`PROJECT.json` quotes the line at issue.

| Run | What happens |
|---|---|
| `stop_ends_heartbeat` | `stop_active_control` sets an event no session polls; heartbeats go on until the session's own end. |
| `no_overlap` | A stop that returns late clears the task of a newer session; the next reconcile starts a second one beside it. |
| `dashboard_forecast` | A forecast of the Energy Dashboard is stamped with its last sample, hours ahead; validation refuses every intent of a refresh that has one. |
| `charge_unmetered` | The grid entity becomes unavailable while PV and load report: the grid state stays online without its power, the surplus is PV minus load alone (`safety.py:119`), and a charge is accepted and sent with no measured export to bound it. |

`no_overlap` needs a stop that returns late and clears a session it did not wait
for, and somebody who starts the next one. The run has the policy for the latter,
but the services alone do it too: a session ends while a stop waits for it, a
manual start comes before that stop returns and is forgotten by it, and the next
manual start finds nothing to exclude. That is why `Exclusive` is also checked as
a passing property where nobody but the policy starts and stops sessions.

In `charge_unmetered` the rule itself asks for an export. It was accepted while one
was measured, and is held when the grid entity is lost; a rule without such a
condition would do at once. What holds of every charge is `ChargedFromSun`.

Seven more properties are in the modules but in no run, because the code does
not keep them:

- `RecoveryReported` (`CommandSession`): the session is told to stop, captures
  its baseline and enters the recovery; the task is cancelled during the first
  write. `except Exception` (`control_adapter.py:351`) does not catch the
  cancellation: the call ends with writes missing, the log ends with
  `session_stopped`, and `_active` stays set.
- `RunForRestores` (`CommandSession`): a validation fails after the capture, the
  recovery begins, and the timer of `run_for` expires during it. The timeout
  replaces the error and is swallowed: `run_for` returns normally
  (`control_adapter.py:365`) although nothing was restored.
- `StopSupersedesRules` (`ActiveControl`, policy and operator): a reconcile waits
  for a session to stop; an operator asks for a stop of the same session; it
  ends, the reconcile wakes first and starts its target while the operator still
  waits (`coordinator.py:715`), and the operator then forgets the new session.
- `CooldownRespected` (`ControlRuntime`). With `MCSlowRule`: a rule with a cooldown
  of 6 fires, cycles follow for 4 without a decision, the watchdog expires and
  clears the cooldown, and the rule fires again (`runtime.py:53`). With
  `MCTwoRules`: the low rule is held, the high one matches and preempts it, which
  clears the cooldown, but is itself rejected; one cycle later the low rule is
  accepted afresh (`runtime.py:72`).
- `DisabledRulesSimulate` (`Entry`): a document says `enabled: false`, of which the
  form says that it is for simulation (`strings.json:82`); the parser checks the flag
  and drops it (`rules.py:41`); once control is commissioned and scheduled, its
  rules start sessions.
- `PlanNeverTooLarge` (`ClosedLoop`): the form calls the maximal charging power of
  the planner the upper bound of its recommendations and commands
  (`strings.json:89`). Shipped are 5000 W for it and 3000 W for active control
  (`const.py:58`), and no form relates the two. With a surplus above 3 kW
  the recommendation is limited by the 5000 W only (`coordinator.py:812`) and then
  validated against the smaller of the two (`coordinator.py:739`): it is refused as a
  whole, and the battery is not charged while the sun is strongest. `MCClosedLoop`
  gets there with the first refresh in the bright hour: all entities but the load
  report, a surplus of 4 is derived, the plan recommends 4, `ActiveMax` is 3 and
  nothing is wanted. `PlanAcceptable` names this as one of the reasons for a refusal.
- `StrangersLatched` (`SpeedwireMonitor`): an unknown sender is heard, the socket
  fails, the retry resolves the host to that sender's address, and the permission
  is published at once (`ownership.py:77`).

Some passing properties hold only where the run says so. `KeepsWatch` and with
it `SnapshotHonest` of `ActiveControl` fail with the policy: a refresh has computed
its result and waits for a session to stop, an unclassified sender is heard and
published, and the refresh then installs its older permission
(`coordinator.py:680`). `OwnershipImmediate` survives that as long as only the
policy starts and stops sessions, because no session is left to use the stale
permission (proved: `PolicyOwnership`); it fails with rules and services together,
where the start service, or a stop that forgets a session, leaves one running
while the refresh waits. That session then passes the validation of its next
heartbeat although a stranger was heard. `PriorityHonoured` fails
with `MCNamesakes`: two rules share an id, which the parser accepts; the lower
one is held, the higher one matches and passes for the held one
(`runtime.py:66`). `ForecastReached` speaks of a dashboard that stays as it is: one
that is configured after the options were saved fills nothing in.
`EstimateComplete` says that no incomplete estimate is used, not that one is made as
soon as it could be: a failed reading of the recorder is repeated only in the next
hour.

Met while modelling, below what a property of these models says:

- Options saved while the entry is being set up are not applied before the next
  reload: the update listener is registered last (`HA/__init__.py:68`).
- An optional field of the form is offered with its saved value as the default,
  so that a field a user clears is filled in again (`config_flow.py:592`).
- The Energy Dashboard's YAML is the default of the inverter field; a user who
  asks for profiles too is told `inverter_source_conflict` unless he clears it.
- The PV power of a site sums the inverters that are available: a sum is not
  marked as partial when one is missing.
- A merged state takes the latest of its parts' timestamps, which hides that
  another part is older.
- A charge of more than half of the surplus lowers the export that justifies it once
  the meters show it: the next refresh ends the session, and the one after it may
  start it again.
- `charge_limit_w` is read by planner and validation and set by nothing.
- The form takes a reserve up to 100, while the validation refuses every
  configuration whose reserve is above its maximum of 98: all plans and commands are
  then refused.
- A saved price entity and a fixed price of the dashboard are both filled in, and the
  form then refuses with `price_source_conflict` what the user did not type.
- A rule whose price thresholds exclude each other is accepted; contradictory
  thresholds of the state of charge are not.
- A battery at −1 W has the bits of the sentinel 0xFFFFFFFF and is withheld
  (`CORE/modbus/decoder.py:29`).

## Theorems

All proofs hold for every value of the constants that satisfies the named
`ASSUME` of the module; those only say that times are natural numbers, sets are
of the right kind and inputs have the fields they have in the code.

**CommandSession** (`SessionAssumption`). `Invariance` proves `TypeOK /\
SessionInv`. The properties are not inductive: that a heartbeat is armed depends
on what the preflight and the capture did several awaits earlier, and the
cadence on how the timers of a phase bound one another. `PhaseInv` says which call and
which captured values go with which phase; `TimerInv` bounds the timers in
each phase (for instance, in the wait, the time since the last heartbeat and the
time left to wait add up to no more than one interval and one transaction).
There is one lemma per group of actions. From it follow `ArmedHeartbeats`,
`Cadence` and `Duration`.

`TruthfulRecovery` proves `RestoredTruthfully` from one more invariant,
`RecoveryInv`: what has been read back is still in its register, and a recovery
that `restore_normal_operation` runs has neither a timer that could turn its
cancellation into a return nor an earlier error that could hide its failure. Of
all the ways a call can end, only the comparison of the readback is left
(`BodyEndsFailed`, `RecoveryShown`, `CancelledShown`).

`ContractKept` proves the refinement `KeepsContract`. The
phase is a function of the await and the call, so every action is a step of the
contract or leaves phase and setpoint alone. Two facts carry it: only a
heartbeat in flight can change the setpoint register (`SetpointKept`; writes of
the recovery and of the configuration never name it), and its value is within
the bound because the heartbeat was armed (`ArmedHeartbeats`). That leaving the
body of an armed session always leads into the recovery needs the invariant:
an armed session has captured its baseline.

`CallsAdvance` proves `CallAdvances`: the variant falls with every step of a
call, with its failures and cancellations and with the clock. `ClockInv` is what
it needs beside `IInv`: a transaction has not lasted longer than its limit, a
recovery has two writes left at most, a wait ends before the deadline.
`CallsBounded` adds the number: the time left is never more than six transactions
and the longest body, a sum of the limits. Only the fairness of the event loop
then separates these two from `CallEnds`.

**ActiveControl** (`ControlAssumption`). `TypeCorrect` holds for any number of
sessions, operators and targets. `HonestSnapshot` and `ImmediateOwnership` assume
`~Scheduled`: then no refresh is ever suspended between computing a permission
and installing it, so every step that changes the monitor or the snapshot leaves
them in agreement. Under `PolicyOnly` (no operator and no service starts a
session) `SingleOwner` proves the invariant `PolicyInv`, and `NeverOverlapping`,
`AlwaysTracked`, `TruthfulStatus` and `QuietUnload` follow. `Exclusive` alone is
not inductive: after an unload's stop has cleared the task, a refresh that waited
for the same session might start another one. What excludes it is who waits for
whom: `WaitingInv` says that a refresh and an unload that wait both wait for the
session the coordinator knows, and `SingleInv` that whoever may still launch a
session either knows the only live one or there is none. `QuietInv` carries the
end: once the observer is gone, the permission is withdrawn unless nothing runs.
Both assumptions are needed: `no_overlap` breaks one, `KeepsWatch` under the
policy the other.

`WatchKept` (`~Scheduled`) is the refinement of `SpeedwireWatch`. Services, ends
of sessions and refreshes write the snapshot too; each of these writes is a
`Report` while somebody listens and a stutter otherwise, the latter because a
permission is never held without a listener (`WatchInv`). `PolicyOwnership`
proves `OwnershipImmediate` a second time, under `PolicyOnly`, where snapshot and
monitor may disagree: `OwnedInv` says that they do only while no session lives.
A refresh that waited installs its stale permission after the session it waited
for is over, which with the refresh as the only one to start sessions means that
none is left (`AloneWhenStopped`); if it starts the next one itself it has judged
by the snapshot of that moment, not by its own.

`NobodyStuck` proves `FirstInLine` for any finite number of operators: of the
callers that wait for the same session one waits for no other. `QueueInv` says
that of two such callers one is ahead of the other, and that who is ahead of a
caller waits for the same session and has nobody ahead that the caller has not.
The head of the queue is the caller with the fewest ahead of it; that there is
one takes the well-foundedness of the numbers.

**SpeedwireMonitor** (`MonitorAssumption`). `Standing` is the strengthening: a
published permission was right when the current `receive` began, and the frame
it rests on is at most as much older than the maximum age as that `receive` has
waited. Steps that publish re-establish it (`PublicationHolds`), steps that do
not publish only let time pass. `Fresh` and `Earned` follow. `WatchKept` is the
refinement of `SpeedwireWatch`; beside `Standing` it needs that nobody has been
observed before the first frame (`Silent`), or a resolution could make a
stranger of a sender that was never heard.

**ControlRuntime** (`RuntimeAssumption`). `Cycles` proves the inductive invariant:
`Consistent` relates the last decision to what is held and fed, and `StampTrue`
says that the engine's stamp of the held intent is the time the history counts
since the cycle that accepted it afresh, however often it was continued, rejected
or left without a match since. `BoundedHold` and `RespectedHold` follow.
`BestIsFirst` proves that the choice of a rule
exists and is first in the order for every finite document; since induction
theorems are out of reach, it goes through the smallest counterexample.
`HonouredPriority` and `RespectedHold` assume that rules have different names;
with `MCNamesakes` both would be wrong.

**ClosedLoop** (`LoopAssumption`). `Loop` proves the inductive invariant `IInv`:
whichever entities report, each reading of a snapshot was shown for no longer than
the maximum age or is withheld, and a load it derives comes from readings of which
this holds; what it wants has a target and a duration within bounds and does not charge under
a plan that inhibits, a running session is the one the installed decision wants,
and what was last sent was measured and safe. From it follow `SunCharges`,
`ReserveHolds`, `DecisionsFollowed`, `RoomIsKept` and `TypeCorrect`. The one step
that needs work is the heartbeat: `Accepted` is taken apart into what it says of
freshness, surplus and reserve, and the age of the data added to the age the
meters had. `EngineRuns` proves `Spec => Engine!Spec`: every refresh is a cycle
`ControlRuntime` allows, with gaps of any length, and every other step leaves the
engine alone. So what is proved of the engine alone holds of it in the loop.
`PlansAccepted` compares planner and validation, each of which computes the surplus
itself: a recommendation is never larger than the surplus the validation allows
(`PlanWithinSurplus`), and of the validation's other checks only those can fail that
`PlanAcceptable` names (`RecommendationStands`): the battery's state, a dead or stale
price or forecast, a power above `ActiveMax`, a reserve above the maximum state of
charge. It assumes `PlannerSound`: the ranges of the form and of the code's own
defaults, and commands and grid states that differ from the mark of absence.
Nothing is assumed of how the limits relate, because no form relates them.

**Refresh** (`RefreshAssumption` and `NoneApart`: the mark of absence is no set
with one source). The properties speak of a refresh that has ended, but what
makes them true happens up to five awaits, or a cached hour, earlier. `Collected`
proves `IInv`, which adds `PartInv`, what each provider may have contributed in
each phase, and `CacheInv`, what the two caches may hold. From it follow
`EstimatesWhole` and `ForecastsWhole`, for any options, any
entities and any number of inverters. `OutagesBackOff` proves `OutageBacksOff`
for every base and longest delay. The delay doubles, and `PowerOfTwo` is a
recursive function: `PowerOfTwoDefined` and `Doubling` establish what it is by
the smallest counterexample instead of an induction, `DelayGrows` that the delay
never shrinks with the failures, and `BackoffInv` that the delay in force is no
longer than the one the next failure would set. `TypeCorrect` proves `TypeOK`,
the bounds of the delay among it; `SourcedInv` follows the time stamps of a
refresh in progress from provider to provider, up to the merged state.

**Entry** (`EntryAssumption`, `InputsAssumption`). `Lasting` proves `IInv`: what
the inverter form holds in suspense has passed the checks and is not complete
(`FormInv`); what was saved loads, whichever form saved it (`OptionsInv`); a
session needs the observer, the observer a coordinator (`RunningInv`). The
properties are not inductive because options pass through the inverter form
between the check and the save. `OptionsWork`, `ForecastReachable`, `CleanSlate`
and `TypeCorrect` follow. Two more are the safety under the two liveness
properties. `CommandsGuarded`: a command is in force only with the fallback
configured, and a session only with an observer. `ReloadNeverLost`
(`ReloadAdvances`): a reload that is due stays due until the next reading begins,
each step that moves the entry lowers its distance, crashes and failing set-ups
included, and while the unload waits no session starts that it would have to
wait for.

**Registers** (no assumption). `SetpointArrives`: every signed 32-bit setpoint
becomes two words that decode to it. `ReadingsGenuine`: a reading is withheld
exactly for its sentinels. `ConfiguredVerifies`: what `configure_failsafe` writes
passes `verify_failsafe`. `ReportAgrees`: commissioning report and preflight agree
on every content of the registers.

**Only model-checked**: the four liveness properties, since temporal properties
under fairness are out of the prover's reach. What each needs beside fairness
is proved for every value of the constants:

| Property | Proved beneath it |
|---|---|
| `CallEnds` | `CallsAdvance`, `CallsBounded`: a variant that every step lowers, and its bound |
| `StopReturns` | `NobodyStuck`: the queue of the callers has a head; `TypeCorrect` bounds the time a session has left |
| `CommandsEnd` | `CommandsGuarded`: the fallback is there whenever a command is |
| `ReloadSettles` | `ReloadNeverLost`: nothing forgets the reload or takes the entry further from it |

That the steps in question are enabled until they are taken is left to TLC.

The other way round, `SnapshotHonest`, `FirstInLine`, `PermissionEarned`,
`ExpiryRecovers`, `CommandGuarded` and `ReloadAdvances` are in no run: theorems
state them for every instance.

## Not modelled

- **The predictive backtest** (`backtest_predictive_day` of `predictive.py`): a replay of
  recorded samples that only tests call.
- **Arithmetic on the recorder's history and the walk through the dashboard's
  preferences**: a history has its days or not, a dashboard names its entities or
  misses some. Units of a reading are usable or not.
- **Speedwire frame decoder**: a function from bytes; but for the sender, nothing
  in the program uses its result.
- **Simulation actuator**: an append-only trace of accepted intents.
- **Entities, diagnostics, models, command line, scripts**: views and records
  without state of their own.
- **YAML and clock times** of rule documents, numeric ranges of form fields,
  labels, formatting and logging.
- **Clock jumps**: time only moves forward. Frames and readings from the future
  are cases of the validation.

## Plan

Done: every component that keeps state, the pure ones on which commands depend,
and proofs about every module with behaviour of its own (`Safety` and `Predictive`
are operators; `ClosedLoopProofs` proves what is needed of them). Left:

1. `SessionLifecycle`: an abstract session implemented both by `CommandSession`
   and by the sessions of `ActiveControl`, so that the two meet formally as the
   two monitors do in `SpeedwireWatch`.
2. Set-up racing saves in `Entry` with the update listener registered first, to
   show what that change of order would give.
3. The replay and the backtest of predictive plans, once something but tests
   depends on them.
