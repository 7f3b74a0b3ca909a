----------------------------- MODULE EntryProofs -----------------------------
(***************************************************************************)
(* What the entry's forms save can be loaded, nothing is inherited by a    *)
(* set-up, a retry or a restart, and a reload that is due comes nearer,    *)
(* whatever is filled in and in whichever order set-up, unload, saves and  *)
(* crashes follow each other.                                              *)
(***************************************************************************)
EXTENDS Entry, FiniteSetTheorems, TLAPS

(* A record with the fields of the options, as the form hands it on.       *)
IsInput(in) == DOMAIN in = DOMAIN Nothing /\ in.profiles \in Nat

(* What the checks of the form leave true of the options it saves.         *)
Sound(o) ==
  /\ RulesParse(o.rules, o.active /\ o.scheduled)
  /\ o.active => o.confirmed
  /\ dashboard.configured => o.loadForecast \/ (o.estimate /\ o.load)

FormInv ==
  /\ form.at # "closed" => entry # "none" /\ saves < MaxSaves
  /\ form.at = "inverter" =>
       /\ IsInput(form.pending) /\ Sound(form.pending)
       /\ form.collected \subseteq Profiles
       /\ Cardinality(form.collected) < form.pending.profiles

OptionsInv ==
  /\ saves \in 0..MaxSaves
  /\ options # None => entry # "none"
  /\ entry # "none" =>
       /\ Loads(options) /\ (options.active => options.confirmed)
       /\ options.profiles = 0 /\ options.inverters # Imported
  /\ saves > 0 => Sound(options) /\ entry # "none"

States == {"none", "new", "refreshing", "retry", "forwarding", "loaded", "unloading",
           "stopping", "failed"}

EntryInv ==
  /\ entry \in States
  /\ then \in {"new", "failed"}
  /\ reload \in BOOLEAN /\ derived \in BOOLEAN /\ listening \in BOOLEAN
  /\ session \in {None, "manual", "rules", "plan"}
  /\ inverter \in {"own", "commanded"}
  /\ form.at \in {"closed", "open", "inverter"}

(* A session needs the observer, the observer a coordinator that has read  *)
(* the device once, and neither survives the wait of an unload.            *)
RunningInv ==
  /\ entry \in {"none", "new", "retry", "failed"} => running = None
  /\ listening => entry \in {"forwarding", "loaded", "unloading", "stopping"}
  /\ session # None => listening

IInv == FormInv /\ OptionsInv /\ EntryInv /\ RunningInv

-----------------------------------------------------------------------------
(* Saving changes two fields.                                              *)
LEMMA SavedFields ==
  ASSUME NEW in, IsInput(in), NEW v
  PROVE  LET o == [in EXCEPT !.profiles = 0, !.inverters = v]
         IN  /\ o.profiles = 0 /\ o.inverters = v
             /\ o.rules = in.rules /\ o.active = in.active /\ o.scheduled = in.scheduled
             /\ o.confirmed = in.confirmed /\ o.load = in.load /\ o.estimate = in.estimate
             /\ o.loadForecast = in.loadForecast
BY DEF IsInput, Nothing

(* The form hands on a record whose load is the typed, saved or derived one*)
LEMMA FilledFields ==
  ASSUME NEW typed, IsInput(typed)
  PROVE  /\ IsInput(Filled(typed))
         /\ Filled(typed).load = (typed.load \/ options.load \/ derived)
         /\ Filled(typed).estimate = typed.estimate
<1>1. DOMAIN Filled(typed) = DOMAIN typed
  BY DEF Filled
<1>2. Filled(typed).profiles = typed.profiles
  BY DEF IsInput, Filled, Nothing
<1>3. Filled(typed).load = (typed.load \/ options.load \/ derived)
  BY DEF IsInput, Filled, Nothing
<1>4. Filled(typed).estimate = typed.estimate
  BY DEF IsInput, Filled, Nothing
<1> QED BY <1>1, <1>2, <1>3, <1>4 DEF IsInput

LEMMA InitHolds == Init => IInv
<1> SUFFICES ASSUME Init PROVE IInv
  OBVIOUS
<1>1. FormInv
  BY DEF Init, FormInv, Closed
<1>2. OptionsInv
  BY EntryAssumption DEF Init, OptionsInv
<1>3. EntryInv
  BY DEF Init, EntryInv, States, Closed
<1>4. RunningInv
  BY DEF Init, RunningInv
<1> QED BY <1>1, <1>2, <1>3, <1>4 DEF IInv

(* What passed the form can be loaded once it is saved.                    *)
LEMMA SaveHolds ==
  ASSUME IInv, form.at # "closed",
         NEW in, IsInput(in), Sound(in), InvertersParse(in.inverters), Save(in),
         UNCHANGED <<dashboard, derived, entry, then, coordinatorVars, failsafe>>
  PROVE  IInv'
<1> DEFINE kept == IF in.inverters = Imported THEN None ELSE in.inverters
<1>1. options' = [in EXCEPT !.profiles = 0, !.inverters = kept]
  BY DEF Save, IsInput, Nothing
<1>2. /\ options'.profiles = 0 /\ options'.inverters = kept
      /\ options'.rules = in.rules /\ options'.active = in.active
      /\ options'.scheduled = in.scheduled /\ options'.confirmed = in.confirmed
      /\ options'.load = in.load /\ options'.estimate = in.estimate
      /\ options'.loadForecast = in.loadForecast
  BY <1>1, SavedFields
<1>3. kept # Imported /\ InvertersParse(kept)
  BY InputsAssumption DEF InvertersParse
<1>4. Sound(options)'
  BY <1>2 DEF Sound
<1>5. Loads(options')
  BY <1>2, <1>3 DEF Sound, Loads
<1>6. saves' \in 0..MaxSaves /\ form'.at = "closed" /\ entry # "none"
  BY EntryAssumption DEF IInv, FormInv, OptionsInv, Save, Closed
<1>7. FormInv'
  BY <1>6 DEF FormInv
<1>8. OptionsInv'
  <2>1. options'.active => options'.confirmed
    BY <1>2 DEF Sound
  <2> QED BY <1>2, <1>3, <1>4, <1>5, <1>6, <2>1 DEF OptionsInv
<1>9. EntryInv'
  <2>1. reload' \in BOOLEAN
    BY DEF Save, IInv, EntryInv, Listening
  <2> QED BY <1>6, <2>1 DEF IInv, EntryInv, coordinatorVars
<1>10. RunningInv'
  BY DEF IInv, RunningInv, coordinatorVars
<1> QED BY <1>7, <1>8, <1>9, <1>10 DEF IInv

LEMMA SubmitHolds ==
  ASSUME IInv, NEW typed \in Inputs, Submit(typed)
  PROVE  IInv'
<1>0. PICK in : in = Filled(typed)
  OBVIOUS
<1>1. IsInput(typed)
  BY InputsAssumption DEF IsInput
<1>2. IsInput(in)
  BY <1>0, <1>1, FilledFields
<1>3. Acceptable(in) /\ form.at = "open"
  BY <1>0 DEF Submit
<1>4. Sound(in)
  <2>1. RulesParse(in.rules, in.active /\ in.scheduled) /\ (in.active => in.confirmed)
    BY <1>3 DEF Acceptable, DocumentsParse, Commissioned
  <2>2. dashboard.configured => in.loadForecast \/ (in.estimate /\ HasLoad(in))
    BY <1>3 DEF Acceptable, DashboardCovered, HasLoadForecast
  <2>3. HasLoad(in) => in.load
    BY <1>0, <1>1, FilledFields DEF HasLoad
  <2> QED BY <2>1, <2>2, <2>3 DEF Sound
<1>5. InvertersParse(in.inverters)
  BY <1>3 DEF Acceptable, DocumentsParse
<1>6. CASE in.profiles = 0
  <2>1. Save(in) /\ UNCHANGED <<dashboard, derived, entry, then, coordinatorVars, failsafe>>
    BY <1>0, <1>6 DEF Submit
  <2> QED BY <1>2, <1>3, <1>4, <1>5, <2>1, SaveHolds
<1>7. CASE in.profiles # 0
  <2>1. /\ form' = [at |-> "inverter", pending |-> in, collected |-> {}]
        /\ UNCHANGED <<options, saves, reload, dashboard, derived, entry, then,
                       coordinatorVars, failsafe>>
    BY <1>0, <1>7 DEF Submit
  <2>2. Cardinality({}) < in.profiles
    BY <1>2, <1>7, FS_EmptySet DEF IsInput
  <2>3. Sound(in)'
    BY <1>4, <2>1 DEF Sound
  <2>4. FormInv'
    BY <1>2, <1>3, <2>1, <2>2, <2>3 DEF IInv, FormInv, Sound
  <2>5. OptionsInv'
    BY <2>1 DEF IInv, OptionsInv, Sound
  <2>6. EntryInv' /\ RunningInv'
    BY <2>1 DEF IInv, EntryInv, RunningInv, coordinatorVars
  <2> QED BY <2>4, <2>5, <2>6 DEF IInv
<1> QED BY <1>6, <1>7

LEMMA SubmitProfileHolds ==
  ASSUME IInv, NEW p \in Profiles, SubmitProfile(p)
  PROVE  IInv'
<1>0. PICK collected, in : /\ collected = form.collected \cup {p}
                           /\ in = [form.pending EXCEPT !.inverters = collected]
  OBVIOUS
<1>1. /\ form.at = "inverter" /\ InvertersParse(collected)
      /\ IsInput(form.pending) /\ Sound(form.pending)
      /\ form.collected \subseteq Profiles
  BY <1>0 DEF SubmitProfile, ProfileAcceptable, IInv, FormInv
<1>2. CASE Cardinality(collected) < form.pending.profiles
  <2>1. /\ form' = [form EXCEPT !.collected = collected]
        /\ UNCHANGED <<options, saves, reload, dashboard, derived, entry, then,
                       coordinatorVars, failsafe>>
    BY <1>0, <1>2 DEF SubmitProfile
  <2>2. form'.at = "inverter" => /\ form'.pending = form.pending
                                 /\ form'.collected \in {form.collected, collected}
    BY <2>1
  <2>3. form'.at \in {form.at, "inverter"}
    BY <2>1
  <2>4. FormInv'
    BY <1>0, <1>1, <1>2, <2>1, <2>2, <2>3 DEF IInv, FormInv, Sound
  <2>5. OptionsInv'
    BY <2>1 DEF IInv, OptionsInv, Sound
  <2>6. EntryInv'
    BY <2>1, <2>3 DEF IInv, EntryInv, coordinatorVars
  <2>7. RunningInv'
    BY <2>1 DEF IInv, RunningInv, coordinatorVars
  <2> QED BY <2>4, <2>5, <2>6, <2>7 DEF IInv
<1>3. CASE ~(Cardinality(collected) < form.pending.profiles)
  <2>1. Save(in) /\ UNCHANGED <<dashboard, derived, entry, then, coordinatorVars, failsafe>>
    BY <1>0, <1>3 DEF SubmitProfile
  <2>2. DOMAIN in = DOMAIN Nothing /\ in.profiles = form.pending.profiles
    BY <1>0, <1>1 DEF IsInput, Nothing
  <2>3. /\ in.rules = form.pending.rules /\ in.active = form.pending.active
        /\ in.scheduled = form.pending.scheduled /\ in.confirmed = form.pending.confirmed
        /\ in.load = form.pending.load /\ in.estimate = form.pending.estimate
        /\ in.loadForecast = form.pending.loadForecast
        /\ in.inverters = collected
    BY <1>0, <1>1 DEF IsInput, Nothing
  <2>4. IsInput(in) /\ Sound(in) /\ InvertersParse(in.inverters)
    BY <1>1, <2>2, <2>3 DEF IsInput, Sound
  <2> QED BY <1>1, <2>1, <2>4, SaveHolds
<1> QED BY <1>2, <1>3

(* The steps that save nothing.                                            *)
LEMMA CreateHolds == IInv /\ Create => IInv'
<1> SUFFICES ASSUME IInv, Create PROVE IInv'
  OBVIOUS
<1>1. /\ options'.profiles = 0 /\ options'.inverters = None /\ options'.rules = None
      /\ options'.active = FALSE
  BY DEF Create, Nothing
<1>2. Loads(options') /\ None # Imported
  BY <1>1, InputsAssumption DEF Loads, RulesParse, InvertersParse
<1>3. FormInv' /\ OptionsInv'
  BY <1>1, <1>2 DEF IInv, FormInv, OptionsInv, Create
<1>4. EntryInv' /\ RunningInv'
  BY DEF IInv, EntryInv, RunningInv, States, Create, coordinatorVars
<1> QED BY <1>3, <1>4 DEF IInv

(* Whatever leaves the options, the form and the dashboard alone keeps what*)
(* is known of them, as long as the entry remains.                         *)
LEMMA OptionsRemain ==
  ASSUME IInv, entry # "none", entry' # "none", UNCHANGED <<formVars, dashboard>>
  PROVE  FormInv' /\ OptionsInv'
<1>1. UNCHANGED <<options, saves, form, dashboard>>
  BY DEF formVars
<1>2. FormInv'
  BY <1>1 DEF IInv, FormInv, Sound
<1>3. OptionsInv'
  BY <1>1 DEF IInv, OptionsInv, Sound
<1> QED BY <1>2, <1>3

LEMMA LifecycleHolds == IInv /\ Lifecycle => IInv'
<1> SUFFICES ASSUME IInv, Lifecycle PROVE IInv'
  OBVIOUS
<1>1. UNCHANGED <<formVars, dashboard>>
  BY DEF Lifecycle, SetUp, FirstRefreshFails, FirstRefresh, Forwarded, ForwardFails, Reload,
         PlatformsUnloaded, Stopped
<1>2. entry # "none"
  BY DEF Lifecycle, SetUp, FirstRefreshFails, FirstRefresh, Forwarded, ForwardFails, Reload,
         PlatformsUnloaded, Stopped
<1>3. entry' # "none" /\ EntryInv' /\ RunningInv'
  <2>1. CASE SetUp
    <3>1. Loads(options)
      BY <1>2 DEF IInv, OptionsInv
    <3> QED BY <2>1, <3>1 DEF IInv, EntryInv, RunningInv, States, SetUp, formVars
  <2>2. CASE FirstRefreshFails
    BY <2>2 DEF IInv, EntryInv, RunningInv, States, FirstRefreshFails, formVars
  <2>3. CASE FirstRefresh
    BY <2>3 DEF IInv, EntryInv, RunningInv, States, FirstRefresh, formVars
  <2>4. CASE Forwarded
    BY <2>4 DEF IInv, EntryInv, RunningInv, States, Forwarded, formVars, coordinatorVars
  <2>5. CASE ForwardFails
    BY <2>5 DEF IInv, EntryInv, RunningInv, States, ForwardFails, formVars, coordinatorVars
  <2>6. CASE Reload
    BY <2>6 DEF IInv, EntryInv, RunningInv, States, Reload, formVars, coordinatorVars
  <2>7. CASE PlatformsUnloaded
    BY <2>7 DEF IInv, EntryInv, RunningInv, States, PlatformsUnloaded, formVars,
                coordinatorVars
  <2>8. CASE Stopped
    BY <2>8 DEF IInv, EntryInv, RunningInv, States, Stopped, formVars
  <2> QED BY <2>1, <2>2, <2>3, <2>4, <2>5, <2>6, <2>7, <2>8 DEF Lifecycle
<1> QED BY <1>1, <1>2, <1>3, OptionsRemain DEF IInv

LEMMA StartsHolds ==
  ASSUME IInv, NEW kind \in {"manual", "rules", "plan"}, Starts(kind)
  PROVE  IInv'
<1>1. entry # "none" /\ entry' = entry
  BY DEF IInv, RunningInv, Starts
<1>2. EntryInv' /\ RunningInv'
  BY DEF IInv, EntryInv, RunningInv, Starts, formVars
<1>3. UNCHANGED <<formVars, dashboard>>
  BY DEF Starts
<1> QED BY <1>1, <1>2, <1>3, OptionsRemain DEF IInv

LEMMA SessionStepsHold == IInv /\ (SessionEnds \/ Fallback) => IInv'
<1> SUFFICES ASSUME IInv, SessionEnds \/ Fallback PROVE IInv'
  OBVIOUS
<1>1. UNCHANGED <<options, saves, form, dashboard, entry, then, reload, derived, running,
                  listening>>
  BY DEF SessionEnds, Fallback, formVars
<1>2. session' \in {session, None} /\ inverter' = "own"
  BY DEF SessionEnds, Fallback
<1>3. FormInv' /\ OptionsInv'
  BY <1>1 DEF IInv, FormInv, OptionsInv, Sound
<1>4. EntryInv' /\ RunningInv'
  BY <1>1, <1>2 DEF IInv, EntryInv, RunningInv
<1> QED BY <1>3, <1>4 DEF IInv

LEMMA FormStepsHold == IInv /\ (OpenForm \/ CloseForm) => IInv'
<1> SUFFICES ASSUME IInv, OpenForm \/ CloseForm PROVE IInv'
  OBVIOUS
<1>1. UNCHANGED <<options, saves, dashboard, derived, entry, then, reload, running,
                  listening, session, inverter>>
  BY DEF OpenForm, CloseForm, coordinatorVars
<1>2. form'.at \in {"open", "closed"}
  BY DEF OpenForm, CloseForm, Closed
<1>3. form'.at = "open" => entry # "none" /\ saves < MaxSaves
  BY DEF IInv, OptionsInv, OpenForm, CloseForm, Closed
<1>4. FormInv' /\ OptionsInv'
  BY <1>1, <1>2, <1>3 DEF IInv, FormInv, OptionsInv, Sound
<1>5. EntryInv' /\ RunningInv'
  BY <1>1, <1>2 DEF IInv, EntryInv, RunningInv
<1> QED BY <1>4, <1>5 DEF IInv

LEMMA CrashHolds == IInv /\ Crash => IInv'
<1> SUFFICES ASSUME IInv, Crash PROVE IInv'
  OBVIOUS
<1>1. UNCHANGED <<options, saves, dashboard, derived, then, inverter>> /\ entry # "none"
  BY DEF IInv, OptionsInv, Crash
<1>2. form'.at = "closed" /\ entry' = "new"
  BY DEF Crash, Closed
<1>3. FormInv' /\ OptionsInv'
  BY <1>1, <1>2 DEF IInv, FormInv, OptionsInv, Sound
<1>4. EntryInv' /\ RunningInv'
  BY <1>1, <1>2 DEF IInv, EntryInv, RunningInv, States, Crash
<1> QED BY <1>3, <1>4 DEF IInv

LEMMA NextHolds == IInv /\ [Next]_vars => IInv'
<1> SUFFICES ASSUME IInv, [Next]_vars PROVE IInv'
  OBVIOUS
<1>1. CASE Create
  BY <1>1, CreateHolds
<1>2. CASE OpenForm \/ CloseForm
  BY <1>2, FormStepsHold
<1>3. ASSUME NEW in \in Inputs, Submit(in) PROVE IInv'
  BY <1>3, SubmitHolds
<1>4. ASSUME NEW p \in Profiles, SubmitProfile(p) PROVE IInv'
  BY <1>4, SubmitProfileHolds
<1>5. CASE Lifecycle
  BY <1>5, LifecycleHolds
<1>6. CASE Crash
  BY <1>6, CrashHolds
<1>7. CASE StartManually
  BY <1>7, StartsHolds DEF StartManually
<1>8. ASSUME NEW kind \in {"rules", "plan"}, StartScheduled(kind) PROVE IInv'
  BY <1>8, StartsHolds DEF StartScheduled
<1>9. CASE SessionEnds \/ Fallback
  BY <1>9, SessionStepsHold
<1>10. CASE UNCHANGED vars
  BY <1>10 DEF vars, formVars, coordinatorVars, IInv, FormInv, OptionsInv, EntryInv,
               RunningInv, Sound
<1> QED BY <1>1, <1>2, <1>3, <1>4, <1>5, <1>6, <1>7, <1>8, <1>9, <1>10 DEF Next, User

-----------------------------------------------------------------------------
(* The invariant holds for every form, dashboard and sequence of steps.    *)
THEOREM Lasting == Spec => []IInv
  BY InitHolds, NextHolds, PTL DEF Spec

(* The types, and: what the form is still collecting is never complete.    *)
THEOREM TypeCorrect == Spec => []TypeOK
<1>1. IInv => TypeOK
  BY DEF IInv, FormInv, OptionsInv, EntryInv, States, TypeOK
<1> QED BY <1>1, Lasting, PTL

(* A coordinator can be built from whatever was saved (config_flow.py and  *)
(* PowerManagerCoordinator.__init__ parse the same documents).             *)
THEOREM OptionsWork == Spec => []SavedOptionsWork
<1>1. IInv => SavedOptionsWork
  BY DEF IInv, OptionsInv, EntryInv, States, Gates, SavedOptionsWork
<1> QED BY <1>1, Lasting, PTL

(* The form's promise of a load forecast survives its defaults and saves.  *)
THEOREM ForecastReachable == Spec => []ForecastReached
<1>1. IInv => ForecastReached
  BY DEF IInv, OptionsInv, Sound, ForecastReached
<1> QED BY <1>1, Lasting, PTL

(* No observer and no session without a coordinator.                       *)
THEOREM CleanSlate == Spec => []NothingLeft
<1>1. IInv => NothingLeft
  BY DEF IInv, EntryInv, RunningInv, States, NothingLeft
<1> QED BY <1>1, Lasting, PTL

-----------------------------------------------------------------------------
(* A session has found a fallback before its first write, and ends with    *)
(* its command or leaves it to that fallback.                              *)
THEOREM CommandsGuarded == Spec => []CommandGuarded
<1>1. Init => CommandGuarded
  BY DEF Init, CommandGuarded
<1>2. IInv /\ CommandGuarded /\ [Next]_vars => CommandGuarded'
  <2> SUFFICES ASSUME IInv, CommandGuarded, [Next]_vars PROVE CommandGuarded'
    OBVIOUS
  <2>1. CASE User
    BY <2>1 DEF User, Create, OpenForm, CloseForm, Submit, SubmitProfile, coordinatorVars,
                CommandGuarded
  <2>2. CASE Lifecycle
    BY <2>2 DEF Lifecycle, SetUp, FirstRefreshFails, FirstRefresh, Forwarded, ForwardFails,
                Reload, PlatformsUnloaded, Stopped, coordinatorVars, CommandGuarded
  <2>3. CASE Crash
    BY <2>3 DEF Crash, CommandGuarded
  <2>4. CASE StartManually \/ \E kind \in {"rules", "plan"} : StartScheduled(kind)
    BY <2>4 DEF StartManually, StartScheduled, Starts, Prepared, CommandGuarded
  <2>5. CASE SessionEnds \/ Fallback
    BY <2>5 DEF SessionEnds, Fallback, CommandGuarded
  <2>6. CASE UNCHANGED vars
    BY <2>6 DEF vars, coordinatorVars, CommandGuarded
  <2> QED BY <2>1, <2>2, <2>3, <2>4, <2>5, <2>6 DEF Next
<1> QED BY <1>1, <1>2, Lasting, PTL DEF Spec

-----------------------------------------------------------------------------
(* An unload is the first half of a reload.                                *)
ReloadInv == entry = "unloading" => then = "new"

LEMMA UnloadReloads == IInv /\ ReloadInv /\ [Next]_vars => ReloadInv'
<1> SUFFICES ASSUME IInv, ReloadInv, [Next]_vars PROVE ReloadInv'
  OBVIOUS
<1>1. CASE User
  BY <1>1 DEF User, Create, OpenForm, CloseForm, Submit, SubmitProfile, ReloadInv
<1>2. CASE Lifecycle
  BY <1>2 DEF Lifecycle, SetUp, FirstRefreshFails, FirstRefresh, Forwarded, ForwardFails,
              Reload, PlatformsUnloaded, Stopped, ReloadInv, IInv, EntryInv
<1>3. CASE Crash
  BY <1>3 DEF Crash, ReloadInv
<1>4. CASE UNCHANGED <<entry, then>>
  BY <1>4 DEF ReloadInv
<1> QED BY <1>1, <1>2, <1>3, <1>4 DEF Next, StartManually, StartScheduled, Starts, SessionEnds,
           Fallback, vars

(* What one step may do to a reload that is due.                           *)
Advances ==
  /\ ReloadDue' \/ entry' = "refreshing"
  /\ entry' # entry => Distance' < Distance
  /\ entry \in {"stopping", "new"} => session' \in {session, None}

(* Nothing but the entry's own life and a restart moves it.                *)
LEMMA EntryRests ==
  ASSUME ReloadDue, UNCHANGED <<entry, then>>, reload => reload',
         entry \in {"stopping", "new"} => session' \in {session, None}
  PROVE  Advances
BY DEF Advances, ReloadDue

LEMMA UserAdvances == IInv /\ ReloadDue /\ User => Advances
<1> SUFFICES ASSUME IInv, ReloadDue, User PROVE Advances
  OBVIOUS
<1>1. CASE Create
  BY <1>1 DEF Create, Advances, ReloadDue, Distance, coordinatorVars
<1>2. CASE ~Create
  <2>1. UNCHANGED <<entry, then, session>>
    BY <1>2 DEF User, OpenForm, CloseForm, Submit, SubmitProfile, coordinatorVars
  <2>2. reload => reload'
    BY <1>2 DEF User, OpenForm, CloseForm, Submit, SubmitProfile, Save
  <2> QED BY <2>1, <2>2, EntryRests
<1> QED BY <1>1, <1>2

LEMMA LifecycleAdvances ==
  ASSUME IInv, ReloadInv, ReloadDue, entry # "refreshing", Lifecycle
  PROVE  Advances
<1>1. CASE SetUp
  <2>1. Loads(options)
    BY <1>1 DEF IInv, OptionsInv, SetUp
  <2>2. entry = "new" /\ entry' = "refreshing" /\ session' = session
    BY <1>1, <2>1 DEF SetUp, ReloadDue
  <2> QED BY <2>2 DEF Advances, Distance
<1>2. CASE Forwarded
  BY <1>2 DEF Forwarded, Advances, ReloadDue, Distance, coordinatorVars
<1>3. CASE ForwardFails
  BY <1>3 DEF ForwardFails, Advances, ReloadDue, Distance, coordinatorVars
<1>4. CASE Reload
  BY <1>4 DEF Reload, Advances, ReloadDue, Distance, coordinatorVars
<1>5. CASE PlatformsUnloaded
  BY <1>5 DEF PlatformsUnloaded, Advances, ReloadDue, ReloadInv, Distance, coordinatorVars
<1>6. CASE Stopped
  <2>1. then \in {"new", "failed"}
    BY DEF IInv, EntryInv
  <2> QED BY <1>6, <2>1 DEF Stopped, Advances, ReloadDue, Distance
<1> QED BY <1>1, <1>2, <1>3, <1>4, <1>5, <1>6 DEF Lifecycle, FirstRefresh, FirstRefreshFails

LEMMA CrashAdvances ==
  ASSUME IInv, ReloadDue, entry # "refreshing", Crash
  PROVE  Advances
<1>1. entry' = "new" /\ session' = None /\ then' = then
  BY DEF Crash
<1>2. Distance' = 1
  BY <1>1 DEF Distance
<1>3. entry # "new" => Distance > 1
  BY DEF IInv, EntryInv, States, Distance
<1> QED BY <1>1, <1>2, <1>3 DEF Advances, ReloadDue

(* A reload that is due is never forgotten, and no order of saves, failing *)
(* set-ups, sessions and restarts keeps the entry from coming nearer to it *)
(* (async_unload_entry, async_reload_entry and the update listener).       *)
THEOREM ReloadNeverLost == Spec => ReloadAdvances
<1>1. Init => ReloadInv
  BY DEF Init, ReloadInv
<1>2. IInv /\ ReloadInv /\ [Next]_vars =>
        [ReloadDue /\ entry # "refreshing" => Advances]_vars
  <2> SUFFICES ASSUME IInv, ReloadInv, Next, ReloadDue, entry # "refreshing" PROVE Advances
    OBVIOUS
  <2>1. CASE User
    BY <2>1, UserAdvances
  <2>2. CASE Lifecycle
    BY <2>2, LifecycleAdvances
  <2>3. CASE Crash
    BY <2>3, CrashAdvances
  <2>4. CASE StartManually \/ \E kind \in {"rules", "plan"} : StartScheduled(kind)
    <3>1. UNCHANGED <<entry, then, reload>> /\ entry \notin {"stopping", "new"}
      BY <2>4 DEF StartManually, StartScheduled, Starts
    <3> QED BY <3>1, EntryRests
  <2>5. CASE SessionEnds \/ Fallback
    <3>1. UNCHANGED <<entry, then, reload>> /\ session' \in {session, None}
      BY <2>5 DEF SessionEnds, Fallback
    <3> QED BY <3>1, EntryRests
  <2> QED BY <2>1, <2>2, <2>3, <2>4, <2>5 DEF Next
<1>3. Spec => [][ReloadDue /\ entry # "refreshing" => Advances]_vars
  BY <1>1, <1>2, Lasting, UnloadReloads, PTL DEF Spec
<1> QED BY <1>3 DEF ReloadAdvances, Advances
=============================================================================
