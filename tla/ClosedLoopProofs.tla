-------------------------- MODULE ClosedLoopProofs --------------------------
(***************************************************************************)
(* The closed loop for every site, rule document and choice of limits: it  *)
(* runs the rule engine as ControlRuntime specifies it, and what it        *)
(* commands is justified by what was measured.                             *)
(***************************************************************************)
EXTENDS ClosedLoop, SequenceTheorems, TLAPS

(* A snapshot of the telemetry with the command its decision asks for.     *)
(* Every reading in it was shown for no longer than the maximum age.       *)
Power == Int \cup {None}
Measured(s) ==
  /\ s.lag \in 0..MaxAge /\ s.energy.timestamp = 0
  /\ s.energy.battery.soc \in 0..100
  /\ s.energy.battery.socFloor \in (0..100) \cup {None}
  /\ {s.energy.grid.power, s.energy.grid.pv, s.energy.grid.load} \subseteq Power

Deciding(s) ==
  /\ s.wanted # None => s.wanted.target \in Int /\ s.wanted.for \in 1..MaxDuration
  /\ planned /\ s.plan # None =>
       (s.plan.inhibit /\ s.wanted # None => s.wanted.target < 0)

SnapshotInv(s) == s # None => Measured(s) /\ Deciding(s)

SiteInv ==
  /\ planned \in BOOLEAN
  /\ since \in 0..SinceCap
  /\ meter \in [Entities -> [value : Power, age : 0..AgeCap]]
  /\ age \in 0..AgeCap /\ pending \in 0..AgeCap

SessionTyped ==
  session # None => data # None /\ session \in [target : Int, left : 0..MaxDuration]

IInv ==
  /\ SiteInv /\ SnapshotInv(data) /\ SnapshotInv(result) /\ SessionTyped
  /\ SessionFollowsDecision /\ ChargedFromSun /\ ReserveKept

-----------------------------------------------------------------------------
LEMMA Times ==
  /\ AgeCap \in Nat /\ MaxAge \in Nat /\ AgeCap = MaxAge + 1
  /\ SinceCap \in Nat /\ MaxDuration \in Nat \ {0}
  /\ \A n \in 0..AgeCap : Older(n) \in 0..AgeCap
BY LoopAssumption DEF AgeCap, SinceCap, Older

LEMMA RefusedDecision ==
  ASSUME NEW r, NEW w, NEW b, NEW k, Engine!Decide(r, FALSE, w, b, k)
  PROVE  ~decision'.accepted
BY DEF Engine!Decide

(* The engine only accepts a rule whose intent is safe.                    *)
LEMMA AcceptedIsSafe ==
  ASSUME NEW i, Engine!Cycle(i), decision'.accepted
  PROVE  decision'.rule \in i.safe
<1>1. CASE Engine!CycleExpired(i)
  BY <1>1, RefusedDecision DEF Engine!CycleExpired
<1>2. CASE Engine!CycleDisabled(i)
  BY <1>2, RefusedDecision DEF Engine!CycleDisabled
<1>3. CASE Engine!CycleCooling(i)
  BY <1>3, RefusedDecision DEF Engine!CycleCooling
<1>4. CASE Engine!CycleUnmatched(i)
  BY <1>4, RefusedDecision DEF Engine!CycleUnmatched
<1>5. CASE Engine!CycleRejected(i)
  BY <1>5, RefusedDecision DEF Engine!CycleRejected
<1>6. CASE Engine!CycleAccepted(i)
  <2>1. Engine!Chosen(i) \in i.safe /\ decision'.rule = Engine!Chosen(i)
    BY <1>6 DEF Engine!CycleAccepted, Engine!Decide
  <2> QED BY <2>1
<1> QED BY <1>1, <1>2, <1>3, <1>4, <1>5, <1>6 DEF Engine!Cycle

(* Whatever its entities do, a site shows powers or nothing, and ages.     *)
LEMMA ShownPower ==
  ASSUME NEW readings \in [Entities -> [value : Power, age : 0..AgeCap]],
         NEW answers \in Answers, NEW s \in Suns, NEW power \in Int
  PROVE  Shown(readings, answers, s, power) \in [Entities -> [value : Power, age : 0..AgeCap]]
<1> SUFFICES ASSUME NEW entity \in Entities
             PROVE  Answered(answers[entity], readings[entity], Actual(s, power)[entity])
                      \in [value : Power, age : 0..AgeCap]
  BY DEF Shown
<1>1. Actual(s, power)[entity] \in Power
  <2>1. s.pv \in Nat /\ s.load \in Nat
    BY LoopAssumption
  <2>2. s.pv \in Int /\ s.load \in Int /\ s.load + power - s.pv \in Int
    BY <2>1
  <2>3. CASE entity = "grid"
    BY <2>2, <2>3 DEF Actual, Power
  <2>4. CASE entity = "pv"
    BY <2>2, <2>4 DEF Actual, Power
  <2>5. CASE entity = "load"
    BY <2>2, <2>5 DEF Actual, Power
  <2> QED BY <2>3, <2>4, <2>5 DEF Entities
<1>2. answers[entity] \in {"reports", "unusable", "silent"}
  BY LoopAssumption
<1>3. /\ readings[entity] \in [value : Power, age : 0..AgeCap]
      /\ None \in Power /\ 0 \in 0..AgeCap /\ AgeCap \in 0..AgeCap
  BY Times DEF Power
<1>4. CASE answers[entity] = "reports"
  BY <1>1, <1>3, <1>4 DEF Answered
<1>5. CASE answers[entity] = "unusable"
  BY <1>3, <1>5 DEF Answered
<1>6. CASE answers[entity] = "silent"
  <2>1. [readings[entity] EXCEPT !.age = Older(@)] \in [value : Power, age : 0..AgeCap]
    BY <1>3, Times
  <2>2. Gone \in [value : Power, age : 0..AgeCap]
    BY <1>3 DEF Gone
  <2> QED BY <1>6, <2>1, <2>2 DEF Answered
<1> QED BY <1>2, <1>4, <1>5, <1>6

LEMMA CommandTyped ==
  ASSUME NEW target \in Int, NEW hold \in Nat
  PROVE  /\ Command(target, hold).target = target
         /\ Command(target, hold).for \in 1..MaxDuration
BY Times DEF Command, Larger, Smaller

(* A rule that has been accepted gives a command of its own target.        *)
LEMMA RuleCommandTyped ==
  ASSUME NEW d, d.accepted => d.rule \in DOMAIN Rules, RuleCommand(d) # None
  PROVE  /\ RuleCommand(d).target = Targets[d.rule]
         /\ RuleCommand(d).target \in Int
         /\ RuleCommand(d).for \in 1..MaxDuration
<1>1. d.accepted /\ d.rule \in DOMAIN Rules
  BY DEF RuleCommand
<1>2. Targets[d.rule] \in Int
  BY <1>1, LoopAssumption
<1>3. Rules[d.rule].hold \in Nat
  <2>1. DOMAIN Rules = 1..Len(Rules)
    BY LoopAssumption
  <2>2. Rules[d.rule] \in [id : STRING, priority : Int, hold : Nat, cooldown : Nat]
    BY <1>1, <2>1, LoopAssumption, ElementOfSeq
  <2> QED BY <2>2
<1> QED BY <1>1, <1>2, <1>3, CommandTyped DEF RuleCommand

(* What the planner recommends of the sun is a power; without leave to     *)
(* charge from the grid it recommends nothing else.                        *)
LEMMA SunOnly ==
  ASSUME NEW i, ~i.gridAllowed, i.maxCharge \in Nat, i.chargeLimit = None,
         i.surplus \in Nat \cup {None}
  PROVE  /\ Plan(i).power \in Int
         /\ Plan(i).inhibit => Plan(i).power = 0
<1>1. GridPower(i) = 0
  BY DEF GridPower
<1>2. SunPower(i) \in Int
  BY DEF SunPower, Limited, Smaller
<1>3. /\ Plan(i).power = IF Inhibits(i) THEN 0
                         ELSE IF SunPower(i) > 0 THEN SunPower(i) ELSE GridPower(i)
      /\ Plan(i).inhibit = Inhibits(i)
  BY DEF Plan
<1> QED BY <1>1, <1>2, <1>3

LEMMA SurplusTyped ==
  ASSUME NEW grid, {grid.power, grid.pv, grid.load} \subseteq Power
  PROVE  PlannedSurplus(grid) \in Nat \cup {None}
BY SafetyAssumption DEF PlannedSurplus, Larger, Smaller, Power

(* The coordinator's surplus and the validation's are the same.            *)
LEMMA SurplusesAgree ==
  ASSUME NEW grid, {grid.power, grid.pv, grid.load} \subseteq Power, grid # None
  PROVE  PlannedSurplus(grid) = AvailablePvSurplus(grid)
BY SafetyAssumption DEF PlannedSurplus, AvailablePvSurplus, Power

(* The surplus that justifies a charge was left over, and exported where   *)
(* the export is known.                                                    *)
LEMMA ChargeWithinSurplus ==
  ASSUME NEW grid, {grid.power, grid.pv, grid.load} \subseteq Power,
         NEW target \in Int, target > 0, target <= AvailablePvSurplus(grid),
         AvailablePvSurplus(grid) # None
  PROVE  /\ target <= grid.pv - grid.load
         /\ grid.power # None => target <= -grid.power
<1>1. /\ grid.pv \in Int /\ grid.load \in Int /\ grid.power \in Int \cup {None}
  BY SafetyAssumption DEF AvailablePvSurplus, Power
<1>2. AvailablePvSurplus(grid) =
        IF grid.power = None THEN Larger(grid.pv - grid.load, 0)
        ELSE Smaller(Larger(grid.pv - grid.load, 0), Larger(-grid.power, 0))
  BY SafetyAssumption DEF AvailablePvSurplus, Power
<1>3. CASE grid.power = None
  BY <1>1, <1>2, <1>3 DEF Larger
<1>4. CASE grid.power # None
  BY <1>1, <1>2, <1>4 DEF Larger, Smaller
<1> QED BY <1>3, <1>4

-----------------------------------------------------------------------------
(* What a refresh makes of what the meters show.                           *)
LEMMA ReadingTyped ==
  ASSUME SiteInv, NEW entity \in Entities
  PROVE  /\ ReadPower(entity) \in Power
         /\ ReadPower(entity) # None => Recent(entity)
         /\ AgeOf(entity) \in 0..MaxAge
<1>1. meter[entity] \in [value : Power, age : 0..AgeCap]
  BY DEF SiteInv
<1>2. CASE Recent(entity)
  BY <1>1, <1>2, Times DEF Recent, ReadPower, AgeOf
<1>3. CASE ~Recent(entity)
  BY <1>3, Times DEF ReadPower, AgeOf, Power
<1> QED BY <1>2, <1>3

LEMMA GridTyped ==
  ASSUME SiteInv, NEW p \in Power
  PROVE  /\ {GridState(p).power, GridState(p).pv, GridState(p).load} \subseteq Power
         /\ GridState(p).timestamp = 0
         /\ GridState(p).pv # None => GridState(p).online
         /\ \E power, pv, load, online :
              GridState(p) = [timestamp |-> 0, online |-> online,
                              power |-> power, pv |-> pv, load |-> load]
<1>1. /\ ReadPower("grid") \in Power /\ ReadPower("pv") \in Power
      /\ ReadPower("load") \in Power
      /\ ReadPower("pv") # None => Recent("pv")
  BY ReadingTyped DEF Entities
<1>2. /\ SiteGrid.timestamp = 0 /\ SiteGrid.power = ReadPower("grid")
      /\ SiteGrid.pv = ReadPower("pv") /\ SiteGrid.load = ReadPower("load")
      /\ SiteGrid.online = \E entity \in Entities : Recent(entity)
  BY DEF SiteGrid
<1>3. SiteGrid.pv # None => SiteGrid.online
  BY <1>1, <1>2 DEF Entities
<1>4. CASE SiteGrid.online /\ SiteGrid.load = None
             /\ None \notin {SiteGrid.power, SiteGrid.pv, p}
  <2> DEFINE n == SiteGrid.power + SiteGrid.pv + p
  <2>1. n \in Power
    BY <1>1, <1>2, <1>4 DEF Power
  <2>2. GridState(p) = [SiteGrid EXCEPT !.load = n]
    BY <1>4 DEF GridState
  <2> HIDE DEF n
  <2>3. GridState(p) = [timestamp |-> 0, online |-> SiteGrid.online,
                        power |-> ReadPower("grid"), pv |-> ReadPower("pv"), load |-> n]
    BY <1>2, <2>2 DEF SiteGrid
  <2>4. /\ GridState(p).power \in Power /\ GridState(p).pv \in Power
        /\ GridState(p).load \in Power
    BY <1>1, <2>1, <2>3
  <2>5. /\ GridState(p).timestamp = 0
        /\ GridState(p).pv # None => GridState(p).online
    BY <1>2, <1>3, <2>3
  <2> QED BY <2>3, <2>4, <2>5
<1>5. CASE ~(SiteGrid.online /\ SiteGrid.load = None
               /\ None \notin {SiteGrid.power, SiteGrid.pv, p})
  <2>1. GridState(p) = SiteGrid
    BY <1>5 DEF GridState
  <2>2. SiteGrid = [timestamp |-> 0, online |-> SiteGrid.online, power |-> ReadPower("grid"),
                    pv |-> ReadPower("pv"), load |-> ReadPower("load")]
    BY <1>2 DEF SiteGrid
  <2> QED BY <1>1, <1>2, <1>3, <2>1, <2>2
<1> QED BY <1>4, <1>5

LEMMA RefreshMeasures ==
  ASSUME SiteInv, NEW r \in Readings, NEW s, s.energy = Energy(r), s.lag = Lag
  PROVE  Measured(s)
<1>1. /\ s.energy.grid = GridState(r.battery.power) /\ s.energy.timestamp = 0
      /\ s.energy.battery.soc = r.battery.soc
      /\ s.energy.battery.socFloor = r.battery.floor
  BY DEF Energy
<1>2. /\ r.battery.soc \in 0..100 /\ r.battery.floor \in (0..100) \cup {None}
      /\ r.battery.power \in Power
  BY LoopAssumption DEF Power
<1>3. Lag \in 0..MaxAge
  <2>1. AgeOf("grid") \in 0..MaxAge /\ AgeOf("pv") \in 0..MaxAge /\ AgeOf("load") \in 0..MaxAge
    BY ReadingTyped DEF Entities
  <2> QED BY <2>1, Times DEF Lag, Larger
<1> QED BY <1>1, <1>2, <1>3, GridTyped DEF Measured

LEMMA PlanTyped ==
  ASSUME SiteInv, planned, NEW r \in Readings, PredictivePlan(Energy(r)) # None
  PROVE  LET plan == PredictivePlan(Energy(r))
         IN  plan.power \in Int /\ (plan.inhibit => plan.power = 0)
<1> DEFINE e == Energy(r)
<1>1. PredictivePlan(e) = Plan(PlanInputs(e))
  BY DEF PredictivePlan
<1>2. /\ PlanInputs(e).gridAllowed = ~planned
      /\ PlanInputs(e).maxCharge = PredictiveMax
      /\ PlanInputs(e).chargeLimit = None
      /\ PlanInputs(e).surplus = PlannedSurplus(GridState(r.battery.power))
  BY DEF PlanInputs, Energy
<1>3. PlanInputs(e).surplus \in Nat \cup {None}
  <2>1. r.battery.power \in Power
    BY LoopAssumption DEF Power
  <2> QED BY <1>2, <2>1, GridTyped, SurplusTyped
<1>4. PICK i : i = PlanInputs(e)
  OBVIOUS
<1>5. /\ ~i.gridAllowed /\ i.maxCharge \in Nat /\ i.chargeLimit = None
      /\ i.surplus \in Nat \cup {None}
  BY <1>2, <1>3, <1>4, LoopAssumption
<1>6. Plan(i).power \in Int /\ (Plan(i).inhibit => Plan(i).power = 0)
  BY <1>5, SunOnly
<1> QED BY <1>1, <1>4, <1>6

LEMMA RefreshDecides ==
  ASSUME SiteInv, NEW r \in Readings, NEW d, d.accepted => d.rule \in DOMAIN Rules,
         NEW s, s.plan = PredictivePlan(Energy(r)), s.wanted = Wanted(Energy(r), s.plan, d)
  PROVE  Deciding(s)
<1> DEFINE e == Energy(r)
<1>1. CASE ~planned
  <2>1. s.wanted = RuleCommand(d)
    BY <1>1 DEF Wanted
  <2> QED BY <1>1, <2>1, RuleCommandTyped DEF Deciding
<1>2. CASE planned /\ s.plan = None
  <2>1. s.wanted = None
    BY <1>2 DEF Wanted
  <2> QED BY <2>1 DEF Deciding
<1>3. CASE planned /\ s.plan # None /\ s.plan.power > 0
  <2> DEFINE hold == Smaller(PlanHold, MaxDuration)
  <2>1. s.wanted # None => s.wanted = Command(s.plan.power, hold)
    BY <1>3 DEF Wanted
  <2>4. hold \in Nat
    BY LoopAssumption DEF Smaller
  <2>2. s.plan.power \in Int /\ (s.plan.inhibit => s.plan.power = 0)
    BY <1>3, PlanTyped
  <2>3. ~s.plan.inhibit
    BY <1>3, <2>2
  <2> HIDE DEF hold
  <2> QED BY <1>3, <2>1, <2>2, <2>3, <2>4, CommandTyped DEF Deciding
<1>4. CASE planned /\ s.plan # None /\ ~(s.plan.power > 0)
  <2>1. s.wanted # None => s.wanted = RuleCommand(d) /\ Targets[d.rule] < 0
    BY <1>4 DEF Wanted
  <2> QED BY <1>4, <2>1, RuleCommandTyped DEF Deciding
<1> QED BY <1>1, <1>2, <1>3, <1>4 DEF SiteInv

-----------------------------------------------------------------------------
LEMMA InitHolds == Init => IInv
<1> SUFFICES ASSUME Init PROVE IInv
  OBVIOUS
<1>1. PICK s \in Suns, answers \in Answers :
        meter = Shown([entity \in Entities |-> Gone], answers, s, 0)
  BY DEF Init
<1>2. SiteInv
  <2>1. [entity \in Entities |-> Gone] \in [Entities -> [value : Power, age : 0..AgeCap]]
    BY Times DEF Gone, Power
  <2>2. meter \in [Entities -> [value : Power, age : 0..AgeCap]]
    BY <1>1, <2>1, ShownPower
  <2>3. planned \in BOOLEAN
    BY LoopAssumption DEF Init
  <2>4. since = 0 /\ age = 0 /\ pending = 0
    BY DEF Init
  <2>5. since \in 0..SinceCap /\ age \in 0..AgeCap /\ pending \in 0..AgeCap
    BY <2>4, Times
  <2> QED BY <2>2, <2>3, <2>5 DEF SiteInv
<1>3. /\ SnapshotInv(data) /\ SnapshotInv(result) /\ SessionTyped
      /\ SessionFollowsDecision /\ ChargedFromSun /\ ReserveKept
  BY DEF Init, SnapshotInv, SessionTyped, SessionFollowsDecision, ChargedFromSun, ReserveKept
<1> QED BY <1>2, <1>3 DEF IInv

LEMMA RefreshHolds ==
  ASSUME IInv, NEW r \in Readings, Refresh(r)
  PROVE  IInv'
<1>1. /\ result = None /\ since' = 0 /\ pending' = 0 /\ sent' = None
      /\ UNCHANGED <<planned, meter, data, age, session>>
  BY DEF Refresh
<1>2. PICK i : /\ Engine!Cycle(i)
               /\ i.safe \subseteq DOMAIN Rules
  BY DEF Refresh
<1>3. decision'.accepted => decision'.rule \in DOMAIN Rules
  BY <1>2, AcceptedIsSafe
<1>4. /\ result'.energy = Energy(r)
      /\ result'.plan = PredictivePlan(Energy(r))
      /\ result'.lag = Lag
      /\ result'.wanted = Wanted(Energy(r), PredictivePlan(Energy(r)), decision')
  BY DEF Refresh
<1>5. Measured(result')
  BY <1>4, RefreshMeasures DEF IInv
<1>6. PICK d, s : d = decision' /\ s = result'
  OBVIOUS
<1>7. Deciding(s)
  BY <1>3, <1>4, <1>6, RefreshDecides DEF IInv
<1>8. SnapshotInv(result)'
  BY <1>1, <1>5, <1>6, <1>7 DEF SnapshotInv, Measured, Deciding
<1>9. SiteInv'
  BY <1>1, Times DEF IInv, SiteInv
<1>10. SnapshotInv(data)'
  BY <1>1 DEF IInv, SnapshotInv, Measured, Deciding
<1>11. SessionTyped' /\ SessionFollowsDecision' /\ ChargedFromSun' /\ ReserveKept'
  BY <1>1 DEF IInv, SessionTyped, SessionFollowsDecision, ChargedFromSun, ReserveKept
<1> QED BY <1>8, <1>9, <1>10, <1>11 DEF IInv

(* The result becomes the data; the session is the one it wants, or none.  *)
LEMMA InstallHolds ==
  ASSUME IInv, result # None, Install,
         session' # None =>
           /\ session' \in [target : Int, left : 0..MaxDuration]
           /\ result.wanted # None /\ result.wanted.target = session'.target
  PROVE  IInv'
<1>1. /\ data' = result /\ age' = pending /\ result' = None /\ pending' = 0
      /\ sent' = None
      /\ UNCHANGED <<planned, since, meter>>
  BY DEF Install
<1>2. SiteInv'
  BY <1>1, Times DEF IInv, SiteInv
<1>3. SnapshotInv(data)' /\ SnapshotInv(result)'
  BY <1>1 DEF IInv, SnapshotInv, Measured, Deciding
<1>4. SessionTyped' /\ SessionFollowsDecision'
  BY <1>1 DEF SessionTyped, SessionFollowsDecision
<1>5. ChargedFromSun' /\ ReserveKept'
  BY <1>1 DEF IInv, ChargedFromSun, ReserveKept
<1> QED BY <1>2, <1>3, <1>4, <1>5 DEF IInv

LEMMA ReconcileHolds ==
  ASSUME IInv, FirstRefresh \/ KeepSession \/ LeaveStopped \/ StartSession
  PROVE  IInv'
<1>1. CASE FirstRefresh
  <2>1. session' = None
    BY <1>1 DEF FirstRefresh, IInv, SessionTyped
  <2> QED BY <1>1, <2>1, InstallHolds DEF FirstRefresh
<1>2. CASE KeepSession
  <2>1. /\ session' \in [target : Int, left : 0..MaxDuration]
        /\ result.wanted # None /\ result.wanted.target = session'.target
    BY <1>2 DEF KeepSession, IInv, SessionTyped
  <2> QED BY <1>2, <2>1, InstallHolds DEF KeepSession
<1>3. CASE LeaveStopped
  <2>1. session' = None
    BY <1>3 DEF LeaveStopped
  <2> QED BY <1>3, <2>1, InstallHolds DEF LeaveStopped
<1>4. CASE StartSession
  <2>1. result.wanted # None /\ result.wanted.target \in Int
        /\ result.wanted.for \in 1..MaxDuration
    BY <1>4 DEF StartSession, IInv, SnapshotInv, Deciding
  <2>2. session' # None => session' = [target |-> result.wanted.target,
                                       left |-> result.wanted.for]
    BY <1>4 DEF StartSession
  <2>3. session' # None => /\ session' \in [target : Int, left : 0..MaxDuration]
                           /\ result.wanted.target = session'.target
    BY <2>1, <2>2, Times
  <2> QED BY <1>4, <2>1, <2>3, InstallHolds DEF StartSession
<1> QED BY <1>1, <1>2, <1>3, <1>4

(* Time only makes what is known older.                                    *)
LEMMA TimeHolds ==
  ASSUME IInv, NEW s \in Suns, NEW power \in Int, TimePasses(s, power)
  PROVE  SiteInv' /\ SnapshotInv(data)' /\ SnapshotInv(result)'
<1>1. /\ \E answers \in Answers : meter' = Shown(meter, answers, s, power)
      /\ age' = Ageing(data, age) /\ pending' = Ageing(result, pending)
      /\ since' = IF since < SinceCap THEN since + 1 ELSE SinceCap
      /\ UNCHANGED <<planned, data, result>>
  BY DEF TimePasses
<1>2. meter' \in [Entities -> [value : Power, age : 0..AgeCap]]
  BY <1>1, ShownPower DEF IInv, SiteInv
<1>3. age' \in 0..AgeCap /\ pending' \in 0..AgeCap
  BY <1>1, Times DEF IInv, SiteInv, Ageing
<1>4. since' \in 0..SinceCap
  BY <1>1, Times DEF IInv, SiteInv
<1>5. SnapshotInv(data)' /\ SnapshotInv(result)'
  BY <1>1 DEF IInv, SnapshotInv, Measured, Deciding
<1> QED BY <1>1, <1>2, <1>3, <1>4, <1>5 DEF IInv, SiteInv

LEMMA IdleHolds ==
  ASSUME IInv, NEW s \in Suns, Uncommanded(s) \/ SessionEnds(s)
  PROVE  IInv'
<1>1. /\ session' = None /\ sent' = None
      /\ \E power \in {0, s.pv - s.load} : TimePasses(s, power)
  BY DEF Uncommanded, SessionEnds, OwnRegulation
<1>2. s \in [pv : Nat, load : Nat]
  BY LoopAssumption
<1>3. SiteInv' /\ SnapshotInv(data)' /\ SnapshotInv(result)'
  <2>1. PICK power \in {0, s.pv - s.load} : TimePasses(s, power)
    BY <1>1
  <2>2. power \in Int
    BY <1>2
  <2> QED BY <2>1, <2>2, TimeHolds
<1>4. SessionTyped' /\ SessionFollowsDecision' /\ ChargedFromSun' /\ ReserveKept'
  BY <1>1 DEF SessionTyped, SessionFollowsDecision, ChargedFromSun, ReserveKept
<1> QED BY <1>3, <1>4 DEF IInv

(* A heartbeat has been validated against the data it is sent with.        *)
LEMMA HeartbeatJustified ==
  ASSUME IInv, session # None, Justified
  PROVE  /\ age <= MaxAge
         /\ session.target > 0 =>
              /\ session.target <= data.energy.grid.pv - data.energy.grid.load
              /\ data.energy.grid.power # None => session.target <= -data.energy.grid.power
         /\ session.target < 0 =>
              /\ data.energy.battery.soc > Reserve
              /\ data.energy.battery.socFloor # None =>
                   data.energy.battery.soc > data.energy.battery.socFloor
<1>1. /\ data # None /\ session.target \in Int /\ Measured(data)
      /\ age \in 0..AgeCap
  BY DEF IInv, SessionTyped, SnapshotInv, SiteInv
<1>2. Accepted(session.target, data.energy, SessionConfig, age)
  BY DEF Justified
<1>3. SessionConfig.maxAge = MaxAge /\ SessionConfig.minSoc = Reserve
  BY DEF SessionConfig, Config
<1>4. age <= MaxAge
  <2>1. Fresh(data.energy.timestamp, age, SessionConfig)
    BY <1>2 DEF Accepted
  <2> QED BY <1>1, <1>3, <2>1, Times DEF Fresh, Measured
<1>5. ASSUME session.target > 0
      PROVE  /\ session.target <= data.energy.grid.pv - data.energy.grid.load
             /\ data.energy.grid.power # None => session.target <= -data.energy.grid.power
  <2>1. /\ AvailablePvSurplus(data.energy.grid) # None
        /\ session.target <= AvailablePvSurplus(data.energy.grid)
    BY <1>2, <1>5 DEF Accepted, ChargeAllowed
  <2> QED BY <1>1, <1>5, <2>1, ChargeWithinSurplus DEF Measured
<1>6. ASSUME session.target < 0
      PROVE  /\ data.energy.battery.soc > Reserve
             /\ data.energy.battery.socFloor # None =>
                  data.energy.battery.soc > data.energy.battery.socFloor
  <2> DEFINE soc == data.energy.battery.soc
             floor == data.energy.battery.socFloor
  <2>1. DischargeAllowed(data.energy, SessionConfig)
    BY <1>2, <1>6 DEF Accepted
  <2>2. soc > IF floor = None THEN Reserve ELSE Larger(Reserve, floor)
    BY <1>3, <2>1 DEF DischargeAllowed
  <2>3. /\ soc \in 0..100
        /\ floor \in (0..100) \cup {None}
    BY <1>1 DEF Measured
  <2>5. Reserve \in Int
    BY LoopAssumption
  <2> HIDE DEF soc, floor
  <2>4. soc > Reserve /\ (floor # None => soc > floor)
    BY <2>2, <2>3, <2>5 DEF Larger
  <2> QED BY <2>4 DEF soc, floor
<1> QED BY <1>4, <1>5, <1>6

LEMMA HeartbeatHolds ==
  ASSUME IInv, NEW s \in Suns, Heartbeat(s)
  PROVE  IInv'
<1>1. /\ session # None /\ session.left > 0 /\ Justified
      /\ session' = [session EXCEPT !.left = @ - 1]
      /\ sent'.target = session.target /\ sent'.grid = data.energy.grid
      /\ sent'.soc = data.energy.battery.soc
      /\ sent'.floor = data.energy.battery.socFloor /\ sent'.age = age
      /\ sent'.measured = data.lag + age
      /\ TimePasses(s, session.target)
  BY DEF Heartbeat
<1>2. session \in [target : Int, left : 0..MaxDuration] /\ data # None
  BY <1>1 DEF IInv, SessionTyped
<1>3. SiteInv' /\ SnapshotInv(data)' /\ SnapshotInv(result)'
  BY <1>1, <1>2, TimeHolds
<1>4. data' = data /\ result' = result
  BY <1>1 DEF TimePasses
<1>5. SessionTyped' /\ SessionFollowsDecision'
  <2>1. session' \in [target : Int, left : 0..MaxDuration] /\ session'.target = session.target
    BY <1>1, <1>2, Times
  <2> QED BY <1>1, <1>2, <1>4, <2>1 DEF IInv, SessionTyped, SessionFollowsDecision
<1>6. ChargedFromSun'
  <2>1. age \in Nat /\ data.lag \in 0..MaxAge
    BY <1>2, Times DEF IInv, SiteInv, SnapshotInv, Measured
  <2> QED BY <1>1, <2>1, HeartbeatJustified, Times DEF ChargedFromSun
<1>7. ReserveKept'
  BY <1>1, HeartbeatJustified DEF ReserveKept
<1> QED BY <1>3, <1>5, <1>6, <1>7 DEF IInv

LEMMA NextHolds == IInv /\ [Next]_vars => IInv'
<1> SUFFICES ASSUME IInv, [Next]_vars PROVE IInv'
  OBVIOUS
<1>1. ASSUME NEW r \in Readings, Refresh(r) PROVE IInv'
  BY <1>1, RefreshHolds
<1>2. CASE FirstRefresh \/ KeepSession \/ LeaveStopped \/ StartSession
  BY <1>2, ReconcileHolds
<1>3. ASSUME NEW s \in Suns, Uncommanded(s) \/ SessionEnds(s) PROVE IInv'
  BY <1>3, IdleHolds
<1>4. ASSUME NEW s \in Suns, Heartbeat(s) PROVE IInv'
  BY <1>4, HeartbeatHolds
<1>5. CASE UNCHANGED vars
  BY <1>5 DEF vars, IInv, SiteInv, SnapshotInv, Measured, Deciding, SessionTyped,
              SessionFollowsDecision, ChargedFromSun, ReserveKept
<1> QED BY <1>1, <1>2, <1>3, <1>4, <1>5 DEF Next

-----------------------------------------------------------------------------
(* The invariant holds whatever the sun, the battery and the forecasts do. *)
THEOREM Loop == Spec => []IInv
  BY InitHolds, NextHolds, PTL DEF Spec

(* Charging power was left over, and exported where that is measured, at   *)
(* most two maximum ages ago, whichever of the site's entities report      *)
(* (validate_intent over the grid state of read_grid_state).               *)
THEOREM SunCharges == Spec => []ChargedFromSun
<1>1. IInv => ChargedFromSun
  BY DEF IInv
<1> QED BY <1>1, Loop, PTL

(* No heartbeat discharges below the reserve or the inverter's own floor   *)
(* (_validate_active_command).                                             *)
THEOREM ReserveHolds == Spec => []ReserveKept
<1>1. IInv => ReserveKept
  BY DEF IInv
<1> QED BY <1>1, Loop, PTL

(* _reconcile_scheduled_control leaves no session behind that the last     *)
(* decision does not want.                                                 *)
THEOREM DecisionsFollowed == Spec => []SessionFollowsDecision
<1>1. IInv => SessionFollowsDecision
  BY DEF IInv
<1> QED BY <1>1, Loop, PTL

(* Under a plan that inhibits charging only discharging rules have sessions*)
THEOREM RoomIsKept == Spec => []InhibitHonoured
<1>1. IInv => InhibitHonoured
  BY DEF IInv, SessionTyped, SnapshotInv, Deciding, SessionFollowsDecision, InhibitHonoured
<1> QED BY <1>1, Loop, PTL

-----------------------------------------------------------------------------
(* The reserve is within the range of the form, the defaults are those     *)
(* of SafetyConfig, and neither a command nor a grid state is the mark of  *)
(* its absence.  How the two maximal powers relate, and the reserve to the *)
(* maximum state of charge, is left open: no form relates them.            *)
PlannerSound ==
  /\ Reserve \in 0..100
  /\ Defaults.maxSoc \in 0..100 /\ Defaults.maxSkew \in Nat /\ Defaults.states # {}
  /\ \A target, hold : Command(target, hold) # None
  /\ \A power, pv, load, online :
       [timestamp |-> 0, online |-> online, power |-> power, pv |-> pv, load |-> load] # None

(* What the planner asks of the sun is offered by it.                      *)
LEMMA PlanWithinSurplus ==
  ASSUME NEW e, planned = TRUE, {e.grid.power, e.grid.pv, e.grid.load} \subseteq Power,
         e.battery.chargeLimit = None,
         Plan(PlanInputs(e)).power > 0
  PROVE  LET surplus == PlannedSurplus(e.grid)
             power == Plan(PlanInputs(e)).power
         IN  /\ surplus # None /\ e.grid.pv # None /\ power \in Int
             /\ power <= surplus /\ power <= PredictiveMax
<1> DEFINE i == PlanInputs(e)
           surplus == PlannedSurplus(e.grid)
<1>1. /\ i.surplus = surplus /\ i.maxCharge = PredictiveMax /\ i.chargeLimit = None
      /\ i.gridAllowed = FALSE
  BY DEF PlanInputs
<1>2. Plan(i).power = SunPower(i) /\ SunPower(i) > 0
  <2>1. GridPower(i) = 0
    BY <1>1 DEF GridPower
  <2>2. Plan(i).power = IF Inhibits(i) THEN 0
                        ELSE IF SunPower(i) > 0 THEN SunPower(i) ELSE GridPower(i)
    BY DEF Plan
  <2>3. Plan(i).power > 0
    OBVIOUS
  <2> HIDE DEF i
  <2>4. CASE Inhibits(i)
    BY <2>2, <2>3, <2>4
  <2>5. CASE ~Inhibits(i) /\ ~(SunPower(i) > 0)
    BY <2>1, <2>2, <2>3, <2>5
  <2>6. CASE ~Inhibits(i) /\ SunPower(i) > 0
    BY <2>2, <2>6
  <2> QED BY <2>4, <2>5, <2>6
<1>3. surplus # None /\ SunPower(i) = Smaller(PredictiveMax, surplus)
  <2>1. i.surplus # None /\ SunPower(i) = Limited(Smaller(i.maxCharge, i.surplus), i.chargeLimit)
    <3> HIDE DEF i
    <3> QED BY <1>2 DEF SunPower
  <2> HIDE DEF i, surplus
  <2> QED BY <1>1, <2>1 DEF Limited
<1>4. surplus \in Int /\ e.grid.pv # None
  <2>1. surplus \in Nat \cup {None}
    BY SurplusTyped
  <2>2. e.grid.pv # None
    BY <1>3 DEF PlannedSurplus
  <2> QED BY <1>3, <2>1, <2>2
<1> HIDE DEF i, surplus
<1>5. PredictiveMax \in Nat
  BY LoopAssumption
<1>6. /\ Smaller(PredictiveMax, surplus) \in Int
      /\ Smaller(PredictiveMax, surplus) <= surplus
      /\ Smaller(PredictiveMax, surplus) <= PredictiveMax
  BY <1>4, <1>5 DEF Smaller
<1> QED BY <1>2, <1>3, <1>4, <1>6 DEF i, surplus

(* A refresh that puts a recommendation aside has one of the reasons.      *)
LEMMA RecommendationStands ==
  ASSUME PlannerSound, IInv, planned, NEW r \in Readings,
         NEW e, e = Energy(r), NEW plan, plan = PredictivePlan(e), plan # None, plan.power > 0,
         e.battery.soc < Defaults.maxSoc,
         OperatingStateAllows(plan.power, e.battery, Defaults),
         \A s \in {e.price, e.forecast} \ {None} :
           s.online /\ Fresh(s.timestamp, 0, SessionConfig),
         ~(plan.power > ActiveMax), ~(Reserve > Defaults.maxSoc)
  PROVE  Accepted(plan.power, e, PlanConfig, 0)
<1>1. plan = Plan(PlanInputs(e))
  BY DEF PredictivePlan
<1>2. /\ e.timestamp = 0 /\ e.grid = GridState(r.battery.power)
      /\ e.battery.timestamp = 0 /\ e.battery.online
      /\ e.battery.soc = r.battery.soc /\ e.battery.chargeLimit = None
  BY DEF Energy
<1>3. planned = TRUE /\ r.battery.power \in Power /\ r.battery.soc \in 0..100
  BY LoopAssumption DEF IInv, SiteInv, Power
<1>4. /\ {e.grid.power, e.grid.pv, e.grid.load} \subseteq Power
      /\ e.grid.timestamp = 0 /\ (e.grid.pv # None => e.grid.online)
      /\ e.grid # None
  <2>1. SiteInv
    BY DEF IInv
  <2>2. GridState(r.battery.power) # None
    BY <1>3, <2>1, GridTyped DEF PlannerSound
  <2> QED BY <1>2, <1>3, <2>1, <2>2, GridTyped
<1>5. LET surplus == AvailablePvSurplus(e.grid)
      IN  /\ surplus # None /\ e.grid.pv # None /\ plan.power \in Int
          /\ plan.power <= surplus /\ plan.power <= PredictiveMax
  BY <1>1, <1>2, <1>3, <1>4, PlanWithinSurplus, SurplusesAgree
<1>6. /\ PlanConfig.maxAge = MaxAge /\ PlanConfig.maxSkew = Defaults.maxSkew
      /\ PlanConfig.maxCharge = Smaller(ActiveMax, PredictiveMax)
      /\ PlanConfig.maxDischarge = ActiveMax /\ PlanConfig.minSoc = Reserve
      /\ PlanConfig.maxSoc = Defaults.maxSoc /\ PlanConfig.states = Defaults.states
      /\ PlanConfig.warnings = Defaults.warnings
      /\ SessionConfig.maxAge = MaxAge /\ SessionConfig.maxSkew = Defaults.maxSkew
  BY DEF PlanConfig, SessionConfig, Config
<1>7. /\ MaxAge \in Nat /\ ActiveMax \in Nat /\ PredictiveMax \in Nat
      /\ Defaults.maxSkew \in Int /\ Defaults.maxSkew >= 0
  BY LoopAssumption DEF PlannerSound
<1>8. /\ Fresh(0, 0, PlanConfig)
      /\ \A t : Fresh(t, 0, SessionConfig) => Fresh(t, 0, PlanConfig)
  BY <1>6, <1>7 DEF Fresh
<1>9. \A s \in Sources(e) : s.online /\ Fresh(s.timestamp, 0, PlanConfig)
  BY <1>4, <1>5, <1>8 DEF Sources
<1>10. e.battery.soc \in 0..100 /\ e.battery.soc # None /\ e.battery.soc # NotFinite
  BY <1>2, <1>3, SafetyAssumption
<1>11. OperatingStateAllows(plan.power, e.battery, PlanConfig)
  BY <1>6 DEF OperatingStateAllows
<1>12. ChargeAllowed(plan.power, e, PlanConfig)
  BY <1>2, <1>5, <1>6 DEF ChargeAllowed
<1>13. /\ plan.power # NotFinite
       /\ -PlanConfig.maxDischarge <= plan.power /\ plan.power <= PlanConfig.maxCharge
       /\ ~(plan.power < 0)
  BY <1>5, <1>6, <1>7, SafetyAssumption DEF Smaller
<1>14. ValidConfig(PlanConfig)
  <2>1. /\ Reserve \in 0..100 /\ Defaults.maxSoc \in 0..100 /\ Defaults.states # {}
        /\ Reserve <= Defaults.maxSoc
    BY DEF PlannerSound
  <2>2. Smaller(ActiveMax, PredictiveMax) \in Nat
    BY <1>7 DEF Smaller
  <2> QED BY <1>6, <1>7, <2>1, <2>2, SafetyAssumption DEF ValidConfig
<1> QED BY <1>2, <1>8, <1>9, <1>10, <1>11, <1>12, <1>13, <1>14 DEF Accepted

(* The planner's recommendation is refused only for the battery's state, a *)
(* price or a forecast out of range, a power beyond what active control    *)
(* may command or a reserve beyond the maximum state of charge             *)
(* (_validated_predictive_intent), for every set of options.               *)
THEOREM PlansAccepted ==
  ASSUME PlannerSound
  PROVE  Spec => []PlanAcceptable
<1>1. Init => PlanAcceptable
  BY DEF Init, PlanAcceptable
<1>2. ASSUME IInv, PlanAcceptable, [Next]_vars PROVE PlanAcceptable'
  <2>1. ASSUME NEW r \in Readings, Refresh(r)
        PROVE  PlanAcceptable'
    <3>1. PICK e : e = Energy(r)
      OBVIOUS
    <3>2. PICK plan : plan = PredictivePlan(e)
      OBVIOUS
    <3>3. /\ result'.energy = e /\ result'.plan = plan /\ planned' = planned
          /\ result'.wanted = Wanted(e, plan, decision')
      BY <2>1, <3>1, <3>2 DEF Refresh
    <3>4. ASSUME planned, plan # None, plan.power > 0,
                 result'.wanted = None,
                 ~(e.battery.soc >= Defaults.maxSoc),
                 OperatingStateAllows(plan.power, e.battery, Defaults),
                 \A s \in {e.price, e.forecast} \ {None} :
                   s.online /\ Fresh(s.timestamp, 0, SessionConfig),
                 ~(plan.power > ActiveMax), ~(Reserve > Defaults.maxSoc)
          PROVE  FALSE
      <4>1. ~Accepted(plan.power, e, PlanConfig, 0)
        <5>1. Wanted(e, plan, decision') =
                IF Accepted(plan.power, e, PlanConfig, 0)
                THEN Command(plan.power, Smaller(PlanHold, MaxDuration)) ELSE None
          BY <3>4 DEF Wanted
        <5>2. Command(plan.power, Smaller(PlanHold, MaxDuration)) # None
          BY DEF PlannerSound
        <5> QED BY <3>3, <3>4, <5>1, <5>2
      <4>2. e.battery.soc < Defaults.maxSoc
        <5>1. e.battery.soc = r.battery.soc
          BY <3>1 DEF Energy
        <5>2. r.battery.soc \in 0..100
          BY LoopAssumption
        <5>3. Defaults.maxSoc \in Int
          BY DEF PlannerSound
        <5> QED BY <3>4, <5>1, <5>2, <5>3
      <4> QED BY <1>2, <3>1, <3>2, <3>4, <4>1, <4>2, RecommendationStands
    <3> QED BY <3>3, <3>4 DEF PlanAcceptable
  <2>2. CASE result' = None
    BY <2>2 DEF PlanAcceptable
  <2>3. CASE UNCHANGED <<result, planned>>
    BY <1>2, <2>3 DEF PlanAcceptable
  <2>4. ASSUME ~(\E r \in Readings : Refresh(r))
        PROVE  result' = None \/ UNCHANGED <<result, planned>>
    BY <1>2, <2>4 DEF Next, vars, FirstRefresh, KeepSession, LeaveStopped, StartSession,
       Install, Uncommanded, Heartbeat, SessionEnds, OwnRegulation, TimePasses
  <2> QED BY <2>1, <2>2, <2>3, <2>4
<1> QED BY <1>1, <1>2, Loop, PTL DEF Spec

-----------------------------------------------------------------------------
(* Every cycle of the closed loop is one the rule engine's specification   *)
(* allows, with gaps of any length: what is proved of ControlRuntime holds *)
(* inside the loop.                                                        *)
THEOREM EngineRuns == Spec => Engine!Spec
<1>1. Init => Engine!Init
  BY DEF Init
<1>2. ASSUME IInv, [Next]_vars PROVE [Engine!Next]_(Engine!vars)
  <2>1. ASSUME NEW r \in Readings, Refresh(r)
        PROVE  Engine!Next
    <3> DEFINE e == Energy(r)
               matching == {q \in DOMAIN Rules : Matches(Conditions[q], e, 0)}
               safe == {q \in DOMAIN Rules : Accepted(Targets[q], e, Defaults, 0)}
    <3>1. Engine!Cycle([gap |-> since, matching |-> matching, safe |-> safe,
                        enabled |-> TRUE])
      BY <2>1 DEF Refresh
    <3>2. since \in Nat
      BY <1>2, Times DEF IInv, SiteInv
    <3>3. matching \in SUBSET Engine!RuleNames /\ safe \in SUBSET Engine!RuleNames
      BY DEF Engine!RuleNames
    <3> HIDE DEF matching, safe
    <3> QED BY <3>1, <3>2, <3>3 DEF Engine!Next
  <2>2. ASSUME ~(\E r \in Readings : Refresh(r))
        PROVE  UNCHANGED Engine!vars
    <3>1. UNCHANGED engineVars
      BY <1>2, <2>2 DEF Next, vars, FirstRefresh, KeepSession, LeaveStopped, StartSession,
           Install, Uncommanded, Heartbeat, SessionEnds, OwnRegulation, TimePasses
    <3> QED BY <3>1 DEF engineVars, Engine!vars
  <2> QED BY <2>1, <2>2
<1> QED BY <1>1, <1>2, Loop, PTL DEF Spec, Engine!Spec

(* The types of the loop; those of the engine follow from EngineRuns.      *)
THEOREM TypeCorrect == Spec => []TypeOK
<1>1. IInv => TypeOK
  BY Times DEF IInv, SiteInv, SnapshotInv, Measured, Deciding, SessionTyped, TypeOK, Snapshot, Power
<1> QED BY <1>1, Loop, PTL
=============================================================================
