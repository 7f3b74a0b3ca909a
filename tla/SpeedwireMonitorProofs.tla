------------------------ MODULE SpeedwireMonitorProofs ------------------------
(***************************************************************************)
(* The published permission of SpeedwireMonitor is earned and fresh, and   *)
(* the monitor implements SpeedwireWatch, whatever the hosts, the          *)
(* resolutions and the two time limits are.                                *)
(***************************************************************************)
EXTENDS SpeedwireMonitor, TLAPS

(* The task listens exactly while it receives, and a published permission  *)
(* was right when the current receive began: since then only time passed,  *)
(* as much of it as that receive has been waiting.                         *)
Standing ==
  /\ listening = (at = "receiving")
  /\ published.clear =>
       /\ Confirmed
       /\ listening
       /\ External(observed, addresses) \subseteq TelemetryOnly
       /\ age # Never
       /\ age <= MaxAge + quiet

IInv == TypeOK /\ Standing

-----------------------------------------------------------------------------
(* What the monitor's clock does to the age.                               *)
LEMMA AgeGrows ==
  ASSUME age \in Never..Horizon
  PROVE  /\ Older \in Never..Horizon
         /\ age # Never => Older # Never /\ Older <= age + 1
BY MonitorAssumption, SMT DEF Older, Horizon, Never

(* A permission implies everything Standing asks of it at that moment.     *)
LEMMA EligibleMeans ==
  ASSUME NEW on, NEW since \in Never..Horizon, NEW seen, NEW own,
         Eligible(on, since, seen, own)
  PROVE  /\ Confirmed
         /\ on
         /\ External(seen, own) \subseteq TelemetryOnly
         /\ since # Never
         /\ since <= MaxAge
BY MonitorAssumption, SMT DEF Eligible, ObservationState, Horizon, Never

(* What is published is of the right type, and justified.                  *)
LEMMA Published ==
  ASSUME Publish,
         listening' \in BOOLEAN,
         age' \in Never..Horizon,
         quiet' = 0
  PROVE  /\ published' \in [state : States, clear : BOOLEAN]
         /\ published'.clear =>
              /\ Confirmed
              /\ listening'
              /\ External(observed', addresses') \subseteq TelemetryOnly
              /\ age' # Never
              /\ age' <= MaxAge + quiet'
<1>1. ObservationState(listening', age') \in States
  BY DEF ObservationState, States
<1>2. Eligible(listening', age', observed', addresses') \in BOOLEAN
  BY MonitorAssumption DEF Eligible
<1>3. published' \in [state : States, clear : BOOLEAN]
  BY <1>1, <1>2 DEF Publish
<1>4. published'.clear = Eligible(listening', age', observed', addresses')
  BY DEF Publish
<1>5. ASSUME published'.clear
      PROVE  /\ Confirmed
             /\ listening'
             /\ External(observed', addresses') \subseteq TelemetryOnly
             /\ age' # Never
             /\ age' <= MaxAge
  BY <1>4, <1>5, EligibleMeans
<1>6. MaxAge + quiet' = MaxAge
  BY MonitorAssumption
<1> QED BY <1>3, <1>5, <1>6

LEMMA InitHolds == Init => IInv
<1> SUFFICES ASSUME Init PROVE IInv
  OBVIOUS
<1>1. age \in Never..Horizon /\ quiet \in 0..ReceiveTimeout
  BY MonitorAssumption DEF Init, Horizon, Never
<1>2. published \in [state : States, clear : BOOLEAN] /\ ~published.clear
  BY DEF Init, States
<1>3. TypeOK
  BY <1>1, <1>2, Zenon DEF Init, TypeOK
<1>4. Standing
  BY <1>2 DEF Init, Standing
<1> QED BY <1>3, <1>4 DEF IInv

-----------------------------------------------------------------------------
(* The steps that end in a publication, and then those that do not.        *)
LEMMA PublicationHolds ==
  ASSUME IInv, Publish, quiet' = 0,
         at' \in {"resolving", "receiving", "sleeping", "over"},
         addresses' \subseteq Hosts, observed' \subseteq Hosts,
         age' \in Never..Horizon,
         listening' = (at' = "receiving")
  PROVE  IInv'
<1>1. listening' \in BOOLEAN
  OBVIOUS
<1>2. quiet' \in 0..ReceiveTimeout
  BY MonitorAssumption
<1>3. /\ published' \in [state : States, clear : BOOLEAN]
      /\ published'.clear =>
           /\ Confirmed
           /\ listening'
           /\ External(observed', addresses') \subseteq TelemetryOnly
           /\ age' # Never
           /\ age' <= MaxAge + quiet'
  BY <1>1, Published
<1>4. Horizon' = Horizon
  BY DEF Horizon
<1>5. TypeOK'
  BY <1>1, <1>2, <1>3, <1>4, Zenon DEF TypeOK, Never, States
<1>6. Standing'
  BY <1>3, Zenon DEF Standing, External, Never
<1> QED BY <1>5, <1>6 DEF IInv

LEMMA StepHolds == IInv /\ [Next]_vars => IInv'
<1> SUFFICES ASSUME IInv, [Next]_vars PROVE IInv'
  OBVIOUS
<1>t. /\ at \in {"resolving", "receiving", "sleeping", "over"}
      /\ addresses \subseteq Hosts
      /\ observed \subseteq Hosts
      /\ age \in Never..Horizon
      /\ quiet \in 0..ReceiveTimeout
      /\ listening = (at = "receiving")
  BY DEF IInv, TypeOK, Standing
<1>z. 0 \in Never..Horizon
  BY MonitorAssumption DEF Never, Horizon
<1>1. CASE Resolved
  <2>1. addresses' \subseteq Hosts
    BY <1>1, MonitorAssumption DEF Resolved
  <2>2. /\ observed' = observed /\ age' = age /\ quiet' = 0 /\ Publish
        /\ \/ at' = "receiving" /\ listening' = TRUE
           \/ at' = "sleeping" /\ listening' = FALSE
    BY <1>1 DEF Resolved, GiveUp
  <2> QED BY <1>t, <2>1, <2>2, PublicationHolds
<1>2. CASE ResolveFails
  <2>1. /\ addresses' = addresses /\ observed' = observed /\ age' = age
        /\ quiet' = 0 /\ Publish /\ at' = "sleeping" /\ listening' = FALSE
    BY <1>2 DEF ResolveFails, GiveUp
  <2> QED BY <1>t, <2>1, PublicationHolds
<1>3. ASSUME NEW h \in Hosts, Receive(h)
      PROVE  IInv'
  <2>1. /\ addresses' = addresses /\ observed' = observed \cup {h} /\ age' = 0
        /\ quiet' = 0 /\ Publish /\ at' = at /\ listening' = listening
    BY <1>3 DEF Receive
  <2> QED BY <1>t, <1>z, <2>1, PublicationHolds
<1>4. CASE ReceiveTimesOut
  <2>1. /\ addresses' = addresses /\ observed' = observed /\ age' = age
        /\ quiet' = 0 /\ Publish /\ at' = at /\ listening' = listening
    BY <1>4 DEF ReceiveTimesOut
  <2> QED BY <1>t, <2>1, PublicationHolds
<1>5. CASE ReceiveFails
  <2>1. /\ addresses' = addresses /\ observed' = observed /\ age' = age
        /\ quiet' = 0 /\ Publish /\ at' = "sleeping" /\ listening' = FALSE
    BY <1>5 DEF ReceiveFails, GiveUp
  <2> QED BY <1>t, <2>1, PublicationHolds
<1>6. CASE Wake
  <2>1. at = "sleeping" /\ at' = "resolving"
    BY <1>6 DEF Wake
  <2>2. UNCHANGED <<addresses, observed, listening, age, quiet, published>>
    BY <1>6 DEF Wake
  <2>3. TypeOK'
    BY <2>1, <2>2, Zenon DEF IInv, TypeOK, Never, Horizon, States
  <2>4. Standing'
    BY <1>t, <2>1, <2>2 DEF IInv, Standing, External, Never
  <2> QED BY <2>3, <2>4 DEF IInv
<1>7. CASE Cancel
  <2>1. /\ at' = "over" /\ listening' = FALSE /\ Publish
        /\ UNCHANGED <<addresses, observed, age, quiet>>
    BY <1>7 DEF Cancel
  <2>2. published' = [state |-> "offline", clear |-> FALSE]
    BY <2>1 DEF Publish, Eligible, ObservationState
  <2>3. TypeOK'
    <3>1. published' \in [state : States, clear : BOOLEAN]
      BY <2>2 DEF States
    <3>2. at' \in {"resolving", "receiving", "sleeping", "over"}
      BY <2>1
    <3>3. listening' \in BOOLEAN
      BY <2>1
    <3> QED BY <2>1, <3>1, <3>2, <3>3, Zenon
            DEF IInv, TypeOK, Never, Horizon, States
  <2>4. Standing'
    BY <2>1, <2>2 DEF Standing
  <2> QED BY <2>3, <2>4 DEF IInv
<1>8. CASE Tick
  <2>1. /\ at = "receiving" => quiet < ReceiveTimeout
        /\ quiet' = IF at = "receiving" THEN quiet + 1 ELSE quiet
        /\ age' = Older
        /\ UNCHANGED <<at, addresses, observed, listening, published>>
    BY <1>8 DEF Tick
  <2>2. quiet' \in 0..ReceiveTimeout
    BY <1>t, <2>1, MonitorAssumption
  <2>3. /\ age' \in Never..Horizon
        /\ age # Never => age' # Never /\ age' <= age + 1
    BY <1>t, <2>1, AgeGrows
  <2>4. Horizon' = Horizon
    BY DEF Horizon
  <2>5. TypeOK'
    BY <2>1, <2>2, <2>3, <2>4, Zenon DEF IInv, TypeOK, Never, States
  <2>6. ASSUME published.clear
        PROVE  /\ at = "receiving"
               /\ age # Never
               /\ age <= MaxAge + quiet
    BY <1>t, <2>6 DEF IInv, Standing
  <2>7. ASSUME published.clear
        PROVE  age' # Never /\ age' <= MaxAge + quiet'
    BY <1>t, <2>1, <2>3, <2>6, <2>7, MonitorAssumption, SMT DEF Never, Horizon
  <2>8. Standing'
    BY <1>t, <2>1, <2>7, Zenon DEF IInv, Standing, External, Never
  <2> QED BY <2>5, <2>8 DEF IInv
<1>9. CASE UNCHANGED vars
  BY <1>9 DEF vars, IInv, TypeOK, Standing, External, Never, Horizon, States
<1> QED BY <1>1, <1>2, <1>3, <1>4, <1>5, <1>6, <1>7, <1>8, <1>9 DEF Next

(* Every behaviour of the observing task keeps the invariant.              *)
THEOREM Observation == Spec => []IInv
<1>1. Init => IInv
  BY InitHolds
<1>2. IInv /\ [Next]_vars => IInv'
  BY StepHolds
<1> QED BY <1>1, <1>2, PTL DEF Spec

(* A permission left standing was justified at most the maximum age and    *)
(* one receive timeout ago (ownership.py, receive's timeout of five        *)
(* seconds in _observe_speedwire).                                         *)
THEOREM Fresh == Spec => []PermissionFresh
<1>1. IInv => PermissionFresh
  BY MonitorAssumption, SMT
     DEF IInv, TypeOK, Standing, PermissionFresh, Never, Horizon
<1> QED BY <1>1, Observation, PTL

(* No permission stands while nobody listens or a stranger is known.       *)
THEOREM Earned == Spec => []PermissionEarned
<1>1. IInv => PermissionEarned
  BY DEF IInv, Standing, PermissionEarned, Strangers
<1> QED BY <1>1, Observation, PTL
-----------------------------------------------------------------------------
(* The observation implements SpeedwireWatch.  A monitor that has received *)
(* nothing has seen nobody, and one that does not listen has no permission *)
(* standing: a resolution whose socket does not open changes nothing.      *)
Heard == IF age = Never THEN "never" ELSE IF age <= MaxAge THEN "fresh" ELSE "old"
Stranger == listening /\ Strangers # {}

Silent == age = Never => observed = {}

LEMMA SilentStep == IInv /\ Silent /\ [Next]_vars => Silent'
<1> SUFFICES ASSUME IInv, Silent, [Next]_vars PROVE Silent'
  OBVIOUS
<1>1. age \in Never..Horizon /\ MaxAge \in Nat /\ ReceiveTimeout \in Nat
  BY MonitorAssumption DEF IInv, TypeOK
<1>2. CASE Tick
  <2>1. age' = Older /\ observed' = observed
    BY <1>2 DEF Tick
  <2>2. Older = Never => age = Never
    BY <1>1 DEF Older, Never, Horizon
  <2> QED BY <2>1, <2>2 DEF Silent, Never
<1>3. ASSUME NEW h \in Hosts, Receive(h) PROVE Silent'
  BY <1>3 DEF Receive, Silent, Never
<1> QED BY <1>2, <1>3 DEF Next, Resolved, ResolveFails, GiveUp, ReceiveTimesOut, ReceiveFails,
                          Wake, Cancel, vars, Silent, Never

(* A publication states what Watch would state.                            *)
LEMMA PublishesWatch ==
  ASSUME Publish, listening' \in BOOLEAN, age' \in Never..Horizon
  PROVE  published'.clear =
           (Confirmed /\ listening' /\ Heard' = "fresh" /\ ~Stranger')
<1>1. published'.clear = Eligible(listening', age', observed', addresses')
  BY DEF Publish
<1>2. (ObservationState(listening', age') = "online") = (listening' /\ Heard' = "fresh")
  BY MonitorAssumption, SMT DEF ObservationState, Heard, Never, Horizon
<1>3. (External(observed', addresses') \subseteq TelemetryOnly) = (Strangers' = {})
  BY DEF Strangers, External
<1>4. Eligible(listening', age', observed', addresses') =
        (Confirmed /\ listening' /\ Heard' = "fresh" /\ Strangers' = {})
  BY <1>2, <1>3 DEF Eligible
<1> QED BY <1>1, <1>4 DEF Stranger

LEMMA WatchStep ==
  ASSUME IInv, Silent, [Next]_vars
  PROVE  [Watch!Next]_(Watch!vars)
<1>t. /\ listening = (at = "receiving") /\ listening \in BOOLEAN
      /\ age \in Never..Horizon /\ MaxAge \in Nat /\ ReceiveTimeout \in Nat \ {0}
      /\ published.clear => listening
      /\ published.clear \in BOOLEAN
  BY MonitorAssumption DEF IInv, TypeOK, Standing
<1>h. Heard \in {"never", "fresh", "old"} /\ Stranger \in BOOLEAN
      /\ (Heard = "never") = (age = Never)
  BY DEF Heard, Stranger
(* The three kinds of steps: the mapped state kept, a listener that goes   *)
(* away, and a statement of an open one.                                   *)
<1>s. ASSUME listening' = listening, Heard' = Heard, Stranger' = Stranger,
             published'.clear = published.clear
      PROVE  [Watch!Next]_(Watch!vars)
  BY <1>s DEF Watch!vars, Heard, Stranger
<1>f. ASSUME Publish, listening' = FALSE, age' = age
      PROVE  [Watch!Next]_(Watch!vars)
  <2>1. Heard' = Heard /\ Stranger' = FALSE
    BY <1>f DEF Heard, Stranger, Never
  <2>2. published'.clear =
          (Confirmed /\ listening' /\ Heard' = "fresh" /\ ~Stranger')
    BY <1>f, <1>t, PublishesWatch
  <2>3. CASE listening
    <3>1. Watch!Fail
      BY <1>f, <2>1, <2>2, <2>3 DEF Watch!Fail, Watch!Publish, Heard, Stranger
    <3> QED BY <3>1 DEF Watch!Next
  <2>4. CASE ~listening
    <3>1. Stranger = FALSE /\ published.clear = FALSE
      BY <1>t, <2>4 DEF Stranger
    <3> QED BY <1>f, <1>s, <1>t, <2>1, <2>2, <2>4, <3>1
  <2> QED BY <1>t, <2>3, <2>4
<1>1. CASE Resolved
  <2>1. CASE GiveUp
    BY <1>1, <1>f, <2>1 DEF Resolved, GiveUp
  <2>2. CASE at' = "receiving" /\ listening' = TRUE /\ Publish
    <3>1. age' = age /\ observed' = observed /\ ~listening
      BY <1>1, <1>t DEF Resolved
    <3>2. Heard' = Heard
      BY <3>1 DEF Heard, Never
    <3>3. published'.clear =
            (Confirmed /\ listening' /\ Heard' = "fresh" /\ ~Stranger')
      BY <1>t, <2>2, <3>1, PublishesWatch
    <3>4. Stranger' \in IF Heard = "never" THEN {FALSE} ELSE BOOLEAN
      <4>1. Stranger' \in BOOLEAN
        BY DEF Stranger
      <4>2. ASSUME Heard = "never" PROVE Stranger' = FALSE
        BY <1>h, <3>1, <4>2 DEF Silent, Stranger, Strangers, External
      <4> QED BY <4>1, <4>2
    <3>5. Watch!Open
      BY <2>2, <3>1, <3>2, <3>3, <3>4 DEF Watch!Open, Watch!Publish, Heard, Stranger
    <3> QED BY <3>5 DEF Watch!Next
  <2> QED BY <1>1, <2>1, <2>2 DEF Resolved
<1>2. CASE ResolveFails
  BY <1>2, <1>f DEF ResolveFails, GiveUp
<1>3. ASSUME NEW h \in Hosts, Receive(h)
      PROVE  [Watch!Next]_(Watch!vars)
  <2>1. /\ listening' = listening /\ listening /\ age' = 0 /\ Publish
        /\ observed' = observed \cup {h} /\ addresses' = addresses
    BY <1>3, <1>t DEF Receive
  <2>2. Heard' = "fresh"
    BY <1>t, <2>1 DEF Heard, Never
  <2>3. published'.clear =
          (Confirmed /\ listening' /\ Heard' = "fresh" /\ ~Stranger')
    BY <1>t, <2>1, PublishesWatch DEF Horizon, Never
  <2>4. Stranger' = (Stranger \/ External({h}, addresses) \ TelemetryOnly # {})
    BY <2>1 DEF Stranger, Strangers, External
  <2>5. PICK e \in BOOLEAN : Stranger' = (Stranger \/ e)
    BY <2>4
  <2>6. Watch!Hear(e)
    BY <2>1, <2>2, <2>3, <2>5 DEF Watch!Hear, Watch!Publish, Heard, Stranger
  <2> QED BY <2>6 DEF Watch!Next
<1>4. CASE ReceiveTimesOut
  <2>1. /\ listening' = listening /\ listening /\ age' = age /\ Publish
        /\ observed' = observed /\ addresses' = addresses
    BY <1>4, <1>t DEF ReceiveTimesOut
  <2>2. Heard' = Heard /\ Stranger' = Stranger
    BY <2>1 DEF Heard, Stranger, Strangers, External, Never
  <2>3. published'.clear =
          (Confirmed /\ listening' /\ Heard' = "fresh" /\ ~Stranger')
    BY <1>t, <2>1, PublishesWatch
  <2>4. Watch!Report
    BY <2>1, <2>2, <2>3 DEF Watch!Report, Watch!Publish, Heard, Stranger
  <2> QED BY <2>4 DEF Watch!Next
<1>5. CASE ReceiveFails
  BY <1>5, <1>f DEF ReceiveFails, GiveUp
<1>6. CASE Wake
  BY <1>6, <1>s DEF Wake, Heard, Stranger, Strangers, External, Never
<1>7. CASE Cancel
  BY <1>7, <1>f DEF Cancel
<1>8. CASE Tick
  <2>1. /\ age' = Older
        /\ UNCHANGED <<addresses, observed, listening, published>>
    BY <1>8 DEF Tick
  <2>2. Stranger' = Stranger
    BY <2>1 DEF Stranger, Strangers, External
  <2>3. \/ Heard' = Heard
        \/ Heard = "fresh" /\ Heard' = "old"
    BY <1>t, <2>1, SMT DEF Heard, Older, Horizon, Never
  <2>4. CASE Heard' = Heard
    BY <1>s, <2>1, <2>2, <2>4
  <2>5. CASE Heard = "fresh" /\ Heard' = "old"
    <3>1. Watch!Age
      BY <2>1, <2>2, <2>5 DEF Watch!Age, Heard, Stranger
    <3> QED BY <3>1 DEF Watch!Next
  <2> QED BY <2>3, <2>4, <2>5
<1>9. CASE UNCHANGED vars
  BY <1>9, <1>s DEF vars, Heard, Stranger, Strangers, External, Never
<1> QED BY <1>1, <1>2, <1>3, <1>4, <1>5, <1>6, <1>7, <1>8, <1>9 DEF Next

(* What _observe_speedwire publishes is what the coordinator takes it for, *)
(* whatever the hosts are, resolve to and send.                            *)
THEOREM WatchKept == Spec => KeepsWatch
<1>1. Init => Silent /\ Watch!Init
  BY DEF Init, Silent, Watch!Init
<1>2. IInv /\ Silent /\ [Next]_vars => [Watch!Next]_(Watch!vars)
  BY WatchStep
<1> QED BY <1>1, <1>2, Observation, SilentStep, PTL DEF Spec, KeepsWatch, Watch!Spec

-----------------------------------------------------------------------------
(* Every variable keeps its type, whatever is heard and fails.              *)
THEOREM TypeCorrect == Spec => []TypeOK
<1>1. IInv => TypeOK
  BY DEF IInv
<1> QED BY <1>1, Observation, PTL
=============================================================================
