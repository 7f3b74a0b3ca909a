------------------------- MODULE CommandSessionProofs -------------------------
(***************************************************************************)
(* Proofs about CommandSession for every interval, duration, transaction   *)
(* time, power bound, log capacity, guard and initial register contents.   *)
(***************************************************************************)
EXTENDS CommandSession, SequenceTheorems, TLAPS

IInv == TypeOK /\ SessionInv

(* All the proofs need to know of the addresses and register values.       *)
LEMMA RegisterFacts ==
  /\ Setpoint \in Registers
  /\ CommControl \in Registers \ {Setpoint}
  /\ ExternalMode \in Registers \ {Setpoint}
  /\ \A i \in 1..4 : PreflightReads[i] \in Registers
  /\ Len(PreflightReads) = 4
  /\ External \in Int /\ External # 0
  /\ {ModeOff, CommOn, CommOff, Unreadable} \subseteq Int
  /\ NoTimer \in Int /\ NoTimer \notin Nat
BY DEF Setpoint, CommControl, ExternalMode, FallbackMode, FallbackTimeout,
       FallbackPower, PowerMaximum, PowerMinimum, External, ModeOff,
       CommOff, CommOn, Unreadable, NoTimer, Registers, PreflightReads

-----------------------------------------------------------------------------
(* A log entry added to a log of events gives a log of events.             *)
LEMMA RecordedType ==
  ASSUME NEW log \in Seq(Event), NEW e \in Event
  PROVE  Recorded(log, e) \in Seq(Event)
<1>1. CASE Len(log) < MaxEvents
  BY <1>1 DEF Recorded
<1>2. CASE ~(Len(log) < MaxEvents)
  <2>1. log # <<>>
    BY <1>2, SessionAssumption
  <2>2. Tail(log) \in Seq(Event)
    BY <2>1
  <2> QED
    BY <1>2, <2>2 DEF Recorded
<1> QED
  BY <1>1, <1>2

(* The writes of a recovery are well-formed and never touch the setpoint.  *)
LEMMA RestoreWritesType ==
  ASSUME NEW b \in Baseline
  PROVE  RestoreWrites(b) \in Seq(RegisterWrite)
<1>1. <<CommControl, b.comm>> \in RegisterWrite
  BY RegisterFacts DEF Baseline, RegisterWrite
<1>2. <<ExternalMode, b.mode>> \in RegisterWrite
  BY RegisterFacts DEF Baseline, RegisterWrite
<1> QED
  BY <1>1, <1>2 DEF RestoreWrites

(* Sequences and functions, stated once for the leaves below.              *)
LEMMA HeadTail ==
  ASSUME NEW S, NEW s \in Seq(S), s # <<>>
  PROVE  /\ Head(s) \in S
         /\ Tail(s) \in Seq(S)
         /\ Tail(s) = <<>> <=> Len(s) = 1
<1>1. Head(s) \in S /\ Tail(s) \in Seq(S) /\ Len(Tail(s)) = Len(s) - 1
  BY HeadTailProperties, Zenon
<1>2. Tail(s) = <<>> <=> Len(Tail(s)) = 0
  BY <1>1, EmptySeq
<1>3. Len(s) \in Nat
  OBVIOUS
<1> QED
  BY <1>1, <1>2, <1>3

LEMMA WriteType ==
  ASSUME NEW r \in [Registers -> Int], NEW a, NEW v \in Int
  PROVE  [r EXCEPT ![a] = v] \in [Registers -> Int]
OBVIOUS

LEMMA EmptySequences == <<>> \in Seq(Int) /\ <<>> \in Seq(RegisterWrite)
OBVIOUS

LEMMA EventNames ==
  /\ "session_rejected" \in Event /\ "session_started" \in Event
  /\ "session_expired" \in Event /\ "session_stopped" \in Event
  /\ "session_failed" \in Event /\ "baseline_restored" \in Event
  /\ "restoration_failed" \in Event
BY DEF Event

(* Every way out of a call leaves a well-typed idle session.               *)
LEMMA ReturnInv ==
  ASSUME IInv, NEW how \in {"none", "error", "cancelled"}, Return(how),
         op' = op, active' \in BOOLEAN, guard' \in Guard,
         signal' \in SUBSET {"timer", "task"}, events' \in Seq(Event),
         reg' \in [Registers -> Int]
  PROVE  IInv'
<1>1. outcome' \in {"none", "returned", "error", "cancelled"}
  BY DEF Return, Seen
<1>2. TypeOK'
  <2>1. NoTimers \in Timers /\ NoBaseline \in Baseline
    BY DEF NoTimers, Timers, NoBaseline, Baseline
  <2>2. <<>> \in Seq(Int) /\ <<>> \in Seq(RegisterWrite)
    OBVIOUS
  <2>3. op' \in {"run", "recover", "configure"}
    BY DEF IInv, TypeOK
  <2>4. /\ pc' \in {"idle"} \cup Suspended
        /\ stop' \in BOOLEAN /\ broken' \in BOOLEAN
        /\ primary' \in {"none", "error", "cancelled"}
    BY Zenon DEF Return
  <2>6. power' \in Int
    BY DEF Return
  <2>5. /\ baseline' \in Baseline /\ timers' \in Timers
        /\ got' \in Seq(Int) /\ todo' \in Seq(RegisterWrite)
    BY <2>1, <2>2 DEF Return
  <2> QED
    BY <1>1, <2>3, <2>4, <2>5, <2>6, Zenon DEF TypeOK
<1>3. SessionInv'
  BY DEF SessionInv, PhaseInv, TimerInv, Return, Armed, Commanding,
         Recovering, NoBaseline
<1> QED
  BY <1>2, <1>3 DEF IInv

LEMMA StartRestoringInv ==
  ASSUME IInv, NEW b \in Baseline, StartRestoring(b), baseline' = b,
         op' \in {"run", "recover"}, op' = "run" => b.mode = External,
         active' \in BOOLEAN, guard' \in Guard, power' = power, stop' = stop,
         primary' \in {"none", "error", "cancelled"},
         outcome' \in {"none", "returned", "error", "cancelled"},
         signal' \in SUBSET {"timer", "task"}, events' \in Seq(Event),
         reg' \in [Registers -> Int]
  PROVE  IInv'
<1>1. todo' \in Seq(RegisterWrite)
  BY RestoreWritesType DEF StartRestoring
<1>2. pc' \in {"restore", "readback"} /\ got' = <<>> /\ broken' = FALSE
  BY DEF StartRestoring
<1>3. timers' \in Timers
  <2> DEFINE l == IF "timer" \in signal' THEN NoTimer ELSE timers.left
  <2>1. l \in Nat \cup {NoTimer}
    BY DEF IInv, TypeOK, Timers
  <2>2. timers' = [left |-> l, budget |-> 0, wake |-> 0, io |-> 0,
                   silent |-> 0]
    BY DEF StartRestoring, NoTimers
  <2> HIDE DEF l
  <2> QED
    BY <2>1, <2>2 DEF Timers
<1>4. TypeOK'
  <2>1. pc' \in {"idle"} \cup Suspended /\ got' \in Seq(Int)
    BY <1>2 DEF Suspended, Transaction
  <2>2. power' \in Int /\ stop' \in BOOLEAN
    BY DEF IInv, TypeOK
  <2>3. /\ op' \in {"run", "recover", "configure"}
        /\ broken' \in BOOLEAN /\ baseline' \in Baseline
    BY <1>2
  <2> QED
    BY <1>1, <2>3, <1>3, <2>1, <2>2, Zenon DEF TypeOK
<1>5. SessionInv'
  BY <1>2 DEF StartRestoring, SessionInv, PhaseInv, TimerInv, Armed,
              Commanding, Recovering
<1> QED
  BY <1>4, <1>5 DEF IInv

(* Leaving the body of run keeps the invariant, whichever way it is left.  *)
LEMMA LeaveBodyInv ==
  ASSUME IInv, NEW how \in {"none", "error", "cancelled"},
         NEW log \in Seq(Event), NEW b \in Baseline, LeaveBody(how, log, b),
         op = "run", b = NoBaseline \/ b.mode = External,
         guard' \in Guard, signal' \in SUBSET {"timer", "task"},
         reg' \in [Registers -> Int]
  PROVE  IInv'
<1>1. op' = op /\ events' = log
  BY DEF LeaveBody
<1>2. CASE b = NoBaseline
  <2>1. Return(how) /\ active' = FALSE
    BY <1>2 DEF LeaveBody
  <2> QED
    BY <1>1, <2>1, ReturnInv
<1>3. CASE b # NoBaseline
  <2>1. /\ StartRestoring(b) /\ baseline' = b /\ primary' = how
        /\ active' = active /\ power' = power /\ stop' = stop
        /\ outcome' = outcome
    BY <1>3 DEF LeaveBody
  <2>2. /\ active' \in BOOLEAN
        /\ outcome' \in {"none", "returned", "error", "cancelled"}
    BY <2>1 DEF IInv, TypeOK
  <2>3. b.mode = External
    BY <1>3
  <2>4. op' = "run"
    BY <1>1
  <2> QED
    BY <1>1, <2>1, <2>2, <2>3, <2>4, StartRestoringInv
<1> QED
  BY <1>2, <1>3

LEMMA FinishRestoringInv ==
  ASSUME IInv, NEW ok \in BOOLEAN, FinishRestoring(ok),
         guard' \in Guard, signal' \in SUBSET {"timer", "task"},
         reg' \in [Registers -> Int]
  PROVE  IInv'
<1>1. op' = op
  BY DEF FinishRestoring
<1>2. active' \in BOOLEAN
  BY DEF FinishRestoring, IInv, TypeOK
<1>3. events' \in Seq(Event)
  <2>1. Recorded(events, IF ok THEN "baseline_restored"
                               ELSE "restoration_failed") \in Seq(Event)
    BY EventNames, RecordedType DEF IInv, TypeOK
  <2> QED
    BY <2>1 DEF FinishRestoring, IInv, TypeOK
<1>4. (IF ~ok /\ primary = "none" THEN "error" ELSE primary)
        \in {"none", "error", "cancelled"}
  BY DEF IInv, TypeOK
<1> QED
  BY <1>1, <1>2, <1>3, <1>4, ReturnInv DEF FinishRestoring
(* The top of the loop: a session that goes on has time left and was not   *)
(* silent for longer than one interval and one transaction.                *)
LEMMA EnterLoopInv ==
  ASSUME IInv, NEW log \in Seq(Event), NEW b \in Baseline, NEW t \in Timers,
         EnterLoop(log, b, t), op = "run", b.mode = External,
         stop \/ (t.budget > 0 /\ t.silent <= Interval + IoTimeout),
         guard' \in Guard, signal' \in SUBSET {"timer", "task"},
         reg' \in [Registers -> Int]
  PROVE  IInv'
<1>1. CASE stop
  <2>1. LeaveBody("none", Recorded(log, "session_stopped"), b)
    BY <1>1 DEF EnterLoop, Validate, session
  <2>2. Recorded(log, "session_stopped") \in Seq(Event)
    BY EventNames, RecordedType
  <2> QED
    BY <2>1, <2>2, LeaveBodyInv
<1>2. CASE ~stop
  <2>1. /\ pc' = "validate" /\ timers' = [t EXCEPT !.io = 0]
        /\ events' = log /\ baseline' = b /\ got' = <<>>
        /\ UNCHANGED <<op, active, power, stop, todo, broken, primary, outcome>>
    BY <1>2 DEF EnterLoop, Validate, session
  <2>2. /\ timers' \in Timers /\ timers'.io = 0
        /\ timers'.budget = t.budget /\ timers'.silent = t.silent
    BY <2>1 DEF Timers
  <2>3. pc' \in {"idle"} \cup Suspended
    BY <2>1 DEF Suspended
  <2>4. TypeOK'
    <3>1. /\ got' \in Seq(Int) /\ baseline' \in Baseline
          /\ events' \in Seq(Event)
      BY <2>1, EmptySequences, Zenon
    <3>2. /\ op' \in {"run", "recover", "configure"} /\ active' \in BOOLEAN
          /\ power' \in Int /\ stop' \in BOOLEAN
          /\ todo' \in Seq(RegisterWrite) /\ broken' \in BOOLEAN
          /\ primary' \in {"none", "error", "cancelled"}
          /\ outcome' \in {"none", "returned", "error", "cancelled"}
      BY <2>1, Zenon DEF IInv, TypeOK
    <3> QED
      BY <2>2, <2>3, <3>1, <3>2, Zenon DEF TypeOK
  <2>5. b # NoBaseline
    BY RegisterFacts DEF NoBaseline
  <2>6. TimerInv'
    <3>1. t.budget > 0 /\ t.silent <= Interval + IoTimeout
      BY <1>2
    <3>2. t.budget \in Int /\ t.silent \in Int /\ Interval + IoTimeout \in Int
      BY SessionAssumption DEF Timers
    <3>3. 0 <= ValidateTime
      BY SessionAssumption
    <3> QED
      BY <2>1, <2>2, <3>1, <3>2, <3>3 DEF TimerInv
  <2>7. PhaseInv'
    BY <2>1, <2>5 DEF PhaseInv, Armed, Commanding, Recovering
  <2> QED
    BY <2>4, <2>6, <2>7 DEF IInv, SessionInv
<1> QED
  BY <1>1, <1>2

LEMMA InitIInv == Init => IInv
<1> SUFFICES ASSUME Init PROVE IInv
  OBVIOUS
<1>1. NoTimers \in Timers /\ NoBaseline \in Baseline
  BY DEF NoTimers, Timers, NoBaseline, Baseline
<1>2. guard \in Guard /\ reg \in [Registers -> Int]
  BY SessionAssumption DEF Init
<1>3. TypeOK
  <2>1. /\ pc \in {"idle"} \cup Suspended /\ active \in BOOLEAN
        /\ op \in {"run", "recover", "configure"} /\ stop \in BOOLEAN
        /\ broken \in BOOLEAN /\ primary \in {"none", "error", "cancelled"}
        /\ outcome \in {"none", "returned", "error", "cancelled"}
        /\ baseline \in Baseline /\ timers \in Timers
        /\ signal \in SUBSET {"timer", "task"}
    BY <1>1, Zenon DEF Init
  <2>2. /\ power \in Int /\ got \in Seq(Int)
        /\ todo \in Seq(RegisterWrite) /\ events \in Seq(Event)
    BY DEF Init
  <2> QED
    BY <1>2, <2>1, <2>2, Zenon DEF TypeOK
<1>4. SessionInv
  BY DEF Init, SessionInv, PhaseInv, TimerInv, Armed, Commanding, Recovering
<1> QED
  BY <1>3, <1>4 DEF IInv

(* A write in flight is well-formed, and only a heartbeat changes the      *)
(* setpoint.                                                               *)
LEMMA InFlightType ==
  ASSUME IInv
  PROVE  /\ \A w \in InFlight : w[1] \in Registers /\ w[2] \in Int
         /\ pc # "heartbeat" => \A w \in InFlight : w[1] # Setpoint
<1>1. CASE pc = "heartbeat"
  <2>1. InFlight = {<<Setpoint, power>>}
    BY <1>1 DEF InFlight
  <2>2. power \in Int
    BY DEF IInv, TypeOK
  <2> QED
    BY <1>1, <2>1, <2>2, RegisterFacts
<1>2. CASE pc \in {"restore", "configure"}
  <2>1. todo \in Seq(RegisterWrite) /\ todo # <<>>
    BY <1>2 DEF IInv, TypeOK, SessionInv, PhaseInv
  <2>2. Head(todo) \in RegisterWrite
    BY <2>1
  <2>3. InFlight = {Head(todo)}
    BY <1>2 DEF InFlight
  <2> QED
    BY <1>2, <2>2, <2>3 DEF RegisterWrite
<1>3. CASE pc \notin {"heartbeat", "restore", "configure"}
  BY <1>3 DEF InFlight
<1> QED
  BY <1>1, <1>2, <1>3

LEMMA LandedType ==
  ASSUME IInv, MaybeLanded \/ (\E w \in InFlight : reg' = [reg EXCEPT ![w[1]] = w[2]])
  PROVE  /\ reg' \in [Registers -> Int]
         /\ pc # "heartbeat" => reg'[Setpoint] = reg[Setpoint]
<1>1. reg \in [Registers -> Int]
  BY DEF IInv, TypeOK
<1>2. CASE reg' = reg
  BY <1>1, <1>2
<1>3. ASSUME NEW w \in InFlight, reg' = [reg EXCEPT ![w[1]] = w[2]]
      PROVE  /\ reg' \in [Registers -> Int]
             /\ pc # "heartbeat" => reg'[Setpoint] = reg[Setpoint]
  BY <1>1, <1>3, InFlightType, RegisterFacts
<1> QED
  BY <1>2, <1>3 DEF MaybeLanded

-----------------------------------------------------------------------------
(* Issuing the next transaction of a phase other than the heartbeat.       *)
LEMMA IssueInv ==
  ASSUME IInv, NEW at \in Transaction \ {"heartbeat"}, Issue(at),
         UNCHANGED <<op, active, power, stop, baseline, primary, outcome,
                     events>>,
         got' \in Seq(Int), todo' \in Seq(RegisterWrite), broken' \in BOOLEAN,
         guard' \in Guard, signal' \in SUBSET {"timer", "task"},
         reg' \in [Registers -> Int], PhaseInv'
  PROVE  IInv'
<1>1. pc' \in {"idle"} \cup Suspended
  BY DEF Issue, Suspended
<1>2. timers' \in Timers
  BY DEF Issue, IInv, TypeOK, Timers
<1>3. /\ op' \in {"run", "recover", "configure"} /\ active' \in BOOLEAN
      /\ power' \in Int /\ stop' \in BOOLEAN /\ baseline' \in Baseline
      /\ primary' \in {"none", "error", "cancelled"}
      /\ outcome' \in {"none", "returned", "error", "cancelled"}
      /\ events' \in Seq(Event)
  BY Zenon DEF IInv, TypeOK
<1>4. TypeOK'
  BY <1>1, <1>2, <1>3, Zenon DEF TypeOK
<1>5. TimerInv'
  BY DEF Issue, TimerInv, Transaction
<1> QED
  BY <1>4, <1>5, Zenon DEF IInv, SessionInv

LEMMA FailedType == IInv => Failed \in Seq(Event)
BY EventNames, RecordedType DEF Failed, IInv, TypeOK

(* Before and in the loop the only baseline is none or an external one.    *)
LEMMA BodyBaseline ==
  ASSUME IInv, op = "run"
  PROVE  baseline \in Baseline /\ (baseline = NoBaseline \/ baseline.mode = External)
BY DEF IInv, TypeOK, SessionInv, PhaseInv

LEMMA PreflightReadInv == ASSUME IInv, PreflightRead PROVE IInv'
<1> DEFINE seen == Append(got, reg[PreflightReads[Len(got) + 1]])
<1>1. /\ pc = "preflight" /\ signal' = signal /\ reg' = reg /\ op = "run"
      /\ baseline = NoBaseline /\ Len(got) < 4 /\ got \in Seq(Int)
  BY DEF PreflightRead, IInv, TypeOK, SessionInv, PhaseInv, PreflightReads,
        ReadOn, session
<1>2. signal' \in SUBSET {"timer", "task"} /\ reg' \in [Registers -> Int]
  BY <1>1, Zenon DEF IInv, TypeOK
<1>3. reg[PreflightReads[Len(got) + 1]] \in Int
  <2>1. Len(got) + 1 \in 1..4
    BY <1>1
  <2>2. PreflightReads[Len(got) + 1] \in Registers
    BY <2>1, RegisterFacts
  <2> QED
    BY <2>2 DEF IInv, TypeOK
<1>4. seen \in Seq(Int) /\ Len(seen) = Len(got) + 1
  BY <1>1, <1>3
<1> HIDE DEF seen
<1>5. CASE Len(seen) < Len(PreflightReads)
  <2>1. /\ got' = seen /\ Issue("preflight")
        /\ UNCHANGED <<op, active, guard, power, stop, baseline, todo, broken,
                       primary, outcome, events>>
    BY <1>5 DEF PreflightRead, seen, ReadOn, session
  <2>2. /\ todo' \in Seq(RegisterWrite) /\ broken' \in BOOLEAN /\ guard' \in Guard
    BY <2>1, Zenon DEF IInv, TypeOK
  <2>3. PhaseInv'
    BY <1>1, <1>5, <2>1 DEF PhaseInv, Issue, Armed, Commanding, Recovering
  <2>4. "preflight" \in Transaction \ {"heartbeat"}
    BY DEF Transaction
  <2> QED
    BY <1>2, <1>4, <2>1, <2>2, <2>3, <2>4, IssueInv, Zenon
<1>6. CASE ~(Len(seen) < Len(PreflightReads))
  <2>1. guard' = [guard EXCEPT !.failsafe = FailsafeValid(seen)]
    BY <1>6, Zenon DEF PreflightRead, seen, ReadOn, session
  <2>2. guard' \in Guard
    <3>1. FailsafeValid(seen) \in BOOLEAN
      BY DEF FailsafeValid
    <3>2. guard \in Guard
      BY DEF IInv, TypeOK
    <3> QED
      BY <2>1, <3>1, <3>2 DEF Guard
  <2>3. CASE FailsafeValid(seen)
    <3>1. /\ got' = <<>> /\ Issue("capture")
          /\ UNCHANGED <<op, active, power, stop, baseline, todo, broken,
                         primary, outcome, events>>
      BY <1>6, <2>3, Zenon DEF PreflightRead, seen, ReadOn, session
    <3>2. /\ todo' \in Seq(RegisterWrite) /\ broken' \in BOOLEAN
          /\ got' \in Seq(Int)
      BY <3>1, EmptySequences, Zenon DEF IInv, TypeOK
    <3>3. PhaseInv'
      BY <1>1, <3>1 DEF PhaseInv, Issue, Armed, Commanding, Recovering
    <3>4. "capture" \in Transaction \ {"heartbeat"}
      BY DEF Transaction
    <3> QED
      BY <1>2, <2>2, <3>1, <3>2, <3>3, <3>4, IssueInv, Zenon
  <2>4. CASE ~FailsafeValid(seen)
    <3>1. LeaveBody("error", Failed, baseline)
      BY <1>6, <2>4, Zenon DEF PreflightRead, seen, ReadOn, session
    <3> QED
      BY <1>1, <1>2, <2>2, <3>1, FailedType, BodyBaseline, LeaveBodyInv
  <2> QED
    BY <2>3, <2>4
<1> QED
  BY <1>5, <1>6

LEMMA CaptureReadInv == ASSUME IInv, CaptureRead PROVE IInv'
<1>1. /\ pc = "capture" /\ signal' = signal /\ reg' = reg /\ guard' = guard
      /\ op = "run" /\ baseline = NoBaseline
      /\ got \in {<<>>, <<External>>}
  BY DEF CaptureRead, IInv, TypeOK, SessionInv, PhaseInv, ReadOn, session
<1>2. /\ signal' \in SUBSET {"timer", "task"} /\ reg' \in [Registers -> Int]
      /\ guard' \in Guard
  BY <1>1, Zenon DEF IInv, TypeOK
<1>3. CASE got = <<>> /\ reg[ExternalMode] = External
  <2>1. /\ got' = <<External>> /\ Issue("capture")
        /\ UNCHANGED <<op, active, power, stop, baseline, todo, broken,
                       primary, outcome, events>>
    BY <1>3 DEF CaptureRead, ReadOn, session
  <2>2. /\ todo' \in Seq(RegisterWrite) /\ broken' \in BOOLEAN
    BY <2>1, Zenon DEF IInv, TypeOK
  <2>3. got' \in Seq(Int)
    BY <2>1, RegisterFacts
  <2>4. PhaseInv'
    BY <1>1, <2>1 DEF PhaseInv, Issue, Armed, Commanding, Recovering
  <2>5. "capture" \in Transaction \ {"heartbeat"}
    BY DEF Transaction
  <2> QED
    BY <1>2, <2>1, <2>2, <2>3, <2>4, <2>5, IssueInv, Zenon
<1>4. CASE got = <<>> /\ reg[ExternalMode] # External
  <2>1. LeaveBody("error", Failed, baseline)
    BY <1>4 DEF CaptureRead, ReadOn, session
  <2> QED
    BY <1>1, <1>2, <2>1, FailedType, BodyBaseline, LeaveBodyInv
<1>5. CASE got # <<>>
  <2> DEFINE comm == IF reg[CommControl] \in {CommOn, CommOff}
                     THEN reg[CommControl] ELSE Unreadable
             b == [mode |-> got[1], comm |-> comm]
             t == [timers EXCEPT !.budget = MaxDuration, !.silent = 0]
             log == Recorded(events, "session_started")
  <2>1. EnterLoop(log, b, t)
    BY <1>5 DEF CaptureRead, ReadOn, session
  <2>2. got = <<External>> /\ got[1] = External
    BY <1>1, <1>5
  <2>3. comm \in Int
    BY RegisterFacts
  <2>4. b \in Baseline /\ b.mode = External
    BY <2>2, <2>3, RegisterFacts DEF Baseline
  <2>5. log \in Seq(Event)
    BY EventNames, RecordedType DEF IInv, TypeOK
  <2>6. t \in Timers /\ t.budget > 0 /\ t.silent <= Interval + IoTimeout
    <3>1. timers \in Timers
      BY DEF IInv, TypeOK
    <3>2. MaxDuration \in Int /\ MaxDuration > 0 /\ 0 <= Interval + IoTimeout
      BY SessionAssumption
    <3>3. t \in Timers
      BY <3>1, <3>2 DEF Timers
    <3>4. t.budget = MaxDuration /\ t.silent = 0
      BY <3>1 DEF Timers
    <3> QED
      BY <3>2, <3>3, <3>4
  <2> HIDE DEF comm, b, t, log
  <2> QED
    BY <1>1, <1>2, <2>1, <2>4, <2>5, <2>6, EnterLoopInv
<1> QED
  BY <1>3, <1>4, <1>5
(* What an action that leaves guard and signal alone keeps of the types.   *)
LEMMA Kept ==
  ASSUME IInv, UNCHANGED <<guard, signal>>
  PROVE  guard' \in Guard /\ signal' \in SUBSET {"timer", "task"}
BY Zenon DEF IInv, TypeOK

LEMMA KeptReg == ASSUME IInv, UNCHANGED reg PROVE reg' \in [Registers -> Int]
BY Zenon DEF IInv, TypeOK

LEMMA ValidateInv ==
  ASSUME IInv, ValidateOk \/ ValidateFails \/ ReadFails
  PROVE  IInv'
<1>1. guard' \in Guard /\ signal' \in SUBSET {"timer", "task"}
  BY Kept DEF ValidateOk, ValidateFails, ReadFails, Proceed, session
<1>2. reg' \in [Registers -> Int]
  BY KeptReg DEF ValidateOk, ValidateFails, ReadFails, Proceed, session
<1>3. op = "run"
  BY DEF ValidateOk, ValidateFails, ReadFails, IInv, SessionInv, PhaseInv,
         Commanding, Proceed, session
<1>4. CASE LeaveBody("error", Failed, baseline)
  BY <1>1, <1>2, <1>3, <1>4, FailedType, BodyBaseline, LeaveBodyInv
<1>5. CASE ~LeaveBody("error", Failed, baseline)
  <2>1. /\ pc = "validate" /\ pc' = "heartbeat"
        /\ timers' = [timers EXCEPT !.io = 0, !.silent = 0]
        /\ UNCHANGED <<op, active, power, stop, baseline, got, todo, broken,
                       primary, outcome, events>>
    BY <1>5 DEF ValidateOk, ValidateFails, ReadFails, Proceed, session
  <2>2. timers \in Timers /\ timers.io <= ValidateTime
        /\ timers.budget + timers.io > 0
    BY <2>1 DEF IInv, TypeOK, SessionInv, TimerInv
  <2>3. /\ timers' \in Timers /\ timers'.io = 0 /\ timers'.silent = 0
        /\ timers'.budget = timers.budget
    BY <2>1, <2>2 DEF Timers
  <2>4. pc' \in {"idle"} \cup Suspended
    BY <2>1 DEF Suspended, Transaction
  <2>5. TypeOK'
    BY <1>1, <1>2, <2>1, <2>3, <2>4, Zenon DEF IInv, TypeOK
  <2>6. TimerInv'
    BY <2>1, <2>2, <2>3, SessionAssumption, SMTT(30) DEF TimerInv, Timers
  <2>7. PhaseInv'
    BY <2>1 DEF IInv, SessionInv, PhaseInv, Armed, Commanding, Recovering
  <2> QED
    BY <2>5, <2>6, <2>7, Zenon DEF IInv, SessionInv
<1> QED
  BY <1>4, <1>5

LEMMA HeartbeatSentInv == ASSUME IInv, HeartbeatSent PROVE IInv'
<1>1. /\ pc = "heartbeat" /\ op = "run"
      /\ guard' \in Guard /\ signal' \in SUBSET {"timer", "task"}
  BY Kept DEF HeartbeatSent, IInv, SessionInv, PhaseInv, Commanding,
        Acknowledged, Proceed, WaitTime, session
<1>2. reg' \in [Registers -> Int]
  <2>1. reg \in [Registers -> Int] /\ power \in Int
    BY DEF IInv, TypeOK
  <2>2. reg' = [reg EXCEPT ![Setpoint] = power]
    BY DEF HeartbeatSent, Acknowledged, Proceed, WaitTime, session
  <2> QED
    BY <2>1, <2>2, WriteType, Zenon
<1>3. CASE timers.budget <= 0
  <2>1. LeaveBody("none", Recorded(events, "session_expired"), baseline)
    BY <1>3 DEF HeartbeatSent, Acknowledged, Proceed, WaitTime, session
  <2>2. Recorded(events, "session_expired") \in Seq(Event)
    BY EventNames, RecordedType DEF IInv, TypeOK
  <2> QED
    BY <1>1, <1>2, <2>1, <2>2, BodyBaseline, LeaveBodyInv
<1>4. CASE ~(timers.budget <= 0)
  <2> DEFINE w == IF timers.budget < Interval THEN timers.budget ELSE Interval
  <2>1. /\ pc' = "wait" /\ timers' = [timers EXCEPT !.io = 0, !.wake = w]
        /\ UNCHANGED <<op, active, power, stop, baseline, got, todo, broken,
                       primary, outcome, events>>
    BY <1>4 DEF HeartbeatSent, Acknowledged, Proceed, WaitTime, session
  <2>2. timers \in Timers /\ timers.silent <= timers.io /\ timers.io <= IoTimeout
    BY <1>1 DEF IInv, TypeOK, SessionInv, TimerInv
  <2>3. w \in Nat /\ w <= Interval
    BY <1>4, <2>2, SessionAssumption DEF Timers
  <2> HIDE DEF w
  <2>4. timers' \in Timers /\ timers'.wake = w /\ timers'.silent = timers.silent
    BY <2>1, <2>2, <2>3 DEF Timers
  <2>5. pc' \in {"idle"} \cup Suspended
    BY <2>1 DEF Suspended
  <2>6. TypeOK'
    BY <1>1, <1>2, <2>1, <2>4, <2>5, Zenon DEF IInv, TypeOK
  <2>7. TimerInv'
    BY <2>1, <2>2, <2>3, <2>4, SessionAssumption, SMTT(30) DEF TimerInv, Timers
  <2>8. PhaseInv'
    BY <1>1, <2>1 DEF IInv, SessionInv, PhaseInv, Armed, Commanding, Recovering
  <2> QED
    BY <2>6, <2>7, <2>8, Zenon DEF IInv, SessionInv
<1> QED
  BY <1>3, <1>4

LEMMA WaitInv == ASSUME IInv, WaitStopped \/ WaitTimeout PROVE IInv'
<1>1. /\ pc = "wait" /\ op = "run"
      /\ guard' \in Guard /\ signal' \in SUBSET {"timer", "task"}
  BY Kept DEF WaitStopped, WaitTimeout, IInv, SessionInv, PhaseInv, Commanding
<1>2. reg' \in [Registers -> Int] /\ events \in Seq(Event) /\ timers \in Timers
  BY KeptReg DEF WaitStopped, WaitTimeout, IInv, TypeOK
<1>3. baseline \in Baseline /\ baseline.mode = External
  BY <1>1, BodyBaseline DEF IInv, SessionInv, PhaseInv, Armed, Commanding
<1>4. CASE WaitStopped
  BY <1>1, <1>2, <1>3, <1>4, EnterLoopInv DEF WaitStopped
<1>5. CASE WaitTimeout /\ timers.budget <= 0
  <2>1. LeaveBody("none", Recorded(events, "session_expired"), baseline)
    BY <1>5 DEF WaitTimeout
  <2>2. Recorded(events, "session_expired") \in Seq(Event)
    BY EventNames, RecordedType, <1>2
  <2> QED
    BY <1>1, <1>2, <1>3, <2>1, <2>2, LeaveBodyInv
<1>6. CASE WaitTimeout /\ ~(timers.budget <= 0)
  <2>1. EnterLoop(events, baseline, timers) /\ timers.wake = 0
    BY <1>6 DEF WaitTimeout
  <2>2. timers.silent + timers.wake <= Interval + IoTimeout
    BY <1>1 DEF IInv, SessionInv, TimerInv
  <2>3. timers.budget > 0 /\ timers.silent <= Interval + IoTimeout
    BY <1>2, <1>6, <2>1, <2>2, SessionAssumption DEF Timers
  <2> QED
    BY <1>1, <1>2, <1>3, <2>1, <2>3, EnterLoopInv
<1> QED
  BY <1>4, <1>5, <1>6

LEMMA HeartbeatFailsInv == ASSUME IInv, HeartbeatFails PROVE IInv'
<1>1. /\ pc = "heartbeat" /\ op = "run"
      /\ guard' \in Guard /\ signal' \in SUBSET {"timer", "task"}
  BY Kept DEF HeartbeatFails, IInv, SessionInv, PhaseInv, Commanding
<1>2. reg' \in [Registers -> Int]
  BY LandedType DEF HeartbeatFails
<1> QED
  BY <1>1, <1>2, FailedType, BodyBaseline, LeaveBodyInv DEF HeartbeatFails
LEMMA RestoreInv == ASSUME IInv, RestoreWritten \/ RestoreWriteFails PROVE IInv'
<1>1. PICK landed \in BOOLEAN : Restore(landed)
  BY DEF RestoreWritten, RestoreWriteFails
<1>2. /\ pc = "restore" /\ op \in {"run", "recover"} /\ todo # <<>>
      /\ todo \in Seq(RegisterWrite)
      /\ guard' \in Guard /\ signal' \in SUBSET {"timer", "task"}
  BY <1>1, Kept DEF Restore, IInv, TypeOK, SessionInv, PhaseInv, Recovering
<1>3. reg' \in [Registers -> Int]
  <2>1. MaybeLanded \/ (\E w \in InFlight : reg' = [reg EXCEPT ![w[1]] = w[2]])
    BY Zenon DEF RestoreWritten, RestoreWriteFails
  <2> QED
    BY <2>1, LandedType, Zenon
<1> DEFINE rest == Tail(todo)
           failed == broken \/ ~landed
<1>4. CASE rest = <<>> /\ failed
  <2>1. FinishRestoring(FALSE)
    BY <1>1, <1>4 DEF Restore
  <2> QED
    BY <1>2, <1>3, <2>1, FinishRestoringInv
<1>5. CASE ~(rest = <<>> /\ failed)
  <2>1. /\ todo' = rest /\ broken' = failed
        /\ Issue(IF rest = <<>> THEN "readback" ELSE "restore")
        /\ UNCHANGED <<op, active, power, stop, baseline, got, primary,
                       outcome, events>>
    BY <1>1, <1>5, Zenon DEF Restore
  <2>2. rest \in Seq(RegisterWrite)
    BY <1>2
  <2>3. failed \in BOOLEAN
    OBVIOUS
  <2>4. got' \in Seq(Int)
    BY <2>1 DEF IInv, TypeOK
  <2>5. PhaseInv'
    BY <1>2, <2>1 DEF IInv, SessionInv, PhaseInv, Issue, Armed, Commanding,
                      Recovering
  <2>6. (IF rest = <<>> THEN "readback" ELSE "restore")
          \in Transaction \ {"heartbeat"}
    BY DEF Transaction
  <2> HIDE DEF rest, failed
  <2> QED
    BY <1>2, <1>3, <2>1, <2>2, <2>3, <2>4, <2>5, <2>6, IssueInv
<1> QED
  BY <1>4, <1>5

LEMMA ReadbackInv == ASSUME IInv, Readback \/ ReadbackFails PROVE IInv'
<1>1. /\ pc = "readback" /\ op \in {"run", "recover"}
      /\ guard' \in Guard /\ signal' \in SUBSET {"timer", "task"}
  <2>1. pc = "readback" /\ guard' = guard /\ signal' = signal
    <3>1. CASE Readback
      BY <3>1, Zenon DEF Readback, ReadOn, session
    <3>2. CASE ReadbackFails
      BY <3>2, Zenon DEF ReadbackFails
    <3> QED
      BY <3>1, <3>2
  <2> QED
    BY <2>1, Kept DEF IInv, SessionInv, PhaseInv, Recovering
<1>2. reg' \in [Registers -> Int]
  <2>1. UNCHANGED reg
    <3>1. CASE Readback
      BY <3>1, Zenon DEF Readback, ReadOn, session
    <3>2. CASE ReadbackFails
      BY <3>2, Zenon DEF ReadbackFails
    <3> QED
      BY <3>1, <3>2
  <2> QED
    BY <2>1, KeptReg
<1>3. CASE Readback /\ got = <<>>
  <2>1. /\ got' = <<reg[CommControl]>> /\ Issue("readback")
        /\ UNCHANGED <<op, active, power, stop, baseline, todo, broken,
                       primary, outcome, events>>
    BY <1>3 DEF Readback, ReadOn, session
  <2>2. got' \in Seq(Int)
    <3>1. reg[CommControl] \in Int
      BY RegisterFacts DEF IInv, TypeOK
    <3> QED
      BY <2>1, <3>1
  <2>3. todo' \in Seq(RegisterWrite) /\ broken' \in BOOLEAN
    BY <2>1, Zenon DEF IInv, TypeOK
  <2>4. PhaseInv'
    BY <1>1, <2>1 DEF IInv, SessionInv, PhaseInv, Issue, Armed, Commanding,
                      Recovering
  <2>5. "readback" \in Transaction \ {"heartbeat"}
    BY DEF Transaction
  <2> QED
    BY <1>1, <1>2, <2>1, <2>2, <2>3, <2>4, <2>5, IssueInv
<1>4. CASE Readback /\ got # <<>>
  <2>1. FinishRestoring(Restored(baseline, got[1], reg[ExternalMode]))
    BY <1>4 DEF Readback, ReadOn, session
  <2>2. Restored(baseline, got[1], reg[ExternalMode]) \in BOOLEAN
    BY DEF Restored
  <2> QED
    BY <1>1, <1>2, <2>1, <2>2, FinishRestoringInv
<1>5. CASE ReadbackFails
  BY <1>1, <1>2, <1>5, FinishRestoringInv DEF ReadbackFails
<1> QED
  BY <1>3, <1>4, <1>5

LEMMA ConfigureStepInv ==
  ASSUME IInv, ConfigureWritten \/ ConfigureFails
  PROVE  IInv'
<1>1. /\ pc = "configure" /\ op = "configure" /\ todo # <<>>
      /\ todo \in Seq(RegisterWrite) /\ baseline = NoBaseline
      /\ guard' \in Guard /\ signal' \in SUBSET {"timer", "task"}
      /\ op' = op /\ events' = events /\ active' = active
  BY Kept DEF ConfigureWritten, ConfigureFails, IInv, TypeOK, SessionInv,
              PhaseInv
<1>2. reg' \in [Registers -> Int]
  BY LandedType DEF ConfigureWritten, ConfigureFails
<1>3. events' \in Seq(Event) /\ active' \in BOOLEAN
  BY <1>1, Zenon DEF IInv, TypeOK
<1>4. CASE ConfigureFails
  BY <1>1, <1>2, <1>3, <1>4, ReturnInv DEF ConfigureFails
<1>5. CASE ConfigureWritten /\ Len(todo) = 1
  <2>1. Return("none")
    BY <1>5 DEF ConfigureWritten
  <2> QED
    BY <1>1, <1>2, <1>3, <2>1, ReturnInv
<1>6. CASE ConfigureWritten /\ Len(todo) # 1
  <2>1. /\ todo' = Tail(todo) /\ Issue("configure")
        /\ UNCHANGED <<power, stop, baseline, got, broken, primary, outcome>>
    BY <1>6, Zenon DEF ConfigureWritten
  <2>2. Tail(todo) \in Seq(RegisterWrite) /\ Tail(todo) # <<>>
    BY <1>1, <1>6, HeadTail, Zenon
  <2>3. got' \in Seq(Int) /\ broken' \in BOOLEAN
    BY <2>1, Zenon DEF IInv, TypeOK
  <2>4. PhaseInv'
    BY <1>1, <2>1, <2>2 DEF PhaseInv, Issue, Armed, Commanding, Recovering
  <2>5. "configure" \in Transaction \ {"heartbeat"}
    BY DEF Transaction
  <2> QED
    BY <1>1, <1>2, <2>1, <2>2, <2>3, <2>4, <2>5, IssueInv
<1> QED
  BY <1>4, <1>5, <1>6

(* A cancellation, from the timer or from outside, at any await.           *)
LEMMA CancelInv == ASSUME IInv, RunForTimeout \/ CancelTask PROVE IInv'
<1>1. Cancelled /\ pc \in Suspended
  BY DEF RunForTimeout, CancelTask
<1>2. signal' \in SUBSET {"timer", "task"}
  BY DEF RunForTimeout, CancelTask, IInv, TypeOK
<1>3. reg' \in [Registers -> Int]
  BY <1>1, LandedType DEF Cancelled
<1>4. guard' \in Guard
  BY <1>1, Zenon DEF Cancelled, IInv, TypeOK
<1>5. CASE op = "run" /\ pc \notin Recovering
  <2>1. LeaveBody("cancelled", Failed, baseline)
    BY <1>1, <1>5 DEF Cancelled
  <2> QED
    BY <1>2, <1>3, <1>4, <1>5, <2>1, FailedType, BodyBaseline, LeaveBodyInv
<1>6. CASE ~(op = "run" /\ pc \notin Recovering)
  <2>1. Return("cancelled") /\ UNCHANGED <<op, active, events>>
    BY <1>1, <1>6, Zenon DEF Cancelled
  <2>2. events' \in Seq(Event) /\ active' \in BOOLEAN
    BY <2>1, Zenon DEF IInv, TypeOK
  <2> QED
    BY <1>2, <1>3, <1>4, <2>1, <2>2, ReturnInv
<1> QED
  BY <1>5, <1>6
LEMMA RunInv ==
  ASSUME IInv, NEW p \in Int, NEW s \in BOOLEAN,
         NEW d \in Nat \cup {NoTimer}, pc = "idle", Begin(p, s, d)
  PROVE  IInv'
<1>1. /\ pc' = "preflight" /\ op' = "run" /\ active' = TRUE /\ power' = p
      /\ stop' = s /\ timers' = [NoTimers EXCEPT !.left = d] /\ signal' = {}
      /\ outcome' = "none"
      /\ UNCHANGED <<guard, baseline, got, todo, broken, primary, events, reg>>
  BY Zenon DEF Begin
<1>2. timers' \in Timers
  BY <1>1 DEF Timers, NoTimers
<1>3. baseline = NoBaseline
  BY DEF IInv, SessionInv, PhaseInv
<1>4. TypeOK'
  <2>1. pc' \in {"idle"} \cup Suspended
    BY <1>1 DEF Suspended, Transaction
  <2> QED
    BY <1>1, <1>2, <2>1, Zenon DEF IInv, TypeOK
<1>5. TimerInv'
  BY <1>1 DEF TimerInv
<1>6. PhaseInv'
  <2>1. got = <<>>
    BY DEF IInv, SessionInv, PhaseInv
  <2>2. Len(got') < Len(PreflightReads)
    BY <1>1, <2>1, RegisterFacts
  <2> QED
    BY <1>1, <1>3, <2>2 DEF PhaseInv, Armed, Commanding, Recovering
<1> QED
  BY <1>4, <1>5, <1>6, Zenon DEF IInv, SessionInv

LEMMA RestoreNormalInv == ASSUME IInv, RestoreNormal PROVE IInv'
<1> DEFINE b == [mode |-> ModeOff, comm |-> CommOff]
<1>1. b \in Baseline
  BY RegisterFacts DEF Baseline
<1>2. /\ StartRestoring(b) /\ baseline' = b /\ op' = "recover" /\ signal' = {}
      /\ outcome' = "none"
      /\ UNCHANGED <<active, guard, power, stop, primary, events, reg>>
  BY Zenon DEF RestoreNormal
<1>3. /\ active' \in BOOLEAN /\ guard' \in Guard /\ events' \in Seq(Event)
      /\ primary' \in {"none", "error", "cancelled"}
      /\ reg' \in [Registers -> Int]
  BY <1>2, Zenon DEF IInv, TypeOK
<1> HIDE DEF b
<1> QED
  BY <1>1, <1>2, <1>3, StartRestoringInv

LEMMA ConfigureInv ==
  ASSUME IInv, NEW w \in Settings, Configure(w)
  PROVE  IInv'
<1>1. /\ pc = "idle" /\ op' = "configure" /\ signal' = {}
      /\ UNCHANGED <<active, guard, power, stop, baseline, got, broken, primary,
                     events, reg>>
  BY Zenon DEF Configure
<1>2. baseline = NoBaseline
  BY <1>1 DEF IInv, SessionInv, PhaseInv
<1>3. w \in Seq(RegisterWrite) /\ w # <<>>
  BY SessionAssumption
<1>4. \/ pc' = "idle" /\ todo' = todo /\ timers' = timers /\ outcome' = "error"
      \/ /\ pc' = "configure" /\ todo' = w /\ outcome' = "none"
         /\ timers' = [timers EXCEPT !.io = 0]
  BY <1>1 DEF Configure, Issue
<1>5. timers' \in Timers
  BY <1>4 DEF IInv, TypeOK, Timers
<1>6. TypeOK'
  <2>1. pc' \in {"idle"} \cup Suspended
    BY <1>4 DEF Suspended, Transaction
  <2>2. todo' \in Seq(RegisterWrite)
    BY <1>3, <1>4, Zenon DEF IInv, TypeOK
  <2>3. outcome' \in {"none", "returned", "error", "cancelled"}
    BY <1>4
  <2> QED
    BY <1>1, <1>5, <2>1, <2>2, <2>3, Zenon DEF IInv, TypeOK
<1>7. TimerInv'
  BY <1>4 DEF TimerInv
<1>8. PhaseInv'
  BY <1>1, <1>2, <1>3, <1>4 DEF IInv, SessionInv, PhaseInv, Armed, Commanding,
                                Recovering
<1> QED
  BY <1>6, <1>7, <1>8, Zenon DEF IInv, SessionInv

(* What does not move the coroutine.                                       *)
LEMMA AsideInv ==
  ASSUME IInv, RejectOverlap \/ SetStop \/ DeviceChange
  PROVE  IInv'
<1>1. /\ UNCHANGED <<pc, op, active, guard, power, baseline, got, todo, broken,
                     primary, signal, outcome, timers>>
      /\ stop' \in BOOLEAN
  BY DEF RejectOverlap, SetStop, DeviceChange, control, IInv, TypeOK
<1>2. events' \in Seq(Event)
  <2>1. Recorded(events, "session_rejected") \in Seq(Event)
    BY EventNames, RecordedType DEF IInv, TypeOK
  <2> QED
    BY <2>1, Zenon DEF RejectOverlap, SetStop, DeviceChange, IInv, TypeOK
<1>3. reg' \in [Registers -> Int]
  <2>1. \/ reg' = reg
        \/ \E a \in Registers, v \in Int : reg' = [reg EXCEPT ![a] = v]
    BY RegisterFacts DEF RejectOverlap, SetStop, DeviceChange
  <2>2. reg \in [Registers -> Int]
    BY DEF IInv, TypeOK
  <2> QED
    BY <2>1, <2>2
<1>4. TypeOK'
  BY <1>1, <1>2, <1>3, Zenon DEF IInv, TypeOK
<1>5. SessionInv'
  BY <1>1 DEF IInv, SessionInv, PhaseInv, TimerInv, Armed
<1> QED
  BY <1>4, <1>5 DEF IInv
(* Time: no timer passes the point where the action it enables is due.     *)
LEMMA TickInv == ASSUME IInv, Tick PROVE IInv'
<1>1. /\ pc \in Suspended
      /\ pc \in Transaction => timers.io < IoTimeout
      /\ pc = "validate" => timers.io < ValidateTime
      /\ pc = "wait" => timers.wake > 0
      /\ timers' = Elapsed(timers) /\ timers \in Timers
      /\ UNCHANGED <<pc, op, active, guard, power, stop, baseline, got, todo,
                     broken, primary, signal, outcome, events, reg>>
  BY DEF Tick, control, IInv, TypeOK
<1>2. /\ timers.left \in Nat \cup {NoTimer} /\ timers.budget \in Int
      /\ timers.wake \in Nat /\ timers.io \in Nat /\ timers.silent \in Nat
  BY <1>1 DEF Timers
<1>3. /\ Down(timers.left) \in Nat \cup {NoTimer} /\ Down(timers.wake) \in Nat
      /\ timers.wake > 0 => Down(timers.wake) = timers.wake - 1
  BY <1>2 DEF Down, NoTimer
<1>4. /\ timers'.left = Down(timers.left) /\ timers'.wake = Down(timers.wake)
      /\ timers'.budget = (IF pc \in Commanding THEN timers.budget - 1
                           ELSE timers.budget)
      /\ timers'.io = (IF pc = "wait" THEN 0 ELSE timers.io + 1)
      /\ timers'.silent = (IF pc \in Commanding THEN timers.silent + 1
                           ELSE timers.silent)
      /\ timers' \in Timers
  BY <1>1, <1>2, <1>3 DEF Elapsed, Timers
<1>5. TypeOK'
  BY <1>1, <1>4, Zenon DEF IInv, TypeOK
<1>6. TimerInv'
  <2>1. TimerInv
    BY DEF IInv, SessionInv
  <2>2. CASE pc = "validate"
    <3>1. /\ timers'.io = timers.io + 1
          /\ timers'.silent = timers.silent + 1
          /\ timers'.budget = timers.budget - 1
      BY <1>4, <2>2 DEF Commanding
    <3>2. timers.io < ValidateTime /\ pc' = "validate"
      BY <1>1, <2>2
    <3>3. /\ timers.silent <= Interval + IoTimeout + timers.io
          /\ timers.budget + timers.io > 0
      BY <2>1, <2>2 DEF TimerInv
    <3> QED
      BY <1>2, <3>1, <3>2, <3>3, SessionAssumption DEF TimerInv
  <2>3. CASE pc = "heartbeat"
    <3>1. /\ timers'.io = timers.io + 1
          /\ timers'.silent = timers.silent + 1
          /\ timers'.budget = timers.budget - 1
      BY <1>4, <2>3 DEF Commanding
    <3>2. timers.io < IoTimeout /\ pc' = "heartbeat"
      BY <1>1, <2>3 DEF Transaction
    <3>3. /\ timers.silent <= timers.io
          /\ timers.budget + timers.io > -ValidateTime
      BY <2>1, <2>3 DEF TimerInv
    <3> QED
      BY <1>2, <3>1, <3>2, <3>3, SessionAssumption, SMTT(30) DEF TimerInv
  <2>4. CASE pc = "wait"
    BY <1>1, <1>2, <1>3, <1>4, <2>1, <2>4, SessionAssumption, SMTT(30)
       DEF TimerInv, Commanding
  <2>5. CASE pc \notin Commanding
    BY <1>1, <2>5 DEF TimerInv, Commanding
  <2> QED
    BY <2>2, <2>3, <2>4, <2>5 DEF Commanding
<1>7. PhaseInv'
  BY <1>1 DEF IInv, SessionInv, PhaseInv, Armed
<1> QED
  BY <1>5, <1>6, <1>7, Zenon DEF IInv, SessionInv

LEMMA NextIInv == IInv /\ [Next]_vars => IInv'
<1> SUFFICES ASSUME IInv, [Next]_vars PROVE IInv'
  OBVIOUS
<1>1. CASE Call
  <2>1. ASSUME NEW p \in Powers, NEW s \in BOOLEAN, Run(p, s)
        PROVE  IInv'
    <3>1. p \in Int /\ NoTimer \in Nat \cup {NoTimer}
      BY SessionAssumption
    <3> QED
      BY <2>1, <3>1, RunInv DEF Run
  <2>2. ASSUME NEW p \in Powers, NEW d \in 1..MaxDuration, RunFor(p, d)
        PROVE  IInv'
    <3>1. p \in Int /\ d \in Nat
      BY SessionAssumption
    <3> QED
      BY <2>2, <3>1, RunInv DEF RunFor
  <2> QED
    BY <1>1, <2>1, <2>2, RestoreNormalInv, ConfigureInv DEF Call
<1>2. CASE Step
  BY <1>2, PreflightReadInv, CaptureReadInv, ValidateInv, HeartbeatSentInv,
     HeartbeatFailsInv, WaitInv, RestoreInv, ReadbackInv, ConfigureStepInv,
     CancelInv DEF Step
<1>3. CASE UNCHANGED vars
  <2>1. TypeOK'
    BY <1>3, Zenon DEF vars, control, IInv, TypeOK
  <2>2. SessionInv'
    BY <1>3 DEF vars, control, IInv, SessionInv, PhaseInv, TimerInv, Armed
  <2> QED
    BY <2>1, <2>2 DEF IInv
<1> QED
  BY <1>1, <1>2, <1>3, AsideInv, CancelInv, TickInv DEF Next

-----------------------------------------------------------------------------
(* Every reachable state is well-typed and satisfies the phase and timer   *)
(* invariants of run, run_for and restore_baseline.                        *)
THEOREM Invariance == Spec => [](TypeOK /\ SessionInv)
<1>1. Init => IInv
  BY InitIInv
<1>2. IInv /\ [Next]_vars => IInv'
  BY NextIInv
<1> QED
  BY <1>1, <1>2, PTL DEF Spec, IInv
(* Where the ways out of the body and of the recovery lead.                *)
LEMMA LeaveBodyPc ==
  ASSUME NEW how, NEW log, NEW b, LeaveBody(how, log, b)
  PROVE  /\ op' = op
         /\ b = NoBaseline => pc' = "idle"
         /\ b # NoBaseline => pc' \in {"restore", "readback"}
BY DEF LeaveBody, Return, StartRestoring

LEMMA EnterLoopPc ==
  ASSUME NEW log, NEW b, NEW t, EnterLoop(log, b, t), b # NoBaseline
  PROVE  op' = op /\ pc' \in {"validate", "restore", "readback"}
<1>1. CASE stop
  BY <1>1, LeaveBodyPc DEF EnterLoop, Validate, session
<1>2. CASE ~stop
  BY <1>2, Zenon DEF EnterLoop, Validate, session
<1> QED
  BY <1>1, <1>2

LEMMA FinishRestoringPc ==
  ASSUME NEW ok, FinishRestoring(ok)
  PROVE  op' = op /\ pc' = "idle"
BY DEF FinishRestoring, Return

(* The captured baseline that enters the loop is never the empty one.      *)
LEMMA CaptureEntersLoop ==
  ASSUME IInv, CaptureRead
  PROVE  /\ pc = "capture" /\ op = "run" /\ op' = op /\ reg' = reg
         /\ guard' = guard
         /\ pc' \in {"idle", "capture", "validate", "restore", "readback"}
<1>1. /\ pc = "capture" /\ op = "run" /\ reg' = reg /\ guard' = guard
      /\ baseline = NoBaseline /\ got \in {<<>>, <<External>>}
  BY DEF CaptureRead, IInv, SessionInv, PhaseInv, ReadOn, session
<1>2. CASE got = <<>> /\ reg[ExternalMode] = External
  BY <1>1, <1>2 DEF CaptureRead, Issue, ReadOn, session
<1>3. CASE got = <<>> /\ reg[ExternalMode] # External
  <2>1. LeaveBody("error", Failed, baseline)
    BY <1>3 DEF CaptureRead, ReadOn, session
  <2> QED
    BY <1>1, <2>1, LeaveBodyPc
<1>4. CASE got # <<>>
  <2> DEFINE comm == IF reg[CommControl] \in {CommOn, CommOff}
                     THEN reg[CommControl] ELSE Unreadable
             b == [mode |-> got[1], comm |-> comm]
             t == [timers EXCEPT !.budget = MaxDuration, !.silent = 0]
             log == Recorded(events, "session_started")
  <2>1. EnterLoop(log, b, t)
    BY <1>4 DEF CaptureRead, ReadOn, session
  <2>2. b.mode = External
    BY <1>1, <1>4
  <2>3. b # NoBaseline
    BY <2>2, RegisterFacts DEF NoBaseline
  <2> HIDE DEF comm, b, t, log
  <2> QED
    BY <1>1, <2>1, <2>3, EnterLoopPc
<1> QED
  BY <1>2, <1>3, <1>4

LEMMA PreflightStays ==
  ASSUME IInv, PreflightRead
  PROVE  /\ pc = "preflight" /\ op = "run" /\ op' = op /\ reg' = reg
         /\ pc' \in {"idle", "preflight", "capture"}
<1>1. /\ pc = "preflight" /\ op = "run" /\ reg' = reg /\ baseline = NoBaseline
  BY DEF PreflightRead, IInv, SessionInv, PhaseInv, ReadOn, session
<1>2. \/ LeaveBody("error", Failed, baseline)
      \/ op' = op /\ (Issue("preflight") \/ Issue("capture"))
  BY Zenon DEF PreflightRead, ReadOn, session
<1> QED
  BY <1>1, <1>2, LeaveBodyPc DEF Issue

(* Only an approved validation issues a heartbeat.                         *)
LEMMA HeartbeatStep ==
  ASSUME IInv, [Next]_vars, pc' = "heartbeat"
  PROVE  \/ UNCHANGED <<pc, guard, power>>
         \/ /\ pc = "validate" /\ UNCHANGED <<guard, power>>
            /\ Allowed(guard) /\ power \in -MaxPower..MaxPower
<1>1. ~Call
  BY DEF Call, Run, RunFor, Begin, RestoreNormal, StartRestoring, Configure,
         Issue, IInv, SessionInv
<1>2. CASE RejectOverlap \/ SetStop \/ DeviceChange \/ Tick \/ UNCHANGED vars
  BY <1>2 DEF RejectOverlap, SetStop, DeviceChange, Tick, vars, control
<1>3. ~PreflightRead /\ ~CaptureRead
  BY PreflightStays, CaptureEntersLoop
<1>4. CASE ReadFails \/ ValidateOk \/ ValidateFails
  <2>1. ~LeaveBody("error", Failed, baseline)
    BY LeaveBodyPc
  <2> QED
    BY <1>4, <2>1 DEF ReadFails, ValidateOk, ValidateFails, Proceed, session
<1>5. ~HeartbeatSent /\ ~HeartbeatFails
  <2>1. \A how, log : ~LeaveBody(how, log, baseline)
    BY LeaveBodyPc
  <2> QED
    BY <2>1 DEF HeartbeatSent, HeartbeatFails,
        Acknowledged, Proceed, WaitTime, session
<1>6. ~WaitStopped /\ ~WaitTimeout
  <2>1. \A how, log : ~LeaveBody(how, log, baseline)
    BY LeaveBodyPc
  <2>2. pc = "wait" => baseline # NoBaseline
    BY DEF IInv, SessionInv, PhaseInv, Armed, Commanding
  <2>3. pc = "wait" => ~EnterLoop(events, baseline, timers)
    BY <2>2, EnterLoopPc
  <2> QED
    BY <2>1, <2>3 DEF WaitStopped, WaitTimeout
<1>7. /\ ~RestoreWritten /\ ~RestoreWriteFails /\ ~Readback /\ ~ReadbackFails
      /\ ~ConfigureWritten /\ ~ConfigureFails
  BY FinishRestoringPc DEF RestoreWritten, RestoreWriteFails, Restore, Readback,
     ReadbackFails, ConfigureWritten, ConfigureFails, Issue, Return,
        ReadOn, session
<1>8. ~RunForTimeout /\ ~CancelTask
  BY LeaveBodyPc DEF RunForTimeout, CancelTask, Cancelled, Return
<1> QED
  BY <1>1, <1>2, <1>3, <1>4, <1>5, <1>6, <1>7, <1>8 DEF Next, Step

(* A heartbeat is under way only with an open guard, a passed preflight, a *)
(* bounded power and a captured external-mode baseline.                    *)
THEOREM ArmedHeartbeats == Spec => []HeartbeatArmed
<1>1. Init => HeartbeatArmed
  BY DEF Init, HeartbeatArmed
<1>2. IInv /\ IInv' /\ HeartbeatArmed /\ [Next]_vars => HeartbeatArmed'
  <2> SUFFICES ASSUME IInv, IInv', HeartbeatArmed, [Next]_vars,
                      pc' = "heartbeat"
               PROVE  (/\ Allowed(guard)
                       /\ power \in -MaxPower..MaxPower
                       /\ baseline.mode = External)'
    BY DEF HeartbeatArmed
  <2>1. baseline'.mode = External
    BY DEF IInv, SessionInv, PhaseInv, Armed, Commanding
  <2>2. guard' = guard /\ power' = power
    BY HeartbeatStep
  <2>3. Allowed(guard) /\ power \in -MaxPower..MaxPower
    BY HeartbeatStep DEF HeartbeatArmed
  <2> QED
    BY <2>1, <2>2, <2>3
<1> QED
  BY <1>1, <1>2, Invariance, PTL DEF Spec, IInv

(* The inverter hears from an armed session at least once per interval     *)
(* plus one validation and one transaction.                                *)
THEOREM Cadence == Spec => []CadenceBound
<1>1. IInv => CadenceBound
  <2> SUFFICES ASSUME IInv, Armed
               PROVE  timers.silent <= Interval + ValidateTime + IoTimeout
    BY DEF CadenceBound
  <2>1. /\ timers.silent \in Nat /\ timers.io \in Nat /\ timers.wake \in Nat
        /\ TimerInv
    BY DEF IInv, TypeOK, Timers, SessionInv
  <2> QED
    BY <2>1, SessionAssumption DEF TimerInv, Armed, Commanding
<1> QED
  BY <1>1, Invariance, PTL DEF IInv

(* No heartbeat is issued later after the deadline than its validation     *)
(* took.                                                                   *)
THEOREM Duration == Spec => []DurationBound
<1>1. IInv => DurationBound
  BY DEF IInv, SessionInv, TimerInv, DurationBound
<1> QED
  BY <1>1, Invariance, PTL DEF IInv
-----------------------------------------------------------------------------
(* Every variable keeps its type, whatever fails and whenever.              *)
THEOREM TypeCorrect == Spec => []TypeOK
<1>1. IInv => TypeOK
  BY DEF IInv
<1> QED BY <1>1, Invariance, PTL DEF IInv
-----------------------------------------------------------------------------
(***************************************************************************)
(* CommandSession implements CommandContract: each of its steps is a step  *)
(* of the contract or leaves the contract's two variables alone.           *)
(***************************************************************************)

(* The contract's next-state relation, read in the session's variables.    *)
Same == Phase' = Phase /\ reg'[Setpoint] = reg[Setpoint]
Keeps == Contract!Next \/ Same

-----------------------------------------------------------------------------
(* The phase is a function of the await and the call.                      *)
LEMMA PhaseNow ==
  /\ pc \in Commanding => Phase = "armed"
  /\ op = "run" /\ pc \in Recovering => Phase = "recovering"
  /\ pc \notin Commanding /\ ~(op = "run" /\ pc \in Recovering) => Phase = "idle"
BY DEF Phase, Armed, Commanding, Recovering

LEMMA PhaseNext ==
  /\ pc' \in Commanding => Phase' = "armed"
  /\ op' = "run" /\ pc' \in Recovering => Phase' = "recovering"
  /\ pc' \notin Commanding /\ ~(op' = "run" /\ pc' \in Recovering)
       => Phase' = "idle"
BY DEF Phase, Armed, Commanding, Recovering

(* The ways to be a step of the contract.                                  *)
LEMMA ArmStep ==
  ASSUME Phase = "idle", Phase' = "armed", reg'[Setpoint] = reg[Setpoint]
  PROVE  Keeps
BY DEF Keeps, Contract!Next, Contract!Arm

LEMMA CommandStep ==
  ASSUME Phase = "armed", reg'[Setpoint] \in -MaxPower..MaxPower,
         Phase' \in {"armed", "recovering"}
  PROVE  Keeps
BY DEF Keeps, Contract!Next, Contract!Command, Contract!Bounded

LEMMA RecoverStep ==
  ASSUME Phase \in {"idle", "armed"}, Phase' = "recovering",
         reg'[Setpoint] = reg[Setpoint]
  PROVE  Keeps
BY DEF Keeps, Contract!Next, Contract!Recover

LEMMA ReleaseStep ==
  ASSUME Phase = "recovering", Phase' \in {"recovering", "idle"},
         reg'[Setpoint] = reg[Setpoint]
  PROVE  Keeps
<1>1. CASE Phase' = "idle"
  BY <1>1 DEF Keeps, Contract!Next, Contract!Release
<1>2. CASE Phase' = "recovering"
  BY <1>2 DEF Keeps, Same
<1> QED BY <1>1, <1>2

(* Leaving the body of an armed session is a recovery.                     *)
LEMMA ArmedLeaves ==
  ASSUME IInv, pc \in Commanding, NEW how, NEW log, LeaveBody(how, log, baseline)
  PROVE  Phase = "armed" /\ Phase' = "recovering"
<1>1. baseline # NoBaseline /\ op = "run"
  BY DEF IInv, SessionInv, PhaseInv, Armed
<1>2. op' = "run" /\ pc' \in Recovering
  BY <1>1, LeaveBodyPc DEF Recovering
<1> QED BY <1>2, PhaseNow, PhaseNext

(* Without a baseline there is nothing to recover.                         *)
LEMMA UnarmedLeaves ==
  ASSUME baseline = NoBaseline, pc \in {"preflight", "capture"},
         NEW how, NEW log, LeaveBody(how, log, baseline)
  PROVE  Phase = "idle" /\ Phase' = "idle"
<1>1. pc' = "idle"
  BY LeaveBodyPc
<1> QED BY <1>1, PhaseNow, PhaseNext DEF Commanding, Recovering

(* Only a heartbeat in flight can change the setpoint.                     *)
LEMMA SetpointKept ==
  ASSUME IInv, pc # "heartbeat",
         MaybeLanded \/ \E w \in InFlight : reg' = [reg EXCEPT ![w[1]] = w[2]]
  PROVE  reg'[Setpoint] = reg[Setpoint]
<1>1. CASE UNCHANGED reg
  BY <1>1
<1>2. ASSUME NEW w \in InFlight, reg' = [reg EXCEPT ![w[1]] = w[2]]
      PROVE  reg'[Setpoint] = reg[Setpoint]
  <2>1. pc \in {"restore", "configure"} /\ w = Head(todo)
    BY <1>2 DEF InFlight
  <2>2. todo # <<>> /\ todo \in Seq(RegisterWrite)
    BY <2>1 DEF IInv, TypeOK, SessionInv, PhaseInv
  <2>3. w \in RegisterWrite
    BY <2>1, <2>2, HeadTail
  <2>4. w[1] # Setpoint
    BY <2>3 DEF RegisterWrite
  <2>5. reg \in [Registers -> Int]
    BY DEF IInv, TypeOK
  <2> QED BY <1>2, <2>4, <2>5, RegisterFacts
<1> QED BY <1>1, <1>2 DEF MaybeLanded

LEMMA HeartbeatLands ==
  ASSUME IInv, HeartbeatArmed, pc = "heartbeat",
         MaybeLanded \/ reg' = [reg EXCEPT ![Setpoint] = power]
  PROVE  \/ reg'[Setpoint] = reg[Setpoint]
         \/ reg'[Setpoint] \in -MaxPower..MaxPower
<1>1. reg \in [Registers -> Int] /\ power \in -MaxPower..MaxPower
  BY DEF IInv, TypeOK, HeartbeatArmed
<1>2. ASSUME reg' = [reg EXCEPT ![Setpoint] = power]
      PROVE  reg'[Setpoint] \in -MaxPower..MaxPower
  BY <1>1, <1>2, RegisterFacts
<1>3. ASSUME MaybeLanded
      PROVE  UNCHANGED reg \/ reg' = [reg EXCEPT ![Setpoint] = power]
  BY <1>3 DEF MaybeLanded, InFlight
<1> QED BY <1>2, <1>3

(* A heartbeat that is given up, or the last one.                          *)
LEMMA LastHeartbeat ==
  ASSUME IInv, HeartbeatArmed, pc = "heartbeat",
         MaybeLanded \/ reg' = [reg EXCEPT ![Setpoint] = power],
         NEW how, NEW log, LeaveBody(how, log, baseline)
  PROVE  Keeps
<1>1. Phase = "armed" /\ Phase' = "recovering"
  BY ArmedLeaves DEF Commanding
<1>2. CASE reg'[Setpoint] = reg[Setpoint]
  BY <1>1, <1>2, RecoverStep
<1>3. CASE reg'[Setpoint] \in -MaxPower..MaxPower
  BY <1>1, <1>3, CommandStep
<1> QED BY <1>2, <1>3, HeartbeatLands

-----------------------------------------------------------------------------
(* The steps, grouped as in the invariance proof.                          *)
LEMMA PreparationKeeps ==
  ASSUME IInv, PreflightRead \/ CaptureRead \/ ReadFails
  PROVE  Keeps
<1>1. CASE PreflightRead
  <2>1. /\ pc = "preflight" /\ reg' = reg /\ pc' \in {"idle", "preflight", "capture"}
    BY <1>1, PreflightStays
  <2>2. Phase = "idle" /\ Phase' = "idle"
    BY <2>1, PhaseNow, PhaseNext DEF Commanding, Recovering
  <2> QED BY <2>1, <2>2 DEF Keeps, Same
<1>2. CASE CaptureRead
  <2>1. /\ pc = "capture" /\ op' = "run" /\ reg' = reg
        /\ pc' \in {"idle", "capture", "validate", "restore", "readback"}
    BY <1>2, CaptureEntersLoop
  <2>2. Phase = "idle"
    BY <2>1, PhaseNow DEF Commanding, Recovering
  <2>3. CASE pc' \in {"idle", "capture"}
    <3>1. Phase' = "idle"
      BY <2>3, PhaseNext DEF Commanding, Recovering
    <3> QED BY <2>1, <2>2, <3>1 DEF Keeps, Same
  <2>4. CASE pc' = "validate"
    <3>1. Phase' = "armed"
      BY <2>4, PhaseNext DEF Commanding
    <3> QED BY <2>1, <2>2, <3>1, ArmStep
  <2>5. CASE pc' \in {"restore", "readback"}
    <3>1. Phase' = "recovering"
      BY <2>1, <2>5, PhaseNext DEF Recovering
    <3> QED BY <2>1, <2>2, <3>1, RecoverStep
  <2> QED BY <2>1, <2>3, <2>4, <2>5
<1>3. CASE ReadFails
  <2>1. /\ pc \in {"preflight", "capture"} /\ reg' = reg /\ baseline = NoBaseline
        /\ LeaveBody("error", Failed, baseline)
    BY <1>3 DEF ReadFails, IInv, SessionInv, PhaseInv
  <2>2. Phase = "idle" /\ Phase' = "idle"
    BY <2>1, UnarmedLeaves
  <2> QED BY <2>1, <2>2 DEF Keeps, Same
<1> QED BY <1>1, <1>2, <1>3

(* From an armed session to an armed session, or to its recovery.          *)
LEMMA ArmedKeeps ==
  ASSUME IInv, pc \in Commanding, reg' = reg,
         \/ pc' \in Commanding
         \/ \E how, log : LeaveBody(how, log, baseline)
  PROVE  Keeps
<1>1. CASE pc' \in Commanding
  <2>1. Phase' = Phase
    BY <1>1, PhaseNow, PhaseNext
  <2> QED BY <2>1 DEF Keeps, Same
<1>2. CASE \E how, log : LeaveBody(how, log, baseline)
  <2>1. Phase = "armed" /\ Phase' = "recovering"
    BY <1>2, ArmedLeaves
  <2> QED BY <2>1, RecoverStep
<1> QED BY <1>1, <1>2

LEMMA LoopKeeps ==
  ASSUME IInv, ValidateOk \/ ValidateFails \/ WaitStopped \/ WaitTimeout
  PROVE  Keeps
<1>1. pc \in Commanding /\ reg' = reg
  BY DEF ValidateOk, ValidateFails, WaitStopped, WaitTimeout, Commanding
<1>2. CASE ValidateOk \/ ValidateFails
  <2>1. pc' = "heartbeat" \/ LeaveBody("error", Failed, baseline)
    BY <1>2 DEF ValidateOk, ValidateFails, Proceed
  <2> QED BY <1>1, <2>1, ArmedKeeps DEF Commanding
<1>3. CASE WaitStopped \/ WaitTimeout
  <2>1. \/ EnterLoop(events, baseline, timers)
        \/ \E how, log : LeaveBody(how, log, baseline)
    BY <1>3 DEF WaitStopped, WaitTimeout
  <2>2. ASSUME EnterLoop(events, baseline, timers)
        PROVE  pc' = "validate" \/ \E how, log : LeaveBody(how, log, baseline)
    BY <2>2 DEF EnterLoop, Validate
  <2> QED BY <1>1, <2>1, <2>2, ArmedKeeps DEF Commanding
<1> QED BY <1>2, <1>3

LEMMA HeartbeatKeeps ==
  ASSUME IInv, HeartbeatArmed, HeartbeatSent \/ HeartbeatFails
  PROVE  Keeps
<1>1. pc = "heartbeat"
  BY DEF HeartbeatSent, HeartbeatFails, Acknowledged
<1>2. CASE HeartbeatFails
  <2>1. MaybeLanded /\ LeaveBody("error", Failed, baseline)
    BY <1>2 DEF HeartbeatFails
  <2> QED BY <1>1, <2>1, LastHeartbeat
<1>3. CASE HeartbeatSent
  <2>1. reg' = [reg EXCEPT ![Setpoint] = power]
    BY <1>3 DEF HeartbeatSent, Acknowledged
  <2>2. \/ LeaveBody("none", Recorded(events, "session_expired"), baseline)
        \/ pc' = "wait"
    BY <1>3 DEF HeartbeatSent, Proceed
  <2>3. CASE LeaveBody("none", Recorded(events, "session_expired"), baseline)
    BY <1>1, <2>1, <2>3, LastHeartbeat
  <2>4. CASE pc' = "wait"
    <3>1. Phase = "armed" /\ Phase' = "armed"
      BY <1>1, <2>4, PhaseNow, PhaseNext DEF Commanding
    <3>2. CASE reg'[Setpoint] = reg[Setpoint]
      BY <3>1, <3>2 DEF Keeps, Same
    <3>3. CASE reg'[Setpoint] \in -MaxPower..MaxPower
      BY <3>1, <3>3, CommandStep
    <3> QED BY <1>1, <2>1, <3>2, <3>3, HeartbeatLands
  <2> QED BY <2>2, <2>3, <2>4
<1> QED BY <1>2, <1>3

(* A recovery goes on or ends; outside run it is no phase of the contract. *)
LEMMA RecoveryContinues ==
  ASSUME IInv, pc \in Recovering, op' = op, pc' \in Recovering \cup {"idle"},
         reg'[Setpoint] = reg[Setpoint]
  PROVE  Keeps
<1>1. CASE op = "run"
  <2>1. Phase = "recovering" /\ Phase' \in {"recovering", "idle"}
    BY <1>1, PhaseNow, PhaseNext DEF Recovering, Commanding
  <2> QED BY <2>1, ReleaseStep
<1>2. CASE op # "run"
  <2>1. Phase = "idle" /\ Phase' = "idle"
    BY <1>2, PhaseNow, PhaseNext DEF Recovering, Commanding
  <2> QED BY <2>1 DEF Keeps, Same
<1> QED BY <1>1, <1>2

LEMMA RecoveryKeeps ==
  ASSUME IInv, RestoreWritten \/ RestoreWriteFails \/ Readback \/ ReadbackFails
  PROVE  Keeps
<1>1. CASE RestoreWritten \/ RestoreWriteFails
  <2>1. PICK landed \in BOOLEAN : Restore(landed)
    BY <1>1 DEF RestoreWritten, RestoreWriteFails
  <2>2. pc = "restore"
    BY <2>1 DEF Restore
  <2>3. \/ FinishRestoring(FALSE)
        \/ op' = op /\ pc' \in {"restore", "readback"}
    BY <2>1 DEF Restore, Issue
  <2>4. reg'[Setpoint] = reg[Setpoint]
    BY <1>1, <2>2, SetpointKept DEF RestoreWritten, RestoreWriteFails
  <2> QED BY <2>2, <2>3, <2>4, FinishRestoringPc, RecoveryContinues DEF Recovering
<1>2. CASE Readback \/ ReadbackFails
  <2>1. pc = "readback" /\ reg' = reg
    BY <1>2 DEF Readback, ReadbackFails
  <2>2. \/ \E ok : FinishRestoring(ok)
        \/ op' = op /\ pc' = "readback"
    BY <1>2 DEF Readback, ReadbackFails, ReadOn, Issue, session
  <2> QED BY <2>1, <2>2, FinishRestoringPc, RecoveryContinues DEF Recovering
<1> QED BY <1>1, <1>2

(* Steps that begin and end outside commands and recoveries of run.        *)
LEMMA AsideKeeps ==
  ASSUME IInv, Call \/ RejectOverlap \/ SetStop \/ DeviceChange \/ Tick
               \/ ConfigureWritten \/ ConfigureFails
  PROVE  Keeps
<1>1. CASE RejectOverlap \/ SetStop \/ Tick
  <2>1. UNCHANGED <<pc, op, reg>>
    BY <1>1 DEF RejectOverlap, SetStop, Tick, control
  <2> QED BY <2>1, PhaseNow, PhaseNext DEF Keeps, Same, Phase, Armed
<1>2. CASE DeviceChange
  <2>1. UNCHANGED <<pc, op>>
    BY <1>2 DEF DeviceChange, control
  <2>2. reg'[Setpoint] = reg[Setpoint]
    BY <1>2, RegisterFacts DEF DeviceChange, IInv, TypeOK
  <2> QED BY <2>1, <2>2 DEF Keeps, Same, Phase, Armed
<1>3. CASE ConfigureWritten \/ ConfigureFails
  <2>1. pc = "configure" /\ pc' \in {"idle", "configure"}
    BY <1>3 DEF ConfigureWritten, ConfigureFails, Return, Issue
  <2>2. reg'[Setpoint] = reg[Setpoint]
    BY <1>3, <2>1, SetpointKept DEF ConfigureWritten, ConfigureFails
  <2>3. Phase = "idle" /\ Phase' = "idle"
    BY <2>1, PhaseNow, PhaseNext DEF Commanding, Recovering
  <2> QED BY <2>2, <2>3 DEF Keeps, Same
<1>4. CASE Call
  <2>1. pc = "idle" /\ reg' = reg
    BY <1>4 DEF Call, Run, RunFor, Begin, RestoreNormal, Configure
  <2>2. \/ pc' \in {"idle", "preflight", "configure"}
        \/ op' = "recover" /\ pc' \in {"restore", "readback"}
    BY <1>4, <2>1 DEF Call, Run, RunFor, Begin, RestoreNormal, StartRestoring,
                      Configure, Issue
  <2>3. Phase = "idle" /\ Phase' = "idle"
    BY <2>1, <2>2, PhaseNow, PhaseNext DEF Commanding, Recovering
  <2> QED BY <2>1, <2>3 DEF Keeps, Same
<1> QED BY <1>1, <1>2, <1>3, <1>4

(* A cancellation may come at every await.                                 *)
LEMMA CancelKeeps ==
  ASSUME IInv, HeartbeatArmed, RunForTimeout \/ CancelTask
  PROVE  Keeps
<1>1. pc \in Suspended /\ Cancelled
  BY DEF RunForTimeout, CancelTask
<1>2. MaybeLanded
  BY <1>1 DEF Cancelled
<1>3. CASE op = "run" /\ pc \notin Recovering
  <2>1. LeaveBody("cancelled", Failed, baseline)
    BY <1>1, <1>3 DEF Cancelled
  <2>2. CASE pc \in {"preflight", "capture"}
    <3>1. baseline = NoBaseline
      BY <2>2 DEF IInv, SessionInv, PhaseInv
    <3>2. Phase = "idle" /\ Phase' = "idle"
      BY <2>1, <2>2, <3>1, UnarmedLeaves
    <3> QED BY <1>2, <2>2, <3>2, SetpointKept DEF Keeps, Same
  <2>3. CASE pc \in {"validate", "wait"}
    <3>1. reg' = reg
      BY <1>2, <2>3 DEF MaybeLanded, InFlight
    <3> QED BY <2>1, <2>3, <3>1, ArmedKeeps DEF Commanding
  <2>4. CASE pc = "heartbeat"
    BY <1>2, <2>1, <2>4, LastHeartbeat
  <2>5. pc # "configure"
    BY <1>3 DEF IInv, SessionInv, PhaseInv
  <2> QED BY <1>1, <1>3, <2>2, <2>3, <2>4, <2>5 DEF Suspended, Transaction, Recovering
<1>4. CASE ~(op = "run" /\ pc \notin Recovering)
  <2>1. op' = op /\ pc' = "idle"
    BY <1>1, <1>4 DEF Cancelled, Return
  <2>2. pc \in Recovering \/ pc = "configure"
    BY <1>1, <1>4 DEF IInv, SessionInv, PhaseInv, Suspended, Transaction,
                      Recovering, Commanding
  <2>3. reg'[Setpoint] = reg[Setpoint]
    BY <1>2, <2>2, SetpointKept DEF Recovering
  <2>4. CASE pc \in Recovering
    BY <2>1, <2>3, <2>4, RecoveryContinues
  <2>5. CASE pc = "configure"
    <3>1. Phase = "idle" /\ Phase' = "idle"
      BY <2>1, <2>5, PhaseNow, PhaseNext DEF Commanding, Recovering
    <3> QED BY <2>3, <3>1 DEF Keeps, Same
  <2> QED BY <2>2, <2>4, <2>5
<1> QED BY <1>3, <1>4

(* The session implements the contract: the setpoint changes only in an    *)
(* armed session and within its bound, and no armed session ends but       *)
(* through its recovery (run's finally block).                             *)
THEOREM ContractKept == Spec => KeepsContract
<1>1. Init => Contract!Init
  <2> SUFFICES ASSUME Init PROVE Contract!Init
    OBVIOUS
  <2>1. Phase = "idle"
    BY PhaseNow DEF Init, Commanding, Recovering
  <2>2. reg[Setpoint] \in Int
    BY SessionAssumption, RegisterFacts DEF Init
  <2> QED BY <2>1, <2>2 DEF Contract!Init
<1>2. IInv /\ HeartbeatArmed /\ [Next]_vars => [Contract!Next]_(Contract!vars)
  <2> SUFFICES ASSUME IInv, HeartbeatArmed, [Next]_vars
               PROVE  [Contract!Next]_(Contract!vars)
    OBVIOUS
  <2>1. CASE Next
    <3>1. Keeps
      BY <2>1, PreparationKeeps, LoopKeeps, HeartbeatKeeps, RecoveryKeeps,
         AsideKeeps, CancelKeeps DEF Next, Step
    <3> QED BY <3>1 DEF Keeps, Same, Contract!vars
  <2>2. CASE UNCHANGED vars
    BY <2>2 DEF vars, control, Contract!vars, Phase, Armed
  <2> QED BY <2>1, <2>2
<1>3. Spec => [](IInv /\ HeartbeatArmed)
  BY Invariance, ArmedHeartbeats, PTL DEF IInv
<1> QED BY <1>1, <1>2, <1>3, PTL DEF Spec, KeepsContract, Contract!Spec
-----------------------------------------------------------------------------
(***************************************************************************)
(* The recovery is reported truthfully.                                    *)
(***************************************************************************)

(* What has been read back is still in the register, and a recovery that   *)
(* restore_normal_operation runs has neither a timer nor an earlier error. *)
RecoveryInv ==
  /\ pc = "idle" => primary = "none" /\ timers.left = NoTimer
  /\ op = "recover" /\ pc \in Recovering =>
       primary = "none" /\ timers.left = NoTimer
  /\ pc = "restore" => got = <<>>
  /\ pc = "readback" => got \in {<<>>, <<reg[CommControl]>>}

LEMMA ReturnRecovered ==
  ASSUME NEW how, Return(how)
  PROVE  RecoveryInv'
BY DEF Return, RecoveryInv, NoTimers, Recovering

(* The body of run leaves without a call or into a recovery of run.        *)
LEMMA LeaveBodyRecovers ==
  ASSUME op = "run", NEW how, NEW log, NEW b, LeaveBody(how, log, b)
  PROVE  RecoveryInv'
<1>1. CASE b = NoBaseline
  BY <1>1, ReturnRecovered DEF LeaveBody
<1>2. CASE b # NoBaseline
  <2>1. /\ pc' \in {"restore", "readback"} /\ got' = <<>> /\ op' = "run"
    BY <1>2 DEF LeaveBody, StartRestoring
  <2> QED BY <2>1 DEF RecoveryInv
<1> QED BY <1>1, <1>2

(* An await of the body is no part of a recovery.                          *)
LEMMA BodyGoesOn ==
  ASSUME pc' \in {"preflight", "capture", "configure"} \cup Commanding
  PROVE  RecoveryInv'
BY DEF RecoveryInv, Commanding, Recovering

LEMMA BodyRecovers ==
  ASSUME IInv, PreflightRead \/ CaptureRead \/ ReadFails \/ ValidateOk
               \/ ValidateFails \/ HeartbeatSent \/ HeartbeatFails
               \/ WaitStopped \/ WaitTimeout
  PROVE  RecoveryInv'
<1>1. op = "run"
  BY DEF PreflightRead, CaptureRead, ReadFails, ValidateOk, ValidateFails,
         HeartbeatSent, Acknowledged, HeartbeatFails, WaitStopped, WaitTimeout,
         IInv, SessionInv, PhaseInv, Commanding
<1>2. \/ pc' \in {"preflight", "capture"} \cup Commanding
      \/ \E how, log, b : LeaveBody(how, log, b)
      \/ \E log, b, t : EnterLoop(log, b, t)
  <2>1. CASE PreflightRead
    BY <2>1 DEF PreflightRead, ReadOn, Issue
  <2>2. CASE CaptureRead
    BY <2>2 DEF CaptureRead, ReadOn, Issue
  <2>3. CASE ReadFails \/ ValidateFails \/ HeartbeatFails
    BY <2>3 DEF ReadFails, ValidateFails, HeartbeatFails
  <2>4. CASE ValidateOk \/ HeartbeatSent
    BY <2>4 DEF ValidateOk, HeartbeatSent, Proceed, Commanding
  <2>5. CASE WaitStopped \/ WaitTimeout
    BY <2>5 DEF WaitStopped, WaitTimeout
  <2> QED BY <2>1, <2>2, <2>3, <2>4, <2>5
<1>3. ASSUME NEW log, NEW b, NEW t, EnterLoop(log, b, t)
      PROVE  pc' = "validate" \/ \E how, l : LeaveBody(how, l, b)
  BY <1>3 DEF EnterLoop, Validate
<1> QED BY <1>1, <1>2, <1>3, LeaveBodyRecovers, BodyGoesOn DEF Commanding

LEMMA CallsRecover ==
  ASSUME IInv, RecoveryInv, Call
  PROVE  RecoveryInv'
<1>1. CASE (\E p \in Powers, s \in BOOLEAN : Run(p, s))
           \/ (\E p \in Powers, d \in 1..MaxDuration : RunFor(p, d))
  <2>1. pc' = "preflight"
    BY <1>1 DEF Run, RunFor, Begin
  <2> QED BY <2>1, BodyGoesOn
<1>2. CASE RestoreNormal
  <2>1. primary' = "none" /\ timers'.left = NoTimer
    BY <1>2 DEF RestoreNormal, StartRestoring, RecoveryInv, NoTimers
  <2>2. got' = <<>> /\ pc' \in {"restore", "readback"}
    BY <1>2 DEF RestoreNormal, StartRestoring
  <2> QED BY <2>1, <2>2 DEF RecoveryInv
<1>3. ASSUME NEW w \in Settings, Configure(w) PROVE RecoveryInv'
  <2>1. CASE GateOpen(guard)
    <3>1. pc' = "configure"
      BY <1>3, <2>1 DEF Configure, Issue
    <3> QED BY <3>1, BodyGoesOn
  <2>2. CASE ~GateOpen(guard)
    <3>1. pc = "idle" /\ UNCHANGED <<pc, timers, primary>>
      BY <1>3, <2>2 DEF Configure
    <3> QED BY <3>1 DEF RecoveryInv, Recovering
  <2> QED BY <2>1, <2>2
<1> QED BY <1>1, <1>2, <1>3 DEF Call

LEMMA RecoveryRecovers ==
  ASSUME IInv, RecoveryInv,
         RestoreWritten \/ RestoreWriteFails \/ Readback \/ ReadbackFails
  PROVE  RecoveryInv'
<1>1. ASSUME NEW ok, FinishRestoring(ok) PROVE RecoveryInv'
  BY <1>1, ReturnRecovered DEF FinishRestoring
<1>2. timers \in Timers
  BY DEF IInv, TypeOK
<1>3. CASE RestoreWritten \/ RestoreWriteFails
  <2>1. PICK landed \in BOOLEAN : Restore(landed)
    BY <1>3 DEF RestoreWritten, RestoreWriteFails
  <2>2. CASE FinishRestoring(FALSE)
    BY <1>1, <2>2
  <2>3. CASE ~FinishRestoring(FALSE)
    <3>1. /\ pc = "restore" /\ pc' \in {"restore", "readback"}
          /\ UNCHANGED <<op, got, primary>>
          /\ timers' = [timers EXCEPT !.io = 0]
      BY <2>1, <2>3 DEF Restore, Issue
    <3>2. timers'.left = timers.left
      BY <1>2, <3>1 DEF Timers
    <3> QED BY <3>1, <3>2 DEF RecoveryInv, Recovering
  <2> QED BY <2>2, <2>3
<1>4. CASE Readback \/ ReadbackFails
  <2>1. CASE \E ok : FinishRestoring(ok)
    BY <1>1, <2>1
  <2>2. CASE ~\E ok : FinishRestoring(ok)
    <3>1. /\ pc = "readback" /\ reg' = reg /\ pc' = "readback"
          /\ got' = <<reg[CommControl]>> /\ UNCHANGED <<op, primary>>
          /\ timers' = [timers EXCEPT !.io = 0]
      BY <1>4, <2>2 DEF Readback, ReadbackFails, ReadOn, Issue, session
    <3>2. timers'.left = timers.left
      BY <1>2, <3>1 DEF Timers
    <3> QED BY <3>1, <3>2 DEF RecoveryInv, Recovering
  <2> QED BY <2>1, <2>2
<1> QED BY <1>3, <1>4

LEMMA AsideRecovers ==
  ASSUME IInv, RecoveryInv,
         RejectOverlap \/ SetStop \/ DeviceChange \/ Tick \/ UNCHANGED vars
         \/ ConfigureWritten \/ ConfigureFails \/ RunForTimeout \/ CancelTask
  PROVE  RecoveryInv'
<1>1. CASE RejectOverlap \/ SetStop \/ UNCHANGED vars
  <2>1. UNCHANGED <<pc, op, primary, got, timers, reg>>
    BY <1>1 DEF RejectOverlap, SetStop, vars, control
  <2> QED BY <2>1 DEF RecoveryInv
<1>2. CASE DeviceChange
  <2>1. pc \notin Recovering /\ UNCHANGED <<pc, op, primary, got, timers>>
    BY <1>2 DEF DeviceChange, control
  <2> QED BY <2>1 DEF RecoveryInv, Recovering
<1>3. CASE Tick
  <2>1. UNCHANGED <<pc, op, primary, got, reg>> /\ pc # "idle"
    BY <1>3 DEF Tick, control, Suspended, Transaction
  <2>2. timers.left = NoTimer => timers'.left = NoTimer
    BY <1>3 DEF Tick, Elapsed, Down, NoTimer
  <2> QED BY <2>1, <2>2 DEF RecoveryInv
<1>4. CASE ConfigureWritten \/ ConfigureFails
  <2>1. pc' = "configure" \/ \E how : Return(how)
    BY <1>4 DEF ConfigureWritten, ConfigureFails, Issue
  <2> QED BY <2>1, BodyGoesOn, ReturnRecovered
<1>5. CASE RunForTimeout \/ CancelTask
  <2>1. \/ op = "run" /\ LeaveBody("cancelled", Failed, baseline)
        \/ Return("cancelled")
    BY <1>5 DEF RunForTimeout, CancelTask, Cancelled
  <2> QED BY <2>1, LeaveBodyRecovers, ReturnRecovered
<1> QED BY <1>1, <1>2, <1>3, <1>4, <1>5

LEMMA NextRecoveryInv == IInv /\ RecoveryInv /\ [Next]_vars => RecoveryInv'
BY BodyRecovers, CallsRecover, RecoveryRecovers, AsideRecovers DEF Next, Step
-----------------------------------------------------------------------------
LEMMA RecordedLast ==
  ASSUME NEW log \in Seq(Event), NEW e \in Event
  PROVE  Recorded(log, e)[Len(Recorded(log, e))] = e
<1>1. ASSUME NEW s \in Seq(Event)
      PROVE  Append(s, e)[Len(Append(s, e))] = e
  BY <1>1
<1>2. Len(log) >= MaxEvents => Tail(log) \in Seq(Event)
  <2> SUFFICES ASSUME Len(log) >= MaxEvents PROVE Tail(log) \in Seq(Event)
    OBVIOUS
  <2>1. log # <<>>
    BY SessionAssumption
  <2> QED BY <2>1
<1>3. CASE Len(log) < MaxEvents
  BY <1>1, <1>3 DEF Recorded
<1>4. CASE ~(Len(log) < MaxEvents)
  BY <1>1, <1>2, <1>4, SessionAssumption DEF Recorded
<1> QED BY <1>3, <1>4

(* A step that logs e as its last act has e as the latest event.           *)
LEMMA Logged ==
  ASSUME IInv, NEW e \in Event, events' = Recorded(events, e)
  PROVE  LatestEvent' = e
<1>1. events \in Seq(Event)
  BY DEF IInv, TypeOK
<1>2. LatestEvent' = events'[Len(events')]
  BY DEF LatestEvent
<1> QED BY <1>1, <1>2, RecordedLast

(* No call ends from within the body after the baseline was captured, and  *)
(* before that it ends with a failure.                                     *)
LEMMA BodyEndsFailed ==
  ASSUME IInv, PreflightRead \/ CaptureRead \/ ReadFails \/ ValidateOk
               \/ ValidateFails \/ HeartbeatSent \/ HeartbeatFails
               \/ WaitStopped \/ WaitTimeout,
         pc' = "idle"
  PROVE  op = "run" /\ LatestEvent' = "session_failed"
<1>1. op = "run"
  BY DEF PreflightRead, CaptureRead, ReadFails, ValidateOk, ValidateFails,
         HeartbeatSent, Acknowledged, HeartbeatFails, WaitStopped, WaitTimeout,
         IInv, SessionInv, PhaseInv, Commanding
<1>2. pc \in Commanding => baseline # NoBaseline
  BY DEF IInv, SessionInv, PhaseInv, Armed
<1>3. ASSUME NEW how, NEW log, LeaveBody(how, log, baseline)
      PROVE  pc \notin Commanding
  BY <1>2, <1>3, LeaveBodyPc
<1>4. LeaveBody("error", Failed, baseline)
  <2>1. CASE PreflightRead
    BY <2>1 DEF PreflightRead, ReadOn, Issue
  <2>2. CASE CaptureRead
    <3>1. CASE got = <<>>
      BY <2>2, <3>1 DEF CaptureRead, ReadOn, Issue
    <3>2. CASE got # <<>>
      <4> DEFINE b == [mode |-> got[1],
                       comm |-> IF reg[CommControl] \in {CommOn, CommOff}
                                THEN reg[CommControl] ELSE Unreadable]
                 log == Recorded(events, "session_started")
                 t == [timers EXCEPT !.budget = MaxDuration, !.silent = 0]
      <4>1. EnterLoop(log, b, t)
        BY <2>2, <3>2 DEF CaptureRead
      <4>2. b.mode = External
        BY <2>2, <3>2 DEF CaptureRead, IInv, SessionInv, PhaseInv
      <4>3. b # NoBaseline
        BY <4>2, RegisterFacts DEF NoBaseline
      <4> HIDE DEF b, log, t
      <4> QED BY <4>1, <4>3, EnterLoopPc
    <3> QED BY <3>1, <3>2
  <2>3. CASE ReadFails
    BY <2>3 DEF ReadFails
  <2>4. CASE ValidateOk \/ ValidateFails
    BY <1>3, <2>4 DEF ValidateOk, ValidateFails, Proceed, Commanding
  <2>5. CASE HeartbeatSent \/ HeartbeatFails
    BY <1>3, <2>5 DEF HeartbeatSent, HeartbeatFails, Acknowledged, Proceed,
                      Commanding
  <2>6. CASE WaitStopped \/ WaitTimeout
    <3>1. pc = "wait" /\ baseline # NoBaseline
      BY <1>2, <2>6 DEF WaitStopped, WaitTimeout, Commanding
    <3>2. \/ EnterLoop(events, baseline, timers)
          \/ \E how, log : LeaveBody(how, log, baseline)
      BY <2>6 DEF WaitStopped, WaitTimeout
    <3> QED BY <1>3, <3>1, <3>2, EnterLoopPc DEF Commanding
  <2> QED BY <2>1, <2>2, <2>3, <2>4, <2>5, <2>6
<1>5. LatestEvent' = "session_failed"
  BY <1>4, EventNames, Logged DEF LeaveBody, Failed
<1> QED BY <1>1, <1>5

(* How a recovery that returned TRUE or FALSE shows.                       *)
LEMMA RecoveryShown ==
  ASSUME IInv, RecoveryInv, NEW ok \in BOOLEAN, FinishRestoring(ok),
         pc \in Recovering,
         op = "run" => LatestEvent' = "baseline_restored",
         op = "recover" => outcome' = "returned"
  PROVE  ok
<1> SUFFICES ASSUME ~ok PROVE FALSE
  OBVIOUS
<1>1. CASE op = "run"
  <2>1. events' = Recorded(events, "restoration_failed")
    BY <1>1 DEF FinishRestoring
  <2>2. LatestEvent' = "restoration_failed"
    BY <2>1, EventNames, Logged
  <2> QED BY <1>1, <2>2
<1>2. CASE op = "recover"
  <2>1. primary = "none"
    BY <1>2 DEF RecoveryInv
  <2>2. Return("error")
    BY <2>1 DEF FinishRestoring
  <2> QED BY <1>2, <2>2 DEF Return, Seen
<1> QED BY <1>1, <1>2 DEF IInv, SessionInv, PhaseInv

(* A cancelled call never shows as restored.                               *)
LEMMA CancelledShown ==
  ASSUME IInv, RecoveryInv, RunForTimeout \/ CancelTask, pc' = "idle",
         op = "run" => events' # events /\ LatestEvent' = "baseline_restored",
         op = "recover" => outcome' = "returned",
         op # "configure"
  PROVE  FALSE
<1>1. CASE op = "run" /\ pc \notin Recovering
  <2>1. events' = Recorded(events, "session_failed")
    BY <1>1 DEF RunForTimeout, CancelTask, Cancelled, LeaveBody, Failed
  <2>2. LatestEvent' = "session_failed"
    BY <2>1, EventNames, Logged
  <2> QED BY <1>1, <2>2
<1>2. CASE op = "run" /\ pc \in Recovering
  BY <1>2 DEF RunForTimeout, CancelTask, Cancelled
<1>3. CASE op = "recover"
  <2>1. pc \in Suspended
    BY DEF RunForTimeout, CancelTask
  <2>2. pc \in Recovering
    BY <1>3, <2>1 DEF IInv, SessionInv, PhaseInv, Suspended, Transaction,
                      Recovering, Commanding
  <2>3. ~RunForTimeout
    BY <1>3, <2>2, RegisterFacts DEF RecoveryInv, RunForTimeout, NoTimer
  <2>4. "task" \in signal' /\ outcome' = Seen("cancelled")
    BY <1>3, <2>3 DEF CancelTask, Cancelled, Return
  <2> QED BY <1>3, <2>4 DEF Seen
<1> QED BY <1>1, <1>2, <1>3 DEF IInv, TypeOK

(* A recovery that is reported as done has written the captured values:    *)
(* the comparison of the readback decides both for run, which logs it, and *)
(* for restore_normal_operation, which returns (restore_baseline).         *)
THEOREM TruthfulRecovery == Spec => RestoredTruthfully
<1>1. Init => RecoveryInv
  BY DEF Init, RecoveryInv, NoTimers, Recovering
<1>2. IInv /\ RecoveryInv /\ [Next]_vars =>
        [ /\ EndsCall
          /\ op = "run" => events' # events /\ LatestEvent' = "baseline_restored"
          /\ op = "recover" => outcome' = "returned"
          /\ op # "configure"
          => Restored(baseline, reg'[CommControl], reg'[ExternalMode]) ]_vars
  <2> SUFFICES ASSUME IInv, RecoveryInv, Next, EndsCall,
                 op = "run" => events' # events /\ LatestEvent' = "baseline_restored",
                 op = "recover" => outcome' = "returned",
                 op # "configure"
               PROVE  Restored(baseline, reg'[CommControl], reg'[ExternalMode])
    OBVIOUS
  <2>1. pc \in Suspended /\ pc' = "idle" /\ pc # "idle"
    BY DEF EndsCall, Suspended, Transaction
  <2>2. ~Call
    BY <2>1 DEF Call, Run, RunFor, RestoreNormal, Configure
  <2>3. ~(RejectOverlap \/ SetStop \/ DeviceChange \/ Tick)
    BY <2>1 DEF RejectOverlap, SetStop, DeviceChange, Tick, control
  <2>4. ~(PreflightRead \/ CaptureRead \/ ReadFails \/ ValidateOk
          \/ ValidateFails \/ HeartbeatSent \/ HeartbeatFails
          \/ WaitStopped \/ WaitTimeout)
    BY <2>1, BodyEndsFailed
  <2>5. ~(RunForTimeout \/ CancelTask)
    BY <2>1, CancelledShown
  <2>6. ~(ConfigureWritten \/ ConfigureFails)
    BY DEF ConfigureWritten, ConfigureFails, IInv, SessionInv, PhaseInv
  <2>7. ~(RestoreWritten \/ RestoreWriteFails \/ ReadbackFails)
    <3>1. ASSUME RestoreWritten \/ RestoreWriteFails \/ ReadbackFails
          PROVE  pc \in Recovering /\ FinishRestoring(FALSE)
      BY <2>1, <3>1 DEF RestoreWritten, RestoreWriteFails, Restore, Issue,
                        ReadbackFails, Recovering
    <3> QED BY <3>1, RecoveryShown
  <2>8. Readback
    BY <2>2, <2>3, <2>4, <2>5, <2>6, <2>7 DEF Next, Step
  <2>9. /\ pc = "readback" /\ got # <<>> /\ reg' = reg
        /\ FinishRestoring(Restored(baseline, got[1], reg[ExternalMode]))
    BY <2>1, <2>8 DEF Readback, ReadOn, Issue
  <2>10. Restored(baseline, got[1], reg[ExternalMode])
    <3>1. Restored(baseline, got[1], reg[ExternalMode]) \in BOOLEAN
      BY DEF Restored
    <3> QED BY <2>9, <3>1, RecoveryShown DEF Recovering
  <2>11. got[1] = reg[CommControl]
    BY <2>9 DEF RecoveryInv
  <2> QED BY <2>9, <2>10, <2>11
<1>3. Spec => [](IInv /\ RecoveryInv)
  BY <1>1, NextRecoveryInv, Invariance, PTL DEF Spec, IInv
<1> QED BY <1>2, <1>3, PTL DEF Spec, RestoredTruthfully
-----------------------------------------------------------------------------
(***************************************************************************)
(* A call comes to its end.  TimeLeft and StepsLeft are natural numbers,   *)
(* ordered lexicographically; whatever moves the call lowers them.         *)
(***************************************************************************)
Body == {"preflight", "capture"} \cup Commanding

ClockInv ==
  /\ pc \in Transaction => timers.io <= IoTimeout
  /\ pc = "restore" => Len(todo) <= 2
  /\ pc = "wait" => timers.wake <= timers.budget

(* A step that keeps the clocks in order and ends the call or brings its   *)
(* end nearer.                                                             *)
Nearer == ClockInv' /\ (pc' = "idle" \/ Advances)

(* What n transactions take, the current one having taken io ticks.        *)
LEMMA TransactionTime ==
  ASSUME NEW n \in Nat \ {0}, NEW io \in Nat, io <= IoTimeout
  PROVE  n * IoTimeout - io \in Nat /\ n * IoTimeout - io >= (n - 1) * IoTimeout
<1>1. n * IoTimeout = (n - 1) * IoTimeout + IoTimeout /\ (n - 1) * IoTimeout \in Nat
  BY SessionAssumption
<1>2. IoTimeout \in Nat
  BY SessionAssumption
<1> QED BY <1>1, <1>2

(* The numbers are natural, and in the body there is time and there are    *)
(* steps for a recovery.                                                   *)
LEMMA CallRange ==
  ASSUME IInv, RecoveryInv, ClockInv
  PROVE  /\ TimeLeft \in Nat /\ StepsLeft \in Nat
         /\ pc \in Body => TimeLeft >= 4 * IoTimeout /\ StepsLeft > 4
<1>1. /\ timers.budget \in Int /\ timers.wake \in Nat /\ timers.io \in Nat
      /\ Len(got) \in Nat /\ Len(todo) \in Nat
  BY DEF IInv, TypeOK, Timers
<1>2. IoTimeout \in Nat /\ ValidateTime \in Nat /\ MaxDuration \in Nat
  BY SessionAssumption
<1>3. CASE pc = "preflight"
  <2>1. Len(got) < 4 /\ timers.io <= IoTimeout
    BY <1>3, RegisterFacts DEF IInv, SessionInv, PhaseInv, ClockInv, Transaction
  <2>2. TimeLeft = ((6 - Len(got)) * IoTimeout - timers.io) + BodyTime(MaxDuration)
    BY <1>3 DEF TimeLeft, Armed, Commanding
  <2>3. PICK rest \in Nat : rest = (6 - Len(got)) * IoTimeout - timers.io
    BY <1>1, <2>1, TransactionTime
  <2>4. BodyTime(MaxDuration) \in Nat /\ BodyTime(MaxDuration) >= 4 * IoTimeout
    BY <1>2 DEF BodyTime
  <2>5. TimeLeft = rest + BodyTime(MaxDuration)
    BY <2>2, <2>3, Zenon
  <2>6. TimeLeft \in Nat /\ TimeLeft >= 4 * IoTimeout
    BY <1>2, <2>4, <2>5
  <2>7. StepsLeft = 14 - Len(got)
    BY <1>3 DEF StepsLeft
  <2>8. StepsLeft \in Nat /\ StepsLeft > 4
    BY <1>1, <2>1, <2>7
  <2> QED BY <2>6, <2>8
<1>4. CASE pc = "capture"
  <2>1. Len(got) < 2 /\ timers.io <= IoTimeout
    BY <1>4 DEF IInv, SessionInv, PhaseInv, ClockInv, Transaction
  <2>2. TimeLeft = ((2 - Len(got)) * IoTimeout - timers.io) + BodyTime(MaxDuration)
    BY <1>4 DEF TimeLeft, Armed, Commanding
  <2>3. PICK rest \in Nat : rest = (2 - Len(got)) * IoTimeout - timers.io
    BY <1>1, <2>1, TransactionTime
  <2>4. BodyTime(MaxDuration) \in Nat /\ BodyTime(MaxDuration) >= 4 * IoTimeout
    BY <1>2 DEF BodyTime
  <2>5. TimeLeft = rest + BodyTime(MaxDuration)
    BY <2>2, <2>3, Zenon
  <2>6. TimeLeft \in Nat /\ TimeLeft >= 4 * IoTimeout
    BY <1>2, <2>4, <2>5
  <2>7. StepsLeft = 10 - Len(got)
    BY <1>4 DEF StepsLeft
  <2>8. StepsLeft \in Nat /\ StepsLeft > 4
    BY <1>1, <2>1, <2>7
  <2> QED BY <2>6, <2>8
<1>5. CASE pc \in Commanding
  <2>1. TimeLeft = timers.budget + ValidateTime + 5 * IoTimeout
    BY <1>5 DEF TimeLeft, Armed, Commanding, BodyTime
  <2>2. StepsLeft \in {8, 5, 7, 6}
    BY <1>5 DEF StepsLeft, Commanding
  <2>3. timers.budget + ValidateTime + IoTimeout >= 0
    BY <1>1, <1>2, <1>5, SMTT(30) DEF Commanding, IInv, SessionInv, TimerInv, ClockInv
  <2>4. TimeLeft \in Nat /\ TimeLeft >= 4 * IoTimeout
    BY <1>1, <1>2, <2>1, <2>3, SMTT(30)
  <2> QED BY <2>2, <2>4
<1>6. CASE pc = "restore"
  <2>1. Len(todo) <= 2 /\ timers.io <= IoTimeout
    BY <1>6 DEF ClockInv, Transaction
  <2>2. TimeLeft = (Len(todo) + 2) * IoTimeout - timers.io /\ StepsLeft = Len(todo) + 2
    BY <1>6 DEF TimeLeft, StepsLeft, Armed, Commanding
  <2>3. (Len(todo) + 2) * IoTimeout - timers.io \in Nat
    BY <1>1, <2>1, TransactionTime
  <2> QED BY <1>1, <1>6, <2>2, <2>3 DEF Body, Commanding
<1>7. CASE pc = "readback"
  <2>1. Len(got) < 2 /\ timers.io <= IoTimeout
    <3>1. got = <<>> \/ got = <<reg[CommControl]>>
      BY <1>7 DEF RecoveryInv
    <3>2. timers.io <= IoTimeout
      BY <1>7 DEF ClockInv, Transaction
    <3>3. Len(<<>>) = 0 /\ Len(<<reg[CommControl]>>) = 1
      OBVIOUS
    <3>4. Len(got) = 0 \/ Len(got) = 1
      BY <3>1, <3>3, Zenon
    <3> QED BY <3>2, <3>4
  <2>2. TimeLeft = (2 - Len(got)) * IoTimeout - timers.io /\ StepsLeft = 2 - Len(got)
    BY <1>7 DEF TimeLeft, StepsLeft, Armed, Commanding
  <2>3. (2 - Len(got)) * IoTimeout - timers.io \in Nat
    BY <1>1, <2>1, TransactionTime
  <2> QED BY <1>1, <1>7, <2>1, <2>2, <2>3 DEF Body, Commanding
<1>8. CASE pc = "configure"
  <2>1. todo # <<>> /\ timers.io <= IoTimeout
    BY <1>8 DEF IInv, SessionInv, PhaseInv, ClockInv, Transaction
  <2>2. TimeLeft = Len(todo) * IoTimeout - timers.io /\ StepsLeft = Len(todo)
    BY <1>8 DEF TimeLeft, StepsLeft, Armed, Commanding
  <2>3. Len(todo) \in Nat \ {0}
    BY <1>1, <2>1 DEF IInv, TypeOK
  <2>4. Len(todo) * IoTimeout - timers.io \in Nat
    BY <1>1, <2>1, <2>3, TransactionTime
  <2> QED BY <1>1, <1>8, <2>2, <2>4 DEF Body, Commanding
<1>9. CASE pc = "idle"
  BY <1>9 DEF TimeLeft, StepsLeft, Armed, Body, Commanding
<1> QED BY <1>3, <1>4, <1>5, <1>6, <1>7, <1>8, <1>9
     DEF IInv, TypeOK, Suspended, Transaction, Commanding

(* A recovery has at most two writes.                                      *)
LEMMA RestoreWritesLen ==
  ASSUME NEW b \in Baseline
  PROVE  /\ Len(RestoreWrites(b)) \in Nat /\ Len(RestoreWrites(b)) <= 2
         /\ RestoreWrites(b) # <<>> => Len(RestoreWrites(b)) >= 1
BY DEF RestoreWrites

LEMMA RecoveryStarts ==
  ASSUME IInv, RecoveryInv, ClockInv, pc \in Body, NEW b \in Baseline, StartRestoring(b)
  PROVE  Nearer
<1>1. TimeLeft \in Nat /\ TimeLeft >= 4 * IoTimeout /\ StepsLeft > 4 /\ StepsLeft \in Nat
  BY CallRange
<1>2. IoTimeout \in Nat
  BY SessionAssumption
<1>3. got' = <<>> /\ todo' = RestoreWrites(b) /\ timers'.io = 0
  BY DEF StartRestoring, NoTimers
<1>4. CASE RestoreWrites(b) = <<>>
  <2>1. pc' = "readback"
    BY <1>4 DEF StartRestoring
  <2>2. TimeLeft' = 2 * IoTimeout /\ StepsLeft' = 2
    BY <1>2, <1>3, <2>1 DEF TimeLeft, StepsLeft, Armed, Commanding
  <2>3. ClockInv'
    BY <1>2, <1>3, <2>1 DEF ClockInv
  <2> QED BY <1>1, <1>2, <2>2, <2>3 DEF Nearer, Advances
<1>5. CASE RestoreWrites(b) # <<>>
  <2>1. pc' = "restore"
    BY <1>5 DEF StartRestoring
  <2>2. Len(todo') \in Nat /\ Len(todo') >= 1 /\ Len(todo') <= 2
    BY <1>3, <1>5, RestoreWritesLen
  <2>3. TimeLeft' = (Len(todo') + 2) * IoTimeout /\ StepsLeft' = Len(todo') + 2
    BY <1>2, <1>3, <2>1, <2>2 DEF TimeLeft, StepsLeft, Armed, Commanding
  <2>4. ClockInv'
    BY <1>2, <1>3, <2>1, <2>2 DEF ClockInv
  <2>5. (Len(todo') + 2) * IoTimeout <= 4 * IoTimeout
    <3>1. PICK n \in Nat : n = Len(todo')
      BY <2>2
    <3>2. n = 1 \/ n = 2
      BY <2>2, <3>1
    <3> QED BY <1>2, <3>1, <3>2
  <2> QED BY <1>1, <1>2, <2>2, <2>3, <2>4, <2>5, SMTT(30) DEF Nearer, Advances
<1> QED BY <1>4, <1>5

LEMMA CallReturns ==
  ASSUME NEW how, Return(how)
  PROVE  Nearer
BY DEF Return, Nearer, ClockInv, Transaction

LEMMA BodyLeft ==
  ASSUME IInv, RecoveryInv, ClockInv, pc \in Body, NEW how, NEW log, NEW b \in Baseline,
         LeaveBody(how, log, b)
  PROVE  Nearer
BY RecoveryStarts, CallReturns DEF LeaveBody

(* One more transaction of the same phase.                                 *)
LEMMA IssueResets == ASSUME IInv, NEW at, Issue(at) PROVE timers'.io = 0 /\ timers'.budget = timers.budget
BY DEF Issue, IInv, TypeOK, Timers

LEMMA BodyFails ==
  ASSUME IInv, RecoveryInv, ClockInv, ReadFails \/ ValidateFails \/ HeartbeatFails
  PROVE  Nearer
<1>1. pc \in Body /\ baseline \in Baseline
  BY DEF ReadFails, ValidateFails, HeartbeatFails, Body, Commanding, IInv, TypeOK
<1>2. LeaveBody("error", Failed, baseline)
  BY DEF ReadFails, ValidateFails, HeartbeatFails
<1> QED BY <1>1, <1>2, BodyLeft

(* The top of the loop, reached with as much time as the loop may take.    *)
LEMMA LoopEntered ==
  ASSUME IInv, RecoveryInv, ClockInv, pc \in Body, NEW log, NEW b \in Baseline,
         NEW t \in Timers, EnterLoop(log, b, t), BodyTime(t.budget) <= TimeLeft, StepsLeft > 7
  PROVE  Nearer
<1>1. CASE stop
  <2>1. LeaveBody("none", Recorded(log, "session_stopped"), b)
    BY <1>1 DEF EnterLoop
  <2> QED BY <2>1, BodyLeft
<1>2. CASE ~stop
  <2>1. pc' = "validate" /\ timers'.io = 0 /\ timers'.budget = t.budget
    BY <1>2 DEF EnterLoop, Validate, Timers
  <2>2. TimeLeft' = BodyTime(t.budget) /\ StepsLeft' = 7
    BY <2>1 DEF TimeLeft, StepsLeft, Armed, Commanding
  <2>3. ClockInv'
    BY <2>1 DEF ClockInv, Transaction
  <2>4. BodyTime(t.budget) \in Int /\ TimeLeft \in Nat /\ StepsLeft \in Nat
    BY CallRange, SessionAssumption DEF BodyTime, Timers
  <2> QED BY <2>2, <2>3, <2>4 DEF Nearer, Advances
<1> QED BY <1>1, <1>2

LEMMA PreflightNearer ==
  ASSUME IInv, RecoveryInv, ClockInv, PreflightRead
  PROVE  Nearer
<1>1. /\ pc = "preflight" /\ pc \in Body /\ Len(got) \in Nat /\ Len(got) < 4
      /\ timers.io \in Nat /\ timers.io <= IoTimeout
  <2>1. pc = "preflight"
    BY DEF PreflightRead
  <2>2. Len(got) < 4
    BY <2>1, RegisterFacts DEF IInv, SessionInv, PhaseInv
  <2> QED BY <2>1, <2>2 DEF Body, IInv, TypeOK, Timers, ClockInv, Transaction
<1>2. /\ TimeLeft = ((6 - Len(got)) * IoTimeout - timers.io) + BodyTime(MaxDuration)
      /\ StepsLeft = 14 - Len(got)
  BY <1>1 DEF TimeLeft, StepsLeft, Armed, Commanding
<1>3. /\ (6 - Len(got)) * IoTimeout - timers.io \in Nat
      /\ (6 - Len(got)) * IoTimeout - timers.io >= ((6 - Len(got)) - 1) * IoTimeout
      /\ ((6 - Len(got)) - 1) * IoTimeout \in Nat
  BY <1>1, TransactionTime, SessionAssumption
<1>4. BodyTime(MaxDuration) \in Nat
  BY SessionAssumption DEF BodyTime
<1>5. CASE LeaveBody("error", Failed, baseline)
  BY <1>1, <1>5, BodyLeft DEF IInv, TypeOK
<1>6. CASE \E v \in Int : ReadOn(Append(got, v), "preflight")
  <2>1. PICK v \in Int : ReadOn(Append(got, v), "preflight")
    BY <1>6
  <2>2. pc' = "preflight" /\ timers'.io = 0 /\ Len(got') = Len(got) + 1
    BY <2>1, IssueResets DEF ReadOn, Issue, IInv, TypeOK
  <2>3. /\ TimeLeft' = ((6 - (Len(got) + 1)) * IoTimeout - 0) + BodyTime(MaxDuration)
        /\ StepsLeft' = 14 - (Len(got) + 1)
    BY <2>2 DEF TimeLeft, StepsLeft, Armed, Commanding
  <2>4. ClockInv'
    BY <2>2, SessionAssumption DEF ClockInv
  <2>5. 6 - (Len(got) + 1) = (6 - Len(got)) - 1
    BY <1>1
  <2> QED BY <1>1, <1>2, <1>3, <1>4, <2>3, <2>4, <2>5 DEF Nearer, Advances
<1>7. CASE ReadOn(<<>>, "capture") /\ Len(got) = 3
  <2>1. pc' = "capture" /\ timers'.io = 0 /\ got' = <<>>
    BY <1>7, IssueResets DEF ReadOn, Issue
  <2>2. TimeLeft' = (2 * IoTimeout - 0) + BodyTime(MaxDuration) /\ StepsLeft' = 10
    BY <2>1 DEF TimeLeft, StepsLeft, Armed, Commanding
  <2>3. ClockInv'
    BY <2>1, SessionAssumption DEF ClockInv
  <2>4. ((6 - Len(got)) - 1) * IoTimeout = 2 * IoTimeout
    BY <1>7
  <2>5. TimeLeft' <= TimeLeft /\ TimeLeft \in Nat /\ TimeLeft' \in Nat
    <3>1. PICK x \in Nat : x = (6 - Len(got)) * IoTimeout - timers.io
      BY <1>3
    <3>2. x >= 2 * IoTimeout /\ 2 * IoTimeout \in Nat
      BY <1>3, <2>4, <3>1, SessionAssumption
    <3> QED BY <1>2, <1>4, <2>2, <3>1, <3>2
  <2>6. StepsLeft' < StepsLeft
    BY <1>2, <1>7, <2>2
  <2> QED BY <2>3, <2>5, <2>6 DEF Nearer, Advances
<1>8. reg[PreflightReads[Len(got) + 1]] \in Int
  <2>1. Len(got) + 1 \in 1..4
    BY <1>1
  <2>2. PreflightReads[Len(got) + 1] \in Registers
    BY <2>1, RegisterFacts
  <2> QED BY <2>2 DEF IInv, TypeOK
<1>9. \/ LeaveBody("error", Failed, baseline)
      \/ ReadOn(Append(got, reg[PreflightReads[Len(got) + 1]]), "preflight")
      \/ ReadOn(<<>>, "capture") /\ Len(got) = 3
  <2>1. Len(Append(got, reg[PreflightReads[Len(got) + 1]])) = Len(got) + 1
    BY <1>8 DEF IInv, TypeOK
  <2>2. CASE Len(got) < 3
    <3>1. Len(Append(got, reg[PreflightReads[Len(got) + 1]])) < Len(PreflightReads)
      BY <1>1, <2>1, <2>2, RegisterFacts
    <3> QED BY <3>1, Zenon DEF PreflightRead
  <2>3. CASE ~(Len(got) < 3)
    <3>1. Len(got) = 3
      <4>1. PICK n \in Nat : n = Len(got)
        BY <1>1
      <4>2. n < 4 /\ ~(n < 3)
        BY <1>1, <2>3, <4>1
      <4> QED BY <4>1, <4>2
    <3>2. ~(Len(Append(got, reg[PreflightReads[Len(got) + 1]])) < Len(PreflightReads))
      BY <2>1, <3>1, RegisterFacts
    <3> QED BY <3>1, <3>2, Zenon DEF PreflightRead
  <2> QED BY <2>2, <2>3
<1> QED BY <1>5, <1>6, <1>7, <1>8, <1>9

LEMMA CaptureNearer ==
  ASSUME IInv, RecoveryInv, ClockInv, CaptureRead
  PROVE  Nearer
<1>1. /\ pc = "capture" /\ pc \in Body /\ got \in {<<>>, <<External>>}
      /\ timers \in Timers /\ timers.io \in Nat /\ timers.io <= IoTimeout
  <2>1. pc = "capture"
    BY DEF CaptureRead
  <2> QED BY <2>1 DEF Body, IInv, SessionInv, PhaseInv, TypeOK, Timers, ClockInv, Transaction
<1>2. /\ TimeLeft = ((2 - Len(got)) * IoTimeout - timers.io) + BodyTime(MaxDuration)
      /\ StepsLeft = 10 - Len(got)
  BY <1>1 DEF TimeLeft, StepsLeft, Armed, Commanding
<1>3. BodyTime(MaxDuration) \in Nat /\ IoTimeout \in Nat
  BY SessionAssumption DEF BodyTime
<1>4. CASE LeaveBody("error", Failed, baseline)
  BY <1>1, <1>4, BodyLeft DEF IInv, TypeOK
<1>5. CASE got = <<>> /\ ReadOn(<<External>>, "capture")
  <2>1. pc' = "capture" /\ timers'.io = 0 /\ Len(got') = 1 /\ Len(got) = 0
    BY <1>5, IssueResets DEF ReadOn, Issue
  <2>2. TimeLeft' = ((2 - 1) * IoTimeout - 0) + BodyTime(MaxDuration) /\ StepsLeft' = 10 - 1
    BY <2>1 DEF TimeLeft, StepsLeft, Armed, Commanding
  <2>3. TimeLeft = ((2 - 0) * IoTimeout - timers.io) + BodyTime(MaxDuration) /\ StepsLeft = 10 - 0
    BY <1>2, <2>1
  <2>4. ClockInv'
    BY <2>1, SessionAssumption DEF ClockInv
  <2> QED BY <1>1, <1>3, <2>2, <2>3, <2>4 DEF Nearer, Advances
<1>6. CASE got # <<>>
  <2> DEFINE comm == IF reg[CommControl] \in {CommOn, CommOff}
                     THEN reg[CommControl] ELSE Unreadable
             b == [mode |-> got[1], comm |-> comm]
             t == [timers EXCEPT !.budget = MaxDuration, !.silent = 0]
             log == Recorded(events, "session_started")
  <2>1. EnterLoop(log, b, t)
    BY <1>6 DEF CaptureRead, ReadOn, session
  <2>2. b \in Baseline
    <3>1. got[1] \in Int
      BY <1>1, <1>6, RegisterFacts
    <3>2. comm \in Int
      BY RegisterFacts DEF IInv, TypeOK
    <3> QED BY <3>1, <3>2 DEF Baseline
  <2>3. t \in Timers /\ t.budget = MaxDuration
    <3>1. MaxDuration \in Int /\ timers \in Timers
      BY <1>1, SessionAssumption
    <3> HIDE DEF comm, b, log
    <3> QED BY <3>1 DEF Timers
  <2>4. Len(got) = 1
    BY <1>1, <1>6
  <2>5. BodyTime(t.budget) <= TimeLeft /\ StepsLeft > 7
    <3>1. TimeLeft = ((2 - 1) * IoTimeout - timers.io) + BodyTime(MaxDuration) /\ StepsLeft = 9
      BY <1>2, <2>4
    <3> QED BY <1>1, <1>3, <2>3, <3>1
  <2> HIDE DEF comm, b, t, log
  <2> QED BY <1>1, <2>1, <2>2, <2>3, <2>5, LoopEntered
<1> QED BY <1>4, <1>5, <1>6 DEF CaptureRead

(* The body goes on in another await.                                      *)
LEMMA ValidateNearer ==
  ASSUME IInv, RecoveryInv, ClockInv, ValidateOk
  PROVE  Nearer
<1>1. pc = "validate" /\ pc \in Body /\ baseline \in Baseline /\ timers \in Timers
  BY DEF ValidateOk, Body, Commanding, IInv, TypeOK
<1>2. CASE LeaveBody("error", Failed, baseline)
  BY <1>1, <1>2, BodyLeft
<1>3. CASE Proceed("heartbeat", [timers EXCEPT !.io = 0, !.silent = 0])
  <2>1. pc' = "heartbeat" /\ timers'.io = 0 /\ timers'.budget = timers.budget
    BY <1>1, <1>3 DEF Proceed, Timers
  <2>2. TimeLeft = BodyTime(timers.budget) /\ StepsLeft = 7
    BY <1>1 DEF TimeLeft, StepsLeft, Armed, Commanding
  <2>3. TimeLeft' = BodyTime(timers.budget) /\ StepsLeft' = 6
    BY <2>1 DEF TimeLeft, StepsLeft, Armed, Commanding
  <2>4. ClockInv'
    BY <2>1, SessionAssumption DEF ClockInv
  <2> QED BY <2>2, <2>3, <2>4 DEF Nearer, Advances
<1> QED BY <1>2, <1>3 DEF ValidateOk

LEMMA HeartbeatNearer ==
  ASSUME IInv, RecoveryInv, ClockInv, HeartbeatSent
  PROVE  Nearer
<1>1. pc = "heartbeat" /\ pc \in Body /\ baseline \in Baseline /\ timers \in Timers
  BY DEF HeartbeatSent, Acknowledged, Body, Commanding, IInv, TypeOK
<1>2. CASE LeaveBody("none", Recorded(events, "session_expired"), baseline)
  BY <1>1, <1>2, BodyLeft
<1>3. CASE /\ timers.budget > 0
           /\ Proceed("wait", [timers EXCEPT !.io = 0, !.wake = WaitTime])
  <2>1. pc' = "wait" /\ timers'.wake = WaitTime /\ timers'.budget = timers.budget
    BY <1>1, <1>3 DEF Proceed, Timers
  <2>2. timers.budget \in Int /\ WaitTime <= timers.budget /\ WaitTime # 0
    BY <1>1, <1>3, SessionAssumption DEF WaitTime, Timers
  <2>3. TimeLeft = BodyTime(timers.budget) /\ StepsLeft = 6
    BY <1>1 DEF TimeLeft, StepsLeft, Armed, Commanding
  <2>4. TimeLeft' = BodyTime(timers.budget) /\ StepsLeft' = 5
    BY <2>1, <2>2 DEF TimeLeft, StepsLeft, Armed, Commanding
  <2>5. ClockInv'
    BY <2>1, <2>2 DEF ClockInv, Transaction
  <2> QED BY <2>3, <2>4, <2>5 DEF Nearer, Advances
<1>4. timers.budget \in Int
  BY <1>1 DEF Timers
<1> QED BY <1>2, <1>3, <1>4 DEF HeartbeatSent

LEMMA WaitNearer ==
  ASSUME IInv, RecoveryInv, ClockInv, WaitStopped \/ WaitTimeout
  PROVE  Nearer
<1>1. pc = "wait" /\ pc \in Body /\ baseline \in Baseline /\ timers \in Timers
  BY DEF WaitStopped, WaitTimeout, Body, Commanding, IInv, TypeOK
<1>2. TimeLeft = BodyTime(timers.budget) /\ BodyTime(timers.budget) \in Int
  BY <1>1, SessionAssumption DEF TimeLeft, Armed, Commanding, BodyTime, Timers
<1>3. CASE WaitStopped
  <2>1. LeaveBody("none", Recorded(events, "session_stopped"), baseline)
    BY <1>3 DEF WaitStopped, EnterLoop
  <2> QED BY <1>1, <2>1, BodyLeft
<1>4. CASE WaitTimeout
  <2>1. CASE LeaveBody("none", Recorded(events, "session_expired"), baseline)
    BY <1>1, <2>1, BodyLeft
  <2>2. CASE timers.wake = 0 /\ EnterLoop(events, baseline, timers)
    <3>1. StepsLeft = 8
      BY <1>1, <2>2 DEF StepsLeft
    <3> QED BY <1>1, <1>2, <2>2, <3>1, LoopEntered
  <2> QED BY <1>4, <2>1, <2>2 DEF WaitTimeout
<1> QED BY <1>3, <1>4

(* One write of the recovery less, or its readback, or its end.            *)
LEMMA RestoreNearer ==
  ASSUME IInv, RecoveryInv, ClockInv, RestoreWritten \/ RestoreWriteFails
  PROVE  Nearer
<1>1. PICK landed \in BOOLEAN : Restore(landed)
  BY DEF RestoreWritten, RestoreWriteFails
<1>2. /\ pc = "restore" /\ timers.io \in Nat /\ timers.io <= IoTimeout
      /\ Len(todo) \in Nat /\ Len(todo) <= 2 /\ todo \in Seq(RegisterWrite) /\ todo # <<>>
      /\ got = <<>>
  <2>1. pc = "restore"
    BY <1>1 DEF Restore
  <2> QED BY <2>1 DEF IInv, TypeOK, Timers, ClockInv, Transaction, SessionInv, PhaseInv, RecoveryInv
<1>3. Len(todo) >= 1 /\ Len(Tail(todo)) = Len(todo) - 1
  BY <1>2
<1>4. TimeLeft = (Len(todo) + 2) * IoTimeout - timers.io /\ StepsLeft = Len(todo) + 2
  BY <1>2 DEF TimeLeft, StepsLeft, Armed, Commanding
<1>5. /\ (Len(todo) + 2) * IoTimeout - timers.io \in Nat
      /\ (Len(todo) + 2) * IoTimeout - timers.io >= ((Len(todo) + 2) - 1) * IoTimeout
      /\ (Len(todo) + 2) - 1 = Len(todo) + 1 /\ (Len(todo) + 1) * IoTimeout \in Nat
  BY <1>2, TransactionTime, SessionAssumption
<1>6. CASE FinishRestoring(FALSE)
  BY <1>6, CallReturns DEF FinishRestoring
<1>7. CASE Tail(todo) # <<>> /\ Issue("restore") /\ todo' = Tail(todo)
  <2>1. pc' = "restore" /\ timers'.io = 0 /\ Len(todo') = Len(todo) - 1
    BY <1>3, <1>7, IssueResets DEF Issue
  <2>2. TimeLeft' = ((Len(todo) - 1) + 2) * IoTimeout - 0 /\ StepsLeft' = (Len(todo) - 1) + 2
    BY <2>1 DEF TimeLeft, StepsLeft, Armed, Commanding
  <2>3. (Len(todo) - 1) + 2 = Len(todo) + 1
    BY <1>2
  <2>4. ClockInv'
    BY <1>2, <2>1, SessionAssumption DEF ClockInv
  <2> QED BY <1>2, <1>4, <1>5, <2>2, <2>3, <2>4 DEF Nearer, Advances
<1>8. CASE Tail(todo) = <<>> /\ Issue("readback") /\ UNCHANGED got
  <2>1. pc' = "readback" /\ timers'.io = 0 /\ got' = <<>>
    BY <1>2, <1>8, IssueResets DEF Issue
  <2>2. TimeLeft' = 2 * IoTimeout - 0 /\ StepsLeft' = 2
    BY <2>1 DEF TimeLeft, StepsLeft, Armed, Commanding
  <2>3. Len(todo) = 1
    BY <1>2, <1>8, HeadTail
  <2>4. ClockInv'
    BY <2>1, SessionAssumption DEF ClockInv
  <2> QED BY <1>2, <1>4, <1>5, <2>2, <2>3, <2>4, SessionAssumption DEF Nearer, Advances
<1> QED BY <1>1, <1>6, <1>7, <1>8 DEF Restore

LEMMA ReadbackNearer ==
  ASSUME IInv, RecoveryInv, ClockInv, Readback \/ ReadbackFails
  PROVE  Nearer
<1>1. CASE \E ok : FinishRestoring(ok)
  BY <1>1, CallReturns DEF FinishRestoring
<1>2. CASE pc = "readback" /\ got = <<>> /\ ReadOn(<<reg[CommControl]>>, "readback")
  <2>1. pc' = "readback" /\ timers'.io = 0 /\ Len(got') = 1 /\ Len(got) = 0
    BY <1>2, IssueResets DEF ReadOn, Issue
  <2>2. timers.io \in Nat /\ timers.io <= IoTimeout
    BY <1>2 DEF IInv, TypeOK, Timers, ClockInv, Transaction
  <2>3. TimeLeft = (2 - 0) * IoTimeout - timers.io /\ StepsLeft = 2 - 0
    BY <1>2, <2>1 DEF TimeLeft, StepsLeft, Armed, Commanding
  <2>4. TimeLeft' = (2 - 1) * IoTimeout - 0 /\ StepsLeft' = 2 - 1
    BY <2>1 DEF TimeLeft, StepsLeft, Armed, Commanding
  <2>5. ClockInv'
    BY <2>1, SessionAssumption DEF ClockInv
  <2> QED BY <2>2, <2>3, <2>4, <2>5, SessionAssumption DEF Nearer, Advances
<1> QED BY <1>1, <1>2 DEF Readback, ReadbackFails

LEMMA ConfigureNearer ==
  ASSUME IInv, RecoveryInv, ClockInv, ConfigureWritten \/ ConfigureFails
  PROVE  Nearer
<1>1. /\ pc = "configure" /\ timers.io \in Nat /\ timers.io <= IoTimeout
      /\ todo \in Seq(RegisterWrite) /\ todo # <<>>
  <2>1. pc = "configure"
    BY DEF ConfigureWritten, ConfigureFails
  <2> QED BY <2>1 DEF IInv, TypeOK, Timers, ClockInv, Transaction, SessionInv, PhaseInv
<1>2. Len(todo) \in Nat \ {0} /\ Len(Tail(todo)) = Len(todo) - 1
  BY <1>1
<1>3. CASE \E how : Return(how)
  BY <1>3, CallReturns
<1>4. CASE todo' = Tail(todo) /\ Issue("configure")
  <2>1. pc' = "configure" /\ timers'.io = 0 /\ Len(todo') = Len(todo) - 1
    BY <1>2, <1>4, IssueResets DEF Issue
  <2>2. TimeLeft = Len(todo) * IoTimeout - timers.io /\ StepsLeft = Len(todo)
    BY <1>1 DEF TimeLeft, StepsLeft, Armed, Commanding
  <2>3. TimeLeft' = (Len(todo) - 1) * IoTimeout - 0 /\ StepsLeft' = Len(todo) - 1
    BY <2>1 DEF TimeLeft, StepsLeft, Armed, Commanding
  <2>4. /\ Len(todo) * IoTimeout - timers.io \in Nat /\ (Len(todo) - 1) * IoTimeout \in Nat
        /\ Len(todo) * IoTimeout - timers.io >= (Len(todo) - 1) * IoTimeout
    BY <1>1, <1>2, TransactionTime, SessionAssumption
  <2>5. ClockInv'
    BY <2>1, SessionAssumption DEF ClockInv
  <2> QED BY <1>2, <2>2, <2>3, <2>4, <2>5 DEF Nearer, Advances
<1> QED BY <1>3, <1>4 DEF ConfigureWritten, ConfigureFails

LEMMA CancelNearer ==
  ASSUME IInv, RecoveryInv, ClockInv, RunForTimeout \/ CancelTask
  PROVE  Nearer
<1>1. pc \in Suspended /\ Cancelled /\ baseline \in Baseline
  BY DEF RunForTimeout, CancelTask, IInv, TypeOK
<1>2. CASE op = "run" /\ pc \notin Recovering
  <2>1. pc \in Body
    BY <1>1, <1>2 DEF Suspended, Transaction, Recovering, Body, Commanding, IInv, SessionInv,
       PhaseInv
  <2> QED BY <1>1, <1>2, <2>1, BodyLeft DEF Cancelled
<1>3. CASE ~(op = "run" /\ pc \notin Recovering)
  BY <1>1, <1>3, CallReturns DEF Cancelled
<1> QED BY <1>2, <1>3

(* The clock: each tick is one of those that were left.                    *)
LEMMA TickNearer ==
  ASSUME IInv, RecoveryInv, ClockInv, Tick
  PROVE  Nearer
<1>1. /\ pc \in Suspended /\ timers' = Elapsed(timers) /\ UNCHANGED <<pc, got, todo>>
      /\ pc \in Transaction => timers.io < IoTimeout
      /\ pc = "wait" => timers.wake > 0
      /\ timers.io \in Nat /\ timers.budget \in Int /\ timers.wake \in Nat
      /\ Len(got) \in Nat /\ Len(todo) \in Nat
  BY DEF Tick, control, IInv, TypeOK, Timers
<1>2. CASE pc \in Commanding
  <2>1. timers'.budget = timers.budget - 1
    BY <1>1, <1>2 DEF Elapsed
  <2>2. TimeLeft = BodyTime(timers.budget) /\ TimeLeft' = BodyTime(timers.budget - 1)
    BY <1>1, <1>2, <2>1 DEF TimeLeft, Armed, Commanding
  <2>3. BodyTime(timers.budget - 1) < BodyTime(timers.budget)
    BY <1>1, SessionAssumption DEF BodyTime
  <2>4. ClockInv'
    BY <1>1, <1>2, <2>1, SessionAssumption DEF ClockInv, Elapsed, Down, Transaction, Commanding
  <2> QED BY <2>2, <2>3, <2>4 DEF Nearer, Advances
<1>3. CASE pc \in Transaction \ {"heartbeat"}
  <2>1. timers'.io = timers.io + 1
    BY <1>1, <1>3 DEF Elapsed, Transaction
  <2>2. ClockInv'
    BY <1>1, <1>3, <2>1, SessionAssumption DEF ClockInv, Transaction
  <2>3. PICK n \in Int : \/ TimeLeft = n - timers.io /\ TimeLeft' = n - (timers.io + 1)
                        \/ /\ TimeLeft = (n - timers.io) + BodyTime(MaxDuration)
                           /\ TimeLeft' = (n - (timers.io + 1)) + BodyTime(MaxDuration)
    <3>1. CASE pc = "preflight"
      <4>1. (6 - Len(got)) * IoTimeout \in Int
        BY <1>1, SessionAssumption
      <4> QED BY <1>1, <2>1, <3>1, <4>1 DEF TimeLeft, Armed, Commanding
    <3>2. CASE pc = "capture"
      <4>1. (2 - Len(got)) * IoTimeout \in Int
        BY <1>1, SessionAssumption
      <4> QED BY <1>1, <2>1, <3>2, <4>1 DEF TimeLeft, Armed, Commanding
    <3>3. CASE pc = "restore"
      <4>1. (Len(todo) + 2) * IoTimeout \in Int
        BY <1>1, SessionAssumption
      <4> QED BY <1>1, <2>1, <3>3, <4>1 DEF TimeLeft, Armed, Commanding
    <3>4. CASE pc = "readback"
      <4>1. (2 - Len(got)) * IoTimeout \in Int
        BY <1>1, SessionAssumption
      <4> QED BY <1>1, <2>1, <3>4, <4>1 DEF TimeLeft, Armed, Commanding
    <3>5. CASE pc = "configure"
      <4>1. Len(todo) * IoTimeout \in Int
        BY <1>1, SessionAssumption
      <4> QED BY <1>1, <2>1, <3>5, <4>1 DEF TimeLeft, Armed, Commanding
    <3> QED BY <1>3, <3>1, <3>2, <3>3, <3>4, <3>5 DEF Transaction
  <2>4. BodyTime(MaxDuration) \in Int
    BY SessionAssumption DEF BodyTime
  <2> QED BY <1>1, <2>2, <2>3, <2>4 DEF Nearer, Advances
<1> QED BY <1>1, <1>2, <1>3 DEF Suspended, Transaction, Commanding

(* A call that begins has its clocks in order.                             *)
LEMMA CallClocks ==
  ASSUME IInv, RecoveryInv, ClockInv, Call
  PROVE  ClockInv' /\ pc = "idle"
<1>1. pc = "idle" /\ IoTimeout \in Nat
  BY SessionAssumption DEF Call, Run, RunFor, RestoreNormal, Configure
<1>2. CASE (\E p \in Powers, s \in BOOLEAN : Run(p, s))
           \/ (\E p \in Powers, d \in 1..MaxDuration : RunFor(p, d))
  <2>1. pc' = "preflight" /\ timers'.io = 0
    BY <1>2 DEF Run, RunFor, Begin, NoTimers
  <2> QED BY <1>1, <2>1 DEF ClockInv
<1>3. CASE RestoreNormal
  <2>1. PICK b \in Baseline : b = [mode |-> ModeOff, comm |-> CommOff]
    BY RegisterFacts DEF Baseline
  <2>2. /\ pc' \in {"restore", "readback"} /\ timers'.io = 0
        /\ todo' = RestoreWrites(b)
    BY <1>3, <2>1 DEF RestoreNormal, StartRestoring, NoTimers
  <2> QED BY <1>1, <2>2, RestoreWritesLen DEF ClockInv
<1>4. ASSUME NEW w \in Settings, Configure(w) PROVE ClockInv'
  <2>1. \/ pc' = "configure" /\ timers'.io = 0
        \/ pc' = "idle"
    BY <1>1, <1>4, IssueResets DEF Configure, Issue
  <2> QED BY <1>1, <2>1 DEF ClockInv, Transaction
<1> QED BY <1>1, <1>2, <1>3, <1>4 DEF Call

(* Nothing else touches a clock.                                           *)
LEMMA AsideClocks ==
  ASSUME IInv, ClockInv, RejectOverlap \/ SetStop \/ DeviceChange \/ UNCHANGED vars
  PROVE  ClockInv' /\ UNCHANGED <<pc, got, todo, timers>>
<1>1. UNCHANGED <<pc, got, todo, timers>>
  BY DEF RejectOverlap, SetStop, DeviceChange, vars, control
<1> QED BY <1>1 DEF ClockInv

LEMMA NextNearer ==
  ASSUME IInv, RecoveryInv, ClockInv, [Next]_vars
  PROVE  /\ ClockInv'
         /\ pc = "idle" \/ pc' = "idle" \/ Advances \/ UNCHANGED <<pc, got, todo, timers>>
<1>1. CASE Step \/ CancelTask \/ Tick
  BY <1>1, PreflightNearer, CaptureNearer, BodyFails, ValidateNearer, HeartbeatNearer, WaitNearer,
     RestoreNearer, ReadbackNearer, ConfigureNearer, CancelNearer, TickNearer DEF Step, Nearer
<1> QED BY <1>1, CallClocks, AsideClocks DEF Next

(* The variant of CallEnds: every step of a call lowers the time it has    *)
(* left, or keeps it and lowers the number of its steps.                   *)
THEOREM CallsAdvance == Spec => CallAdvances
<1>1. Init => RecoveryInv /\ ClockInv
  BY DEF Init, RecoveryInv, ClockInv, Transaction, NoTimers, Recovering
<1>2. IInv /\ RecoveryInv /\ ClockInv => TimeLeft \in Nat /\ StepsLeft \in Nat
  BY CallRange
<1>3. Spec => [](IInv /\ RecoveryInv /\ ClockInv)
  BY <1>1, NextRecoveryInv, NextNearer, Invariance, PTL DEF Spec, IInv
<1>4. /\ IInv /\ RecoveryInv /\ ClockInv /\ [Next]_vars
      /\ (TimeLeft \in Nat)' /\ (StepsLeft \in Nat)'
      => [pc # "idle" /\ pc' # "idle" =>
            TimeLeft' \in Nat /\ StepsLeft' \in Nat /\ Advances]_<<pc, got, todo, timers>>
  BY NextNearer
<1> QED BY <1>2, <1>3, <1>4, PTL DEF Spec, CallAdvances

(* A call stays the call it is until it ends.                              *)
LEMMA SameCall ==
  ASSUME IInv, [Next]_vars, pc # "idle"
  PROVE  op' = op
<1>1. ASSUME NEW how, NEW log, NEW b, LeaveBody(how, log, b) PROVE op' = op
  BY <1>1 DEF LeaveBody
<1>2. ASSUME NEW log, NEW b, NEW t, EnterLoop(log, b, t) PROVE op' = op
  BY <1>1, <1>2 DEF EnterLoop, Validate, session
<1>3. CASE PreflightRead \/ CaptureRead \/ ReadFails \/ ValidateOk \/ ValidateFails
  BY <1>1, <1>2, <1>3 DEF PreflightRead, CaptureRead, ReadFails, ValidateOk, ValidateFails, ReadOn,
     Proceed, session
<1>4. CASE HeartbeatSent \/ HeartbeatFails \/ WaitStopped \/ WaitTimeout
  BY <1>1, <1>2, <1>4 DEF HeartbeatSent, HeartbeatFails, WaitStopped, WaitTimeout, Proceed, session
<1>5. CASE RestoreWritten \/ RestoreWriteFails \/ Readback \/ ReadbackFails
  BY <1>5 DEF RestoreWritten, RestoreWriteFails, Restore, Readback, ReadbackFails, FinishRestoring,
     ReadOn, session
<1>6. CASE ConfigureWritten \/ ConfigureFails \/ RunForTimeout \/ CancelTask
  BY <1>1, <1>6 DEF ConfigureWritten, ConfigureFails, RunForTimeout, CancelTask, Cancelled
<1>7. CASE RejectOverlap \/ SetStop \/ DeviceChange \/ Tick \/ UNCHANGED vars
  BY <1>7 DEF RejectOverlap, SetStop, DeviceChange, Tick, vars, control
<1>8. ~Call
  BY DEF Call, Run, RunFor, RestoreNormal, Configure
<1> QED BY <1>3, <1>4, <1>5, <1>6, <1>7, <1>8 DEF Next, Step

(* How long a call of run or a recovery may take: six reads, the duration, *)
(* one validation and one heartbeat past it, and a recovery.               *)
LongestCall == 6 * IoTimeout + BodyTime(MaxDuration)

CallBounded == pc # "idle" /\ op # "configure" => TimeLeft <= LongestCall

LEMMA BeginsBounded ==
  ASSUME IInv, RecoveryInv, Call
  PROVE  CallBounded'
<1>1. IoTimeout \in Nat /\ BodyTime(MaxDuration) \in Nat /\ BodyTime(MaxDuration) >= 4 * IoTimeout
  BY SessionAssumption DEF BodyTime
<1>2. CASE (\E p \in Powers, s \in BOOLEAN : Run(p, s))
           \/ (\E p \in Powers, d \in 1..MaxDuration : RunFor(p, d))
  <2>1. pc = "idle" /\ pc' = "preflight" /\ timers'.io = 0 /\ got' = got
    BY <1>2 DEF Run, RunFor, Begin, NoTimers
  <2>2. Len(got') = 0
    BY <2>1 DEF IInv, SessionInv, PhaseInv
  <2>3. TimeLeft' = ((6 - 0) * IoTimeout - 0) + BodyTime(MaxDuration)
    BY <2>1, <2>2 DEF TimeLeft, Armed, Commanding
  <2> QED BY <1>1, <2>3 DEF CallBounded, LongestCall
<1>3. CASE RestoreNormal
  <2>1. PICK b \in Baseline : b = [mode |-> ModeOff, comm |-> CommOff]
    BY RegisterFacts DEF Baseline
  <2>2. got' = <<>> /\ todo' = RestoreWrites(b) /\ timers'.io = 0
    BY <1>3, <2>1 DEF RestoreNormal, StartRestoring, NoTimers
  <2>3. Len(todo') \in Nat /\ Len(todo') <= 2
    BY <2>2, RestoreWritesLen
  <2>4. \/ pc' = "restore" /\ TimeLeft' = (Len(todo') + 2) * IoTimeout
        \/ pc' = "readback" /\ TimeLeft' = 2 * IoTimeout
    <3>1. Len(got') = 0
      BY <2>2
    <3>2. pc' \in {"restore", "readback"}
      BY <1>3 DEF RestoreNormal, StartRestoring
    <3>3. pc' = "restore" => TimeLeft' = (Len(todo') + 2) * IoTimeout
      BY <1>1, <2>2, <2>3 DEF TimeLeft, Armed, Commanding
    <3>4. pc' = "readback" => TimeLeft' = 2 * IoTimeout
      BY <1>1, <2>2, <3>1 DEF TimeLeft, Armed, Commanding
    <3> QED BY <3>2, <3>3, <3>4
  <2>5. TimeLeft' <= 4 * IoTimeout
    <3>1. PICK n \in Nat : n = Len(todo')
      BY <2>3
    <3>2. n = 0 \/ n = 1 \/ n = 2
      BY <2>3, <3>1
    <3> QED BY <1>1, <2>4, <3>1, <3>2
  <2>6. TimeLeft' \in Int
    BY <1>1, <2>3, <2>4
  <2> QED BY <1>1, <2>5, <2>6 DEF CallBounded, LongestCall
<1>4. ASSUME NEW w \in Settings, Configure(w) PROVE CallBounded'
  <2>1. op' = "configure"
    BY <1>4 DEF Configure
  <2> QED BY <2>1 DEF CallBounded
<1> QED BY <1>2, <1>3, <1>4 DEF Call

LEMMA NextBounded ==
  ASSUME IInv, RecoveryInv, ClockInv, CallBounded, [Next]_vars, (TimeLeft \in Nat)'
  PROVE  CallBounded'
<1>1. CASE Call
  BY <1>1, BeginsBounded
<1>2. CASE pc # "idle"
  <2>1. op' = op
    BY <1>2, SameCall
  <2>2. TimeLeft \in Nat /\ LongestCall \in Nat
    BY CallRange, SessionAssumption DEF LongestCall, BodyTime
  <2>3. CASE Advances
    BY <1>2, <2>1, <2>2, <2>3 DEF CallBounded, Advances, LongestCall
  <2>4. CASE UNCHANGED <<pc, got, todo, timers>>
    BY <1>2, <2>1, <2>4 DEF CallBounded, TimeLeft, Armed, LongestCall
  <2> QED BY <1>2, <2>3, <2>4, NextNearer DEF CallBounded
<1>3. CASE pc = "idle" /\ ~Call
  <2>1. pc' = "idle"
    <3>1. pc \notin Suspended
      BY <1>3 DEF Suspended, Transaction
    <3>2. ~Step /\ ~CancelTask /\ ~Tick /\ ~SetStop
      BY <1>3, <3>1 DEF Step, PreflightRead, CaptureRead, ReadFails, ValidateOk, ValidateFails,
         HeartbeatSent, Acknowledged, HeartbeatFails, WaitStopped, WaitTimeout, RestoreWritten,
         RestoreWriteFails, Restore, Readback, ReadbackFails, ConfigureWritten, ConfigureFails,
         RunForTimeout, CancelTask, Tick, SetStop
    <3> QED BY <1>3, <3>2 DEF Next, RejectOverlap, DeviceChange, vars, control
  <2> QED BY <2>1 DEF CallBounded
<1> QED BY <1>1, <1>2, <1>3

(* A call of run or run_for, and a recovery asked for by an operator, take *)
(* no longer than LongestCall, whatever fails and whoever cancels.         *)
THEOREM CallsBounded == Spec => [](TimeLeft \in Nat /\ CallBounded)
<1>1. Init => RecoveryInv /\ ClockInv /\ CallBounded
  BY DEF Init, RecoveryInv, ClockInv, Transaction, NoTimers, Recovering, CallBounded
<1>2. IInv /\ RecoveryInv /\ ClockInv => TimeLeft \in Nat
  BY CallRange
<1>3. Spec => [](IInv /\ RecoveryInv /\ ClockInv)
  BY <1>1, NextRecoveryInv, NextNearer, Invariance, PTL DEF Spec, IInv
<1> QED BY <1>1, <1>2, <1>3, NextBounded, PTL DEF Spec
=============================================================================
