---------------------------- MODULE CommandSession ----------------------------
(***************************************************************************)
(* One ControlCommandSession, its SunnyIslandControlAdapter and the        *)
(* holding registers of the inverter it writes                             *)
(* (backends/sma_sunny_island/control_adapter.py).                         *)
(*                                                                         *)
(* The program counter pc names the await the coroutine is suspended in:   *)
(* asyncio runs everything between two awaits without interleaving, so one *)
(* action goes from one await to the next.  Every Modbus transaction may   *)
(* fail, a failed write may or may not have reached the inverter, and a    *)
(* cancellation (of the task, or by the timer of run_for) may arrive at    *)
(* every await, those of the recovery in the finally block included.       *)
(* Time is counted in ticks by timers that run down to 0.                  *)
(***************************************************************************)
EXTENDS Integers, Sequences

CONSTANTS
  Interval,        \* ticks between two heartbeats (interval_seconds)
  MaxDuration,     \* ticks a session may last (max_duration_seconds)
  IoTimeout,       \* ticks after which a Modbus transaction has ended
  ValidateTime,    \* ticks the validation callback may be suspended
  MaxPower,        \* the adapter's max_power_w
  Powers,          \* powers a caller may ask for
  MaxEvents,       \* capacity of the event deque (max_events)
  InitialGuards,   \* write guards an adapter may be built with
  InitialRegisters,\* what the inverter may hold at first
  Settings         \* register writes the configuration calls may issue

Setpoint == 40149          \* the addresses of the registers
CommControl == 40151
ExternalMode == 40210
FallbackMode == 41193
FallbackTimeout == 41195
FallbackPower == 44037
PowerMaximum == 44039
PowerMinimum == 44041

Registers == {Setpoint, CommControl, ExternalMode, FallbackMode,
              FallbackTimeout, FallbackPower, PowerMaximum, PowerMinimum}

External == 1079           \* the values the code compares registers with
ModeOff == 303
ApplyFallback == 2507
CommOn == 802
CommOff == 803
Unreadable == 0            \* stands for every other value of CommControl

Guard == [enabled : BOOLEAN, ownership : BOOLEAN, homeManager : BOOLEAN,
          failsafe : BOOLEAN]
Event == {"session_rejected", "session_started", "session_expired",
          "session_stopped", "session_failed", "baseline_restored",
          "restoration_failed"}
Baseline == [mode : Int, comm : Int]
NoBaseline == [mode |-> 0, comm |-> 0]
NoTimer == -1
RegisterWrite == (Registers \ {Setpoint}) \X Int

ASSUME SessionAssumption ==
  /\ Interval \in Nat \ {0}
  /\ MaxDuration \in Nat \ {0}
  /\ IoTimeout \in Nat
  /\ ValidateTime \in Nat
  /\ MaxPower \in Nat
  /\ Powers \subseteq Int
  /\ MaxEvents \in Nat \ {0}
  /\ InitialGuards \subseteq Guard
  /\ InitialRegisters \subseteq [Registers -> Int]
  /\ Settings \subseteq Seq(RegisterWrite) \ {<<>>}

VARIABLES
  pc,        \* the await the caller of the session is suspended in
  op,        \* the public method that runs: "run", "recover" or "configure"
  active,    \* _active, the flag that rejects an overlapping session
  guard,     \* the adapter's _guard
  power,     \* the setpoint the running session sends
  stop,      \* the asyncio.Event the session polls
  baseline,  \* the captured ControlBaseline
  got,       \* register values read so far in this phase
  todo,      \* writes still to be issued in this phase
  broken,    \* a write of this restoration failed (write_errors)
  primary,   \* primary_error: "none", "error" or "cancelled"
  timers,    \* the running timers and the age of the current transaction
  signal,    \* which cancellations the running call has received
  outcome,   \* how the last call ended, as its caller saw it
  events,    \* the bounded event log
  reg        \* the holding registers of the inverter

control == <<pc, op, active, guard, power, stop, baseline, got, todo, broken,
             primary, signal, outcome>>
(* What the body of run leaves alone until it is left.                     *)
session == <<op, active, power, stop, todo, broken, primary, outcome>>
vars == <<control, timers, events, reg>>

-----------------------------------------------------------------------------
(* Timers: left is run_for's timeout, budget the session's own deadline,   *)
(* wake the timeout of the wait between heartbeats, io the age of the      *)
(* transaction or callback in progress, silent the ticks since the last    *)
(* heartbeat was issued (a history variable).                              *)

Timers == [left : Nat \cup {NoTimer}, budget : Int, wake : Nat, io : Nat,
           silent : Nat]
NoTimers == [left |-> NoTimer, budget |-> 0, wake |-> 0, io |-> 0,
             silent |-> 0]

Transaction == {"preflight", "capture", "heartbeat", "restore", "readback",
                "configure"}
Suspended == Transaction \cup {"validate", "wait"}
Recovering == {"restore", "readback"}
Commanding == {"validate", "heartbeat", "wait"}

(* What verify_failsafe reads, in order, and what it accepts.              *)
PreflightReads ==
  <<ExternalMode, FallbackMode, FallbackTimeout, FallbackPower>>

FailsafeValid(v) ==
  /\ v[1] = External
  /\ v[2] = ApplyFallback
  /\ v[3] \in 1..1800
  /\ v[4] \in 0..10000

GateOpen(g) == g.enabled /\ g.ownership /\ ~g.homeManager
Allowed(g) == GateOpen(g) /\ g.failsafe

(* deque(maxlen = MaxEvents): the oldest event is dropped.                 *)
Recorded(log, e) ==
  IF Len(log) < MaxEvents THEN Append(log, e) ELSE Append(Tail(log), e)

(* The writes of restore_baseline: the communication register only when it *)
(* could be read, the mode only when it is not the external one.           *)
RestoreWrites(b) ==
  (IF b.comm = Unreadable THEN <<>> ELSE <<<<CommControl, b.comm>>>>)
  \o (IF b.mode = External THEN <<>> ELSE <<<<ExternalMode, b.mode>>>>)

Restored(b, comm, mode) ==
  /\ mode = b.mode
  /\ b.comm # Unreadable => comm = b.comm

-----------------------------------------------------------------------------
Init ==
  /\ pc = "idle"
  /\ op = "run"
  /\ active = FALSE
  /\ guard \in InitialGuards
  /\ power = 0
  /\ stop = FALSE
  /\ baseline = NoBaseline
  /\ got = <<>>
  /\ todo = <<>>
  /\ broken = FALSE
  /\ primary = "none"
  /\ timers = NoTimers
  /\ signal = {}
  /\ outcome = "none"
  /\ events = <<>>
  /\ reg \in InitialRegisters

(* What the caller of run or run_for sees: the timer's own cancellation    *)
(* becomes a TimeoutError, which run_for turns into a plain return.        *)
Seen(how) ==
  CASE how = "none" -> "returned"
    [] how = "error" -> "error"
    [] how = "cancelled" ->
         IF signal' = {"timer"} THEN "returned" ELSE "cancelled"

(* The call returns or raises; its local variables are gone.               *)
Return(how) ==
  /\ pc' = "idle"
  /\ outcome' = Seen(how)
  /\ power' = 0
  /\ stop' = FALSE
  /\ baseline' = NoBaseline
  /\ got' = <<>>
  /\ todo' = <<>>
  /\ broken' = FALSE
  /\ primary' = "none"
  /\ timers' = NoTimers

(* The finally block: nothing to undo before the baseline was captured,    *)
(* otherwise restore_baseline starts with its first write, or with the     *)
(* readback when it has none.                                              *)
StartRestoring(b) ==
  /\ todo' = RestoreWrites(b)
  /\ pc' = IF RestoreWrites(b) = <<>> THEN "readback" ELSE "restore"
  /\ got' = <<>>
  /\ broken' = FALSE
  /\ timers' = [NoTimers EXCEPT
                  !.left = IF "timer" \in signal' THEN NoTimer ELSE timers.left]

(* Mutation: the recovery is forgotten.                                    *)
LeaveBodySkippingRestore(how, log, b) ==
  /\ events' = log
  /\ Return(how)
  /\ active' = FALSE
  /\ UNCHANGED op

LeaveBody(how, log, b) ==
  /\ events' = log
  /\ IF b = NoBaseline
     THEN /\ Return(how)
          /\ active' = FALSE
     ELSE /\ StartRestoring(b)
          /\ baseline' = b
          /\ primary' = how
          /\ UNCHANGED <<active, power, stop, outcome>>
  /\ UNCHANGED op

(* restore_baseline has returned (restored) or raised.                     *)
FinishRestoring(restored) ==
  /\ IF op = "run"
     THEN /\ events' = Recorded(events, IF restored THEN "baseline_restored"
                                                 ELSE "restoration_failed")
          /\ active' = FALSE
     ELSE UNCHANGED <<events, active>>
  /\ Return(IF ~restored /\ primary = "none" THEN "error" ELSE primary)
  /\ UNCHANGED op

(* A transaction has been issued and the coroutine awaits it.              *)
Issue(at) ==
  /\ pc' = at
  /\ timers' = [timers EXCEPT !.io = 0]

-----------------------------------------------------------------------------
(* The calls.  run: the caller owns the stop event, which may already be   *)
(* set; run_for: a private event nobody sets and a timer.                  *)

Begin(p, s, d) ==
  /\ pc' = "preflight"
  /\ op' = "run"
  /\ active' = TRUE
  /\ power' = p
  /\ stop' = s
  /\ timers' = [NoTimers EXCEPT !.left = d]
  /\ signal' = {}
  /\ outcome' = "none"
  /\ UNCHANGED <<guard, baseline, got, todo, broken, primary, events, reg>>

Run(p, s) ==
  /\ pc = "idle"
  /\ ~active
  /\ Begin(p, s, NoTimer)

RunFor(p, d) ==
  /\ pc = "idle"
  /\ ~active
  /\ Begin(p, FALSE, d)

(* A second call of run while the flag is up: logged and refused.  It may  *)
(* come while a session runs, or after one whose recovery was cancelled.   *)
RejectOverlap ==
  /\ active
  /\ events' = Recorded(events, "session_rejected")
  /\ UNCHANGED <<control, timers, reg>>

SetStop ==
  /\ pc \in Suspended
  /\ op = "run"
  /\ timers.left = NoTimer /\ "timer" \notin signal
  /\ ~stop
  /\ stop' = TRUE
  /\ UNCHANGED <<pc, op, active, guard, power, baseline, got, todo, broken,
                 primary, signal, outcome, timers, events, reg>>

(* restore_normal_operation: the same recovery with a fixed baseline, and  *)
(* without a guard.                                                        *)
RestoreNormal ==
  /\ pc = "idle"
  /\ op' = "recover"
  /\ baseline' = [mode |-> ModeOff, comm |-> CommOff]
  /\ signal' = {}
  /\ StartRestoring(baseline')
  /\ outcome' = "none"
  /\ UNCHANGED <<active, guard, power, stop, primary, events, reg>>

(* enable_external_setpoint_mode, set_communication_control,               *)
(* set_power_bounds and configure_failsafe: guarded writes that need no    *)
(* preflight, issued one after the other until one fails.                  *)
Configure(writes) ==
  /\ pc = "idle"
  /\ op' = "configure"
  /\ signal' = {}
  /\ IF GateOpen(guard)
     THEN /\ todo' = writes
          /\ Issue("configure")
          /\ outcome' = "none"
     ELSE /\ outcome' = "error"
          /\ UNCHANGED <<pc, todo, timers>>
  /\ UNCHANGED <<active, guard, power, stop, baseline, got, broken, primary,
                 events, reg>>
-----------------------------------------------------------------------------
(* The body of run.                                                        *)

Failed == Recorded(events, "session_failed")

(* One value was read and the next read is issued.                         *)
ReadOn(seen, at) ==
  /\ got' = seen
  /\ Issue(at)
  /\ UNCHANGED <<session, baseline, events>>

Proceed(at, t) ==
  /\ pc' = at
  /\ timers' = t
  /\ UNCHANGED <<session, baseline, got, events>>

Validate(log, b, t) ==
  /\ pc' = "validate"
  /\ timers' = [t EXCEPT !.io = 0]
  /\ events' = log
  /\ baseline' = b
  /\ got' = <<>>
  /\ UNCHANGED session

(* The top of the while loop: the stop event is looked at before anything  *)
(* else.                                                                   *)
EnterLoop(log, b, t) ==
  IF stop
  THEN LeaveBody("none", Recorded(log, "session_stopped"), b)
  ELSE Validate(log, b, t)

(* verify_failsafe: four reads, then one verdict for all of them.          *)
PreflightRead ==
  /\ pc = "preflight"
  /\ UNCHANGED <<signal, reg>>
  /\ LET seen == Append(got, reg[PreflightReads[Len(got) + 1]]) IN
     IF Len(seen) < Len(PreflightReads)
     THEN /\ ReadOn(seen, "preflight")
          /\ UNCHANGED guard
     ELSE /\ guard' = [guard EXCEPT !.failsafe = FailsafeValid(seen)]
          /\ IF FailsafeValid(seen)
             THEN ReadOn(<<>>, "capture")
             ELSE LeaveBody("error", Failed, baseline)

(* capture_baseline: the mode must be the external one; a communication    *)
(* register that reads as neither value is not restored later.             *)
CaptureRead ==
  /\ pc = "capture"
  /\ UNCHANGED <<guard, signal, reg>>
  /\ IF got = <<>>
     THEN IF reg[ExternalMode] = External
          THEN ReadOn(<<External>>, "capture")
          ELSE LeaveBody("error", Failed, baseline)
     ELSE LET comm == IF reg[CommControl] \in {CommOn, CommOff}
                      THEN reg[CommControl] ELSE Unreadable
          IN  EnterLoop(Recorded(events, "session_started"),
                        [mode |-> got[1], comm |-> comm],
                        [timers EXCEPT !.budget = MaxDuration, !.silent = 0])

(* A read of the preflight or of the baseline fails.                       *)
ReadFails ==
  /\ pc \in {"preflight", "capture"}
  /\ UNCHANGED <<guard, signal, reg>>
  /\ LeaveBody("error", Failed, baseline)

(* Mutation: the approval of the callback is all that is asked for.        *)
ValidateOkUnguarded ==
  /\ pc = "validate"
  /\ UNCHANGED <<guard, signal, reg>>
  /\ Proceed("heartbeat", [timers EXCEPT !.io = 0, !.silent = 0])

(* The callback approves: set_active_power checks the guard and the bound  *)
(* and issues the heartbeat.                                               *)
ValidateOk ==
  /\ pc = "validate"
  /\ UNCHANGED <<guard, signal, reg>>
  /\ IF Allowed(guard) /\ power \in -MaxPower..MaxPower
     THEN Proceed("heartbeat", [timers EXCEPT !.io = 0, !.silent = 0])
     ELSE LeaveBody("error", Failed, baseline)

ValidateFails ==
  /\ pc = "validate"
  /\ UNCHANGED <<guard, signal, reg>>
  /\ LeaveBody("error", Failed, baseline)

Acknowledged ==
  /\ pc = "heartbeat"
  /\ UNCHANGED <<guard, signal>>
  /\ reg' = [reg EXCEPT ![Setpoint] = power]

(* The shorter of the interval and what remains.                           *)
WaitTime == IF timers.budget < Interval THEN timers.budget ELSE Interval

(* Mutations: the deadline is not looked at before the wait, the wait      *)
(* lasts as long as a session may, the deadline moves with every heartbeat.*)
HeartbeatSentUnchecked ==
  Acknowledged /\ Proceed("wait", [timers EXCEPT !.io = 0, !.wake = WaitTime])

HeartbeatSentIdling ==
  Acknowledged /\ Proceed("wait", [timers EXCEPT !.io = 0, !.wake = MaxDuration])

HeartbeatSentRenewing ==
  Acknowledged /\ Proceed("wait", [timers EXCEPT !.io = 0, !.wake = Interval,
                                                 !.budget = MaxDuration])

(* The write was acknowledged: the session expires or waits.               *)
HeartbeatSent ==
  /\ Acknowledged
  /\ IF timers.budget <= 0
     THEN LeaveBody("none", Recorded(events, "session_expired"), baseline)
     ELSE Proceed("wait", [timers EXCEPT !.io = 0, !.wake = WaitTime])

(* The transaction in progress, if it is a write, has or has not reached   *)
(* the inverter by the time the caller gives up on it.                     *)
InFlight ==
  CASE pc = "heartbeat" -> {<<Setpoint, power>>}
    [] pc \in {"restore", "configure"} -> {Head(todo)}
    [] OTHER -> {}

MaybeLanded ==
  \/ UNCHANGED reg
  \/ \E w \in InFlight : reg' = [reg EXCEPT ![w[1]] = w[2]]

HeartbeatFails ==
  /\ pc = "heartbeat"
  /\ UNCHANGED <<guard, signal>>
  /\ MaybeLanded
  /\ LeaveBody("error", Failed, baseline)

WaitStopped ==
  /\ pc = "wait"
  /\ UNCHANGED <<guard, signal, reg>>
  /\ stop
  /\ EnterLoop(events, baseline, timers)

(* Mutation: the deadline is not looked at after a wait.                   *)
WaitTimeoutEndless ==
  /\ pc = "wait"
  /\ UNCHANGED <<guard, signal, reg>>
  /\ timers.wake = 0
  /\ EnterLoop(events, baseline, timers)

WaitTimeout ==
  /\ pc = "wait"
  /\ UNCHANGED <<guard, signal, reg>>
  /\ timers.wake = 0
  /\ IF timers.budget <= 0
     THEN LeaveBody("none", Recorded(events, "session_expired"), baseline)
     ELSE EnterLoop(events, baseline, timers)
-----------------------------------------------------------------------------
(* restore_baseline: every write is attempted, whatever the earlier ones   *)
(* did; only then a failure is raised, or both registers are read back.    *)

Restore(landed) ==
  /\ pc = "restore"
  /\ UNCHANGED <<guard, signal>>
  /\ LET rest == Tail(todo)
         failed == broken \/ ~landed
     IN  IF rest = <<>> /\ failed
         THEN FinishRestoring(FALSE)
         ELSE /\ todo' = rest
              /\ broken' = failed
              /\ Issue(IF rest = <<>> THEN "readback" ELSE "restore")
              /\ UNCHANGED <<op, active, power, stop, baseline, got, primary,
                             outcome, events>>

RestoreWritten ==
  /\ Restore(TRUE)
  /\ \E w \in InFlight : reg' = [reg EXCEPT ![w[1]] = w[2]]

RestoreWriteFails ==
  /\ Restore(FALSE)
  /\ MaybeLanded

(* Mutation: only the communication register is compared.                  *)
ReadbackComm ==
  /\ pc = "readback"
  /\ UNCHANGED <<guard, signal, reg>>
  /\ IF got = <<>>
     THEN ReadOn(<<reg[CommControl]>>, "readback")
     ELSE FinishRestoring(baseline.comm # Unreadable => got[1] = baseline.comm)

Readback ==
  /\ pc = "readback"
  /\ UNCHANGED <<guard, signal, reg>>
  /\ IF got = <<>>
     THEN ReadOn(<<reg[CommControl]>>, "readback")
     ELSE FinishRestoring(Restored(baseline, got[1], reg[ExternalMode]))

ReadbackFails ==
  /\ pc = "readback"
  /\ UNCHANGED <<guard, signal, reg>>
  /\ FinishRestoring(FALSE)

ConfigureWritten ==
  /\ pc = "configure"
  /\ UNCHANGED <<op, active, guard, signal, events>>
  /\ \E w \in InFlight : reg' = [reg EXCEPT ![w[1]] = w[2]]
  /\ IF Len(todo) = 1
     THEN Return("none")
     ELSE /\ todo' = Tail(todo)
          /\ Issue("configure")
          /\ UNCHANGED <<power, stop, baseline, got, broken, primary, outcome>>

ConfigureFails ==
  /\ pc = "configure"
  /\ UNCHANGED <<op, active, guard, signal, events>>
  /\ MaybeLanded
  /\ Return("error")

-----------------------------------------------------------------------------
(* Cancellation.  In the body it is the primary error and the recovery     *)
(* follows; in the finally block nothing catches it, because               *)
(* CancelledError is not an Exception: the recovery is abandoned where it  *)
(* stands, no event is recorded and _active stays up.                      *)

Cancelled ==
  /\ MaybeLanded
  /\ IF op = "run" /\ pc \notin Recovering
     THEN LeaveBody("cancelled", Failed, baseline)
     ELSE /\ Return("cancelled")
          /\ UNCHANGED <<op, active, events>>
  /\ UNCHANGED guard

(* The timer of run_for fires once.                                        *)
RunForTimeout ==
  /\ pc \in Suspended
  /\ timers.left = 0
  /\ signal' = signal \cup {"timer"}
  /\ Cancelled

(* The task that runs the call is cancelled.                               *)
CancelTask ==
  /\ pc \in Suspended
  /\ signal' = signal \cup {"task"}
  /\ Cancelled

(* The inverter, or whoever else configures it, changes its mode or the    *)
(* communication register.  Assumed not to happen while a recovery is      *)
(* writing and reading back those same registers.                          *)
DeviceChange ==
  /\ pc \notin Recovering
  /\ \/ \E v \in {CommOn, CommOff, Unreadable} :
          reg' = [reg EXCEPT ![CommControl] = v]
     \/ \E v \in {External, ModeOff} :
          reg' = [reg EXCEPT ![ExternalMode] = v]
  /\ UNCHANGED <<control, timers, events>>

-----------------------------------------------------------------------------
(* Time passes only while the coroutine is suspended and no timer is due:  *)
(* the event loop runs due callbacks before it sleeps again.               *)

Down(n) == IF n > 0 THEN n - 1 ELSE n

Elapsed(t) ==
  [left |-> Down(t.left),
   budget |-> IF pc \in Commanding THEN t.budget - 1 ELSE t.budget,
   wake |-> Down(t.wake),
   io |-> IF pc = "wait" THEN 0 ELSE t.io + 1,
   silent |-> IF pc \in Commanding THEN t.silent + 1 ELSE t.silent]

Tick ==
  /\ pc \in Suspended
  /\ timers.left # 0
  /\ pc \in Transaction => timers.io < IoTimeout
  /\ pc = "validate" => timers.io < ValidateTime
  /\ pc = "wait" => timers.wake > 0 /\ ~stop
  /\ timers' = Elapsed(timers)
  /\ UNCHANGED <<control, events, reg>>

Step ==
  \/ PreflightRead \/ CaptureRead \/ ReadFails
  \/ ValidateOk \/ ValidateFails
  \/ HeartbeatSent \/ HeartbeatFails
  \/ WaitStopped \/ WaitTimeout
  \/ RestoreWritten \/ RestoreWriteFails
  \/ Readback \/ ReadbackFails
  \/ ConfigureWritten \/ ConfigureFails
  \/ RunForTimeout

Call ==
  \/ \E p \in Powers, s \in BOOLEAN : Run(p, s)
  \/ \E p \in Powers, d \in 1..MaxDuration : RunFor(p, d)
  \/ RestoreNormal
  \/ \E w \in Settings : Configure(w)

Next ==
  \/ Call \/ RejectOverlap \/ SetStop
  \/ Step \/ CancelTask \/ DeviceChange \/ Tick

Spec == Init /\ [][Next]_vars

(* The event loop keeps running the suspended coroutine, transactions end  *)
(* and time passes; nobody is obliged to call, stop or cancel.             *)
Fairness == WF_vars(Step) /\ WF_vars(Tick)
FairSpec == Spec /\ Fairness

-----------------------------------------------------------------------------
TypeOK ==
  /\ pc \in {"idle"} \cup Suspended
  /\ op \in {"run", "recover", "configure"}
  /\ active \in BOOLEAN
  /\ guard \in Guard
  /\ power \in Int
  /\ stop \in BOOLEAN
  /\ baseline \in Baseline
  /\ got \in Seq(Int)
  /\ todo \in Seq(RegisterWrite)
  /\ broken \in BOOLEAN
  /\ primary \in {"none", "error", "cancelled"}
  /\ timers \in Timers
  /\ signal \in SUBSET {"timer", "task"}
  /\ outcome \in {"none", "returned", "error", "cancelled"}
  /\ events \in Seq(Event)
  /\ reg \in [Registers -> Int]

Armed == pc \in Commanding

(* What the safety invariants below rest on: which phase belongs to which  *)
(* call, what has been captured by then, and how the timers of a phase     *)
(* bound one another.                                                      *)
PhaseInv ==
  /\ pc \in {"preflight", "capture"} \cup Commanding => op = "run"
  /\ pc \in Recovering => op \in {"run", "recover"}
  /\ pc = "configure" => op = "configure"
  /\ pc \in {"idle", "preflight", "capture", "configure"} =>
       baseline = NoBaseline
  /\ Armed => baseline # NoBaseline
  /\ op = "run" /\ baseline # NoBaseline => baseline.mode = External
  /\ pc = "idle" => got = <<>>
  /\ pc = "preflight" => Len(got) < Len(PreflightReads)
  /\ pc = "capture" => got \in {<<>>, <<External>>}
  /\ pc \in {"restore", "configure"} => todo # <<>>

TimerInv ==
  /\ pc = "validate" =>
       /\ timers.io <= ValidateTime
       /\ timers.silent <= Interval + IoTimeout + timers.io
       /\ timers.budget + timers.io > 0
  /\ pc = "heartbeat" =>
       /\ timers.io <= IoTimeout
       /\ timers.silent <= timers.io
       /\ timers.budget + timers.io > -ValidateTime
  /\ pc = "wait" =>
       /\ timers.wake <= Interval
       /\ timers.silent + timers.wake <= Interval + IoTimeout
SessionInv == PhaseInv /\ TimerInv

EndsCall == pc \in Suspended /\ pc' = "idle"
LatestEvent == events[Len(events)]

(* A setpoint is on its way to the inverter only from a session that       *)
(* passed the preflight with an open guard, within the power bound, and    *)
(* that knows what to restore: no path through failures, reconfigurations  *)
(* and overlapping calls leads to an unarmed heartbeat.                    *)
HeartbeatArmed ==
  pc = "heartbeat" =>
    /\ Allowed(guard)
    /\ power \in -MaxPower..MaxPower
    /\ baseline.mode = External

(* The inverter's own fallback timer is fed: between two heartbeats no     *)
(* more time passes than one interval, one validation and one transaction. *)
CadenceBound ==
  Armed => timers.silent <= Interval + ValidateTime + IoTimeout

(* The deadline of run holds even when no timer of run_for is there: a     *)
(* heartbeat is issued past it only by as long as its validation took.     *)
DurationBound ==
  pc = "heartbeat" => timers.budget + timers.io > -ValidateTime

(* The recovery is never reported as done unless the inverter holds the    *)
(* captured values, whichever of its writes failed, landed without an      *)
(* acknowledgement or were skipped.                                        *)
RestoredTruthfully ==
  [][ /\ EndsCall
      /\ op = "run" => events' # events /\ LatestEvent' = "baseline_restored"
      /\ op = "recover" => outcome' = "returned"
      /\ op # "configure"
      => Restored(baseline, reg'[CommControl], reg'[ExternalMode]) ]_vars

(* How long a call may still take: the ticks until it has ended, and the   *)
(* steps it can take before the next tick.                                 *)
BodyTime(budget) == budget + ValidateTime + 5 * IoTimeout

TimeLeft ==
  CASE pc = "preflight" -> (6 - Len(got)) * IoTimeout - timers.io + BodyTime(MaxDuration)
    [] pc = "capture" -> (2 - Len(got)) * IoTimeout - timers.io + BodyTime(MaxDuration)
    [] Armed -> BodyTime(timers.budget)
    [] pc = "restore" -> (Len(todo) + 2) * IoTimeout - timers.io
    [] pc = "readback" -> (2 - Len(got)) * IoTimeout - timers.io
    [] pc = "configure" -> Len(todo) * IoTimeout - timers.io
    [] OTHER -> 0

StepsLeft ==
  CASE pc = "preflight" -> 14 - Len(got)
    [] pc = "capture" -> 10 - Len(got)
    [] pc = "wait" -> IF timers.wake = 0 THEN 8 ELSE 5
    [] pc = "validate" -> 7
    [] pc = "heartbeat" -> 6
    [] pc = "restore" -> Len(todo) + 2
    [] pc = "readback" -> 2 - Len(got)
    [] pc = "configure" -> Len(todo)
    [] OTHER -> 0

(* Whatever moves a call, its own steps, a failure, a cancellation or the  *)
(* clock, brings its end nearer: no failing transport, no validation that  *)
(* is late and no heartbeat renews the time it has.                        *)
Advances ==
  \/ TimeLeft' < TimeLeft
  \/ TimeLeft' = TimeLeft /\ StepsLeft' < StepsLeft

CallAdvances ==
  [][ pc # "idle" /\ pc' # "idle" =>
        TimeLeft' \in Nat /\ StepsLeft' \in Nat /\ Advances ]_<<pc, got, todo, timers>>

(* Every call ends: transactions end, the deadline comes, and neither a    *)
(* silent caller nor a failing inverter keeps a session alive.             *)
CallEnds == (pc # "idle") ~> (pc = "idle")

(* The session keeps the abstract contract.                                *)
Phase ==
  CASE Armed -> "armed"
    [] op = "run" /\ pc \in Recovering -> "recovering"
    [] OTHER -> "idle"

Contract == INSTANCE CommandContract WITH phase <- Phase,
                                          setpoint <- reg[Setpoint]
KeepsContract == Contract!Spec

-----------------------------------------------------------------------------
(* Two promises the code does not keep.                                    *)

(* The acceptance of the recoverable session asks for explicit reporting   *)
(* of a failed recovery: a session that captured a baseline would log how  *)
(* its recovery ended, whatever ended it.                                  *)
RecoveryReported ==
  [][ EndsCall /\ op = "run" /\ baseline # NoBaseline =>
        LatestEvent' \in {"baseline_restored", "restoration_failed"} ]_vars

(* run_for says that it restores normal operation afterwards: when it      *)
(* returns without an exception, the recovery would have succeeded.        *)
RunForRestores ==
  [][ EndsCall /\ op = "run" /\ baseline # NoBaseline /\ outcome' = "returned"
      => LatestEvent' = "baseline_restored" ]_vars

=============================================================================
