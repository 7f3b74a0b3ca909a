---------------------------- MODULE ActiveControl ----------------------------
(***************************************************************************)
(* The Home Assistant coordinator as the owner of command sessions         *)
(* (coordinator.py): the sessions it starts, the callers that stop them    *)
(* (the operator's service, the scheduled policy of the poll, the unload), *)
(* the snapshot self.data all of them decide on, and the passive Speedwire *)
(* monitor that revokes the permission.                                    *)
(*                                                                         *)
(* Everything runs on one event loop, so an action reaches from one await  *)
(* to the next.  A session is the command session of CommandSession, seen  *)
(* from here: where its coroutine is suspended and whether its run_for     *)
(* timer has fired.  The commissioning options are all set: without one of *)
(* them no session ever starts.                                            *)
(***************************************************************************)
EXTENDS Integers

CONSTANTS
  Sessions,     \* names of command sessions (reused once they are over)
  Powers,       \* targets an operator or a policy may ask for
  Permitted,    \* sets of targets an energy state may permit
  MaxDuration,  \* ticks a session may last
  MaxAge,       \* ticks telemetry counts as fresh (max_energy_age_seconds)
  Scheduled,    \* scheduled control is enabled (active_control_scheduled)
  ManualStarts, \* the start service is used
  Operators,    \* concurrent callers of the stop service
  Unloads,      \* the entry may be unloaded
  None          \* no session, no target

ASSUME ControlAssumption ==
  /\ None \notin Sessions \cup Powers
  /\ Permitted \subseteq SUBSET Powers
  /\ MaxDuration \in Nat \ {0}
  /\ MaxAge \in Nat
  /\ Scheduled \in BOOLEAN /\ ManualStarts \in BOOLEAN /\ Unloads \in BOOLEAN
  /\ {"poll", "unload"} \cap Operators = {}

VARIABLES
  session,   \* the command sessions and the transports they own
  told,      \* sessions whose stop event was set
  task,      \* _active_control_task (it may be over already)
  stopEvent, \* the session whose event _active_control_stop is
  status,    \* _active_control_power_w, what the entities report
  data,      \* self.data: age and content of the telemetry, the permission
  monitor,   \* the ExternalControllerMonitor
  poll,      \* the refresh in progress
  waits,     \* the task each caller of stop_active_control waits for
  ahead,     \* who asked for that task before: the loop wakes them first
  unload     \* progress of async_unload_entry

vars == <<session, told, task, stopEvent, status, data, monitor, poll, waits,
          ahead, unload>>

Callers == Operators \cup {"poll", "unload"}
Energy == [age : 0..(MaxAge + 1), clear : BOOLEAN, safe : Permitted \cup {{}}]
Monitor == [listening : BOOLEAN, heard : {"never", "fresh", "old"},
            external : BOOLEAN]
NoTimer == -1

Over == [at |-> "over", power |-> None, left |-> NoTimer]
NoRefresh == [at |-> "idle", result |-> [age |-> 0, clear |-> FALSE,
              safe |-> {}], target |-> None, duration |-> 1]

Live(s) == session[s].at # "over"
Running == task # None /\ Live(task)

(* ownership_eligible: a listener that hears fresh traffic, none of it     *)
(* from an unclassified sender.                                            *)
Eligible(m) == m.listening /\ m.heard = "fresh" /\ ~m.external

(* Mutation: a permission once given is kept.                              *)
ObservedSticky(d, m) == [d EXCEPT !.clear = @ \/ Eligible(m)]

(* _with_observation.                                                      *)
Observed(d, m) == [d EXCEPT !.clear = Eligible(m)]

(* Mutation: the ownership gate is forgotten.                              *)
ValidUnowned(d, p) == d.age <= MaxAge /\ p \in d.safe

(* _validate_active_command: the block reason, then validate_intent.       *)
Valid(d, p) == d.clear /\ d.age <= MaxAge /\ p \in d.safe

Free(w) == {s \in Sessions : ~Live(s) /\ \A c \in Callers : w[c] # s}

-----------------------------------------------------------------------------
(* The entry has been set up: the first refresh succeeded, the monitor has *)
(* been started.                                                           *)
Init ==
  /\ session = [s \in Sessions |-> Over]
  /\ told = {}
  /\ task = None /\ stopEvent = None /\ status = None
  /\ data \in [age : {0}, clear : {FALSE}, safe : Permitted]
  /\ monitor = [listening |-> FALSE, heard |-> "never", external |-> FALSE]
  /\ poll = NoRefresh
  /\ waits = [c \in Callers |-> None]
  /\ ahead = [c \in Callers |-> {}]
  /\ unload = "no"

(* Mutation: the duration is not cut to the configured maximum.            *)
LaunchLonger(p, d, w) ==
  \E s \in Free(w) :
    /\ session' = [session EXCEPT ![s] = [at |-> "connecting", power |-> p,
                                          left |-> d + 1]]
    /\ told' = told \ {s}
    /\ task' = s
    /\ stopEvent' = s
    /\ status' = p

(* The end of start_active_control: a stop event and a task of its own.    *)
Launch(p, d, w) ==
  \E s \in Free(w) :
    /\ session' = [session EXCEPT ![s] = [at |-> "connecting", power |-> p,
                                          left |-> d]]
    /\ told' = told \ {s}
    /\ task' = s
    /\ stopEvent' = s
    /\ status' = p

(* start_active_control has no await that suspends: it checks and launches *)
(* in one go, or raises and changes nothing.                               *)
ManualStart(p, d) ==
  /\ ManualStarts
  /\ unload # "done"
  /\ Valid(data, p)
  /\ ~Running
  /\ Launch(p, d, waits)
  /\ data' = Observed(data, monitor)
  /\ UNCHANGED <<monitor, poll, waits, ahead, unload>>

(* stop_active_control, up to its await: the event is set, the caller      *)
(* waits for the task it has seen.  Whether a task that is over already    *)
(* suspends it (asyncio.gather) depends on the version of Python.          *)
Ask(c) ==
  /\ task # None
  /\ told' = IF stopEvent = None THEN told ELSE told \cup {stopEvent}
  /\ waits' = [waits EXCEPT ![c] = task]
  /\ ahead' = [ahead EXCEPT ![c] = {b \in Callers : waits[b] = task}]

(* ... and from there on: whatever the coordinator holds by now is         *)
(* dropped.                                                                *)
Answered(c) ==
  /\ waits[c] # None
  /\ ~Live(waits[c])
  /\ ahead[c] = {}
  /\ waits' = [waits EXCEPT ![c] = None]
  /\ ahead' = [b \in Callers |-> ahead[b] \ {c}]

Forget ==
  /\ task' = None
  /\ stopEvent' = None
  /\ status' = None

(* self.data after a stop that found no session to wait for.               *)
Held == IF task = None THEN data ELSE Observed(data, monitor)

ManualStop(o) ==
  /\ unload # "done"
  /\ waits[o] = None
  /\ task # None
  /\ \/ /\ Ask(o)
        /\ UNCHANGED <<task, stopEvent, status, data>>
     \/ /\ ~Running
        /\ Forget
        /\ data' = Held
        /\ UNCHANGED <<told, waits, ahead>>
  /\ UNCHANGED <<session, monitor, poll, unload>>

ManualStopped(o) ==
  /\ Answered(o)
  /\ Forget
  /\ data' = Observed(data, monitor)
  /\ UNCHANGED <<session, told, monitor, poll, unload>>

-----------------------------------------------------------------------------
(* A session.  Validation and the write it approves are issued without an  *)
(* await in between.                                                       *)

Moves(s, at) ==
  /\ session' = [session EXCEPT ![s].at = at]
  /\ UNCHANGED <<told, task, stopEvent, status, data, monitor, poll, waits,
                 ahead, unload>>

Connect(s) ==
  /\ session[s].at = "connecting"
  /\ Moves(s, "preparing") \/ Moves(s, "closing")

PrepareFails(s) ==
  /\ session[s].at = "preparing"
  /\ Moves(s, "closing")

Heartbeat(s) ==
  /\ session[s].at \in {"preparing", "waiting"}
  /\ Moves(s, IF Valid(data, session[s].power) THEN "sending" ELSE "restoring")

Sent(s) ==
  /\ session[s].at = "sending"
  /\ Moves(s, "waiting") \/ Moves(s, "restoring")

RestoreEnds(s) ==
  /\ session[s].at = "restoring"
  /\ Moves(s, "closing")

(* The timer of run_for, which counts from the end of the connect, cancels *)
(* whatever the session is awaiting.                                       *)
Timed == {"preparing", "waiting", "sending", "restoring"}

Expire(s) ==
  /\ session[s].at \in Timed
  /\ session[s].left = 0
  /\ session' = [session EXCEPT ![s].left = NoTimer,
                   ![s].at = IF @ \in {"preparing", "restoring"}
                             THEN "closing" ELSE "restoring"]
  /\ UNCHANGED <<told, task, stopEvent, status, data, monitor, poll, waits,
                 ahead, unload>>

(* Mutation: the report outlives the session.                              *)
CloseReporting(s) ==
  /\ session[s].at = "closing"
  /\ session' = [session EXCEPT ![s] = Over]
  /\ data' = Observed(data, monitor)
  /\ UNCHANGED <<told, task, stopEvent, status, monitor, poll, waits, ahead,
                 unload>>

(* Mutation: the session itself waits for the stops that wait for it.      *)
CloseAwaited(s) ==
  /\ session[s].at = "closing"
  /\ \A c \in Callers : waits[c] # s
  /\ session' = [session EXCEPT ![s] = Over]
  /\ status' = None
  /\ data' = Observed(data, monitor)
  /\ UNCHANGED <<told, task, stopEvent, monitor, poll, waits, ahead, unload>>

(* The finally block of _run_active_control.                               *)
Close(s) ==
  /\ session[s].at = "closing"
  /\ session' = [session EXCEPT ![s] = Over]
  /\ status' = None
  /\ data' = Observed(data, monitor)
  /\ UNCHANGED <<told, task, stopEvent, monitor, poll, waits, ahead, unload>>

-----------------------------------------------------------------------------
(* The refresh (_async_update_data).                                       *)

PollStart ==
  /\ poll.at = "idle"
  /\ unload = "no"
  /\ poll' = [poll EXCEPT !.at = "reading"]
  /\ UNCHANGED <<session, told, task, stopEvent, status, data, monitor, waits,
                 ahead, unload>>

(* The battery has been read and stamped; the other sources follow.        *)
PollRead ==
  /\ poll.at = "reading"
  /\ \E e \in Permitted : poll' = [poll EXCEPT !.at = "collecting",
                                     !.result.safe = e, !.result.age = 0]
  /\ UNCHANGED <<session, told, task, stopEvent, status, data, monitor, waits,
                 ahead, unload>>

(* An update that fails leaves self.data as it was.                        *)
PollFails ==
  /\ poll.at \in {"reading", "collecting"}
  /\ poll' = NoRefresh
  /\ UNCHANGED <<session, told, task, stopEvent, status, data, monitor, waits,
                 ahead, unload>>

Install(result) ==
  /\ data' = result
  /\ poll' = NoRefresh

(* What reconcile does once nothing is running: it starts the target, if   *)
(* there is one and if the data held so far permits it; then the refresh   *)
(* returns its own result.                                                 *)
Conclude(held, result, target, d, w) ==
  /\ IF target # None /\ Valid(held, target)
     THEN Launch(target, d, w)
     ELSE Forget /\ UNCHANGED <<session, told>>
  /\ Install(result)

(* Mutation: a new target is started without waiting for the session that  *)
(* runs.                                                                   *)
PollDecideHasty(policy, d) ==
  LET result == Observed(poll.result, monitor)
      target == IF result.clear THEN policy ELSE None
  IN
  /\ poll.at = "collecting"
  /\ IF ~Scheduled \/ (target # None /\ Running /\ status = target)
     THEN /\ Install(result)
          /\ UNCHANGED <<session, told, task, stopEvent, status>>
     ELSE Conclude(data, result, target, d, waits)
  /\ UNCHANGED <<monitor, waits, ahead, unload>>

(* The result is put together, with the permission of this moment, and the *)
(* policy has decided on a target or on none.                              *)
PollDecide(policy, d) ==
  LET result == Observed(poll.result, monitor)
      target == IF result.clear THEN policy ELSE None
  IN
  /\ poll.at = "collecting"
  /\ IF ~Scheduled \/ (target # None /\ Running /\ status = target)
     THEN /\ Install(result)
          /\ UNCHANGED <<session, told, task, stopEvent, status, waits, ahead>>
     ELSE \/ /\ ~Running
             /\ Conclude(Held, result, target, d, waits)
             /\ UNCHANGED <<waits, ahead>>
          \/ /\ Ask("poll")
             /\ poll' = [at |-> "stopping", result |-> result,
                         target |-> target, duration |-> d]
             /\ UNCHANGED <<session, task, stopEvent, status, data>>
  /\ UNCHANGED <<monitor, unload>>

PollStopped ==
  /\ Answered("poll")
  /\ Conclude(Observed(data, monitor), poll.result, poll.target,
              poll.duration, waits')
  /\ UNCHANGED <<monitor, unload>>

-----------------------------------------------------------------------------
(* The Speedwire observer.  Every change but the mere passing of time is   *)
(* published in the same step.                                             *)

Observing == unload \in {"no", "stopping"}

Publish(m) ==
  /\ monitor' = m
  /\ data' = Observed(data, m)
  /\ UNCHANGED <<session, told, task, stopEvent, status, poll, waits, ahead>>

(* A socket opens after the addresses of the inverter were resolved: what  *)
(* was heard before may now count as the inverter's own, or no longer.     *)
ListenerOpens ==
  /\ Observing
  /\ ~monitor.listening
  /\ \E e \in IF monitor.heard = "never" THEN {FALSE} ELSE BOOLEAN :
       Publish([monitor EXCEPT !.listening = TRUE, !.external = e])
  /\ UNCHANGED unload

Frame(external) ==
  /\ Observing
  /\ monitor.listening
  /\ Publish([monitor EXCEPT !.heard = "fresh",
                             !.external = @ \/ external])
  /\ UNCHANGED unload

ReceiveTimeout ==
  /\ Observing
  /\ monitor.listening
  /\ Publish(monitor)
  /\ UNCHANGED unload

ListenerFails ==
  /\ Observing
  /\ monitor.listening
  /\ Publish([monitor EXCEPT !.listening = FALSE])
  /\ UNCHANGED unload

TrafficAges ==
  /\ monitor.heard = "fresh"
  /\ monitor' = [monitor EXCEPT !.heard = "old"]
  /\ UNCHANGED <<session, told, task, stopEvent, status, data, poll, waits,
                 ahead, unload>>

-----------------------------------------------------------------------------
(* stop_speedwire_monitor: the session first, then the observer.  Home     *)
(* Assistant has removed the entities by then, so no refresh is scheduled  *)
(* any more; one that is under way goes on.                                *)

UnloadStart ==
  /\ Unloads
  /\ unload = "no"
  /\ \/ /\ ~Running
        /\ unload' = "cancelling"
        /\ Forget
        /\ data' = Held
        /\ UNCHANGED <<told, waits, ahead>>
     \/ /\ Ask("unload")
        /\ unload' = "stopping"
        /\ UNCHANGED <<task, stopEvent, status, data>>
  /\ UNCHANGED <<session, monitor, poll>>

UnloadStopped ==
  /\ Answered("unload")
  /\ unload' = "cancelling"
  /\ Forget
  /\ data' = Observed(data, monitor)
  /\ UNCHANGED <<session, told, monitor, poll>>

(* Mutation: the end of the observer is not published.                     *)
ObserverCancelledSilently ==
  /\ unload = "cancelling"
  /\ unload' = "done"
  /\ monitor' = [monitor EXCEPT !.listening = FALSE]
  /\ UNCHANGED <<session, told, task, stopEvent, status, data, poll, waits,
                 ahead>>

ObserverCancelled ==
  /\ unload = "cancelling"
  /\ unload' = "done"
  /\ Publish([monitor EXCEPT !.listening = FALSE])

-----------------------------------------------------------------------------
(* Time passes while no timer is due; telemetry older than MaxAge is just  *)
(* old.                                                                    *)
Older(e) == [e EXCEPT !.age = IF @ > MaxAge THEN @ ELSE @ + 1]

Tick ==
  /\ \A s \in Sessions : session[s].at \in Timed => session[s].left # 0
  /\ session' = [s \in Sessions |->
       IF session[s].at \in Timed /\ session[s].left > 0
       THEN [session[s] EXCEPT !.left = @ - 1] ELSE session[s]]
  /\ data' = Older(data)
  /\ poll' = IF poll.at \in {"collecting", "stopping"}
             THEN [poll EXCEPT !.result = Older(@)] ELSE poll
  /\ UNCHANGED <<told, task, stopEvent, status, monitor, waits, ahead, unload>>

SessionStep(s) ==
  \/ Connect(s) \/ PrepareFails(s) \/ Heartbeat(s) \/ Sent(s)
  \/ RestoreEnds(s) \/ Expire(s) \/ Close(s)

Resume(c) ==
  \/ c \in Operators /\ ManualStopped(c)
  \/ c = "poll" /\ PollStopped
  \/ c = "unload" /\ UnloadStopped

PollStep ==
  \/ PollStart \/ PollRead \/ PollFails
  \/ \E t \in Powers \cup {None}, d \in 1..MaxDuration : PollDecide(t, d)

MonitorStep ==
  \/ ListenerOpens \/ (\E e \in BOOLEAN : Frame(e)) \/ ReceiveTimeout
  \/ ListenerFails \/ TrafficAges

Next ==
  \/ \E p \in Powers, d \in 1..MaxDuration : ManualStart(p, d)
  \/ \E o \in Operators : ManualStop(o)
  \/ \E s \in Sessions : SessionStep(s)
  \/ \E c \in Callers : Resume(c)
  \/ PollStep \/ MonitorStep
  \/ UnloadStart \/ ObserverCancelled
  \/ Tick

Spec == Init /\ [][Next]_vars

(* The loop keeps running the tasks it has; nobody must call a service.    *)
Fairness ==
  /\ \A s \in Sessions : WF_vars(SessionStep(s)) /\ WF_vars(Expire(s))
  /\ \A c \in Callers : WF_vars(Resume(c))
  /\ WF_vars(Tick)

FairSpec == Spec /\ Fairness

-----------------------------------------------------------------------------
TypeOK ==
  /\ session \in [Sessions ->
       [at : {"over", "connecting", "closing"} \cup Timed,
        power : Powers \cup {None}, left : {NoTimer} \cup 0..MaxDuration]]
  /\ told \subseteq Sessions
  /\ task \in Sessions \cup {None}
  /\ stopEvent \in Sessions \cup {None}
  /\ status \in Powers \cup {None}
  /\ data \in Energy
  /\ monitor \in Monitor
  /\ poll \in [at : {"idle", "reading", "collecting", "stopping"},
              result : Energy, target : Powers \cup {None},
              duration : 1..MaxDuration]
  /\ waits \in [Callers -> Sessions \cup {None}]
  /\ ahead \in [Callers -> SUBSET Callers]
  /\ unload \in {"no", "stopping", "cancelling", "done"}

Commands(s) == session[s].at # "sending" /\ session'[s].at = "sending"
Starts(s) == ~Live(s) /\ session'[s].at = "connecting"

(* With the policy as the only one that starts and stops sessions, every   *)
(* session that is not over is, until the entry is unloaded, the one the   *)
(* coordinator knows, which it would refuse to overlap and would stop:     *)
(* none is ever left behind.                                               *)
Tracked == unload = "no" => \A s \in Sessions : Live(s) => task = s

(* Until then the entities report the power of the session that runs, and  *)
(* nothing once none does: a session that ends late never erases the       *)
(* report of the one that followed it.                                     *)
StatusTruthful ==
  unload = "no" => status = IF Running THEN session[task].power ELSE None

(* Two sessions never command the same inverter.                           *)
Exclusive == \A s, t \in Sessions : Live(s) /\ Live(t) => s = t

(* One authoritative snapshot serves polls and passive updates: it never   *)
(* claims that ownership is clear once an unclassified sender was heard,   *)
(* although a poll computes what it installs from the monitor itself. It   *)
(* holds while the rules start nothing; with them, a refresh that waited   *)
(* for a session to stop installs what it had computed before.             *)
SnapshotHonest == data.clear => ~monitor.external

(* All in all, while the rules start nothing, the permission in self.data  *)
(* keeps what SpeedwireMonitor keeps of the one it publishes, although the *)
(* services, the sessions and the refreshes write it as well: what counts  *)
(* as a stranger is looked at by who listens only.                         *)
Watch == INSTANCE SpeedwireWatch WITH
  Confirmed <- TRUE,
  listening <- monitor.listening,
  heard <- monitor.heard,
  external <- monitor.listening /\ monitor.external,
  clear <- data.clear

KeepsWatch == Watch!Spec

(* From the moment an unclassified Speedwire sender was heard, or the      *)
(* listener failed, no heartbeat is issued, although each heartbeat only   *)
(* looks at a snapshot that polls and the monitor take turns to replace.   *)
(* It holds without the rules, and with the rules alone, where a stale     *)
(* permission is installed while no session is left to use it; not with    *)
(* both, where a service may have started one while the refresh waited.    *)
OwnershipImmediate ==
  [][ monitor.external \/ ~monitor.listening =>
        \A s \in Sessions : ~Commands(s) ]_vars

(* A session that a refresh in flight has started behind the back of the   *)
(* unload may live, but it never sends a heartbeat once the entry is gone. *)
UnloadQuiets ==
  [][ unload = "done" => \A s \in Sessions : ~Commands(s) ]_vars

(* Whoever asks for a stop gets its answer, even when several wait for the *)
(* same session or the session was started meanwhile by somebody else.     *)
StopReturns == \A c \in Callers : waits[c] # None ~> waits[c] = None

-----------------------------------------------------------------------------
(* Promises of the documentation the code does not keep.                   *)

(* Stopping ends the heartbeat: a session whose stop event was set issues  *)
(* no further one.                                                         *)
StopEndsHeartbeat ==
  [][ \A s \in told : ~Commands(s) ]_vars

(* A manual stop supersedes the rules: while an operator's stop waits for  *)
(* its answer, no policy starts another session.                           *)
StopSupersedesRules ==
  [][ (\E o \in Operators : waits[o] # None) /\ poll' # poll
        => \A s \in Sessions : ~Starts(s) ]_vars
=============================================================================
