------------------------- MODULE ActiveControlProofs -------------------------
(***************************************************************************)
(* The coordinator's safety for any number of sessions, powers, callers    *)
(* and durations: its types and the queues of the callers that stop a      *)
(* session always, what it promises of a single owner where the scheduled  *)
(* policy is that owner, and what it promises of the permission, up to the *)
(* refinement of SpeedwireWatch, where no refresh waits for a session.     *)
(***************************************************************************)
EXTENDS ActiveControl, FiniteSetTheorems, WellFoundedInduction, TLAPS

States == {"over", "connecting", "closing"} \cup Timed
SessionState == [at : States, power : Powers \cup {None}, left : {NoTimer} \cup 0..MaxDuration]
PollState == [at : {"idle", "reading", "collecting", "stopping"}, result : Energy,
              target : Powers \cup {None}, duration : 1..MaxDuration]

(* The types of what a session's start and end change.                     *)
OwnerTyped ==
  /\ session \in [Sessions -> SessionState]
  /\ told \subseteq Sessions
  /\ task \in Sessions \cup {None}
  /\ stopEvent \in Sessions \cup {None}
  /\ status \in Powers \cup {None}

RestTyped ==
  /\ data \in Energy /\ monitor \in Monitor /\ poll \in PollState
  /\ waits \in [Callers -> Sessions \cup {None}]
  /\ ahead \in [Callers -> SUBSET Callers]
  /\ unload \in {"no", "stopping", "cancelling", "done"}

Typed == OwnerTyped /\ RestTyped

-----------------------------------------------------------------------------
(* Helpers keep the types.                                                 *)
LEMMA ObservedTyped ==
  ASSUME NEW d \in Energy, NEW m \in Monitor
  PROVE  /\ Observed(d, m) \in Energy
         /\ Observed(d, m).clear = Eligible(m)
         /\ Observed(d, m).age = d.age /\ Observed(d, m).safe = d.safe
BY DEF Observed, Energy, Eligible, Monitor

LEMMA HeldTyped ==
  ASSUME data \in Energy, monitor \in Monitor
  PROVE  Held \in Energy /\ Held \in {data, Observed(data, monitor)}
BY ObservedTyped DEF Held

LEMMA OlderTyped ==
  ASSUME NEW e \in Energy
  PROVE  Older(e) \in Energy /\ Older(e).clear = e.clear
<1>1. e.age \in 0..(MaxAge + 1) /\ MaxAge \in Nat
  BY ControlAssumption DEF Energy
<1>2. (IF e.age > MaxAge THEN e.age ELSE e.age + 1) \in 0..(MaxAge + 1)
  BY <1>1
<1> QED BY <1>2 DEF Older, Energy

LEMMA NoRefreshTyped == NoRefresh \in PollState
<1>1. 1 \in 1..MaxDuration /\ 0 \in 0..(MaxAge + 1)
  BY ControlAssumption
<1> QED BY <1>1 DEF NoRefresh, PollState, Energy

LEMMA LaunchTyped ==
  ASSUME OwnerTyped, NEW p \in Powers, NEW d \in 1..MaxDuration, NEW w, Launch(p, d, w)
  PROVE  OwnerTyped'
<1>1. PICK s \in Free(w) :
        /\ session' = [session EXCEPT ![s] = [at |-> "connecting", power |-> p, left |-> d]]
        /\ told' = told \ {s} /\ task' = s /\ stopEvent' = s /\ status' = p
  BY DEF Launch
<1>2. s \in Sessions
  BY DEF Free
<1>3. [at |-> "connecting", power |-> p, left |-> d] \in SessionState
  BY ControlAssumption DEF SessionState, States
<1> QED BY <1>1, <1>2, <1>3 DEF OwnerTyped

LEMMA ForgetTyped ==
  ASSUME OwnerTyped, Forget, UNCHANGED <<session, told>>
  PROVE  OwnerTyped'
BY DEF OwnerTyped, Forget

LEMMA AskTyped ==
  ASSUME OwnerTyped, RestTyped, NEW c \in Callers, Ask(c)
  PROVE  /\ told' \subseteq Sessions
         /\ waits' \in [Callers -> Sessions \cup {None}]
         /\ ahead' \in [Callers -> SUBSET Callers]
BY DEF OwnerTyped, RestTyped, Ask

LEMMA AnsweredTyped ==
  ASSUME RestTyped, NEW c \in Callers, Answered(c)
  PROVE  /\ waits' \in [Callers -> Sessions \cup {None}]
         /\ ahead' \in [Callers -> SUBSET Callers]
BY DEF RestTyped, Answered

LEMMA ConcludeTyped ==
  ASSUME OwnerTyped, NEW held, NEW result \in Energy, NEW target \in Powers \cup {None},
         NEW d \in 1..MaxDuration, NEW w, Conclude(held, result, target, d, w)
  PROVE  OwnerTyped' /\ data' \in Energy /\ poll' \in PollState
<1>1. data' \in Energy /\ poll' \in PollState
  BY NoRefreshTyped DEF Conclude, Install
<1>2. CASE target # None /\ Valid(held, target)
  BY <1>1, <1>2, LaunchTyped DEF Conclude
<1>3. CASE ~(target # None /\ Valid(held, target))
  BY <1>1, <1>3, ForgetTyped DEF Conclude
<1> QED BY <1>2, <1>3

-----------------------------------------------------------------------------
(* The types, action by action.                                            *)
LEMMA InitTyped == Init => Typed
<1> SUFFICES ASSUME Init PROVE OwnerTyped /\ RestTyped
  BY DEF Typed 
<1>1. Over \in SessionState
  BY ControlAssumption DEF Over, SessionState, States, NoTimer
<1>2. OwnerTyped
  BY <1>1 DEF Init, OwnerTyped
<1>3. data \in Energy /\ monitor \in Monitor
  <2>1. 0 \in 0..(MaxAge + 1)
    BY ControlAssumption
  <2> QED BY <2>1 DEF Init, Energy, Monitor
<1> QED BY <1>2, <1>3, NoRefreshTyped DEF Init, RestTyped

LEMMA SessionStepTyped ==
  ASSUME Typed, NEW s \in Sessions, SessionStep(s)
  PROVE  Typed'
<1>0. OwnerTyped /\ RestTyped
  BY DEF Typed 
<1>1. ASSUME NEW at \in States, Moves(s, at)
      PROVE  OwnerTyped' /\ RestTyped'
  <2>1. session' \in [Sessions -> SessionState]
    BY <1>0, <1>1 DEF Moves, OwnerTyped, SessionState
  <2> QED BY <1>0, <1>1, <2>1 DEF Moves, OwnerTyped, RestTyped
<1>2. CASE Connect(s) \/ PrepareFails(s) \/ Heartbeat(s) \/ Sent(s) \/ RestoreEnds(s)
  <2>1. \E at \in States : Moves(s, at)
    BY <1>2 DEF Connect, PrepareFails, Heartbeat, Sent, RestoreEnds, States, Timed
  <2> QED BY <1>1, <2>1 DEF Typed
<1>3. CASE Expire(s)
  <2>1. session' \in [Sessions -> SessionState]
    <3>1. session[s] \in SessionState
      BY <1>0 DEF OwnerTyped
    <3>2. PICK at \in States : at = IF session[s].at \in {"preparing", "restoring"}
                                    THEN "closing" ELSE "restoring"
      BY DEF States, Timed
    <3>3. session' = [session EXCEPT ![s] = [session[s] EXCEPT !.left = NoTimer, !.at = at]]
      BY <1>0, <1>3, <3>1, <3>2 DEF Expire, OwnerTyped, SessionState
    <3>4. [session[s] EXCEPT !.left = NoTimer, !.at = at] \in SessionState
      BY <3>1, <3>2 DEF SessionState
    <3> QED BY <1>0, <3>3, <3>4 DEF OwnerTyped
  <2> QED BY <1>0, <1>3, <2>1 DEF Typed, Expire, OwnerTyped, RestTyped
<1>4. CASE Close(s)
  <2>1. Over \in SessionState
    BY ControlAssumption DEF Over, SessionState, States, NoTimer
  <2>2. OwnerTyped'
    BY <1>0, <1>4, <2>1 DEF Close, OwnerTyped
  <2>3. RestTyped'
    BY <1>0, <1>4, ObservedTyped DEF Close, RestTyped
  <2> QED BY <2>2, <2>3 DEF Typed
<1> QED BY <1>2, <1>3, <1>4 DEF SessionStep

LEMMA ServiceTyped ==
  ASSUME Typed,
         \/ \E p \in Powers, d \in 1..MaxDuration : ManualStart(p, d)
         \/ \E o \in Operators : ManualStop(o)
         \/ \E c \in Callers : Resume(c)
  PROVE  Typed'
<1>0. OwnerTyped /\ RestTyped
  BY DEF Typed 
<1>1. ASSUME NEW p \in Powers, NEW d \in 1..MaxDuration, ManualStart(p, d) PROVE Typed'
  <2>1. OwnerTyped'
    BY <1>0, <1>1, LaunchTyped DEF ManualStart
  <2>2. RestTyped'
    BY <1>0, <1>1, ObservedTyped DEF ManualStart, RestTyped
  <2> QED BY <2>1, <2>2 DEF Typed
<1>2. ASSUME NEW o \in Operators, ManualStop(o) PROVE Typed'
  <2>1. o \in Callers
    BY DEF Callers
  <2>2. CASE Ask(o) /\ UNCHANGED <<task, stopEvent, status, data>>
    <3>1. OwnerTyped' /\ RestTyped'
      BY <1>0, <1>2, <2>1, <2>2, AskTyped DEF ManualStop, OwnerTyped, RestTyped
    <3> QED BY <3>1 DEF Typed
  <2>3. CASE Forget /\ data' = Held /\ UNCHANGED <<told, waits, ahead>>
    <3>1. OwnerTyped'
      BY <1>0, <1>2, <2>3, ForgetTyped DEF ManualStop
    <3>2. RestTyped'
      BY <1>0, <1>2, <2>3, HeldTyped DEF ManualStop, RestTyped
    <3> QED BY <3>1, <3>2 DEF Typed
  <2> QED BY <1>2, <2>2, <2>3 DEF ManualStop
<1>3. ASSUME NEW c \in Callers, ManualStopped(c) PROVE Typed'
  <2>1. OwnerTyped'
    BY <1>0, <1>3, ForgetTyped DEF ManualStopped
  <2>2. RestTyped'
    BY <1>0, <1>3, AnsweredTyped, ObservedTyped DEF ManualStopped, RestTyped
  <2> QED BY <2>1, <2>2 DEF Typed
<1>4. ASSUME PollStopped PROVE Typed'
  <2>1. "poll" \in Callers /\ poll \in PollState
    BY <1>0 DEF Callers, RestTyped
  <2>2. OwnerTyped' /\ data' \in Energy /\ poll' \in PollState
    BY <1>0, <1>4, <2>1, ConcludeTyped DEF PollStopped, PollState
  <2>3. RestTyped'
    BY <1>0, <1>4, <2>1, <2>2, AnsweredTyped DEF PollStopped, RestTyped
  <2> QED BY <2>2, <2>3 DEF Typed
<1>5. ASSUME UnloadStopped PROVE Typed'
  <2>1. "unload" \in Callers
    BY DEF Callers
  <2>2. OwnerTyped'
    BY <1>0, <1>5, ForgetTyped DEF UnloadStopped
  <2>3. RestTyped'
    BY <1>0, <1>5, <2>1, AnsweredTyped, ObservedTyped DEF UnloadStopped, RestTyped
  <2> QED BY <2>2, <2>3 DEF Typed
<1> QED BY <1>1, <1>2, <1>3, <1>4, <1>5 DEF Resume

LEMMA PollStepTyped ==
  ASSUME Typed, PollStep
  PROVE  Typed'
<1>0. OwnerTyped /\ RestTyped /\ poll \in PollState
  BY DEF Typed, RestTyped
<1>1. CASE PollStart
  <2>1. poll' \in PollState
    BY <1>0, <1>1 DEF PollStart, PollState
  <2> QED BY <1>0, <1>1, <2>1 DEF Typed, PollStart, OwnerTyped, RestTyped
<1>2. CASE PollRead
  <2>1. PICK e \in Permitted : poll' = [poll EXCEPT !.at = "collecting",
                                          !.result.safe = e, !.result.age = 0]
    BY <1>2 DEF PollRead
  <2>2. [poll.result EXCEPT !.safe = e, !.age = 0] \in Energy
    <3>1. 0 \in 0..(MaxAge + 1)
      BY ControlAssumption
    <3> QED BY <1>0, <3>1 DEF PollState, Energy
  <2>3. poll' \in PollState
    BY <1>0, <2>1, <2>2 DEF PollState, Energy
  <2> QED BY <1>0, <1>2, <2>3 DEF Typed, PollRead, OwnerTyped, RestTyped
<1>3. CASE PollFails
  BY <1>0, <1>3, NoRefreshTyped DEF Typed, PollFails, OwnerTyped, RestTyped
<1>4. ASSUME NEW t \in Powers \cup {None}, NEW d \in 1..MaxDuration, PollDecide(t, d)
      PROVE  Typed'
  <2> DEFINE result == Observed(poll.result, monitor)
             target == IF result.clear THEN t ELSE None
  <2>1. result \in Energy /\ target \in Powers \cup {None} /\ "poll" \in Callers
    BY <1>0, ObservedTyped DEF PollState, RestTyped, Callers
  <2>2. UNCHANGED <<monitor, unload>>
    BY <1>4 DEF PollDecide
  <2> HIDE DEF result, target
  <2>3. CASE Install(result) /\ UNCHANGED <<session, told, task, stopEvent, status, waits, ahead>>
    BY <1>0, <2>1, <2>2, <2>3, NoRefreshTyped DEF Typed, Install, OwnerTyped, RestTyped
  <2>4. CASE Conclude(Held, result, target, d, waits) /\ UNCHANGED <<waits, ahead>>
    BY <1>0, <2>1, <2>2, <2>4, ConcludeTyped DEF Typed, RestTyped
  <2>5. CASE /\ Ask("poll")
             /\ poll' = [at |-> "stopping", result |-> result, target |-> target, duration |-> d]
             /\ UNCHANGED <<session, task, stopEvent, status, data>>
    <3>1. poll' \in PollState
      BY <2>1, <2>5 DEF PollState
    <3>2. OwnerTyped' /\ RestTyped'
      BY <1>0, <2>1, <2>2, <2>5, <3>1, AskTyped DEF OwnerTyped, RestTyped
    <3> QED BY <3>2 DEF Typed
  <2> QED BY <1>4, <2>3, <2>4, <2>5 DEF PollDecide, result, target
<1> QED BY <1>1, <1>2, <1>3, <1>4 DEF PollStep

LEMMA PublishTyped ==
  ASSUME Typed, NEW m \in Monitor, Publish(m), unload' \in {"no", "stopping", "cancelling", "done"}
  PROVE  Typed'
<1>1. data' \in Energy
  BY ObservedTyped DEF Typed, RestTyped, Publish
<1> QED BY <1>1 DEF Typed, Publish, OwnerTyped, RestTyped

LEMMA MonitorStepTyped ==
  ASSUME Typed, MonitorStep \/ ObserverCancelled
  PROVE  Typed'
<1>0. monitor \in Monitor /\ unload \in {"no", "stopping", "cancelling", "done"}
  BY DEF Typed, RestTyped
<1>1. CASE ListenerOpens
  <2>1. PICK e \in BOOLEAN : Publish([monitor EXCEPT !.listening = TRUE, !.external = e])
    BY <1>1 DEF ListenerOpens
  <2>2. [monitor EXCEPT !.listening = TRUE, !.external = e] \in Monitor
    BY <1>0 DEF Monitor
  <2> QED BY <1>0, <1>1, <2>1, <2>2, PublishTyped DEF ListenerOpens
<1>2. ASSUME NEW e \in BOOLEAN, Frame(e) PROVE Typed'
  <2>1. [monitor EXCEPT !.heard = "fresh", !.external = @ \/ e] \in Monitor
    BY <1>0 DEF Monitor
  <2> QED BY <1>0, <1>2, <2>1, PublishTyped DEF Frame
<1>3. CASE ReceiveTimeout
  BY <1>0, <1>3, PublishTyped DEF ReceiveTimeout
<1>4. CASE ListenerFails \/ ObserverCancelled
  <2>1. [monitor EXCEPT !.listening = FALSE] \in Monitor
    BY <1>0 DEF Monitor
  <2> QED BY <1>0, <1>4, <2>1, PublishTyped DEF ListenerFails, ObserverCancelled
<1>5. CASE TrafficAges
  <2>1. monitor' \in Monitor
    BY <1>0, <1>5 DEF TrafficAges, Monitor
  <2> QED BY <1>5, <2>1 DEF Typed, TrafficAges, OwnerTyped, RestTyped
<1> QED BY <1>1, <1>2, <1>3, <1>4, <1>5 DEF MonitorStep

LEMMA UnloadStartTyped == Typed /\ UnloadStart => Typed'
<1> SUFFICES ASSUME Typed, UnloadStart PROVE OwnerTyped' /\ RestTyped'
  BY DEF Typed 
<1>1. "unload" \in Callers /\ OwnerTyped /\ RestTyped
  BY DEF Typed, Callers
<1>2. CASE Ask("unload") /\ UNCHANGED <<task, stopEvent, status, data>>
  BY <1>1, <1>2, AskTyped DEF UnloadStart, OwnerTyped, RestTyped
<1>3. CASE Forget /\ data' = Held /\ UNCHANGED <<told, waits, ahead>>
  <2>1. OwnerTyped'
    BY <1>1, <1>3, ForgetTyped DEF UnloadStart
  <2>2. RestTyped'
    BY <1>1, <1>3, HeldTyped DEF UnloadStart, RestTyped
  <2> QED BY <2>1, <2>2
<1> QED BY <1>2, <1>3 DEF UnloadStart

LEMMA TickTyped == Typed /\ Tick => Typed'
<1> SUFFICES ASSUME Typed, Tick PROVE OwnerTyped' /\ RestTyped'
  BY DEF Typed 
<1>1. OwnerTyped /\ RestTyped
  BY DEF Typed 
<1>2. ASSUME NEW s \in Sessions PROVE session'[s] \in SessionState
  <2>1. session[s] \in SessionState
    BY <1>1 DEF OwnerTyped
  <2>2. session'[s] = IF session[s].at \in Timed /\ session[s].left > 0
                      THEN [session[s] EXCEPT !.left = @ - 1] ELSE session[s]
    BY DEF Tick
  <2>3. session[s].left > 0 => session[s].left - 1 \in 0..MaxDuration
    BY <2>1, ControlAssumption DEF SessionState, NoTimer
  <2> QED BY <2>1, <2>2, <2>3 DEF SessionState
<1>3. session' \in [Sessions -> SessionState]
  BY <1>2 DEF Tick
<1>4. data' \in Energy
  BY <1>1, OlderTyped DEF Tick, RestTyped
<1>5. poll' \in PollState
  <2>1. poll \in PollState /\ Older(poll.result) \in Energy
    BY <1>1, OlderTyped DEF RestTyped, PollState
  <2> QED BY <2>1 DEF Tick, PollState
<1> QED BY <1>1, <1>3, <1>4, <1>5 DEF Tick, OwnerTyped, RestTyped

LEMMA NextTyped == Typed /\ [Next]_vars => Typed'
<1> SUFFICES ASSUME Typed, [Next]_vars PROVE Typed'
  OBVIOUS
<1>1. CASE UNCHANGED vars
  BY <1>1 DEF Typed, vars, OwnerTyped, RestTyped
<1> QED BY <1>1, SessionStepTyped, ServiceTyped, PollStepTyped, MonitorStepTyped,
           UnloadStartTyped, TickTyped DEF Next

(* Types, for every number of sessions and callers.                        *)
THEOREM TypeCorrect == Spec => []TypeOK
<1>1. Typed => TypeOK
  BY DEF Typed, TypeOK, OwnerTyped, RestTyped, SessionState, PollState, States
<1> QED BY <1>1, InitTyped, NextTyped, PTL DEF Spec
-----------------------------------------------------------------------------
(* A heartbeat is the only step that starts a command.                     *)
LEMMA LaunchSilent ==
  ASSUME Typed, NEW p, NEW d, NEW w, Launch(p, d, w), NEW s \in Sessions
  PROVE  ~Commands(s)
<1>1. PICK t \in Sessions :
        session' = [session EXCEPT ![t] = [at |-> "connecting", power |-> p, left |-> d]]
  BY DEF Launch, Free
<1>2. session'[s].at \in {session[s].at, "connecting"}
  BY <1>1 DEF Typed, OwnerTyped
<1> QED BY <1>2 DEF Commands

LEMMA ConcludeSilent ==
  ASSUME Typed, NEW held, NEW result, NEW target, NEW d, NEW w,
         Conclude(held, result, target, d, w), NEW s \in Sessions
  PROVE  ~Commands(s)
<1>1. (\E p : Launch(p, d, w)) \/ session' = session
  BY DEF Conclude
<1> QED BY <1>1, LaunchSilent DEF Commands

LEMMA HeartbeatOnly ==
  ASSUME Typed, [Next]_vars, NEW s \in Sessions, Commands(s)
  PROVE  Heartbeat(s)
<1>1. session' # session
  BY DEF Commands
<1>2. ASSUME NEW p, NEW d, ManualStart(p, d) PROVE FALSE
  BY <1>2, LaunchSilent DEF ManualStart
<1>3. ASSUME NEW t, NEW d, PollDecide(t, d) PROVE FALSE
  <2>1. session' = session \/ \E r, g : Conclude(Held, r, g, d, waits)
    BY <1>3 DEF PollDecide
  <2> QED BY <1>1, <2>1, ConcludeSilent
<1>4. ASSUME PollStopped PROVE FALSE
  <2>1. Conclude(Observed(data, monitor), poll.result, poll.target, poll.duration, waits')
    BY <1>4 DEF PollStopped
  <2>2. PICK w : w = waits'
    OBVIOUS
  <2> QED BY <2>1, <2>2, ConcludeSilent
<1>5. ASSUME Tick PROVE FALSE
  <2>1. session'[s].at = session[s].at
    BY <1>5 DEF Tick, Typed, OwnerTyped, SessionState
  <2> QED BY <2>1 DEF Commands
<1>6. ASSUME NEW t \in Sessions, SessionStep(t) PROVE Heartbeat(s)
  <2>1. CASE Heartbeat(t)
    <3>1. \E at : session' = [session EXCEPT ![t].at = at]
      BY <2>1 DEF Heartbeat, Moves
    <3>2. s = t
      BY <3>1 DEF Commands, Typed, OwnerTyped
    <3> QED BY <2>1, <3>2
  <2>2. CASE Connect(t) \/ PrepareFails(t) \/ Sent(t) \/ RestoreEnds(t)
    <3>1. \E at \in {"preparing", "closing", "waiting", "restoring"} :
            session' = [session EXCEPT ![t].at = at]
      BY <2>2 DEF Connect, PrepareFails, Sent, RestoreEnds, Moves
    <3>2. session'[s].at \in {session[s].at, "preparing", "closing", "waiting", "restoring"}
      BY <3>1 DEF Typed, OwnerTyped, SessionState
    <3> QED BY <3>2 DEF Commands
  <2>3. CASE Expire(t)
    <3>1. PICK at \in {"closing", "restoring"} :
            session' = [session EXCEPT ![t].left = NoTimer, ![t].at = at]
      <4>1. PICK at \in {"closing", "restoring"} :
              at = IF session[t].at \in {"preparing", "restoring"}
                   THEN "closing" ELSE "restoring"
        OBVIOUS
      <4>2. session' = [session EXCEPT ![t].left = NoTimer, ![t].at = at]
        BY <2>3, <4>1 DEF Expire, Typed, OwnerTyped, SessionState
      <4> QED BY <4>2
    <3>2. session'[s].at \in {session[s].at, "closing", "restoring"}
      BY <3>1 DEF Typed, OwnerTyped, SessionState
    <3> QED BY <3>2 DEF Commands
  <2>4. CASE Close(t)
    <3>1. session'[s].at \in {session[s].at, "over"}
      BY <2>4 DEF Close, Over, Typed, OwnerTyped
    <3> QED BY <3>1 DEF Commands
  <2> QED BY <1>6, <2>1, <2>2, <2>3, <2>4 DEF SessionStep
<1>7. CASE ~(\E t \in Sessions : SessionStep(t))
  <2>1. UNCHANGED session
    BY <1>2, <1>3, <1>4, <1>5, <1>7 DEF Next, vars, ManualStop, Resume, ManualStopped,
       UnloadStopped, PollStep, PollStart, PollRead, PollFails, MonitorStep, ListenerOpens,
       Frame, ReceiveTimeout, ListenerFails, TrafficAges, Publish, UnloadStart,
       ObserverCancelled
  <2> QED BY <1>1, <2>1
<1> QED BY <1>6, <1>7

-----------------------------------------------------------------------------
(* Without scheduled control no refresh ever waits for a session, so what  *)
(* is installed carries the permission of that moment.                     *)
HonestInv == waits["poll"] = None /\ SnapshotHonest

LEMMA ObservedHonest ==
  ASSUME NEW d \in Energy, NEW m \in Monitor, Observed(d, m).clear
  PROVE  ~m.external
BY ObservedTyped DEF Eligible

LEMMA PublishHonest ==
  ASSUME Typed, HonestInv, NEW m \in Monitor, Publish(m)
  PROVE  HonestInv'
<1>1. data \in Energy /\ monitor' = m /\ data' = Observed(data, m) /\ waits' = waits
  BY DEF Typed, RestTyped, Publish
<1> QED BY <1>1, ObservedHonest DEF HonestInv, SnapshotHonest

LEMMA HonestStep ==
  ASSUME ~Scheduled, Typed, HonestInv, [Next]_vars
  PROVE  HonestInv'
<1>0. /\ data \in Energy /\ monitor \in Monitor /\ poll.result \in Energy
      /\ waits["poll"] = None /\ SnapshotHonest
      /\ waits \in [Callers -> Sessions \cup {None}]
      /\ "poll" \in Callers /\ "poll" # "unload" /\ "poll" \notin Operators
  BY ControlAssumption DEF Typed, RestTyped, PollState, HonestInv, Callers
<1>1. ASSUME monitor' = monitor, data' \in {data, Observed(data, monitor)}, waits' = waits
      PROVE  HonestInv'
  BY <1>0, <1>1, ObservedHonest DEF HonestInv, SnapshotHonest
<1>2. ASSUME NEW p, NEW d, ManualStart(p, d) PROVE HonestInv'
  BY <1>1, <1>2 DEF ManualStart
<1>3. ASSUME NEW o \in Operators, ManualStop(o) PROVE HonestInv'
  <2>1. monitor' = monitor /\ data' \in {data, Observed(data, monitor)} /\ waits'["poll"] = None
    BY <1>0, <1>3, HeldTyped DEF ManualStop, Ask
  <2> QED BY <1>0, <2>1, ObservedHonest DEF HonestInv, SnapshotHonest
<1>4. ASSUME NEW o \in Operators, ManualStopped(o) PROVE HonestInv'
  BY <1>0, <1>4, ObservedHonest DEF ManualStopped, Answered, HonestInv, SnapshotHonest
<1>5. ASSUME UnloadStopped PROVE HonestInv'
  BY <1>0, <1>5, ObservedHonest DEF UnloadStopped, Answered, HonestInv, SnapshotHonest
<1>6. ASSUME PollStopped PROVE HonestInv'
  BY <1>0, <1>6 DEF PollStopped, Answered
<1>7. ASSUME NEW s \in Sessions, SessionStep(s) PROVE HonestInv'
  BY <1>1, <1>7 DEF SessionStep, Connect, PrepareFails, Heartbeat, Sent, RestoreEnds, Moves,
     Expire, Close
<1>8. ASSUME PollStart \/ PollRead \/ PollFails PROVE HonestInv'
  BY <1>1, <1>8 DEF PollStart, PollRead, PollFails
<1>9. ASSUME NEW t, NEW d, PollDecide(t, d) PROVE HonestInv'
  <2>1. data' = Observed(poll.result, monitor) /\ waits' = waits /\ monitor' = monitor
    BY <1>9 DEF PollDecide, Install
  <2> QED BY <1>0, <2>1, ObservedHonest DEF HonestInv, SnapshotHonest
<1>10. ASSUME ListenerOpens PROVE HonestInv'
  <2>1. PICK e \in BOOLEAN : Publish([monitor EXCEPT !.listening = TRUE, !.external = e])
    BY <1>10 DEF ListenerOpens
  <2>2. [monitor EXCEPT !.listening = TRUE, !.external = e] \in Monitor
    BY <1>0 DEF Monitor
  <2> QED BY <2>1, <2>2, PublishHonest
<1>11. ASSUME NEW e \in BOOLEAN, Frame(e) PROVE HonestInv'
  <2>1. [monitor EXCEPT !.heard = "fresh", !.external = @ \/ e] \in Monitor
    BY <1>0 DEF Monitor
  <2> QED BY <1>11, <2>1, PublishHonest DEF Frame
<1>12. ASSUME ReceiveTimeout PROVE HonestInv'
  BY <1>0, <1>12, PublishHonest DEF ReceiveTimeout
<1>13. ASSUME ListenerFails \/ ObserverCancelled PROVE HonestInv'
  <2>1. [monitor EXCEPT !.listening = FALSE] \in Monitor
    BY <1>0 DEF Monitor
  <2> QED BY <1>13, <2>1, PublishHonest DEF ListenerFails, ObserverCancelled
<1>14. ASSUME TrafficAges PROVE HonestInv'
  <2>1. monitor'.external = monitor.external
    BY <1>0, <1>14 DEF TrafficAges, Monitor
  <2> QED BY <1>0, <1>14, <2>1 DEF TrafficAges, HonestInv, SnapshotHonest
<1>15. ASSUME UnloadStart PROVE HonestInv'
  <2>1. monitor' = monitor /\ data' \in {data, Observed(data, monitor)} /\ waits'["poll"] = None
    BY <1>0, <1>15, HeldTyped DEF UnloadStart, Ask
  <2> QED BY <1>0, <2>1, ObservedHonest DEF HonestInv, SnapshotHonest
<1>16. ASSUME Tick PROVE HonestInv'
  <2>1. data'.clear = data.clear
    BY <1>0, <1>16, OlderTyped DEF Tick
  <2> QED BY <1>0, <1>16, <2>1 DEF Tick, HonestInv, SnapshotHonest
<1>17. ASSUME UNCHANGED vars PROVE HonestInv'
  BY <1>1, <1>17 DEF vars
<1> QED BY <1>2, <1>3, <1>4, <1>5, <1>6, <1>7, <1>8, <1>9, <1>10, <1>11, <1>12, <1>13, <1>14,
           <1>15, <1>16, <1>17 DEF Next, Resume, PollStep, MonitorStep

LEMMA HonestInit == Init => HonestInv
BY DEF Init, HonestInv, SnapshotHonest, Callers

(* The snapshot of _with_observation never claims a permission against a   *)
(* sender the monitor has heard.                                           *)
THEOREM HonestSnapshot ==
  ASSUME ~Scheduled
  PROVE  Spec => []SnapshotHonest
<1>1. Typed /\ HonestInv /\ [Next]_vars => (Typed /\ HonestInv)'
  BY HonestStep, NextTyped
<1>2. HonestInv => SnapshotHonest
  BY DEF HonestInv
<1> QED BY <1>1, <1>2, InitTyped, HonestInit, PTL DEF Spec

(* Where no refresh waits for a session, every step leaves the monitor and *)
(* the permission alone, states the permission as the monitor has it, or   *)
(* is a step of the monitor that states it.                                *)
WatchInv == waits["poll"] = None /\ (data.clear => monitor.listening)

LEMMA WatchInit ==
  ASSUME Init
  PROVE  WatchInv /\ Watch!Init
<1>1. data.clear = FALSE
  BY DEF Init
<1>2. monitor.listening = FALSE /\ monitor.heard = "never"
  BY DEF Init
<1>3. waits["poll"] = None
  BY DEF Init, Callers
<1>4. Watch!Init
  BY <1>1, <1>2 DEF Watch!Init
<1> QED BY <1>1, <1>3, <1>4 DEF WatchInv

LEMMA StatesWatch ==
  ASSUME Typed, WatchInv, monitor' = monitor,
         data'.clear \in {data.clear, Eligible(monitor)}
  PROVE  [Watch!Next]_(Watch!vars) /\ (data.clear => monitor.listening)'
<1>1. /\ monitor.listening \in BOOLEAN /\ monitor.external \in BOOLEAN
      /\ data.clear \in BOOLEAN
  BY DEF Typed, RestTyped, Monitor, Energy
<1>2. CASE data'.clear = data.clear
  BY <1>2 DEF Watch!vars, WatchInv
<1>3. CASE data'.clear = Eligible(monitor) /\ monitor.listening
  <2>1. Watch!Report
    BY <1>3 DEF Watch!Report, Watch!Publish, Eligible
  <2> QED BY <1>3, <2>1 DEF Watch!Next
<1>4. CASE data'.clear = Eligible(monitor) /\ ~monitor.listening
  BY <1>1, <1>2, <1>4 DEF Eligible, WatchInv
<1> QED BY <1>2, <1>3, <1>4

LEMMA WatchStep ==
  ASSUME ~Scheduled, Typed, WatchInv, [Next]_vars
  PROVE  [Watch!Next]_(Watch!vars) /\ WatchInv'
<1>0. /\ data \in Energy /\ monitor \in Monitor /\ poll.result \in Energy
      /\ waits["poll"] = None
      /\ waits \in [Callers -> Sessions \cup {None}]
      /\ "poll" \in Callers /\ "poll" # "unload" /\ "poll" \notin Operators
  BY ControlAssumption DEF Typed, RestTyped, PollState, WatchInv, Callers
<1>o. /\ Observed(data, monitor).clear = Eligible(monitor)
      /\ Observed(poll.result, monitor).clear = Eligible(monitor)
  BY <1>0, ObservedTyped
<1>1. ASSUME monitor' = monitor, waits'["poll"] = None,
             data' \in {data, Observed(data, monitor), Observed(poll.result, monitor)}
      PROVE  [Watch!Next]_(Watch!vars) /\ WatchInv'
  BY <1>1, <1>o, StatesWatch DEF WatchInv
<1>2. ASSUME NEW m \in Monitor, Publish(m)
      PROVE  /\ data'.clear = Eligible(m) /\ monitor' = m
             /\ WatchInv'
  BY <1>0, <1>2, ObservedTyped DEF Publish, WatchInv, Eligible
<1>3. ASSUME NEW p, NEW d, ManualStart(p, d) PROVE [Watch!Next]_(Watch!vars) /\ WatchInv'
  BY <1>0, <1>1, <1>3 DEF ManualStart
<1>4. ASSUME NEW o \in Operators, ManualStop(o) PROVE [Watch!Next]_(Watch!vars) /\ WatchInv'
  BY <1>0, <1>1, <1>4, HeldTyped DEF ManualStop, Ask
<1>5. ASSUME NEW o \in Operators, ManualStopped(o)
      PROVE  [Watch!Next]_(Watch!vars) /\ WatchInv'
  BY <1>0, <1>1, <1>5 DEF ManualStopped, Answered
<1>6. ASSUME UnloadStopped PROVE [Watch!Next]_(Watch!vars) /\ WatchInv'
  BY <1>0, <1>1, <1>6 DEF UnloadStopped, Answered
<1>7. ASSUME PollStopped PROVE FALSE
  BY <1>0, <1>7 DEF PollStopped, Answered
<1>8. ASSUME NEW s \in Sessions, SessionStep(s) PROVE [Watch!Next]_(Watch!vars) /\ WatchInv'
  BY <1>0, <1>1, <1>8 DEF SessionStep, Connect, PrepareFails, Heartbeat, Sent, RestoreEnds,
     Moves, Expire, Close
<1>9. ASSUME PollStart \/ PollRead \/ PollFails PROVE [Watch!Next]_(Watch!vars) /\ WatchInv'
  BY <1>0, <1>1, <1>9 DEF PollStart, PollRead, PollFails
<1>10. ASSUME NEW t, NEW d, PollDecide(t, d) PROVE [Watch!Next]_(Watch!vars) /\ WatchInv'
  <2>1. data' = Observed(poll.result, monitor) /\ waits' = waits /\ monitor' = monitor
    BY <1>10 DEF PollDecide, Install
  <2> QED BY <1>0, <1>1, <2>1
<1>11. ASSUME ListenerOpens PROVE [Watch!Next]_(Watch!vars) /\ WatchInv'
  <2>1. PICK e \in (IF monitor.heard = "never" THEN {FALSE} ELSE BOOLEAN) :
          Publish([monitor EXCEPT !.listening = TRUE, !.external = e])
    BY <1>11 DEF ListenerOpens
  <2> DEFINE m == [monitor EXCEPT !.listening = TRUE, !.external = e]
  <2>2. /\ m \in Monitor /\ m.listening = TRUE /\ m.external = e
        /\ m.heard = monitor.heard /\ e \in BOOLEAN
    BY <1>0 DEF Monitor
  <2>3. data'.clear = Eligible(m) /\ monitor' = m /\ WatchInv'
    BY <1>2, <2>1, <2>2
  <2>4. Watch!Open
    BY <1>11, <2>2, <2>3 DEF ListenerOpens, Watch!Open, Watch!Publish, Eligible
  <2> QED BY <2>3, <2>4 DEF Watch!Next
<1>12. ASSUME NEW e \in BOOLEAN, Frame(e) PROVE [Watch!Next]_(Watch!vars) /\ WatchInv'
  <2> DEFINE m == [monitor EXCEPT !.heard = "fresh", !.external = @ \/ e]
  <2>1. /\ m \in Monitor /\ m.listening = monitor.listening /\ m.heard = "fresh"
        /\ m.external = (monitor.external \/ e)
    BY <1>0 DEF Monitor
  <2>2. Publish(m) /\ monitor.listening
    BY <1>12 DEF Frame
  <2>3. data'.clear = Eligible(m) /\ monitor' = m /\ WatchInv'
    BY <1>2, <2>1, <2>2
  <2>4. Watch!Hear(e)
    BY <2>1, <2>2, <2>3 DEF Watch!Hear, Watch!Publish, Eligible
  <2> QED BY <2>3, <2>4 DEF Watch!Next
<1>13. ASSUME ReceiveTimeout PROVE [Watch!Next]_(Watch!vars) /\ WatchInv'
  BY <1>0, <1>1, <1>13 DEF ReceiveTimeout, Publish
<1>14. ASSUME ListenerFails \/ ObserverCancelled
       PROVE  [Watch!Next]_(Watch!vars) /\ WatchInv'
  <2> DEFINE m == [monitor EXCEPT !.listening = FALSE]
  <2>1. /\ m \in Monitor /\ m.listening = FALSE /\ m.heard = monitor.heard
        /\ m.external = monitor.external /\ Publish(m)
    BY <1>0, <1>14 DEF Monitor, ListenerFails, ObserverCancelled
  <2>2. data'.clear = Eligible(m) /\ monitor' = m /\ WatchInv'
    BY <1>2, <2>1
  <2>3. CASE monitor.listening
    <3>1. Watch!Fail
      BY <2>1, <2>2, <2>3 DEF Watch!Fail, Watch!Publish, Eligible
    <3> QED BY <2>2, <3>1 DEF Watch!Next
  <2>4. CASE ~monitor.listening
    <3>1. m = monitor /\ data.clear = FALSE /\ data'.clear = FALSE
      BY <1>0, <2>1, <2>2, <2>4 DEF Monitor, Energy, WatchInv, Eligible
    <3> QED BY <2>2, <3>1 DEF Watch!vars
  <2> QED BY <2>3, <2>4
<1>15. ASSUME TrafficAges PROVE [Watch!Next]_(Watch!vars) /\ WatchInv'
  <2>1. /\ monitor'.external = monitor.external /\ monitor'.listening = monitor.listening
        /\ monitor.heard = "fresh" /\ monitor'.heard = "old" /\ data' = data
        /\ waits' = waits
    BY <1>0, <1>15 DEF TrafficAges, Monitor
  <2>2. Watch!Age
    BY <2>1 DEF Watch!Age
  <2> QED BY <1>0, <2>1, <2>2 DEF Watch!Next, WatchInv
<1>16. ASSUME UnloadStart PROVE [Watch!Next]_(Watch!vars) /\ WatchInv'
  BY <1>0, <1>1, <1>16, HeldTyped DEF UnloadStart, Ask
<1>17. ASSUME Tick PROVE [Watch!Next]_(Watch!vars) /\ WatchInv'
  <2>1. data'.clear = data.clear /\ monitor' = monitor /\ waits' = waits
    BY <1>0, <1>17, OlderTyped DEF Tick
  <2> QED BY <1>0, <2>1, StatesWatch DEF WatchInv
<1>18. ASSUME UNCHANGED vars PROVE [Watch!Next]_(Watch!vars) /\ WatchInv'
  BY <1>0, <1>1, <1>18 DEF vars
<1> QED BY <1>3, <1>4, <1>5, <1>6, <1>7, <1>8, <1>9, <1>10, <1>11, <1>12, <1>13, <1>14, <1>15,
           <1>16, <1>17, <1>18 DEF Next, Resume, PollStep, MonitorStep

(* The permission in self.data keeps what the passive observation promises *)
(* of the one it publishes: _with_observation, called by the services, by  *)
(* the ends of sessions and by refreshes, adds no statement of its own.    *)
THEOREM WatchKept ==
  ASSUME ~Scheduled
  PROVE  Spec => KeepsWatch
<1>1. Init => WatchInv /\ Watch!Init
  BY WatchInit
<1>2. Typed /\ [Next]_vars => Typed'
  BY NextTyped
<1>3. Typed /\ WatchInv /\ [Next]_vars => WatchInv' /\ [Watch!Next]_(Watch!vars)
  BY WatchStep
<1> QED BY <1>1, <1>2, <1>3, InitTyped, PTL DEF Spec, KeepsWatch, Watch!Spec

(* What a permission that is no longer one leaves to a heartbeat.          *)
LEMMA UnpermittedSilent ==
  ASSUME Typed, [Next]_vars, ~data.clear, NEW s \in Sessions
  PROVE  ~Commands(s)
<1>1. ASSUME Commands(s) PROVE FALSE
  <2>1. Heartbeat(s)
    BY <1>1, HeartbeatOnly
  <2>2. session'[s].at = "restoring"
    BY <2>1 DEF Heartbeat, Moves, Valid, Typed, OwnerTyped, SessionState
  <2> QED BY <1>1, <2>2 DEF Commands
<1> QED BY <1>1

(* No heartbeat of _validate_active_command follows an unclassified sender *)
(* or the loss of the listener.                                            *)
THEOREM ImmediateOwnership ==
  ASSUME ~Scheduled
  PROVE  Spec => OwnershipImmediate
<1>1. Typed /\ HonestInv /\ WatchInv /\ [Next]_vars => (Typed /\ HonestInv /\ WatchInv)'
  BY HonestStep, WatchStep, NextTyped
<1>2. Typed /\ HonestInv /\ WatchInv /\ [Next]_vars =>
        [ monitor.external \/ ~monitor.listening => \A s \in Sessions : ~Commands(s) ]_vars
  BY UnpermittedSilent DEF HonestInv, SnapshotHonest, WatchInv
<1>3. Init => Typed /\ HonestInv /\ WatchInv
  BY InitTyped, HonestInit, WatchInit
<1> QED BY <1>1, <1>2, <1>3, PTL DEF Spec, OwnershipImmediate
-----------------------------------------------------------------------------
(* Where the scheduled policy is the only one to start and stop sessions,  *)
(* the unload alone competes with it.                                      *)
PolicyOnly == Operators = {} /\ ~ManualStarts

Nobody == \A s \in Sessions : ~Live(s)

(* A refresh waits for the session the coordinator knows, and so does the  *)
(* unload, until a refresh that was already under way has launched another.*)
WaitingInv ==
  /\ poll.at = "stopping" <=> waits["poll"] # None
  /\ unload = "stopping" <=> waits["unload"] # None
  /\ unload \in {"no", "stopping"} /\ poll.at = "stopping" => task = waits["poll"]
  /\ unload = "stopping" /\ poll.at # "idle" => task = waits["unload"]

(* Whoever may still launch a session knows all there are.                 *)
SingleInv ==
  /\ unload = "no" \/ (unload = "stopping" /\ poll.at # "idle") =>
       \A s \in Sessions : Live(s) => task = s
  /\ unload \in {"cancelling", "done"} /\ poll.at # "idle" => Nobody

(* Once the observer is gone, no permission is left to a session.          *)
QuietInv ==
  unload = "done" => ~monitor.listening /\ (data.clear => Nobody)

PolicyInv == WaitingInv /\ SingleInv /\ Exclusive /\ StatusTruthful /\ QuietInv

LEMMA Unobserved ==
  ASSUME NEW d \in Energy, NEW m \in Monitor, ~m.listening
  PROVE  ~Observed(d, m).clear
BY ObservedTyped DEF Eligible

(* After a launch from none the new session is the only one, and known.    *)
LEMMA LaunchSingle ==
  ASSUME Typed, Nobody, NEW p, NEW d, NEW w, Launch(p, d, w)
  PROVE  /\ task' \in Sessions /\ status' = p /\ session'[task'].power = p
         /\ Live(task)'
         /\ \A s \in Sessions : Live(s)' => task' = s
<1>1. PICK t \in Sessions :
        /\ session' = [session EXCEPT ![t] = [at |-> "connecting", power |-> p, left |-> d]]
        /\ task' = t /\ status' = p
  BY DEF Launch, Free
<1>2. session'[t] = [at |-> "connecting", power |-> p, left |-> d]
  BY <1>1 DEF Typed, OwnerTyped
<1>3. ASSUME NEW s \in Sessions, Live(s)' PROVE t = s
  BY <1>1, <1>3 DEF Typed, OwnerTyped, Nobody, Live
<1> QED BY <1>1, <1>2, <1>3 DEF Live

(* What follows for the invariant when a refresh launches or forgets.      *)
LEMMA ConcludeSingle ==
  ASSUME Typed, PolicyInv, Nobody, NEW held, NEW result, NEW target, NEW d, NEW w,
         Conclude(held, result, target, d, w),
         UNCHANGED <<monitor, unload>>, waits' = [waits EXCEPT !["poll"] = None],
         unload = "done" => ~held.clear
  PROVE  PolicyInv'
<1>0. /\ poll'.at = "idle"
      /\ waits'["poll"] = None /\ waits'["unload"] = waits["unload"]
  BY DEF Conclude, Install, NoRefresh, Typed, RestTyped, Callers
<1>1. WaitingInv'
  BY <1>0 DEF PolicyInv, WaitingInv
<1>2. CASE target # None /\ Valid(held, target)
  <2>1. Launch(target, d, w)
    BY <1>2 DEF Conclude
  <2>2. /\ task' \in Sessions /\ status' = target /\ session'[task'].power = target
        /\ Live(task)'
        /\ \A s \in Sessions : Live(s)' => task' = s
    BY <2>1, LaunchSingle
  <2>3. unload # "done"
    BY <1>2 DEF Valid
  <2>4. SingleInv' /\ Exclusive' /\ QuietInv'
    BY <1>0, <2>2, <2>3 DEF SingleInv, Exclusive, QuietInv
  <2>5. StatusTruthful'
    BY <2>2, ControlAssumption DEF StatusTruthful, Running
  <2> QED BY <1>1, <2>4, <2>5 DEF PolicyInv
<1>3. CASE ~(target # None /\ Valid(held, target))
  <2>1. session' = session /\ task' = None /\ status' = None
    BY <1>3 DEF Conclude, Forget
  <2>2. Nobody'
    BY <2>1 DEF Nobody, Live
  <2>3. SingleInv' /\ Exclusive' /\ QuietInv'
    BY <1>0, <2>2 DEF SingleInv, Exclusive, QuietInv, Nobody, PolicyInv
  <2>4. StatusTruthful'
    BY <2>1 DEF StatusTruthful, Running
  <2> QED BY <1>1, <2>3, <2>4 DEF PolicyInv
<1> QED BY <1>2, <1>3

(* Steps that leave the coordinator's bookkeeping alone.                   *)
LEMMA Apart ==
  ASSUME Typed, PolicyInv, UNCHANGED <<task, status, waits, unload>>,
         \A s \in Sessions : /\ Live(s)' = Live(s)
                             /\ session'[s].power = session[s].power,
         poll'.at # "idle" => poll.at # "idle" \/ unload = "no",
         poll'.at = "stopping" <=> poll.at = "stopping",
         unload = "done" => ~monitor'.listening /\ (data'.clear => data.clear)
  PROVE  PolicyInv'
<1>1. WaitingInv'
  BY DEF PolicyInv, WaitingInv
<1>2. SingleInv'
  BY DEF PolicyInv, SingleInv, Nobody
<1>3. Exclusive'
  BY DEF PolicyInv, Exclusive
<1>4. StatusTruthful'
  <2>1. Running' = Running
    BY DEF Running, Typed, OwnerTyped
  <2> QED BY <2>1 DEF PolicyInv, StatusTruthful, Running, Typed, OwnerTyped
<1>5. QuietInv'
  BY DEF PolicyInv, QuietInv, Nobody
<1> QED BY <1>1, <1>2, <1>3, <1>4, <1>5 DEF PolicyInv

LEMMA PolicyInit == Init => PolicyInv
<1> SUFFICES ASSUME Init PROVE PolicyInv
  OBVIOUS
<1>1. Nobody
  BY DEF Init, Nobody, Live, Over
<1> QED BY <1>1 DEF Init, PolicyInv, WaitingInv, SingleInv, Exclusive, StatusTruthful, QuietInv,
               Nobody, Running, NoRefresh, Callers

LEMMA PolicySessionStep ==
  ASSUME Typed, PolicyInv, NEW t \in Sessions, SessionStep(t)
  PROVE  PolicyInv'
<1>1. ASSUME NEW at \in States \ {"over"}, Moves(t, at), session[t].at # "over"
      PROVE  PolicyInv'
  <2>1. \A s \in Sessions : /\ Live(s)' = Live(s)
                            /\ session'[s].power = session[s].power
    BY <1>1 DEF Moves, Live, Typed, OwnerTyped, SessionState
  <2> QED BY <1>1, <2>1, Apart DEF Moves, PolicyInv, QuietInv
<1>2. CASE Connect(t) \/ PrepareFails(t) \/ Heartbeat(t) \/ Sent(t) \/ RestoreEnds(t)
  <2>1. \E at \in States \ {"over"} : Moves(t, at)
    BY <1>2 DEF Connect, PrepareFails, Heartbeat, Sent, RestoreEnds, States, Timed
  <2>2. session[t].at # "over"
    BY <1>2 DEF Connect, PrepareFails, Heartbeat, Sent, RestoreEnds
  <2> QED BY <1>1, <2>1, <2>2
<1>3. CASE Expire(t)
  <2>1. PICK at \in {"closing", "restoring"} :
          at = IF session[t].at \in {"preparing", "restoring"} THEN "closing" ELSE "restoring"
    OBVIOUS
  <2>2. session' = [session EXCEPT ![t].left = NoTimer, ![t].at = at] /\ Live(t)
    BY <1>3, <2>1 DEF Expire, Timed, Live, Typed, OwnerTyped, SessionState
  <2>3. \A s \in Sessions : /\ Live(s)' = Live(s)
                            /\ session'[s].power = session[s].power
    BY <2>2 DEF Live, Typed, OwnerTyped, SessionState
  <2> QED BY <1>3, <2>3, Apart DEF Expire, PolicyInv, QuietInv
<1>4. CASE Close(t)
  <2>1. /\ session' = [session EXCEPT ![t] = Over] /\ status' = None
        /\ data' = Observed(data, monitor)
        /\ UNCHANGED <<task, monitor, poll, waits, unload>> /\ Live(t)
    BY <1>4 DEF Close, Live
  <2>2. \A s \in Sessions : Live(s)' => Live(s) /\ s # t
    BY <2>1 DEF Live, Over, Typed, OwnerTyped
  <2>3. WaitingInv' /\ SingleInv' /\ Exclusive'
    BY <2>1, <2>2 DEF PolicyInv, WaitingInv, SingleInv, Exclusive, Nobody
  <2>4. StatusTruthful'
    <3>1. ASSUME unload = "no" PROVE ~Running'
      <4>1. task = t
        BY <2>1, <3>1 DEF PolicyInv, SingleInv
      <4> QED BY <2>1, <2>2, <4>1 DEF Running
    <3> QED BY <2>1, <3>1 DEF StatusTruthful
  <2>5. QuietInv'
    BY <2>1, Unobserved DEF PolicyInv, QuietInv, Typed, RestTyped
  <2> QED BY <2>3, <2>4, <2>5 DEF PolicyInv
<1> QED BY <1>2, <1>3, <1>4 DEF SessionStep

LEMMA PolicyPollStep ==
  ASSUME Typed, PolicyInv, PollStep
  PROVE  PolicyInv'
<1>0. /\ data \in Energy /\ monitor \in Monitor /\ poll \in PollState /\ poll.result \in Energy
      /\ waits \in [Callers -> Sessions \cup {None}] /\ {"poll", "unload"} \subseteq Callers
  BY DEF Typed, RestTyped, PollState, Callers
<1>1. CASE PollStart \/ PollRead \/ PollFails
  <2>1. /\ UNCHANGED <<session, task, status, waits, unload, data, monitor>>
        /\ poll'.at \in {"idle", "reading", "collecting"} /\ poll.at # "stopping"
        /\ poll.at = "idle" => unload = "no"
    <3>1. CASE PollStart
      BY <1>0, <3>1 DEF PollStart, PollState
    <3>2. CASE PollRead
      <4>1. /\ poll.at = "reading"
            /\ UNCHANGED <<session, task, status, waits, unload, data, monitor>>
        BY <3>2 DEF PollRead
      <4>2. PICK e \in Permitted : poll' = [poll EXCEPT !.at = "collecting",
                                            !.result.safe = e, !.result.age = 0]
        BY <3>2 DEF PollRead
      <4>3. poll'.at = "collecting"
        BY <1>0, <4>2 DEF PollState
      <4> QED BY <4>1, <4>3
    <3>3. CASE PollFails
      BY <1>0, <3>3 DEF PollFails, NoRefresh
    <3> QED BY <1>1, <3>1, <3>2, <3>3
  <2>2. \A s \in Sessions : /\ Live(s)' = Live(s)
                            /\ session'[s].power = session[s].power
    BY <2>1 DEF Live
  <2> QED BY <2>1, <2>2, Apart DEF PolicyInv, QuietInv
<1>2. ASSUME NEW t \in Powers \cup {None}, NEW d \in 1..MaxDuration, PollDecide(t, d)
      PROVE  PolicyInv'
  <2> DEFINE result == Observed(poll.result, monitor)
             target == IF result.clear THEN t ELSE None
  <2>1. poll.at = "collecting" /\ UNCHANGED <<monitor, unload>>
    BY <1>2 DEF PollDecide
  <2>2. unload = "done" => ~result.clear
    BY <1>0, Unobserved DEF PolicyInv, QuietInv
  <2>3. waits["poll"] = None
    BY <2>1 DEF PolicyInv, WaitingInv
  <2>4. CASE Install(result) /\ UNCHANGED <<session, told, task, stopEvent, status, waits, ahead>>
    <3>1. \A s \in Sessions : /\ Live(s)' = Live(s)
                              /\ session'[s].power = session[s].power
      BY <2>4 DEF Live
    <3>2. poll'.at = "idle" /\ data' = result
      BY <2>4 DEF Install, NoRefresh
    <3> HIDE DEF result
    <3> QED BY <2>1, <2>2, <2>4, <3>1, <3>2, Apart DEF PolicyInv, QuietInv
  <2>5. CASE /\ ~Running /\ Conclude(Held, result, target, d, waits)
             /\ UNCHANGED <<waits, ahead>>
    <3>1. Nobody
      <4>1. CASE unload \in {"no", "stopping"}
        BY <2>1, <2>5, <4>1, ControlAssumption DEF PolicyInv, SingleInv, Nobody, Running
      <4>2. CASE unload \in {"cancelling", "done"}
        BY <2>1, <4>2 DEF PolicyInv, SingleInv
      <4> QED BY <4>1, <4>2 DEF Typed, RestTyped
    <3>2. waits' = [waits EXCEPT !["poll"] = None]
      BY <1>0, <2>3, <2>5
    <3>3. CASE unload # "done"
      BY <2>1, <2>5, <3>1, <3>2, <3>3, ConcludeSingle
    <3>4. CASE unload = "done"
      <4>1. target = None
        BY <2>2, <3>4
      <4>2. Conclude([clear |-> FALSE], result, target, d, waits)
        BY <2>5, <4>1 DEF Conclude
      <4> QED BY <2>1, <3>1, <3>2, <4>2, ConcludeSingle
    <3> QED BY <3>3, <3>4
  <2>6. CASE /\ Ask("poll")
             /\ poll' = [at |-> "stopping", result |-> result, target |-> target, duration |-> d]
             /\ UNCHANGED <<session, task, stopEvent, status, data>>
    <3>1. /\ task # None /\ waits'["poll"] = task /\ waits'["unload"] = waits["unload"]
          /\ poll'.at = "stopping"
      BY <1>0, <2>6 DEF Ask
    <3>2. WaitingInv'
      BY <2>1, <2>6, <3>1 DEF PolicyInv, WaitingInv
    <3>3. SingleInv' /\ Exclusive' /\ StatusTruthful' /\ QuietInv'
      BY <2>1, <2>6, <3>1 DEF PolicyInv, SingleInv, Exclusive, StatusTruthful, QuietInv, Nobody,
         Live, Running
    <3> QED BY <3>2, <3>3 DEF PolicyInv
  <2> HIDE DEF result, target
  <2> QED BY <1>2, <2>4, <2>5, <2>6 DEF PollDecide, result, target
<1> QED BY <1>1, <1>2 DEF PollStep

LEMMA PolicyResume ==
  ASSUME PolicyOnly, Typed, PolicyInv, NEW c \in Callers, Resume(c)
  PROVE  PolicyInv'
<1>0. /\ data \in Energy /\ monitor \in Monitor
      /\ waits \in [Callers -> Sessions \cup {None}] /\ {"poll", "unload"} \subseteq Callers
      /\ unload \in {"no", "stopping", "cancelling", "done"}
      /\ task \in Sessions \cup {None}
  BY DEF Typed, OwnerTyped, RestTyped, Callers
<1>1. CASE PollStopped
  <2>1. /\ waits["poll"] # None /\ ~Live(waits["poll"])
        /\ waits' = [waits EXCEPT !["poll"] = None]
        /\ UNCHANGED <<monitor, unload>>
        /\ Conclude(Observed(data, monitor), poll.result, poll.target, poll.duration, waits')
    BY <1>1 DEF PollStopped, Answered
  <2>2. poll.at = "stopping"
    BY <2>1 DEF PolicyInv, WaitingInv
  <2>3. Nobody
    <3>1. CASE unload \in {"no", "stopping"}
      <4>1. task = waits["poll"]
        BY <2>2, <3>1 DEF PolicyInv, WaitingInv
      <4> QED BY <2>1, <2>2, <3>1, <4>1 DEF PolicyInv, SingleInv, Nobody
    <3>2. CASE unload \in {"cancelling", "done"}
      BY <2>2, <3>2 DEF PolicyInv, SingleInv
    <3> QED BY <1>0, <3>1, <3>2
  <2>4. unload = "done" => ~Observed(data, monitor).clear
    BY <1>0, Unobserved DEF PolicyInv, QuietInv
  <2>5. PICK w : w = waits'
    OBVIOUS
  <2> QED BY <2>1, <2>3, <2>4, <2>5, ConcludeSingle
<1>2. CASE UnloadStopped
  <2>1. /\ waits["unload"] # None /\ ~Live(waits["unload"])
        /\ waits' = [waits EXCEPT !["unload"] = None]
        /\ unload' = "cancelling" /\ task' = None /\ status' = None
        /\ UNCHANGED <<session, poll, monitor>>
    BY <1>2 DEF UnloadStopped, Answered, Forget
  <2>2. unload = "stopping"
    BY <2>1 DEF PolicyInv, WaitingInv
  <2>3. poll.at # "idle" => Nobody
    BY <2>1, <2>2 DEF PolicyInv, WaitingInv, SingleInv, Nobody
  <2>4. waits'["poll"] = waits["poll"] /\ waits'["unload"] = None
    BY <1>0, <2>1
  <2>5. WaitingInv'
    BY <2>1, <2>2, <2>4 DEF PolicyInv, WaitingInv
  <2>6. SingleInv' /\ Exclusive' /\ StatusTruthful' /\ QuietInv'
    BY <2>1, <2>3 DEF PolicyInv, SingleInv, Exclusive, StatusTruthful, QuietInv, Nobody, Live
  <2> QED BY <2>5, <2>6 DEF PolicyInv
<1> QED BY <1>1, <1>2 DEF Resume, PolicyOnly

LEMMA PolicyMonitorStep ==
  ASSUME Typed, PolicyInv, MonitorStep \/ ObserverCancelled
  PROVE  PolicyInv'
<1>0. data \in Energy /\ monitor \in Monitor
  BY DEF Typed, RestTyped
<1>1. UNCHANGED <<session, task, status, waits, poll>>
  BY DEF MonitorStep, ListenerOpens, Frame, ReceiveTimeout, ListenerFails, TrafficAges, Publish,
         ObserverCancelled
<1>2. \A s \in Sessions : /\ Live(s)' = Live(s)
                          /\ session'[s].power = session[s].power
  BY <1>1 DEF Live
<1>3. CASE ListenerOpens \/ (\E e \in BOOLEAN : Frame(e)) \/ ReceiveTimeout \/ ListenerFails
  <2>1. unload \in {"no", "stopping"} /\ unload' = unload
    BY <1>3 DEF ListenerOpens, Frame, ReceiveTimeout, ListenerFails, Observing
  <2> QED BY <1>1, <1>2, <2>1, Apart
<1>4. CASE TrafficAges
  <2>1. monitor'.listening = monitor.listening /\ data' = data /\ unload' = unload
    BY <1>0, <1>4 DEF TrafficAges, Monitor
  <2> QED BY <1>1, <1>2, <2>1, Apart DEF PolicyInv, QuietInv
<1>5. CASE ObserverCancelled
  <2> DEFINE closed == [monitor EXCEPT !.listening = FALSE]
  <2>0. closed \in Monitor /\ ~closed.listening
    BY <1>0 DEF Monitor
  <2>1. PICK m \in Monitor : m = closed /\ ~m.listening
    BY <2>0
  <2>2. /\ unload = "cancelling" /\ unload' = "done" /\ monitor' = m
        /\ data' = Observed(data, m)
    BY <1>5, <2>1 DEF ObserverCancelled, Publish
  <2>3. ~data'.clear
    BY <1>0, <2>1, <2>2, Unobserved
  <2>4. WaitingInv' /\ SingleInv' /\ Exclusive' /\ StatusTruthful'
    BY <1>1, <2>2 DEF PolicyInv, WaitingInv, SingleInv, Exclusive, StatusTruthful, Nobody, Live
  <2>5. QuietInv'
    BY <2>1, <2>2, <2>3 DEF QuietInv
  <2> QED BY <2>4, <2>5 DEF PolicyInv
<1> QED BY <1>3, <1>4, <1>5 DEF MonitorStep

LEMMA PolicyUnloadStart ==
  ASSUME Typed, PolicyInv, UnloadStart
  PROVE  PolicyInv'
<1>0. /\ waits \in [Callers -> Sessions \cup {None}] /\ {"poll", "unload"} \subseteq Callers
      /\ task \in Sessions \cup {None}
  BY DEF Typed, OwnerTyped, RestTyped, Callers
<1>1. unload = "no" /\ UNCHANGED <<session, monitor, poll>>
  BY DEF UnloadStart
<1>2. \A s \in Sessions : Live(s) => task = s
  BY <1>1 DEF PolicyInv, SingleInv
<1>3. CASE ~Running /\ unload' = "cancelling" /\ Forget /\ UNCHANGED waits
  <2>1. Nobody
    BY <1>2, <1>3, ControlAssumption DEF Nobody, Running
  <2> QED BY <1>1, <1>3, <2>1 DEF PolicyInv, WaitingInv, SingleInv, Exclusive, StatusTruthful,
             QuietInv, Nobody, Live, Forget, Running
<1>4. CASE /\ unload' = "stopping" /\ Ask("unload")
           /\ UNCHANGED <<task, stopEvent, status, data>>
  <2>1. /\ task # None
        /\ waits'["unload"] = task /\ waits'["poll"] = waits["poll"]
    BY <1>0, <1>4 DEF Ask
  <2>2. WaitingInv'
    BY <1>1, <1>4, <2>1 DEF PolicyInv, WaitingInv
  <2>3. SingleInv' /\ Exclusive' /\ StatusTruthful' /\ QuietInv'
    BY <1>1, <1>2, <1>4 DEF PolicyInv, SingleInv, Exclusive, StatusTruthful, QuietInv, Live,
       Running
  <2> QED BY <2>2, <2>3 DEF PolicyInv
<1> QED BY <1>3, <1>4 DEF UnloadStart

LEMMA PolicyTick ==
  ASSUME Typed, PolicyInv, Tick
  PROVE  PolicyInv'
<1>1. \A s \in Sessions : /\ Live(s)' = Live(s)
                          /\ session'[s].power = session[s].power
  BY DEF Tick, Live, Typed, OwnerTyped, SessionState
<1>2. poll'.at = poll.at
  BY DEF Tick, Typed, RestTyped, PollState
<1>3. data'.clear = data.clear
  BY OlderTyped DEF Tick, Typed, RestTyped
<1> QED BY <1>1, <1>2, <1>3, Apart DEF Tick, PolicyInv, QuietInv

LEMMA PolicyStep ==
  ASSUME PolicyOnly, Typed, PolicyInv, [Next]_vars
  PROVE  PolicyInv'
<1>1. CASE UNCHANGED vars
  BY <1>1 DEF vars, PolicyInv, WaitingInv, SingleInv, Exclusive, StatusTruthful, QuietInv,
              Nobody, Live, Running
<1>2. ASSUME NEW p, NEW d, ManualStart(p, d) PROVE FALSE
  BY <1>2 DEF PolicyOnly, ManualStart
<1>3. ASSUME NEW o \in Operators PROVE FALSE
  BY <1>3 DEF PolicyOnly
<1> QED BY <1>1, <1>2, <1>3, PolicySessionStep, PolicyPollStep, PolicyResume, PolicyMonitorStep,
           PolicyUnloadStart, PolicyTick DEF Next

-----------------------------------------------------------------------------
(* The invariant of a coordinator only the scheduled policy uses.          *)
THEOREM SingleOwner ==
  ASSUME PolicyOnly
  PROVE  Spec => [](Typed /\ PolicyInv)
<1>1. Typed /\ PolicyInv /\ [Next]_vars => (Typed /\ PolicyInv)'
  BY PolicyStep, NextTyped
<1> QED BY <1>1, InitTyped, PolicyInit, PTL DEF Spec

(* Two sessions never overlap (start_active_control, stop_active_control   *)
(* and async_unload_entry), not even around an unload.                     *)
THEOREM NeverOverlapping ==
  ASSUME PolicyOnly
  PROVE  Spec => []Exclusive
<1>1. PolicyInv => Exclusive
  BY DEF PolicyInv
<1> QED BY <1>1, SingleOwner, PTL

(* _active_control_task is the session that runs, until the unload.        *)
THEOREM AlwaysTracked ==
  ASSUME PolicyOnly
  PROVE  Spec => []Tracked
<1>1. PolicyInv => Tracked
  BY DEF PolicyInv, SingleInv, Tracked
<1> QED BY <1>1, SingleOwner, PTL

(* _active_control_power_w is the power of the session that runs.          *)
THEOREM TruthfulStatus ==
  ASSUME PolicyOnly
  PROVE  Spec => []StatusTruthful
<1>1. PolicyInv => StatusTruthful
  BY DEF PolicyInv
<1> QED BY <1>1, SingleOwner, PTL

(* No heartbeat leaves a session once the entry is gone.                   *)
THEOREM QuietUnload ==
  ASSUME PolicyOnly
  PROVE  Spec => UnloadQuiets
<1>1. ASSUME Typed, PolicyInv, [Next]_vars
      PROVE  [ unload = "done" => \A s \in Sessions : ~Commands(s) ]_vars
  <2>1. ASSUME unload = "done", NEW s \in Sessions, Commands(s) PROVE FALSE
    <3>1. Heartbeat(s)
      BY <1>1, <2>1, HeartbeatOnly
    <3>2. Live(s)
      BY <3>1 DEF Heartbeat, Live
    <3>3. ~data.clear
      BY <1>1, <2>1, <3>2 DEF PolicyInv, QuietInv, Nobody
    <3> QED BY <1>1, <2>1, <3>3, UnpermittedSilent
  <2> QED BY <2>1
<1> QED BY <1>1, SingleOwner, PTL DEF Spec, UnloadQuiets
-----------------------------------------------------------------------------
(* A refresh that waited for a session installs the permission it had      *)
(* computed before, but nobody is left by then to use it: a permission     *)
(* that the monitor would not give stands only while no session lives.     *)
Owned == monitor.listening /\ ~monitor.external

OwnedInv == data.clear => Owned \/ Nobody

(* Steps that state the permission anew, and steps that state and start    *)
(* nothing.                                                                *)
LEMMA RestatedOwned ==
  ASSUME NEW d \in Energy, NEW m \in Monitor, data' = Observed(d, m), monitor' = m
  PROVE  OwnedInv'
BY ObservedTyped DEF OwnedInv, Owned, Eligible

LEMMA KeptOwned ==
  ASSUME OwnedInv, data'.clear = data.clear,
         monitor'.listening = monitor.listening, monitor'.external = monitor.external,
         \A s \in Sessions : Live(s)' => Live(s)
  PROVE  OwnedInv'
BY DEF OwnedInv, Owned, Nobody

(* The refresh wakes up to a session that is over, and to no other.        *)
LEMMA AloneWhenStopped ==
  ASSUME Typed, PolicyInv, PollStopped
  PROVE  Nobody
<1>1. waits["poll"] # None /\ ~Live(waits["poll"])
  BY DEF PollStopped, Answered
<1>2. poll.at = "stopping" /\ unload \in {"no", "stopping", "cancelling", "done"}
  BY <1>1 DEF PolicyInv, WaitingInv, Typed, RestTyped
<1>3. CASE unload \in {"no", "stopping"}
  <2>1. task = waits["poll"]
    BY <1>2, <1>3 DEF PolicyInv, WaitingInv
  <2> QED BY <1>1, <1>2, <1>3, <2>1 DEF PolicyInv, SingleInv, Nobody
<1>4. CASE unload \in {"cancelling", "done"}
  BY <1>2, <1>4 DEF PolicyInv, SingleInv
<1> QED BY <1>2, <1>3, <1>4

LEMMA OwnedStep ==
  ASSUME PolicyOnly, Typed, PolicyInv, OwnedInv, [Next]_vars
  PROVE  OwnedInv'
<1>0. /\ data \in Energy /\ monitor \in Monitor /\ poll.result \in Energy
      /\ session \in [Sessions -> SessionState]
  BY DEF Typed, OwnerTyped, RestTyped, PollState
<1>1. ASSUME NEW s \in Sessions, SessionStep(s) PROVE OwnedInv'
  <2>1. CASE Close(s)
    BY <1>0, <2>1, RestatedOwned DEF Close
  <2>2. CASE ~Close(s)
    <3>1. monitor' = monitor /\ data' = data
      BY <1>1, <2>2 DEF SessionStep, Connect, PrepareFails, Heartbeat, Sent, RestoreEnds,
         Moves, Expire
    <3>2. \A t \in Sessions : Live(t)' => Live(t)
      BY <1>0, <1>1, <2>2 DEF SessionStep, Connect, PrepareFails, Heartbeat, Sent, RestoreEnds,
         Moves, Expire, Live, SessionState, Timed
    <3> QED BY <3>1, <3>2, KeptOwned
  <2> QED BY <2>1, <2>2
<1>2. CASE PollStopped
  <2>1. /\ monitor' = monitor
        /\ Conclude(Observed(data, monitor), poll.result, poll.target, poll.duration, waits')
    BY <1>2 DEF PollStopped
  <2>2. CASE Valid(Observed(data, monitor), poll.target)
    <3>1. Owned
      BY <1>0, <2>2, ObservedTyped DEF Valid, Eligible, Owned
    <3> QED BY <2>1, <3>1 DEF OwnedInv, Owned
  <2>3. CASE ~Valid(Observed(data, monitor), poll.target)
    <3>1. session' = session
      BY <2>1, <2>3 DEF Conclude
    <3>2. Nobody'
      BY <1>2, <3>1, AloneWhenStopped DEF Nobody, Live
    <3> QED BY <3>2 DEF OwnedInv
  <2> QED BY <2>2, <2>3
<1>3. CASE UnloadStopped
  BY <1>0, <1>3, RestatedOwned DEF UnloadStopped
<1>4. ASSUME PollStart \/ PollRead \/ PollFails PROVE OwnedInv'
  BY <1>4, KeptOwned DEF PollStart, PollRead, PollFails, Live
<1>5. ASSUME NEW t, NEW d, PollDecide(t, d) PROVE OwnedInv'
  <2>1. CASE data' = Observed(poll.result, monitor)
    BY <1>0, <1>5, <2>1, RestatedOwned DEF PollDecide
  <2>2. CASE data' # Observed(poll.result, monitor)
    <3>1. data' = data /\ session' = session /\ monitor' = monitor
      BY <1>5, <2>2 DEF PollDecide, Conclude, Install
    <3> QED BY <3>1, KeptOwned DEF Live
  <2> QED BY <2>1, <2>2
<1>6. ASSUME NEW m \in Monitor, Publish(m) PROVE OwnedInv'
  BY <1>0, <1>6, RestatedOwned DEF Publish
<1>7. ASSUME ListenerOpens PROVE OwnedInv'
  <2>1. PICK e \in BOOLEAN : Publish([monitor EXCEPT !.listening = TRUE, !.external = e])
    BY <1>7 DEF ListenerOpens
  <2>2. [monitor EXCEPT !.listening = TRUE, !.external = e] \in Monitor
    BY <1>0 DEF Monitor
  <2> QED BY <1>6, <2>1, <2>2
<1>8. ASSUME NEW e \in BOOLEAN, Frame(e) PROVE OwnedInv'
  <2>1. [monitor EXCEPT !.heard = "fresh", !.external = @ \/ e] \in Monitor
    BY <1>0 DEF Monitor
  <2> QED BY <1>6, <1>8, <2>1 DEF Frame
<1>9. ASSUME ReceiveTimeout PROVE OwnedInv'
  BY <1>0, <1>6, <1>9 DEF ReceiveTimeout
<1>10. ASSUME ListenerFails \/ ObserverCancelled PROVE OwnedInv'
  <2>1. [monitor EXCEPT !.listening = FALSE] \in Monitor
    BY <1>0 DEF Monitor
  <2> QED BY <1>6, <1>10, <2>1 DEF ListenerFails, ObserverCancelled
<1>11. ASSUME TrafficAges PROVE OwnedInv'
  BY <1>0, <1>11, KeptOwned DEF TrafficAges, Monitor, Live
<1>12. ASSUME UnloadStart PROVE OwnedInv'
  <2>1. data' \in {data, Observed(data, monitor)} /\ UNCHANGED <<monitor, session>>
    BY <1>0, <1>12, HeldTyped DEF UnloadStart
  <2> QED BY <1>0, <2>1, KeptOwned, RestatedOwned DEF Live
<1>13. ASSUME Tick PROVE OwnedInv'
  <2>1. data'.clear = data.clear
    BY <1>0, <1>13, OlderTyped DEF Tick
  <2>2. \A s \in Sessions : Live(s)' => Live(s)
    BY <1>0, <1>13 DEF Tick, Live, SessionState
  <2> QED BY <1>13, <2>1, <2>2, KeptOwned DEF Tick
<1>14. ASSUME UNCHANGED vars PROVE OwnedInv'
  BY <1>14, KeptOwned DEF vars, Live
<1>15. ASSUME NEW p, NEW d, ManualStart(p, d) PROVE FALSE
  BY <1>15 DEF PolicyOnly, ManualStart
<1>16. ASSUME NEW o \in Operators PROVE FALSE
  BY <1>16 DEF PolicyOnly
<1> QED BY <1>1, <1>2, <1>3, <1>4, <1>5, <1>7, <1>8, <1>9, <1>10, <1>11, <1>12, <1>13, <1>14,
           <1>15, <1>16 DEF Next, Resume, PollStep, MonitorStep

(* The rules, as the only owner of sessions, are stopped by an unclassified*)
(* sender at once too (_async_reconcile_active_control), whatever a late   *)
(* refresh installs.                                                       *)
THEOREM PolicyOwnership ==
  ASSUME PolicyOnly
  PROVE  Spec => OwnershipImmediate
<1>1. Init => OwnedInv
  <2>1. ASSUME Init PROVE ~data.clear
    BY <2>1 DEF Init
  <2> QED BY <2>1 DEF OwnedInv
<1>2. Typed /\ PolicyInv /\ OwnedInv /\ [Next]_vars => OwnedInv'
  BY OwnedStep
<1>3. ASSUME Typed, PolicyInv, OwnedInv, [Next]_vars
      PROVE  [ monitor.external \/ ~monitor.listening =>
                 \A s \in Sessions : ~Commands(s) ]_vars
  <2>1. ASSUME ~Owned, NEW s \in Sessions, Commands(s) PROVE FALSE
    <3>1. Heartbeat(s)
      BY <1>3, <2>1, HeartbeatOnly
    <3>2. Live(s)
      BY <3>1 DEF Heartbeat, Live
    <3>3. ~data.clear
      BY <1>3, <2>1, <3>2 DEF OwnedInv, Nobody
    <3> QED BY <1>3, <2>1, <3>3, UnpermittedSilent
  <2> QED BY <2>1 DEF Owned
<1> QED BY <1>1, <1>2, <1>3, SingleOwner, PTL DEF Spec, OwnershipImmediate
-----------------------------------------------------------------------------
(* The callers of stop_active_control that wait for one session form a     *)
(* queue: whoever is ahead of a caller waits for the same session, has     *)
(* nobody ahead that the caller has not, and of two one is ahead.          *)
AheadInv ==
  \A b, c \in Callers :
    /\ b \in ahead[c] => /\ b # c
                         /\ waits[c] # None /\ waits[b] = waits[c]
                         /\ ahead[b] \subseteq ahead[c]
    /\ b # c /\ waits[c] # None /\ waits[b] = waits[c] =>
         b \in ahead[c] \/ c \in ahead[b]

(* A caller that is suspended does not call again.                         *)
CallerInv ==
  /\ poll.at = "stopping" <=> waits["poll"] # None
  /\ unload = "no" => waits["unload"] = None

QueueInv == AheadInv /\ CallerInv

Queues ==
  /\ waits \in [Callers -> Sessions \cup {None}]
  /\ ahead \in [Callers -> SUBSET Callers]

LEMMA AskQueues ==
  ASSUME Queues, AheadInv, NEW c \in Callers, waits[c] = None, Ask(c)
  PROVE  AheadInv' /\ waits'[c] # None /\ \A b \in Callers \ {c} : waits'[b] = waits[b]
<1>1. /\ task # None
      /\ waits' = [waits EXCEPT ![c] = task]
      /\ ahead' = [ahead EXCEPT ![c] = {b \in Callers : waits[b] = task}]
  BY DEF Ask
<1>2. /\ waits'[c] = task
      /\ ahead'[c] = {b \in Callers : waits[b] = task}
      /\ \A b \in Callers : b # c => waits'[b] = waits[b] /\ ahead'[b] = ahead[b]
  BY <1>1 DEF Queues
<1>3. \A b \in Callers : c \notin ahead[b]
  BY DEF AheadInv
<1>4. ASSUME NEW a \in Callers, NEW b \in Callers
      PROVE  /\ b \in ahead'[a] => /\ b # a
                                  /\ waits'[a] # None /\ waits'[b] = waits'[a]
                                  /\ ahead'[b] \subseteq ahead'[a]
             /\ b # a /\ waits'[a] # None /\ waits'[b] = waits'[a] =>
                  b \in ahead'[a] \/ a \in ahead'[b]
  <2>1. CASE a # c /\ b # c
    BY <1>2, <2>1 DEF AheadInv
  <2>2. CASE a = c /\ b # c
    <3>1. ASSUME waits[b] = task PROVE ahead[b] \subseteq {d \in Callers : waits[d] = task}
      BY <3>1 DEF AheadInv, Queues
    <3> QED BY <1>1, <1>2, <2>2, <3>1
  <2>3. CASE a # c /\ b = c
    BY <1>2, <1>3, <2>3
  <2>4. CASE a = c /\ b = c
    BY <1>1, <1>2, <2>4
  <2> QED BY <2>1, <2>2, <2>3, <2>4
<1> QED BY <1>1, <1>2, <1>4 DEF AheadInv

LEMMA AnsweredQueues ==
  ASSUME Queues, AheadInv, NEW c \in Callers, Answered(c)
  PROVE  /\ AheadInv'
         /\ waits'[c] = None /\ \A b \in Callers \ {c} : waits'[b] = waits[b]
<1>1. /\ waits' = [waits EXCEPT ![c] = None]
      /\ ahead' = [b \in Callers |-> ahead[b] \ {c}]
      /\ ahead[c] = {}
  BY DEF Answered
<1>2. /\ waits'[c] = None /\ ahead'[c] = {}
      /\ \A b \in Callers : /\ b # c => waits'[b] = waits[b]
                            /\ ahead'[b] = ahead[b] \ {c}
  BY <1>1 DEF Queues
<1>3. ASSUME NEW a \in Callers, NEW b \in Callers
      PROVE  /\ b \in ahead'[a] => /\ b # a
                                  /\ waits'[a] # None /\ waits'[b] = waits'[a]
                                  /\ ahead'[b] \subseteq ahead'[a]
             /\ b # a /\ waits'[a] # None /\ waits'[b] = waits'[a] =>
                  b \in ahead'[a] \/ a \in ahead'[b]
  BY <1>2 DEF AheadInv
<1> QED BY <1>2, <1>3 DEF AheadInv

LEMMA QueueStep ==
  ASSUME Typed, QueueInv, [Next]_vars
  PROVE  QueueInv'
<1>0. /\ Queues /\ AheadInv /\ CallerInv
      /\ {"poll", "unload"} \subseteq Callers /\ Operators \subseteq Callers
      /\ "poll" # "unload" /\ {"poll", "unload"} \cap Operators = {}
      /\ poll \in PollState
  BY ControlAssumption DEF Typed, RestTyped, Queues, QueueInv, Callers
<1>1. ASSUME UNCHANGED <<waits, ahead>>, poll'.at = "stopping" <=> poll.at = "stopping",
             unload' = "no" => unload = "no"
      PROVE  QueueInv'
  BY <1>0, <1>1 DEF QueueInv, AheadInv, CallerInv
<1>2. ASSUME NEW p, NEW d, ManualStart(p, d) PROVE QueueInv'
  BY <1>1, <1>2 DEF ManualStart
<1>3. ASSUME NEW o \in Operators, ManualStop(o) PROVE QueueInv'
  <2>1. waits[o] = None /\ UNCHANGED <<poll, unload>>
    BY <1>3 DEF ManualStop
  <2>2. CASE Ask(o)
    <3>1. AheadInv' /\ waits'["poll"] = waits["poll"] /\ waits'["unload"] = waits["unload"]
      BY <1>0, <2>1, <2>2, AskQueues
    <3> QED BY <1>0, <2>1, <3>1 DEF QueueInv, CallerInv
  <2>3. CASE UNCHANGED <<waits, ahead>>
    BY <1>1, <2>1, <2>3
  <2> QED BY <1>3, <2>2, <2>3 DEF ManualStop
<1>4. ASSUME NEW o \in Operators, ManualStopped(o) PROVE QueueInv'
  <2>1. UNCHANGED <<poll, unload>>
    BY <1>4 DEF ManualStopped
  <2>2. AheadInv' /\ waits'["poll"] = waits["poll"] /\ waits'["unload"] = waits["unload"]
    BY <1>0, <1>4, AnsweredQueues DEF ManualStopped
  <2> QED BY <1>0, <2>1, <2>2 DEF QueueInv, CallerInv
<1>5. ASSUME UnloadStopped PROVE QueueInv'
  <2>1. poll' = poll /\ unload' = "cancelling"
    BY <1>5 DEF UnloadStopped
  <2>2. AheadInv' /\ waits'["poll"] = waits["poll"]
    BY <1>0, <1>5, AnsweredQueues DEF UnloadStopped
  <2> QED BY <1>0, <2>1, <2>2 DEF QueueInv, CallerInv
<1>6. ASSUME PollStopped PROVE QueueInv'
  <2>1. poll'.at = "idle" /\ unload' = unload
    BY <1>6 DEF PollStopped, Conclude, Install, NoRefresh
  <2>2. /\ AheadInv' /\ waits'["poll"] = None
        /\ waits'["unload"] = waits["unload"]
    BY <1>0, <1>6, AnsweredQueues DEF PollStopped
  <2> QED BY <1>0, <2>1, <2>2 DEF QueueInv, CallerInv
<1>7. ASSUME NEW s \in Sessions, SessionStep(s) PROVE QueueInv'
  BY <1>1, <1>7 DEF SessionStep, Connect, PrepareFails, Heartbeat, Sent, RestoreEnds, Moves,
     Expire, Close
<1>8. ASSUME PollStart \/ PollRead \/ PollFails PROVE QueueInv'
  <2>1. poll.at # "stopping" /\ poll'.at # "stopping"
    <3>1. CASE PollStart
      BY <1>0, <3>1 DEF PollStart, PollState
    <3>2. CASE PollRead
      <4>1. PICK e \in Permitted : poll' = [poll EXCEPT !.at = "collecting",
                                            !.result.safe = e, !.result.age = 0]
        BY <3>2 DEF PollRead
      <4> QED BY <1>0, <3>2, <4>1 DEF PollRead, PollState
    <3>3. CASE PollFails
      BY <3>3 DEF PollFails, NoRefresh
    <3> QED BY <1>8, <3>1, <3>2, <3>3
  <2> QED BY <1>1, <1>8, <2>1 DEF PollStart, PollRead, PollFails
<1>9. ASSUME NEW t, NEW d, PollDecide(t, d) PROVE QueueInv'
  <2>1. poll.at = "collecting" /\ unload' = unload /\ waits["poll"] = None
    BY <1>0, <1>9 DEF PollDecide, CallerInv
  <2>2. CASE Ask("poll") /\ poll'.at = "stopping"
    <3>1. /\ AheadInv' /\ waits'["poll"] # None
          /\ waits'["unload"] = waits["unload"]
      BY <1>0, <2>1, <2>2, AskQueues
    <3> QED BY <1>0, <2>1, <2>2, <3>1 DEF QueueInv, CallerInv
  <2>3. CASE UNCHANGED <<waits, ahead>> /\ poll'.at = "idle"
    BY <1>1, <2>1, <2>3
  <2> QED BY <1>9, <2>2, <2>3 DEF PollDecide, Conclude, Install, NoRefresh
<1>10. ASSUME MonitorStep \/ ObserverCancelled PROVE QueueInv'
  BY <1>1, <1>10 DEF MonitorStep, ListenerOpens, Frame, ReceiveTimeout, ListenerFails, TrafficAges,
     Publish, ObserverCancelled
<1>11. ASSUME UnloadStart PROVE QueueInv'
  <2>1. unload = "no" /\ poll' = poll /\ unload' # "no" /\ waits["unload"] = None
    BY <1>0, <1>11 DEF UnloadStart, CallerInv
  <2>2. CASE Ask("unload")
    <3>1. AheadInv' /\ waits'["poll"] = waits["poll"]
      BY <1>0, <2>1, <2>2, AskQueues
    <3> QED BY <1>0, <2>1, <3>1 DEF QueueInv, CallerInv
  <2>3. CASE UNCHANGED <<waits, ahead>>
    BY <1>1, <2>1, <2>3
  <2> QED BY <1>11, <2>2, <2>3 DEF UnloadStart
<1>12. ASSUME Tick PROVE QueueInv'
  <2>1. poll'.at = poll.at
    BY <1>0, <1>12 DEF Tick, PollState
  <2> QED BY <1>1, <1>12, <2>1 DEF Tick
<1>13. ASSUME UNCHANGED vars PROVE QueueInv'
  BY <1>1, <1>13 DEF vars
<1> QED BY <1>2, <1>3, <1>4, <1>5, <1>6, <1>7, <1>8, <1>9, <1>10, <1>11, <1>12, <1>13
        DEF Next, Resume, PollStep, MonitorStep

(* Whoever waits for a session, one of them is the first, and everybody    *)
(* else waits behind that one: once the session is over, somebody is       *)
(* always to be woken, and nobody waits for each other.                    *)
FirstInLine ==
  \A s \in Sessions : (\E c \in Callers : waits[c] = s) =>
    \E c \in Callers : /\ waits[c] = s
                       /\ ahead[c] = {}
                       /\ \A b \in Callers \ {c} : waits[b] = s => c \in ahead[b]

(* Some caller has no more callers ahead than any other.                   *)
LEMMA LeastSize ==
  ASSUME NEW S \in SUBSET Nat, S # {}
  PROVE  \E n \in S : \A m \in S : n <= m
<1> DEFINE R == {p \in Nat \X Nat : p[1] < p[2]}
<1>0. R = OpToRel(<, Nat)
  BY DEF OpToRel
<1>1. IsWellFoundedOn(R, Nat)
  BY <1>0, NatLessThanWellFounded
<1> HIDE DEF R
<1>2. PICK n \in S : \A m \in S : ~(<<m, n>> \in R)
  BY <1>1, WFMin
<1>3. \A m \in S : ~(m < n)
  BY <1>2 DEF R
<1> QED BY <1>3

(* The queue has a head: of the callers that wait for s, one that has the  *)
(* fewest ahead.                                                           *)
LEMMA HeadExists ==
  ASSUME IsFiniteSet(Operators), Queues, AheadInv,
         NEW s \in Sessions, NEW a \in Callers, waits[a] = s
  PROVE  \E c \in Callers : waits[c] = s /\ ahead[c] = {}
<1>1. IsFiniteSet(Callers)
  <2>1. IsFiniteSet((Operators \cup {"poll"}) \cup {"unload"})
    BY FS_AddElement
  <2>2. Callers = (Operators \cup {"poll"}) \cup {"unload"}
    BY DEF Callers
  <2> QED BY <2>1, <2>2
<1>2. \A c \in Callers : IsFiniteSet(ahead[c]) /\ Cardinality(ahead[c]) \in Nat
  BY <1>1, FS_Subset, FS_CardinalityType DEF Queues
<1> DEFINE Sizes == {Cardinality(ahead[c]) : c \in {b \in Callers : waits[b] = s}}
<1>3. Sizes \subseteq Nat /\ Cardinality(ahead[a]) \in Sizes
  BY <1>2
<1>4. PICK n \in Sizes : \A m \in Sizes : n <= m
  BY <1>3, LeastSize
<1>5. PICK c \in Callers : waits[c] = s /\ n = Cardinality(ahead[c])
  BY <1>4
<1>6. ASSUME NEW b \in ahead[c] PROVE FALSE
  <2>1. b \in Callers /\ waits[b] = s /\ ahead[b] \subseteq ahead[c] /\ b \notin ahead[b]
    BY <1>5 DEF AheadInv, Queues
  <2>2. ahead[b] # ahead[c]
    BY <2>1
  <2>3. Cardinality(ahead[b]) < Cardinality(ahead[c])
    BY <1>2, <1>5, <2>1, <2>2, FS_Subset
  <2>4. Cardinality(ahead[b]) \in Sizes
    BY <2>1
  <2> QED BY <1>2, <1>4, <1>5, <2>1, <2>3, <2>4
<1> QED BY <1>5, <1>6

(* No stop of the services, of the rules and of the unload waits for       *)
(* another one that waits for it (stop_active_control).                    *)
THEOREM NobodyStuck ==
  ASSUME IsFiniteSet(Operators)
  PROVE  Spec => []FirstInLine
<1>1. Init => Typed /\ QueueInv
  <2>1. ASSUME Init PROVE QueueInv
    <3>1. \A c \in Callers : waits[c] = None /\ ahead[c] = {}
      BY <2>1 DEF Init
    <3>2. poll.at = "idle" /\ {"poll", "unload"} \subseteq Callers
      BY <2>1 DEF Init, NoRefresh, Callers
    <3> QED BY <3>1, <3>2 DEF QueueInv, AheadInv, CallerInv
  <2> QED BY <2>1, InitTyped
<1>2. Typed /\ QueueInv /\ [Next]_vars => (Typed /\ QueueInv)'
  BY NextTyped, QueueStep
<1>3. ASSUME Typed, QueueInv PROVE FirstInLine
  <2>1. Queues /\ AheadInv
    BY <1>3 DEF Typed, RestTyped, Queues, QueueInv
  <2>2. ASSUME NEW s \in Sessions, NEW a \in Callers, waits[a] = s
        PROVE  \E c \in Callers : /\ waits[c] = s
                                  /\ ahead[c] = {}
                                  /\ \A b \in Callers \ {c} : waits[b] = s => c \in ahead[b]
    <3>1. PICK c \in Callers : waits[c] = s /\ ahead[c] = {}
      BY <2>1, <2>2, HeadExists
    <3>2. ASSUME NEW b \in Callers \ {c}, waits[b] = s PROVE c \in ahead[b]
      BY <2>1, <3>1, <3>2, ControlAssumption DEF AheadInv
    <3> QED BY <3>1, <3>2
  <2> QED BY <2>2 DEF FirstInLine
<1> QED BY <1>1, <1>2, <1>3, PTL DEF Spec
=============================================================================
