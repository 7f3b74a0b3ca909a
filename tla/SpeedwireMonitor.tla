--------------------------- MODULE SpeedwireMonitor ---------------------------
(***************************************************************************)
(* The passive observation that grants and revokes the permission to       *)
(* control: the ExternalControllerMonitor (sma_speedwire/ownership.py),    *)
(* the multicast listener (sma_speedwire/listener.py) and the task of the  *)
(* coordinator that runs them and publishes what they say                  *)
(* (coordinator.py, _observe_speedwire).  The refreshes, which read the    *)
(* same monitor, and the sessions, which depend on the permission, are in  *)
(* ActiveControl; there the listener is reduced to what they need of it.   *)
(***************************************************************************)
EXTENDS Integers

CONSTANTS
  Hosts,          \* addresses that may send Speedwire frames
  Host,           \* the inverter's configured host: a name, or one of Hosts
  Resolutions,    \* what resolving that host may yield
  TelemetryOnly,  \* senders the operator has classified as harmless
  Confirmed,      \* control ownership is confirmed in the options
  MaxAge,         \* ticks received traffic counts as fresh
  ReceiveTimeout  \* ticks receive waits for a frame

ASSUME MonitorAssumption ==
  /\ Resolutions \subseteq SUBSET Hosts
  /\ TelemetryOnly \subseteq Hosts
  /\ Confirmed \in BOOLEAN
  /\ MaxAge \in Nat
  /\ ReceiveTimeout \in Nat \ {0}

VARIABLES
  at,         \* where the observing task is suspended
  addresses,  \* inverter_addresses
  observed,   \* observed_sources
  listening,  \* the flag of the same name
  age,        \* ticks since last_received_at, or Never
  quiet,      \* ticks the current receive has been waiting
  published   \* what self.data says: observation state and permission

vars == <<at, addresses, observed, listening, age, quiet, published>>

Never == -1
States == {"offline", "unknown", "stale", "online"}

-----------------------------------------------------------------------------
External(seen, own) == seen \ (own \cup {Host})

(* observation_state; all of the monitor's operators take its fields.      *)
ObservationState(on, since) ==
  IF ~on THEN "offline"
  ELSE IF since = Never THEN "unknown"
  ELSE IF since > MaxAge THEN "stale" ELSE "online"

(* Mutation: a classified sender excuses the others.                       *)
EligibleLax(on, since, seen, own) ==
  /\ Confirmed
  /\ ObservationState(on, since) = "online"
  /\ \/ External(seen, own) = {}
     \/ External(seen, own) \cap TelemetryOnly # {}

Eligible(on, since, seen, own) ==
  /\ Confirmed
  /\ ObservationState(on, since) = "online"
  /\ External(seen, own) \subseteq TelemetryOnly

Init ==
  /\ at = "resolving"
  /\ addresses = {}
  /\ observed = {}
  /\ listening = FALSE
  /\ age = Never
  /\ quiet = 0
  /\ published = [state |-> "offline", clear |-> FALSE]

(* _publish_observation, with the monitor as it is after the step.         *)
Publish ==
  published' = [state |-> ObservationState(listening', age'),
                clear |-> Eligible(listening', age', observed', addresses')]

(* An OSError: the listener, if it was open, is closed, and the task goes  *)
(* to sleep.                                                               *)
GiveUp ==
  /\ at' = "sleeping"
  /\ listening' = FALSE
  /\ quiet' = 0
  /\ Publish

Resolved ==
  /\ at = "resolving"
  /\ addresses' \in Resolutions
  /\ UNCHANGED <<observed, age>>
  /\ \/ /\ at' = "receiving"
        /\ listening' = TRUE
        /\ quiet' = 0
        /\ Publish
     \/ GiveUp

ResolveFails ==
  /\ at = "resolving"
  /\ UNCHANGED <<addresses, observed, age>>
  /\ GiveUp

Receive(h) ==
  /\ at = "receiving"
  /\ observed' = observed \cup {h}
  /\ age' = 0
  /\ quiet' = 0
  /\ UNCHANGED <<at, addresses, listening>>
  /\ Publish

(* Mutation: a receive that timed out is just repeated.                    *)
ReceiveTimesOutQuietly ==
  /\ at = "receiving"
  /\ quiet = ReceiveTimeout
  /\ quiet' = 0
  /\ UNCHANGED <<at, addresses, observed, listening, age, published>>

ReceiveTimesOut ==
  /\ at = "receiving"
  /\ quiet = ReceiveTimeout
  /\ quiet' = 0
  /\ UNCHANGED <<at, addresses, observed, listening, age>>
  /\ Publish

ReceiveFails ==
  /\ at = "receiving"
  /\ UNCHANGED <<addresses, observed, age>>
  /\ GiveUp

Wake ==
  /\ at = "sleeping"
  /\ at' = "resolving"
  /\ UNCHANGED <<addresses, observed, listening, age, quiet, published>>

(* Unload cancels the task, whose finally block publishes once more.       *)
Cancel ==
  /\ at # "over"
  /\ at' = "over"
  /\ listening' = FALSE
  /\ UNCHANGED <<addresses, observed, age, quiet>>
  /\ Publish

(* The age of the traffic, counted until nothing depends on it any more.   *)
Horizon == MaxAge + ReceiveTimeout + 1
Older == IF age = Never \/ age = Horizon THEN age ELSE age + 1

(* Mutation: a frame is awaited without a timeout.                         *)
TickUntimed ==
  /\ quiet' = IF at = "receiving" THEN quiet + 1 ELSE quiet
  /\ age' = Older
  /\ UNCHANGED <<at, addresses, observed, listening, published>>

Tick ==
  /\ at = "receiving" => quiet < ReceiveTimeout
  /\ quiet' = IF at = "receiving" THEN quiet + 1 ELSE quiet
  /\ age' = Older
  /\ UNCHANGED <<at, addresses, observed, listening, published>>

Next ==
  \/ Resolved \/ ResolveFails
  \/ \E h \in Hosts : Receive(h)
  \/ ReceiveTimesOut \/ ReceiveFails
  \/ Wake \/ Cancel \/ Tick

Spec == Init /\ [][Next]_vars

-----------------------------------------------------------------------------
TypeOK ==
  /\ at \in {"resolving", "receiving", "sleeping", "over"}
  /\ addresses \subseteq Hosts
  /\ observed \subseteq Hosts
  /\ listening \in BOOLEAN
  /\ age \in Never..Horizon
  /\ quiet \in 0..ReceiveTimeout
  /\ published \in [state : States, clear : BOOLEAN]

Strangers == External(observed, addresses) \ TelemetryOnly

(* The published permission is never older than what justifies it: traffic *)
(* was heard at most its maximum age and one receive timeout ago, although *)
(* nothing is sent when it expires.                                        *)
PermissionFresh ==
  published.clear => age # Never /\ age <= MaxAge + ReceiveTimeout

(* No permission is left standing while an unclassified sender is known or *)
(* while nobody listens, through failures, retries and the unload.         *)
PermissionEarned ==
  published.clear => Confirmed /\ at = "receiving" /\ Strangers = {}

(* What the coordinator relies on: the permission is stated anew whenever  *)
(* anything but time has changed, and a stranger, once heard, stands       *)
(* against it for as long as that listener is open.  Without a listener    *)
(* nobody looks at who is a stranger, although a resolution whose socket   *)
(* does not open may change it.                                            *)
Watch == INSTANCE SpeedwireWatch WITH
  heard <- IF age = Never THEN "never"
           ELSE IF age <= MaxAge THEN "fresh" ELSE "old",
  external <- listening /\ Strangers # {},
  clear <- published.clear

KeepsWatch == Watch!Spec

-----------------------------------------------------------------------------
(* A promise of ownership_eligible the code does not keep: possible        *)
(* competitors stay latched for the lifetime of the monitor, whatever the  *)
(* inverter's host resolves to.                                            *)
StrangersLatched == [][ Strangers # {} => Strangers' # {} ]_vars
=============================================================================
