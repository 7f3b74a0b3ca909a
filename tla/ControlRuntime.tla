---------------------------- MODULE ControlRuntime ----------------------------
(***************************************************************************)
(* The decision cycle of the rule engine (control/runtime.py) with its     *)
(* watchdog (control/watchdog.py) and the choice of a rule                 *)
(* (control/policy.py).  What the telemetry of a cycle says is an input:   *)
(* the set of rules whose conditions match and the set of rules whose      *)
(* intent the safety validation accepts.                                   *)
(*                                                                         *)
(* The code stores instants and compares them with the time of the cycle.  *)
(* Here each of them is the time that has passed since, or that is left    *)
(* until, the last cycle, cut off where the comparison no longer changes.  *)
(***************************************************************************)
EXTENDS Integers, Sequences

CONSTANTS
  Rules,      \* the rules in the order of the document
  Timeout,    \* the watchdog's timeout_seconds
  Gaps        \* times that may pass between two cycles

ASSUME RuntimeAssumption ==
  /\ Rules \in Seq([id : STRING, priority : Int, hold : Nat, cooldown : Nat])
  /\ Timeout \in Nat \ {0}
  /\ Gaps \subseteq Nat

VARIABLES
  held,      \* the rule of _held_intent, or NoRule
  heldFor,   \* ticks since that intent was evaluated
  cooldown,  \* ticks until _cooldown_until
  silent,    \* ticks since the watchdog was fed, or Unfed
  decision,  \* what the last cycle returned
  input,     \* what the last cycle was given
  rest,      \* ticks until the cooldown of the last accepted rule is over, as
             \* the rule document promises it (a history variable)
  spell      \* the rule last accepted afresh, with no return to normal since,
             \* and the ticks since then (a history variable)

vars == <<held, heldFor, cooldown, silent, decision, input, rest, spell>>

NoRule == 0
Unfed == -1
RuleNames == DOMAIN Rules
Decision == [rule : RuleNames \cup {NoRule}, accepted : BOOLEAN,
             reason : {"", "watchdog expired", "control is disabled",
                       "rule cooldown active", "no rule matched", "unsafe"},
             restore : BOOLEAN, held : BOOLEAN]
Input == [gap : Nat, matching : SUBSET RuleNames, safe : SUBSET RuleNames,
          enabled : BOOLEAN]

(* Mutation: the document's order decides.                                 *)
BeforeInDocument(r, q) == r < q

(* Rule r comes before rule q: higher priority, or the earlier of equals.  *)
Before(r, q) ==
  \/ Rules[r].priority > Rules[q].priority
  \/ Rules[r].priority = Rules[q].priority /\ r < q

(* evaluate_rules: the first of the matching rules in that order.          *)
Best(matching) ==
  IF matching = {} THEN NoRule
  ELSE CHOOSE r \in matching : \A q \in matching \ {r} : Before(r, q)

(* _priority_for: the priority of the first rule that bears the name.      *)
PriorityFor(r) ==
  LET same == {q \in RuleNames : Rules[q].id = Rules[r].id}
  IN  Rules[CHOOSE q \in same : \A p \in same : q <= p].priority

NoSpell == [rule |-> NoRule, ago |-> 0]

AtMost(n, limit) == IF n < limit THEN n ELSE limit
Remaining(n, gap) == IF n > gap THEN n - gap ELSE 0

-----------------------------------------------------------------------------
Init ==
  /\ held = NoRule
  /\ heldFor = 0
  /\ cooldown = 0
  /\ silent = Unfed
  /\ decision = [rule |-> NoRule, accepted |-> FALSE, reason |-> "",
                 restore |-> FALSE, held |-> FALSE]
  /\ input = [gap |-> 0, matching |-> {}, safe |-> {}, enabled |-> TRUE]
  /\ rest = 0
  /\ spell = NoSpell

(* The instants a cycle finds, seen from its own time.                     *)
Expired(i) == silent # Unfed /\ silent + i.gap >= Timeout
Holding(i) == held # NoRule /\ heldFor + i.gap < Rules[held].hold
Candidate(i) == Best(i.matching)

(* Mutation: a rule of equal priority preempts.                            *)
PreemptedByEqual(i) ==
  /\ Holding(i)
  /\ Candidate(i) # NoRule
  /\ Rules[Candidate(i)].id # Rules[held].id
  /\ PriorityFor(Candidate(i)) >= PriorityFor(held)

Preempted(i) ==
  /\ Holding(i)
  /\ Candidate(i) # NoRule
  /\ Rules[Candidate(i)].id # Rules[held].id
  /\ PriorityFor(Candidate(i)) > PriorityFor(held)

Keeping(i) == Holding(i) /\ ~Preempted(i)
Cooling(i) == ~Holding(i) /\ cooldown > i.gap

Decide(rule, accepted, reason, restore, keeping) ==
  decision' = [rule |-> rule, accepted |-> accepted, reason |-> reason,
               restore |-> restore, held |-> keeping]

(* Nothing is decided on: the time that has passed is all that changes.    *)
Wait(i, cooldownLeft) ==
  /\ held' = held
  /\ heldFor' = IF held = NoRule THEN 0
                ELSE AtMost(heldFor + i.gap, Rules[held].hold)
  /\ cooldown' = cooldownLeft
  /\ silent' = IF silent = Unfed THEN Unfed ELSE AtMost(silent + i.gap, Timeout)
  /\ rest' = Remaining(rest, i.gap)

Release(i) ==
  /\ held' = NoRule
  /\ heldFor' = 0
  /\ cooldown' = 0

(* Mutation: the watchdog is not reset.                                    *)
CycleExpiredStuck(i) ==
  /\ Expired(i)
  /\ Release(i)
  /\ silent' = silent + i.gap
  /\ rest' = IF i.enabled THEN Remaining(rest, i.gap) ELSE 0
  /\ Decide(NoRule, FALSE, "watchdog expired", TRUE, FALSE)

CycleExpired(i) ==
  /\ Expired(i)
  /\ Release(i)
  /\ silent' = Unfed
  /\ rest' = IF i.enabled THEN Remaining(rest, i.gap) ELSE 0
  /\ Decide(NoRule, FALSE, "watchdog expired", TRUE, FALSE)

CycleDisabled(i) ==
  /\ ~Expired(i)
  /\ ~i.enabled
  /\ Release(i)
  /\ silent' = IF silent = Unfed THEN Unfed ELSE AtMost(silent + i.gap, Timeout)
  /\ rest' = 0
  /\ Decide(NoRule, FALSE, "control is disabled", TRUE, FALSE)

CycleCooling(i) ==
  /\ ~Expired(i) /\ i.enabled
  /\ Cooling(i)
  /\ Wait(i, cooldown - i.gap)
  /\ Decide(NoRule, FALSE, "rule cooldown active", FALSE, FALSE)

Chosen(i) == IF Keeping(i) THEN held ELSE Candidate(i)

CycleUnmatched(i) ==
  /\ ~Expired(i) /\ i.enabled
  /\ ~Cooling(i)
  /\ Chosen(i) = NoRule
  /\ Wait(i, Remaining(cooldown, i.gap))
  /\ Decide(NoRule, FALSE, "no rule matched", FALSE, FALSE)

(* The intent does not pass validate_intent.  A preempting candidate has   *)
(* ended the cooldown by then, although the held intent stays.             *)
CycleRejected(i) ==
  /\ ~Expired(i) /\ i.enabled
  /\ ~Cooling(i)
  /\ Chosen(i) # NoRule
  /\ Chosen(i) \notin i.safe
  /\ Wait(i, IF Preempted(i) THEN 0 ELSE Remaining(cooldown, i.gap))
  /\ Decide(Chosen(i), FALSE, "unsafe", FALSE, Keeping(i))

(* Mutation: a kept intent is stamped anew.                                *)
CycleAcceptedRestamping(i) ==
  /\ ~Expired(i) /\ i.enabled
  /\ ~Cooling(i)
  /\ Chosen(i) # NoRule
  /\ Chosen(i) \in i.safe
  /\ silent' = 0
  /\ held' = IF Rules[Chosen(i)].hold > 0 THEN Chosen(i) ELSE NoRule
  /\ heldFor' = 0
  /\ cooldown' = Rules[Chosen(i)].cooldown
  /\ rest' = Rules[Chosen(i)].cooldown
  /\ Decide(Chosen(i), TRUE, "", FALSE, Keeping(i))

CycleAccepted(i) ==
  /\ ~Expired(i) /\ i.enabled
  /\ ~Cooling(i)
  /\ Chosen(i) # NoRule
  /\ Chosen(i) \in i.safe
  /\ silent' = 0
  /\ held' = IF Rules[Chosen(i)].hold > 0 THEN Chosen(i) ELSE NoRule
  /\ heldFor' = IF Keeping(i) THEN heldFor + i.gap ELSE 0
  /\ cooldown' = Rules[Chosen(i)].cooldown
  /\ rest' = Rules[Chosen(i)].cooldown
  /\ Decide(Chosen(i), TRUE, "", FALSE, Keeping(i))

(* Counted from what the cycles return, not from what the engine stores.   *)
SpellGoesOn(i) ==
  spell' = IF decision'.accepted /\ ~decision'.held
           THEN [rule |-> decision'.rule, ago |-> 0]
           ELSE IF decision'.restore \/ spell.rule = NoRule THEN NoSpell
           ELSE [spell EXCEPT !.ago = AtMost(@ + i.gap, Rules[spell.rule].hold)]

Cycle(i) ==
  /\ input' = i
  /\ \/ CycleExpired(i) \/ CycleDisabled(i) \/ CycleCooling(i)
     \/ CycleUnmatched(i) \/ CycleRejected(i) \/ CycleAccepted(i)
  /\ SpellGoesOn(i)

Next ==
  \E g \in Gaps, m \in SUBSET RuleNames, s \in SUBSET RuleNames, e \in BOOLEAN :
    Cycle([gap |-> g, matching |-> m, safe |-> s, enabled |-> e])

Spec == Init /\ [][Next]_vars

-----------------------------------------------------------------------------
TypeOK ==
  /\ held \in RuleNames \cup {NoRule}
  /\ heldFor \in Nat
  /\ cooldown \in Nat
  /\ silent \in {Unfed} \cup 0..Timeout
  /\ decision \in Decision
  /\ input \in Input
  /\ rest \in Nat
  /\ spell \in [rule : RuleNames \cup {NoRule}, ago : Nat]

(* Whatever is being held or has just ended, the accepted intent is that   *)
(* of a rule no matching rule of higher priority stands against.           *)
PriorityHonoured ==
  decision.accepted =>
    \A r \in input.matching : Rules[r].priority <= Rules[decision.rule].priority

(* From its acceptance until its hold time is over a rule gives way only   *)
(* to one of higher priority: not to an equal one, and not because the     *)
(* telemetry had it rejected or nothing matched in between (runtime.py,    *)
(* _held_intent and _priority_for).                                        *)
InSpell(i) == spell.rule # NoRule /\ spell.ago + i.gap < Rules[spell.rule].hold

HoldRespected ==
  [][ InSpell(input') /\ decision'.accepted /\ decision'.rule # spell.rule
        => Rules[decision'.rule].priority > Rules[spell.rule].priority ]_vars

(* What a cycle continues was accepted afresh less than its hold time ago, *)
(* however often it was continued since, and neither an expired watchdog   *)
(* nor a disabled control has returned the inverter to normal in between.  *)
HoldBounded ==
  decision.accepted /\ decision.held =>
    /\ spell.rule = decision.rule
    /\ spell.ago < Rules[decision.rule].hold

(* Two cycles in a row never both report an expired watchdog.              *)
ExpiryRecovers ==
  [][ decision.reason = "watchdog expired"
        => decision'.reason # "watchdog expired" ]_vars

-----------------------------------------------------------------------------
(* A promise of the rule documents the code does not keep: the cooldown of *)
(* a rule keeps every rule from being accepted afresh until it is over;    *)
(* only a higher-priority rule that preempts a held one is exempt.         *)
CooldownRespected ==
  [][ decision'.accepted /\ ~decision'.held /\ rest > input'.gap
        => Preempted(input') ]_vars
=============================================================================
