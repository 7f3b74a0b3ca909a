------------------------- MODULE ControlRuntimeProofs -------------------------
(***************************************************************************)
(* What the decision cycle of ControlRuntime guarantees for every rule     *)
(* document, watchdog timeout and spacing of the cycles.                   *)
(***************************************************************************)
EXTENDS ControlRuntime, SequenceTheorems, WellFoundedInduction, TLAPS

(* The documents whose rules have different names: the only condition, and *)
(* only where a held rule is found again by its name.                      *)
DistinctNames == \A r, q \in RuleNames : Rules[r].id = Rules[q].id => r = q

(* What the engine holds, and since when, is what it accepted afresh and   *)
(* when: its own stamp is never renewed, and the intent is held for as     *)
(* long as its hold time lasts.                                            *)
StampTrue ==
  /\ held # NoRule => spell.rule = held /\ spell.ago = heldFor
  /\ spell.rule # NoRule /\ spell.ago < Rules[spell.rule].hold => held = spell.rule

(* An expiry leaves the watchdog unfed.                                    *)
Consistent ==
  /\ decision.reason = "watchdog expired" => silent = Unfed
  /\ StampTrue
  /\ HoldBounded

IInv == TypeOK /\ Consistent

-----------------------------------------------------------------------------
LEMMA RuleFields ==
  /\ RuleNames \subseteq Nat \ {0}
  /\ \A r \in RuleNames : /\ Rules[r].priority \in Int
                          /\ Rules[r].hold \in Nat
                          /\ Rules[r].cooldown \in Nat
<1>1. Len(Rules) \in Nat /\ RuleNames = 1..Len(Rules)
  BY RuntimeAssumption DEF RuleNames
<1>2. \A r \in 1..Len(Rules) :
        Rules[r] \in [id : STRING, priority : Int, hold : Nat, cooldown : Nat]
  BY RuntimeAssumption, ElementOfSeq
<1> QED BY <1>1, <1>2

LEMMA SmallestElement ==
  ASSUME NEW T, T \subseteq Nat, T # {}
  PROVE  \E x \in T : \A y \in T : x <= y
<1>1. PICK x \in T : \A y \in T : ~ (<<y, x>> \in OpToRel(<, Nat))
  BY NatLessThanWellFounded, WFMin
<1>2. ASSUME NEW y \in T PROVE x <= y
  <2>1. ~ (y < x)
    BY <1>1 DEF OpToRel
  <2> QED BY <2>1
<1> QED BY <1>2

(* A document is finite, so its priorities have an upper bound: otherwise  *)
(* there would be a shortest part of it that has none.                     *)
LEMMA PrioritiesBounded ==
  \E top \in Int : \A r \in RuleNames : Rules[r].priority <= top
<1> DEFINE Bound(n, top) == \A r \in RuleNames : r <= n => Rules[r].priority <= top
           Unbounded == {n \in Nat : \A top \in Int : ~ Bound(n, top)}
<1>1. Unbounded = {}
  <2> SUFFICES ASSUME Unbounded # {} PROVE FALSE
    OBVIOUS
  <2>1. PICK n \in Unbounded : \A k \in Unbounded : n <= k
    BY SmallestElement
  <2>2. CASE n = 0
    <3>1. Bound(0, 0)
      BY RuleFields
    <3> QED BY <2>1, <2>2, <3>1
  <2>3. CASE n # 0
    <3>1. n - 1 \in Nat /\ n - 1 \notin Unbounded
      BY <2>1, <2>3
    <3>2. PICK top \in Int : Bound(n - 1, top)
      BY <3>1
    <3>3. PICK high \in Int : high >= top /\ (n \in RuleNames => high >= Rules[n].priority)
      <4>1. CASE n \in RuleNames /\ Rules[n].priority > top
        BY <4>1, RuleFields
      <4>2. CASE ~(n \in RuleNames /\ Rules[n].priority > top)
        BY <4>2, RuleFields
      <4> QED BY <4>1, <4>2
    <3>4. Bound(n, high)
      <4> SUFFICES ASSUME NEW r \in RuleNames, r <= n
                   PROVE  Rules[r].priority <= high
        OBVIOUS
      <4>1. CASE r = n
        BY <3>3, <4>1, RuleFields
      <4>2. CASE r # n
        <5>1. r <= n - 1
          BY <4>2, RuleFields, <2>1
        <5> QED BY <5>1, <3>2, <3>3, RuleFields
      <4> QED BY <4>1, <4>2
    <3> QED BY <2>1, <3>4
  <2> QED BY <2>2, <2>3
<1>2. PICK top \in Int : Bound(Len(Rules), top)
  <2>1. Len(Rules) \in Nat
    BY RuntimeAssumption
  <2> QED BY <1>1, <2>1
<1>3. \A r \in RuleNames : r <= Len(Rules)
  BY RuntimeAssumption DEF RuleNames
<1> QED BY <1>2, <1>3

(* Of the matching rules, evaluate_rules returns one no other comes before *)
(* (policy.py: descending priority, then the order of the document).       *)
LEMMA BestIsFirst ==
  ASSUME NEW matching \in SUBSET RuleNames, matching # {}
  PROVE  /\ Best(matching) \in matching
         /\ \A q \in matching \ {Best(matching)} : Before(Best(matching), q)
<1>0. PICK top \in Int : \A r \in RuleNames : Rules[r].priority <= top
  BY PrioritiesBounded
<1> DEFINE Gap(r) == top - Rules[r].priority
           Leading == {r \in matching : \A q \in matching : Gap(r) <= Gap(q)}
<1>1. \A r \in matching : Gap(r) \in Nat
  BY <1>0, RuleFields
<1>2. PICK g \in {Gap(r) : r \in matching} : \A x \in {Gap(r) : r \in matching} : g <= x
  <2>1. {Gap(r) : r \in matching} \subseteq Nat
    BY <1>1
  <2>2. {Gap(r) : r \in matching} # {}
    OBVIOUS
  <2> HIDE DEF Gap
  <2> QED BY <2>1, <2>2, SmallestElement
<1>3. Leading # {}
  BY <1>2
<1>4. PICK r \in Leading : \A q \in Leading : r <= q
  BY <1>3, SmallestElement, RuleFields
<1>5. ASSUME NEW q \in matching \ {r} PROVE Before(r, q)
  <2>1. r \in RuleNames /\ q \in RuleNames /\ r # q
    BY <1>4
  <2>2. Rules[r].priority >= Rules[q].priority
    BY <1>4, <2>1, RuleFields
  <2>3. CASE Rules[r].priority = Rules[q].priority
    <3>1. q \in Leading
      BY <1>4, <2>3
    <3>2. r <= q
      BY <1>4, <3>1
    <3>3. r < q
      BY <3>2, <2>1, RuleFields
    <3> QED BY <2>3, <3>3 DEF Before
  <2>4. CASE Rules[r].priority # Rules[q].priority
    BY <2>1, <2>2, <2>4, RuleFields DEF Before
  <2> QED BY <2>3, <2>4
<1>6. r \in matching
  BY <1>4
<1> HIDE DEF Leading, Gap
<1>7. Best(matching) = CHOOSE s \in matching : \A q \in matching \ {s} : Before(s, q)
  BY DEF Best
<1> QED BY <1>5, <1>6, <1>7

(* With distinct names, the priority looked up by name is the rule's own.  *)
LEMMA OwnPriority ==
  ASSUME DistinctNames, NEW r \in RuleNames
  PROVE  PriorityFor(r) = Rules[r].priority
<1>1. {q \in RuleNames : Rules[q].id = Rules[r].id} = {r}
  BY DEF DistinctNames
<1>2. (CHOOSE q \in {r} : \A p \in {r} : q <= p) = r
  BY RuleFields
<1> QED BY <1>1, <1>2 DEF PriorityFor

LEMMA Arithmetic ==
  ASSUME NEW n \in Nat, NEW m \in Nat
  PROVE  /\ AtMost(n, m) \in Nat
         /\ AtMost(n, m) <= m
         /\ Remaining(n, m) \in Nat
BY DEF AtMost, Remaining

-----------------------------------------------------------------------------
LEMMA InitHolds == Init => IInv
<1> SUFFICES ASSUME Init PROVE IInv
  OBVIOUS
<1>1. decision \in Decision /\ ~decision.accepted
  BY DEF Init, Decision, NoRule
<1>2. decision.reason # "watchdog expired"
  BY DEF Init
<1>3. input \in Input
  BY DEF Init, Input
<1>4. TypeOK
  BY <1>1, <1>3 DEF Init, TypeOK, NoSpell
<1>5. StampTrue /\ HoldBounded
  BY <1>1 DEF Init, NoSpell, StampTrue, HoldBounded
<1> QED BY <1>2, <1>4, <1>5 DEF IInv, Consistent

LEMMA DecidedType ==
  ASSUME NEW r \in RuleNames \cup {NoRule}, NEW a \in BOOLEAN,
         NEW w \in {"", "watchdog expired", "control is disabled",
                    "rule cooldown active", "no rule matched", "unsafe"},
         NEW b \in BOOLEAN, NEW k \in BOOLEAN, Decide(r, a, w, b, k)
  PROVE  decision' \in Decision
BY DEF Decide, Decision

LEMMA SilenceCapped ==
  ASSUME NEW i \in Input, silent \in {Unfed} \cup 0..Timeout
  PROVE  (IF silent = Unfed THEN Unfed ELSE AtMost(silent + i.gap, Timeout))
           \in {Unfed} \cup 0..Timeout
BY RuntimeAssumption DEF AtMost, Input, Unfed

(* Waiting keeps the types, whatever becomes of the cooldown.              *)
LEMMA Waiting ==
  ASSUME TypeOK, NEW i \in Input, NEW c \in Nat, Wait(i, c)
  PROVE  /\ held' \in RuleNames \cup {NoRule}
         /\ heldFor' \in Nat
         /\ cooldown' \in Nat
         /\ silent' \in {Unfed} \cup 0..Timeout
         /\ rest' \in Nat
<1>1. i.gap \in Nat /\ held \in RuleNames \cup {NoRule} /\ heldFor \in Nat /\ rest \in Nat
  BY DEF Input, TypeOK
<1>2. heldFor' \in Nat
  <2>1. CASE held = NoRule
    BY <2>1 DEF Wait
  <2>2. CASE held # NoRule
    <3>1. heldFor + i.gap \in Nat /\ Rules[held].hold \in Nat
      BY <1>1, <2>2, RuleFields
    <3> QED BY <2>2, <3>1, Arithmetic DEF Wait
  <2> QED BY <2>1, <2>2
<1>3. silent' \in {Unfed} \cup 0..Timeout
  BY SilenceCapped DEF Wait, TypeOK
<1>4. rest' \in Nat
  BY <1>1, Arithmetic DEF Wait
<1> QED BY <1>1, <1>2, <1>3, <1>4 DEF Wait

(* A cycle that returns nothing to continue: the spell ends or grows older *)
LEMMA SpellAgeing ==
  ASSUME TypeOK, NEW i \in Input, SpellGoesOn(i), ~decision'.accepted
  PROVE  /\ spell' \in [rule : RuleNames \cup {NoRule}, ago : Nat]
         /\ decision'.restore => spell' = NoSpell
         /\ ~decision'.restore => spell'.rule = spell.rule
         /\ ~decision'.restore /\ spell.rule # NoRule =>
              spell'.ago = AtMost(spell.ago + i.gap, Rules[spell.rule].hold)
<1>1. /\ i.gap \in Nat /\ spell \in [rule : RuleNames \cup {NoRule}, ago : Nat]
      /\ NoSpell \in [rule : RuleNames \cup {NoRule}, ago : Nat] /\ NoSpell.rule = NoRule
  BY DEF Input, TypeOK, NoSpell
<1>2. CASE decision'.restore \/ spell.rule = NoRule
  <2>1. spell' = NoSpell
    BY <1>2 DEF SpellGoesOn
  <2> QED BY <1>1, <1>2, <2>1
<1>3. CASE ~decision'.restore /\ spell.rule # NoRule
  <2> DEFINE n == AtMost(spell.ago + i.gap, Rules[spell.rule].hold)
  <2>1. spell' = [spell EXCEPT !.ago = n]
    BY <1>3 DEF SpellGoesOn
  <2>2. n \in Nat
    <3>1. spell.rule \in RuleNames /\ spell.ago \in Nat
      BY <1>1, <1>3
    <3>2. Rules[spell.rule].hold \in Nat
      BY <3>1, RuleFields, Zenon
    <3>3. spell.ago + i.gap \in Nat
      BY <1>1, <3>1
    <3> QED BY <3>2, <3>3, Arithmetic
  <2> HIDE DEF n
  <2>3. spell' \in [rule : RuleNames \cup {NoRule}, ago : Nat]
        /\ spell'.rule = spell.rule /\ spell'.ago = n
    BY <1>1, <2>1, <2>2
  <2> QED BY <1>3, <2>3 DEF n
<1> QED BY <1>2, <1>3

(* While the engine waits, its stamp and the spell grow older together.    *)
LEMMA WaitingStamp ==
  ASSUME TypeOK, StampTrue, NEW i \in Input, NEW c \in Nat, Wait(i, c), SpellGoesOn(i),
         ~decision'.accepted, ~decision'.restore
  PROVE  StampTrue'
<1>1. /\ held' = held /\ spell'.rule = spell.rule
      /\ held # NoRule => heldFor' = AtMost(heldFor + i.gap, Rules[held].hold)
      /\ spell.rule # NoRule => spell'.ago = AtMost(spell.ago + i.gap, Rules[spell.rule].hold)
  BY SpellAgeing DEF Wait
<1>2. ASSUME held # NoRule PROVE spell'.rule = held' /\ spell'.ago = heldFor'
  BY <1>1, <1>2 DEF StampTrue
<1>3. ASSUME spell.rule # NoRule, spell'.ago < Rules[spell.rule].hold PROVE held = spell.rule
  <2>1. /\ spell.rule \in RuleNames /\ spell.ago \in Nat /\ i.gap \in Nat
        /\ Rules[spell.rule].hold \in Nat
    BY <1>3, RuleFields DEF TypeOK, Input
  <2>2. spell.ago < Rules[spell.rule].hold
    BY <1>1, <1>3, <2>1 DEF AtMost
  <2> QED BY <1>3, <2>2 DEF StampTrue
<1> QED BY <1>1, <1>2, <1>3 DEF StampTrue

LEMMA CandidateKnown ==
  ASSUME NEW i \in Input
  PROVE  /\ Candidate(i) \in RuleNames \cup {NoRule}
         /\ Candidate(i) # NoRule => Candidate(i) \in i.matching
<1>1. i.matching \in SUBSET RuleNames
  BY DEF Input
<1>2. CASE i.matching = {}
  BY <1>2 DEF Candidate, Best
<1>3. CASE i.matching # {}
  BY <1>1, <1>3, BestIsFirst DEF Candidate
<1> QED BY <1>2, <1>3

LEMMA StepHolds ==
  ASSUME IInv, NEW i \in Input, Cycle(i)
  PROVE  IInv'
<1>1. /\ TypeOK /\ held \in RuleNames \cup {NoRule} /\ heldFor \in Nat
      /\ cooldown \in Nat /\ silent \in {Unfed} \cup 0..Timeout /\ rest \in Nat
  BY DEF IInv, TypeOK
<1>2. /\ i.gap \in Nat /\ i.matching \subseteq RuleNames
      /\ i.safe \subseteq RuleNames /\ i.enabled \in BOOLEAN
  BY DEF Input
<1>3. input' \in Input
  BY DEF Cycle
<1>4. NoRule \in RuleNames \cup {NoRule} /\ 0 \in Nat
  OBVIOUS
<1>s. SpellGoesOn(i) /\ StampTrue
  BY DEF Cycle, IInv, Consistent
<1>k. Keeping(i) \in BOOLEAN /\ (Keeping(i) => held # NoRule)
  BY DEF Keeping, Holding, Preempted
<1>5. CASE CycleExpired(i)
  <2>1. held' = NoRule /\ heldFor' = 0 /\ cooldown' = 0 /\ silent' = Unfed
    BY <1>5 DEF CycleExpired, Release
  <2>2. rest' \in Nat
    BY <1>1, <1>2, <1>5, Arithmetic DEF CycleExpired
  <2>3. Decide(NoRule, FALSE, "watchdog expired", TRUE, FALSE)
    BY <1>5 DEF CycleExpired
  <2>4. decision' \in Decision /\ ~decision'.accepted /\ decision'.restore
    BY <2>3, DecidedType DEF Decide
  <2>5. spell' \in [rule : RuleNames \cup {NoRule}, ago : Nat] /\ spell' = NoSpell
    BY <1>1, <1>s, <2>4, SpellAgeing
  <2>6. StampTrue' /\ HoldBounded'
    BY <2>1, <2>4, <2>5 DEF StampTrue, HoldBounded, NoSpell
  <2> QED BY <1>3, <2>1, <2>2, <2>4, <2>5, <2>6 DEF IInv, TypeOK, Consistent
<1>6. CASE CycleDisabled(i)
  <2>1. held' = NoRule /\ heldFor' = 0 /\ cooldown' = 0 /\ rest' = 0
    BY <1>6 DEF CycleDisabled, Release
  <2>2. silent' \in {Unfed} \cup 0..Timeout
    BY <1>1, <1>6, SilenceCapped DEF CycleDisabled
  <2>3. Decide(NoRule, FALSE, "control is disabled", TRUE, FALSE)
    BY <1>6 DEF CycleDisabled
  <2>4. /\ decision' \in Decision /\ ~decision'.accepted /\ decision'.restore
        /\ decision'.reason # "watchdog expired"
    BY <2>3, DecidedType DEF Decide
  <2>5. spell' \in [rule : RuleNames \cup {NoRule}, ago : Nat] /\ spell' = NoSpell
    BY <1>1, <1>s, <2>4, SpellAgeing
  <2>6. StampTrue' /\ HoldBounded'
    BY <2>1, <2>4, <2>5 DEF StampTrue, HoldBounded, NoSpell
  <2> QED BY <1>3, <2>1, <2>2, <2>4, <2>5, <2>6 DEF IInv, TypeOK, Consistent
<1>7. ASSUME NEW c \in Nat, Wait(i, c), decision' \in Decision,
             ~decision'.accepted, ~decision'.restore,
             decision'.reason # "watchdog expired"
      PROVE  IInv'
  <2>1. TypeOK'
    BY <1>1, <1>3, <1>7, <1>s, Waiting, SpellAgeing, Zenon DEF TypeOK
  <2>2. Consistent'
    BY <1>1, <1>7, <1>s, WaitingStamp DEF Consistent, HoldBounded
  <2> QED BY <2>1, <2>2 DEF IInv
<1>8. CASE CycleCooling(i)
  <2>1. cooldown - i.gap \in Nat
    <3>1. cooldown > i.gap
      BY <1>8, Zenon DEF CycleCooling, Cooling
    <3>2. cooldown \in Nat /\ i.gap \in Nat
      BY <1>1, <1>2, Zenon
    <3> QED BY <3>1, <3>2
  <2>2. Wait(i, cooldown - i.gap)
    BY <1>8 DEF CycleCooling
  <2>3. Decide(NoRule, FALSE, "rule cooldown active", FALSE, FALSE)
    BY <1>8 DEF CycleCooling
  <2>4. /\ decision' \in Decision /\ ~decision'.accepted /\ ~decision'.restore
        /\ decision'.reason # "watchdog expired"
    BY <2>3, DecidedType DEF Decide
  <2> QED BY <1>7, <2>1, <2>2, <2>4
<1>9. CASE CycleUnmatched(i)
  <2>1. Remaining(cooldown, i.gap) \in Nat
    BY <1>1, <1>2, Arithmetic
  <2>2. Wait(i, Remaining(cooldown, i.gap))
    BY <1>9 DEF CycleUnmatched
  <2>3. Decide(NoRule, FALSE, "no rule matched", FALSE, FALSE)
    BY <1>9 DEF CycleUnmatched
  <2>4. /\ decision' \in Decision /\ ~decision'.accepted /\ ~decision'.restore
        /\ decision'.reason # "watchdog expired"
    BY <2>3, DecidedType DEF Decide
  <2> QED BY <1>7, <2>1, <2>2, <2>4
<1>10. CASE CycleRejected(i)
  <2> DEFINE left == IF Preempted(i) THEN 0 ELSE Remaining(cooldown, i.gap)
  <2>1. left \in Nat
    BY <1>1, <1>2, Arithmetic
  <2>2. Wait(i, left)
    BY <1>10 DEF CycleRejected
  <2>3. Decide(Chosen(i), FALSE, "unsafe", FALSE, Keeping(i))
    BY <1>10 DEF CycleRejected
  <2>4. Chosen(i) \in RuleNames \cup {NoRule}
    BY <1>1, CandidateKnown DEF Chosen
  <2>5. /\ decision' \in Decision /\ ~decision'.accepted /\ ~decision'.restore
        /\ decision'.reason # "watchdog expired"
    BY <1>k, <2>3, <2>4, DecidedType DEF Decide
  <2> HIDE DEF left
  <2> QED BY <1>7, <2>1, <2>2, <2>5
<1>11. CASE CycleAccepted(i)
  <2> DEFINE r == Chosen(i)
  <2>1. r \in RuleNames /\ r # NoRule
    BY <1>2, <1>11 DEF CycleAccepted
  <2>2. /\ silent' = 0
        /\ held' = IF Rules[r].hold > 0 THEN r ELSE NoRule
        /\ heldFor' = IF Keeping(i) THEN heldFor + i.gap ELSE 0
        /\ cooldown' = Rules[r].cooldown
        /\ rest' = Rules[r].cooldown
        /\ Decide(r, TRUE, "", FALSE, Keeping(i))
    BY <1>11 DEF CycleAccepted
  <2>3. Keeping(i) => r = held /\ heldFor + i.gap < Rules[held].hold
    BY DEF Chosen, Keeping, Holding
  <2> HIDE DEF r
  <2>4. decision' \in Decision
    BY <1>k, <2>1, <2>2, DecidedType
  <2>5. /\ decision'.rule = r /\ decision'.reason = ""
        /\ decision'.held = Keeping(i)
    BY <2>2 DEF Decide
  <2>6. silent' \in {Unfed} \cup 0..Timeout
    <3>1. 0 \in 0..Timeout
      BY RuntimeAssumption
    <3> QED BY <2>2, <3>1
  <2>7. cooldown' \in Nat /\ rest' \in Nat /\ heldFor' \in Nat
    <3>1. Rules[r].cooldown \in Nat
      BY <2>1, RuleFields
    <3>2. heldFor + i.gap \in Nat
      BY <1>1, <1>2
    <3> QED BY <2>2, <3>1, <3>2, Zenon
  <2>8. held' \in RuleNames \cup {NoRule}
    BY <2>1, <2>2
  <2>9. Keeping(i) =>
          /\ spell'.rule = spell.rule
          /\ spell'.ago = AtMost(spell.ago + i.gap, Rules[spell.rule].hold)
          /\ spell.rule = r /\ spell.ago = heldFor
    <3> SUFFICES ASSUME Keeping(i) PROVE
          /\ spell'.rule = spell.rule
          /\ spell'.ago = AtMost(spell.ago + i.gap, Rules[spell.rule].hold)
          /\ spell.rule = r /\ spell.ago = heldFor
      OBVIOUS
    <3>1. spell.rule = r /\ spell.ago = heldFor /\ spell.rule # NoRule
      BY <1>k, <1>s, <2>3 DEF StampTrue
    <3>2. decision'.held /\ ~decision'.restore
      BY <2>2 DEF Decide
    <3>3. spell' = [spell EXCEPT !.ago = AtMost(@ + i.gap, Rules[spell.rule].hold)]
      BY <1>s, <3>1, <3>2 DEF SpellGoesOn
    <3> QED BY <1>1, <3>1, <3>3 DEF TypeOK
  <2>10. ~Keeping(i) => spell' = [rule |-> r, ago |-> 0]
    <3>1. decision'.accepted /\ decision'.held = Keeping(i) /\ decision'.rule = r
      BY <2>2 DEF Decide
    <3> QED BY <1>s, <3>1 DEF SpellGoesOn
  <2>11. Keeping(i) => spell'.rule = r /\ spell'.ago = heldFor'
                       /\ spell'.ago < Rules[r].hold
    <3> SUFFICES ASSUME Keeping(i)
                 PROVE  spell'.rule = r /\ spell'.ago = heldFor' /\ spell'.ago < Rules[r].hold
      OBVIOUS
    <3>1. heldFor + i.gap < Rules[r].hold /\ heldFor' = heldFor + i.gap
      BY <2>2, <2>3
    <3> QED BY <2>9, <3>1 DEF AtMost
  <2>12. spell' \in [rule : RuleNames \cup {NoRule}, ago : Nat]
    <3>1. CASE Keeping(i)
      <4>1. spell' = [spell EXCEPT !.ago = spell'.ago]
        BY <1>1, <1>s, <1>k, <2>2, <2>3, <3>1 DEF SpellGoesOn, StampTrue, Decide, TypeOK
      <4>2. spell'.ago \in Nat
        BY <2>7, <2>11, <3>1
      <4> QED BY <1>1, <4>1, <4>2 DEF TypeOK
    <3>2. CASE ~Keeping(i)
      BY <2>1, <2>10, <3>2
    <3> QED BY <3>1, <3>2
  <2>13. TypeOK'
    BY <1>3, <2>4, <2>6, <2>7, <2>8, <2>12 DEF TypeOK
  <2>14. HoldBounded'
    BY <2>5, <2>11 DEF HoldBounded
  <2>15. StampTrue'
    <3>1. Rules[r].hold \in Nat
      BY <2>1, RuleFields
    <3>2. spell'.rule = r /\ spell'.ago = heldFor'
      <4>1. CASE Keeping(i)
        BY <2>11, <4>1
      <4>2. CASE ~Keeping(i)
        <5>1. heldFor' = 0
          BY <2>2, <4>2
        <5> QED BY <2>10, <4>2, <5>1
      <4> QED BY <4>1, <4>2
    <3>3. spell'.ago < Rules[r].hold => held' = r
      <4>1. ASSUME spell'.ago < Rules[r].hold PROVE Rules[r].hold > 0
        BY <2>7, <3>1, <3>2, <4>1
      <4> QED BY <2>2, <4>1
    <3> QED BY <2>2, <3>2, <3>3 DEF StampTrue
  <2> QED BY <2>5, <2>13, <2>14, <2>15 DEF IInv, Consistent
<1> QED BY <1>5, <1>6, <1>8, <1>9, <1>10, <1>11 DEF Cycle

LEMMA StutterHolds == IInv /\ UNCHANGED vars => IInv'
BY DEF vars, IInv, TypeOK, Consistent, StampTrue, HoldBounded

LEMMA NextIsCycle ==
  ASSUME Next
  PROVE  \E i \in Input : Cycle(i)
<1>1. PICK g \in Gaps, m \in SUBSET RuleNames, s \in SUBSET RuleNames, e \in BOOLEAN :
        Cycle([gap |-> g, matching |-> m, safe |-> s, enabled |-> e])
  BY DEF Next
<1>2. [gap |-> g, matching |-> m, safe |-> s, enabled |-> e] \in Input
  BY RuntimeAssumption DEF Input
<1> QED BY <1>1, <1>2

(* Every behaviour of the decision cycle keeps the invariant.              *)
THEOREM Cycles == Spec => []IInv
<1>1. Init => IInv
  BY InitHolds
<1>2. IInv /\ [Next]_vars => IInv'
  BY StepHolds, StutterHolds, NextIsCycle
<1> QED BY <1>1, <1>2, PTL DEF Spec

(* What a cycle continues was accepted afresh less than its hold time ago, *)
(* with no return to normal since (runtime.py: evaluated_at is kept while  *)
(* the intent is held, and an expiry or a disabled control drops both).    *)
THEOREM BoundedHold == Spec => []HoldBounded
<1>1. IInv => HoldBounded
  BY DEF IInv, Consistent
<1> QED BY <1>1, Cycles, PTL

-----------------------------------------------------------------------------
(* The watchdog is reset when it expires: the cycle after that decides.    *)
LEMMA Recovering ==
  ASSUME IInv, NEW i \in Input, Cycle(i), decision.reason = "watchdog expired"
  PROVE  decision'.reason # "watchdog expired"
<1>1. ~Expired(i)
  BY DEF IInv, Consistent, Expired
<1>2. CASE CycleDisabled(i)
  BY <1>2 DEF CycleDisabled, Decide
<1>3. CASE CycleCooling(i)
  BY <1>3 DEF CycleCooling, Decide
<1>4. CASE CycleUnmatched(i)
  BY <1>4 DEF CycleUnmatched, Decide
<1>5. CASE CycleRejected(i)
  BY <1>5 DEF CycleRejected, Decide
<1>6. CASE CycleAccepted(i)
  BY <1>6 DEF CycleAccepted, Decide
<1> QED BY <1>1, <1>2, <1>3, <1>4, <1>5, <1>6 DEF Cycle, CycleExpired

(* No two cycles in a row report an expired watchdog.                      *)
THEOREM Recovery == Spec => ExpiryRecovers
<1>1. ASSUME IInv, [Next]_vars
      PROVE  [ decision.reason = "watchdog expired"
                 => decision'.reason # "watchdog expired" ]_vars
  <2>1. CASE UNCHANGED vars
    BY <2>1
  <2>2. CASE Next
    BY <1>1, <2>2, NextIsCycle, Recovering
  <2> QED BY <1>1, <2>1, <2>2
<1> QED BY <1>1, Cycles, PTL DEF Spec, ExpiryRecovers

LEMMA Refused ==
  ASSUME NEW r, NEW w, NEW b, NEW k, Decide(r, FALSE, w, b, k)
  PROVE  ~decision'.accepted
BY DEF Decide

(* What a cycle accepts, and whether it continues the held intent.         *)
LEMMA Accepting ==
  ASSUME NEW i \in Input, Cycle(i), decision'.accepted
  PROVE  /\ input' = i
         /\ Chosen(i) \in RuleNames
         /\ Chosen(i) # NoRule
         /\ decision'.rule = Chosen(i)
<1>1. CycleAccepted(i)
  BY Refused, Zenon DEF Cycle, CycleExpired, CycleDisabled, CycleCooling,
                        CycleUnmatched, CycleRejected
<1>2. decision'.rule = Chosen(i)
  BY <1>1 DEF CycleAccepted, Decide
<1> QED BY <1>1, <1>2 DEF Cycle, CycleAccepted, Input

(* Where no two rules share a name, a rule that was accepted afresh gives  *)
(* way within its hold time only to a rule of strictly higher priority     *)
(* (runtime.py, _priority_for).                                            *)
THEOREM RespectedHold ==
  ASSUME DistinctNames
  PROVE  Spec => HoldRespected
<1>1. ASSUME IInv, NEW i \in Input, Cycle(i), InSpell(input'),
             decision'.accepted, decision'.rule # spell.rule
      PROVE  Rules[decision'.rule].priority > Rules[spell.rule].priority
  <2>1. /\ input' = i /\ decision'.rule = Chosen(i) /\ Chosen(i) \in RuleNames
    BY <1>1, Accepting
  <2>2. spell.rule \in RuleNames /\ held = spell.rule /\ spell.ago = heldFor /\ held # NoRule
    <3>1. /\ spell.rule # NoRule /\ spell.ago + i.gap < Rules[spell.rule].hold
          /\ spell.rule \in RuleNames /\ spell.ago \in Nat /\ i.gap \in Nat
      BY <1>1, <2>1 DEF InSpell, IInv, TypeOK, Input
    <3>2. Rules[spell.rule].hold \in Nat
      BY <3>1, RuleFields
    <3>3. spell.ago < Rules[spell.rule].hold
      BY <3>1, <3>2
    <3> QED BY <1>1, <3>1, <3>3 DEF IInv, Consistent, StampTrue
  <2>3. Holding(i)
    BY <1>1, <2>1, <2>2 DEF InSpell, Holding
  <2>4. ~Keeping(i) /\ Chosen(i) = Candidate(i)
    BY <1>1, <2>1, <2>2 DEF Chosen
  <2>5. Preempted(i)
    BY <2>3, <2>4 DEF Keeping
  <2>6. PriorityFor(Candidate(i)) > PriorityFor(held)
    BY <2>5 DEF Preempted
  <2> QED BY <2>1, <2>2, <2>4, <2>6, OwnPriority
<1>2. ASSUME IInv, [Next]_vars
      PROVE  [ InSpell(input') /\ decision'.accepted /\ decision'.rule # spell.rule
                 => Rules[decision'.rule].priority > Rules[spell.rule].priority ]_vars
  <2>1. CASE UNCHANGED vars
    BY <2>1
  <2>2. CASE Next
    BY <1>1, <1>2, <2>2, NextIsCycle
  <2> QED BY <1>2, <2>1, <2>2
<1> QED BY <1>2, Cycles, PTL DEF Spec, HoldRespected

(* No matching rule outranks the one evaluate_rules returns.               *)
LEMMA BestOutranks ==
  ASSUME NEW matching \in SUBSET RuleNames, NEW q \in matching
  PROVE  /\ Best(matching) \in matching
         /\ Rules[q].priority <= Rules[Best(matching)].priority
<1>1. /\ Best(matching) \in matching
      /\ \A p \in matching \ {Best(matching)} : Before(Best(matching), p)
  BY BestIsFirst
<1>2. CASE q = Best(matching)
  BY <1>1, <1>2, RuleFields
<1>3. CASE q # Best(matching)
  <2>1. Before(Best(matching), q)
    BY <1>1, <1>3
  <2>2. Rules[q].priority \in Int /\ Rules[Best(matching)].priority \in Int
    BY <1>1, RuleFields
  <2>3. \/ Rules[Best(matching)].priority > Rules[q].priority
        \/ Rules[Best(matching)].priority = Rules[q].priority
    BY <2>1 DEF Before
  <2> QED BY <1>1, <2>2, <2>3
<1> QED BY <1>2, <1>3

(* Where no two rules share a name, no matching rule of higher priority    *)
(* stands against an accepted intent, be it new or held (runtime.py, the   *)
(* re-evaluation while holding).                                           *)
THEOREM HonouredPriority ==
  ASSUME DistinctNames
  PROVE  Spec => []PriorityHonoured
<1>1. Init => PriorityHonoured
  <2> SUFFICES ASSUME Init PROVE ~decision.accepted
    BY DEF PriorityHonoured
  <2> QED BY DEF Init
<1>2. ASSUME IInv, NEW i \in Input, Cycle(i), decision'.accepted,
             NEW q \in input'.matching
      PROVE  Rules[q].priority <= Rules[decision'.rule].priority
  <2>1. /\ input' = i /\ decision'.rule = Chosen(i) /\ Chosen(i) \in RuleNames
    BY <1>2, Accepting
  <2>2. i.matching \in SUBSET RuleNames /\ q \in i.matching
    BY <1>2, <2>1 DEF Input
  <2> DEFINE c == Candidate(i)
  <2>3. c \in RuleNames /\ Rules[q].priority <= Rules[c].priority
    BY <2>2, BestOutranks DEF Candidate
  <2>4. CASE ~Keeping(i)
    BY <2>1, <2>3, <2>4 DEF Chosen
  <2>5. CASE Keeping(i)
    <3>1. Chosen(i) = held /\ Holding(i) /\ ~Preempted(i)
      BY <2>5 DEF Chosen, Keeping
    <3>2. held \in RuleNames
      BY <2>1, <3>1
    <3>3. c # NoRule
      BY <2>3, RuleFields DEF NoRule
    <3>4. Rules[c].id = Rules[held].id \/ ~(PriorityFor(c) > PriorityFor(held))
      BY <3>1, <3>3 DEF Preempted
    <3>5. CASE Rules[c].id = Rules[held].id
      <4>1. c = held
        BY <2>3, <3>2, <3>5 DEF DistinctNames
      <4> QED BY <2>1, <2>3, <3>1, <4>1
    <3>6. CASE ~(PriorityFor(c) > PriorityFor(held))
      <4> HIDE DEF c
      <4>1. Rules[c].priority <= Rules[held].priority
        BY <2>3, <3>2, <3>6, OwnPriority, RuleFields
      <4>2. /\ Rules[q].priority \in Int /\ Rules[c].priority \in Int
            /\ Rules[held].priority \in Int
        BY <2>2, <2>3, <3>2, RuleFields
      <4>3. decision'.rule = held
        BY <2>1, <3>1
      <4> QED BY <2>3, <4>1, <4>2, <4>3
    <3> QED BY <3>4, <3>5, <3>6
  <2> QED BY <2>4, <2>5
<1>3. IInv /\ PriorityHonoured /\ [Next]_vars => PriorityHonoured'
  <2> SUFFICES ASSUME IInv, PriorityHonoured, [Next]_vars PROVE PriorityHonoured'
    OBVIOUS
  <2>1. CASE UNCHANGED vars
    BY <2>1 DEF vars, PriorityHonoured
  <2>2. CASE Next
    <3>1. PICK i \in Input : Cycle(i)
      BY <2>2, NextIsCycle
    <3> QED BY <1>2, <3>1 DEF PriorityHonoured
  <2> QED BY <2>1, <2>2
<1> QED BY <1>1, <1>3, Cycles, PTL DEF Spec
-----------------------------------------------------------------------------
(* Every variable keeps its type, whatever cycles follow each other.        *)
THEOREM TypeCorrect == Spec => []TypeOK
<1>1. IInv => TypeOK
  BY DEF IInv
<1> QED BY <1>1, Cycles, PTL
=============================================================================
