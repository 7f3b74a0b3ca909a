--------------------------- MODULE MCControlRuntime ---------------------------
(* Small rule documents for ControlRuntime: holds and cooldowns of a few   *)
(* ticks, shorter and longer than the watchdog's timeout.                  *)
EXTENDS ControlRuntime

Rule(name, p, h, c) == [id |-> name, priority |-> p, hold |-> h, cooldown |-> c]

(* A background rule that is held for longer than the watchdog waits, one  *)
(* that outranks it and an equal of the latter.                            *)
MCRules == <<Rule("low", 1, 6, 2), Rule("high", 2, 3, 0), Rule("peer", 2, 0, 3)>>

(* Documents that show where CooldownRespected and PriorityHonoured fail:  *)
(* a cooldown that outlasts the watchdog, a preempting rule that is then   *)
(* rejected, two rules of one name.                                        *)
MCSlowRule == <<Rule("slow", 1, 0, 6)>>
MCTwoRules == <<Rule("low", 1, 2, 3), Rule("high", 2, 1, 0)>>
MCNamesakes == <<Rule("charge", 1, 3, 0), Rule("charge", 2, 0, 0)>>
=============================================================================
