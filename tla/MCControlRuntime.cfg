SPECIFICATION Spec
CONSTANTS
  Rules <- MCRules
  Timeout = 4
  Gaps = {1, 2, 5}
INVARIANT TypeOK
INVARIANT PriorityHonoured
INVARIANT HoldBounded
PROPERTY HoldRespected
