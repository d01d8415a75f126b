CONSTANTS
  Depths = {x1}
  Liqs = {q1, q2}
  Delay = 1
  SafetyLag = 2
  Retention = 2
  LastMinute = 3
  MaxRestarts = 1
  None = None
SPECIFICATION Spec
INVARIANTS LiquidationsSummed
CHECK_DEADLOCK FALSE
