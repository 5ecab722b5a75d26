\* The charge may jump between two readings, as charge_get_percent does
\* while it is not yet valid after a jump from RO to RW.
CONSTANTS
  Threshold <- MCThreshold
  MaxStep = 100
SPECIFICATION Spec
INVARIANT LevelWithinOne
