\* The charge moves by at most a percent between two readings, as it does
\* while the battery charges or drains.
CONSTANTS
  Threshold <- MCThreshold
  MaxStep = 1
SPECIFICATION Spec
INVARIANT TypeOK
INVARIANT LevelWithinOne
PROPERTY NoFlicker
