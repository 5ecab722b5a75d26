\* Demo mode is turned on, its up/down keys set the level, and the real
\* charge has moved meanwhile: LevelNear fails once demo mode is off.
CONSTANTS
  Threshold <- MCThreshold
  MaxStep = 1
SPECIFICATION Spec
INVARIANT LevelNear
