\* A single keyboard tap while the chipset cycles S5 -> S3 -> S0 -> S3.
CONSTANTS
  HostSeqs <- MCTap
  MaxHostMsgs = 1
  MaxHooks = 3
  Brightness <- MCBright
SPECIFICATION Spec
CHECK_DEADLOCK FALSE
PROPERTY LightbarSettles
