\* Chipset hooks through two full S5 -> S0 -> S5 cycles, and host
\* requests that lightbar_sequence() must ignore.  The lightbar task may
\* block for ever in task_wait_event(-1) once the callers stop.
CONSTANTS
  HostSeqs <- MCIgnoredSeqs
  MaxHostMsgs = 2
  MaxHooks = 8
  Brightness <- MCBright
SPECIFICATION Spec
CHECK_DEADLOCK FALSE
INVARIANT TypeOK
INVARIANT LightbarTracksChipset
PROPERTY LightbarSettles
