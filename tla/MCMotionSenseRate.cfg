\* The task's start, suspends and resumes, EC_RATE and the console's
\* commands in every order.
CONSTANTS
  RateData <- MCRateData
  ConsoleIntervals <- MCConsoleIntervals
  ConsoleIds <- MCConsoleIds
  MaxCmds <- MCMaxCmds
  MaxHooks <- MCMaxHooks
SPECIFICATION Spec
INVARIANT TypeOK
INVARIANT RateFollowsChipset
