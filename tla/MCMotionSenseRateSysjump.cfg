\* The task started after a jump to the other image with the AP on keeps
\* the suspend interval until the next suspend and resume.
CONSTANTS
  RateData <- MCRateData
  ConsoleIntervals <- MCConsoleIntervals
  ConsoleIds <- MCConsoleIds
  MaxCmds <- MCMaxCmds
  MaxHooks <- MCMaxHooks
SPECIFICATION Spec
INVARIANT TaskRateFollowsChipset
