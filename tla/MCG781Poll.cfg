CONSTANTS
  Raw <- MCRaw
  Data <- MCData
  MaxPolls <- MCMaxPolls
  MaxCmds <- MCMaxCmds
SPECIFICATION Spec
INVARIANT ReportedKelvin
CHECK_DEADLOCK FALSE
