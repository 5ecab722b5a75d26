\* accelrange, accelres and accelrate let id ACCEL_COUNT through to the
\* accelerometer driver.
CONSTANTS
  RateData <- MCRateData
  ConsoleIntervals <- MCConsoleIntervals
  ConsoleIds <- MCConsoleIds
  MaxCmds <- MCMaxCmds
  MaxHooks <- MCMaxHooks
SPECIFICATION Spec
INVARIANT DriverGetsSensorId
