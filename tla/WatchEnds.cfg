CONSTANTS
  StatusCap = 10
  SignalCap = 32
  MaxChecks = 0
  MaxProgress = 0
  MaxErrors = 1
  BusFails = TRUE
  Initially <- MCIdle
SPECIFICATION WatchSpec
PROPERTIES
  StepsRunOut
  WatchEnds
\* OSUpdate returns, hangs or dies; the daemon settles.
CHECK_DEADLOCK FALSE
