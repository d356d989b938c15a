CONSTANTS
  StatusCap = 10
  SignalCap = 32
  MaxChecks = 0
  MaxProgress = 0
  MaxErrors = 0
  BusFails = FALSE
  Initially <- MCIdle
SPECIFICATION WatchSpec
INVARIANTS
  FlushedUntilMarker
\* OSUpdate returns, hangs or dies; the daemon settles.
CHECK_DEADLOCK FALSE
