CONSTANTS
  StatusCap = 3
  SignalCap = 1
  MaxChecks = 1
  MaxProgress = 1
  MaxErrors = 1
  BusFails = TRUE
  Initially <- MCBusy
SPECIFICATION WatchSpec
INVARIANTS
  WatchTypeOK
  RebootVerdictTrue
  IdleVerdictTrue
  NoVerdictMissed
  StuckOnlyForRoom
  ClientOutlivesReceiver
\* OSUpdate returns, hangs or dies; the daemon settles.
CHECK_DEADLOCK FALSE
