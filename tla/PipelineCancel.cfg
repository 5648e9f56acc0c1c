SPECIFICATION FairSpec
CONSTANTS
  a = a
  b = b
  Tasks <- JustA
  Oversized <- None
  Listened <- JustA
  Backend = "clouddrive2"
  MaxRetries = 2
  MaxRecoveries = 1
  MaxSuffix = 2
  SourceErrors <- Transient
  NotifyYields = FALSE
  Limit <- Withdrawn
INVARIANTS CancelledIsClean InFlightHasWorker
PROPERTIES HeldUntilRecover DeliversAsPromised Settles
CHECK_DEADLOCK FALSE
