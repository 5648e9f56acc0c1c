SPECIFICATION Spec
CONSTANTS
  a = a
  b = b
  Tasks <- Both
  Oversized <- JustB
  Listened <- JustB
  Backend = "openlist"
  MaxRetries = 2
  MaxRecoveries = 1
  MaxSuffix = 1
  SourceErrors <- Transient
  NotifyYields = FALSE
  Limit <- Race
INVARIANTS UniqueClaim
PROPERTIES NoForeignOverwrite
CHECK_DEADLOCK FALSE
