SPECIFICATION Spec
CONSTANTS
  a = a
  b = b
  Tasks <- JustA
  Oversized <- None
  Listened <- None
  Backend = "clouddrive2"
  MaxRetries = 2
  MaxRecoveries = 1
  MaxSuffix = 1
  SourceErrors <- Transient
  NotifyYields = TRUE
  Limit <- Storm
INVARIANTS TypeOK CompletedIsStored
PROPERTIES ReceiptBeforeRemoval RetainedNeverTouched
CHECK_DEADLOCK FALSE
