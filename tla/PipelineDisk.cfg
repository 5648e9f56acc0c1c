SPECIFICATION FairSpec
CONSTANTS
  a = a
  b = b
  Tasks <- JustA
  Oversized <- None
  Listened <- None
  Backend = "clouddrive2"
  MaxRetries = 2
  MaxRecoveries = 1
  MaxSuffix = 2
  SourceErrors <- Transient
  NotifyYields = TRUE
  Limit <- OneDisk
PROPERTIES Settles
CHECK_DEADLOCK FALSE
