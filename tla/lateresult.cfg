SPECIFICATION Spec
CONSTANTS
  WatchdogDelay = 6
  ConfirmDelay = 2
  PostTimeout = 3
  MaxExecution = 12
  MaxFaults = 0
  Faults = {"loss", "late", "bad"}
  ObservationDelay = 12
  StableDuration = 2
  MaxReportGap = 2
  ConfirmationTimeout = 16
  MaxAttempts = 2
INVARIANTS
  SuccessBeyondWindow
