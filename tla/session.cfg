SPECIFICATION Spec
CONSTANTS
  Containers = {c1, c2}
  Nothing = Nothing
  Requests <- AllRequests
  Ceiling = 2
  MaxSingle = 2
  Keep = 2
  Worlds <- EveryWorld
SYMMETRY Interchangeable
CHECK_DEADLOCK FALSE
INVARIANTS NeverOvercharged SpendExact CertificateHonest
PROPERTIES HaltContractHolds WatchingAddsNoHalt OpenedOnlyByResumeOrRetry
