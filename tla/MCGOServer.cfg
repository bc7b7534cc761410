\* Three handlers in flight for two bills and an unknown refNo; one restart.
SPECIFICATION FairSpec
CONSTANTS
  Calls = {c1, c2, c3}
  RefNos = {b1, b2, unknown}
  Bills = {b1, b2}
  Faults = {{}, {"bearer"}}
  NoRequest = NoRequest
  MaxRestarts = 1
INVARIANTS
  TypeOK
  AtMostOnePayment
  PaidIffMarked
  ConflictHasCause
  NoApprovalAfterConfirmation
  OnlyCheckedReachStore
PROPERTIES
  ImplementsAtomicGO
  EveryCallEnds
\* Every call slot is used once: the run ends when all are answered.
CHECK_DEADLOCK FALSE
