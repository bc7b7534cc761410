\* Termination of the handlers, with a GO that may never answer.
SPECIFICATION FairSpec
CONSTANTS
  Presentments = {p1}
  Pays = {y1, y2}
  RefNos = {b1, unknown}
  Bills = {b1}
  Payable = {b1}
  Faults = {{}, {"bearer"}}
  NoTxn = NoTxn
  NoRequest = NoRequest
  NoSession = NoSession
  MaxRestarts = 1
PROPERTIES
  EveryRequestAnswered
\* Every request slot is used once: the run ends when all are answered.
CHECK_DEADLOCK FALSE
