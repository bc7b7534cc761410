\* Two transactions for one bill, three pays, one restart of each process.
SPECIFICATION Spec
CONSTANTS
  Presentments = {p1, p2}
  Pays = {y1, y2, y3}
  RefNos = {b1, b2, unknown}
  Bills = {b1, b2}
  Payable = {b1}
  Faults = {{}}
  NoTxn = NoTxn
  NoRequest = NoRequest
  NoSession = NoSession
  MaxRestarts = 1
SYMMETRY HandlerSymmetry
INVARIANTS
  TypeOK
  OneReceiptPerBill
  ReceiptIsBacked
  UpdateNamesPresentedBill
  RefusalHasCause
PROPERTIES
  ImplementsLedger
\* Every request slot is used once: the run ends when all are answered.
CHECK_DEADLOCK FALSE
