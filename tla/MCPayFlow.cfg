\* Two look-ups and two pays of one bill, one service or none selected.
SPECIFICATION FairSpec
CONSTANTS
  LookUps = {l1, l2}
  Pays = {y1, y2}
  RefNos = {b1}
  Bills = {b1}
  Payable = {b1}
  NoRef = NoRef
  NoTxn = NoTxn
  Services = {s1}
  NoService = NoService
  Nothing = Nothing
INVARIANTS
  TypeOK
  PaidIsFinal
  OneAtATime
  ShownBelongsTogether
PROPERTIES
  BusyEnds
\* Every request slot is used once.
CHECK_DEADLOCK FALSE
