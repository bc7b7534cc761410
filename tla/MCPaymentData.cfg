SPECIFICATION Spec
CONSTANTS
  BlockSize = 2
  Malformed = Malformed
  Texts <- MCTexts
  Number <- MCNumber
  AmountText <- MCAmountText
  Bills <- MCBills
  MaxObjects = 2
INVARIANTS
  TypeOK
  EchoIsExact
  BillIsNamed
  AmountIsTheOneEchoed
  NumbersGrow
CHECK_DEADLOCK FALSE
