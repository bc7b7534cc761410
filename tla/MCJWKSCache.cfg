\* Three overlapping verifications, a key added or withdrawn, a set that expires.
SPECIFICATION Spec
CONSTANTS
  Calls = {c1, c2, c3}
  Kids = {k1, k2}
  Exps = {0}
  Nbfs = {0}
  TokenFlaws = {"none"}
  FirstListed = {k1}
  NoToken = NoToken
  TTL = 2
  Timeout = 1
  Leeway = 1
  MaxTime = 3
  MaxRotations = 1
SYMMETRY CallSymmetry
INVARIANTS
  TypeOK
  WithdrawnKeyDiesOut
  SettledKeyIsFound
  OutageServesLastSet
CHECK_DEADLOCK FALSE
