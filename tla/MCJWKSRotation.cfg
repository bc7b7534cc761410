\* Two overlapping fetches and a key the IDP adds.
SPECIFICATION Spec
CONSTANTS
  Calls = {c1, c2}
  Kids = {k1, k2}
  Exps = {0}
  Nbfs = {0}
  TokenFlaws = {"none"}
  NoToken = NoToken
  FirstListed = {k1}
  TTL = 2
  Timeout = 1
  Leeway = 1
  MaxTime = 2
  MaxRotations = 1
INVARIANTS
  NewKeyIsFound
CHECK_DEADLOCK FALSE
