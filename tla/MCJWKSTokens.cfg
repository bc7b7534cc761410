\* Tokens with claims and flaws, and the termination of their verification.
SPECIFICATION FairSpec
CONSTANTS
  Calls = {c1, c2}
  Kids = {k1, k2}
  Exps = {0, 2}
  Nbfs = {0, 5}
  TokenFlaws = {"none", "header", "claims"}
  NoToken = NoToken
  FirstListed = {k1}
  TTL = 2
  Timeout = 1
  Leeway = 1
  MaxTime = 3
  MaxRotations = 0
INVARIANTS
  AcceptedWhileValid
PROPERTIES
  VerificationEnds
\* Every call slot is used once: the run ends when all have ended.
CHECK_DEADLOCK FALSE
