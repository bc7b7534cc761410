\* One look-up and two pays while the settings change among seven choices.
SPECIFICATION Spec
CONSTANTS
  g1 = g1
  g2 = g2
  g3 = g3
  idp = idp
  c1 = c1
  c2 = c2
  k1 = k1
  k2 = k2
  GOs = {g1, g2, g3}
  IDPs = {idp}
  Clients = {c1, c2}
  Keys = {k1, k2}
  Bills = {b1}
  Presentments = {p1}
  Pays = {y1, y2}
  GOConf <- Deployed
  Registered <- Register
  Choices <- Saves
  None = None
SYMMETRY HandlerSymmetry
INVARIANTS
  TypeOK
  SecretsStay
  JudgedByOwnSettings
  PaidTwiceOnlyElsewhere
\* Every request slot is used once: the run ends when all are answered.
CHECK_DEADLOCK FALSE
