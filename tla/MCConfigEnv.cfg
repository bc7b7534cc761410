SPECIFICATION Spec
CONSTANTS
  Editors = {e1, e2}
  EnvFields = {"clientSecret"}
  Nobody = Nobody
  NoEndpoint = NoEndpoint
  Unparsable = Unparsable
  MaxStarts = 1
INVARIANT
  EnvironmentStaysOutOfFile
CHECK_DEADLOCK FALSE
