SPECIFICATION FairSpec
CONSTANTS
  Editors = {e1, e2}
  EnvFields = {"addr", "clientSecret"}
  Nobody = Nobody
  NoEndpoint = NoEndpoint
  Unparsable = Unparsable
  MaxStarts = 1
INVARIANTS
  TypeOK
  RestartKeepsSettings
  ServicesSurvive
  AnswerShowsOwnOrLater
CHECK_DEADLOCK FALSE
PROPERTY
  SavesEnd
