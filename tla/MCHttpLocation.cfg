CONSTANTS
  NULL = NULL
  Variables = {"$x", "$y"}
  Empty = ""
  Routes <- MCRoutes
  Bodies <- MCBodies
  Answers <- MCAnswers
SPECIFICATION FairSpec
INVARIANTS TypeOK OnlyUnmaskedRefusalsPass RefusalsKeepTheirStatus VariablesSurviveRedirects ReleasedOnce LengthIsAsDeclared
PROPERTIES RequestsEnd
CHECK_DEADLOCK FALSE
