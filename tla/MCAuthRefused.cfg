CONSTANTS
  NULL = NULL
  Variables = {"$x", "$y"}
  Empty = ""
  Routes <- MCRoutes
  Bodies <- MCBodies
  Answers <- MCAnswers
SPECIFICATION Spec
INVARIANTS ContentIsAuthorized
CHECK_DEADLOCK FALSE
