SPECIFICATION Spec
CONSTANTS
  Parts = {"health", "warning", "trajectory", "late", "recovery", "confidence", "priority",
  "risk", "command", "executive", "economics", "margin", "synthetic", "facts", "registry",
  "forward"}
  Null = Null
  AtRest = AtRest
INVARIANTS
  TypeOK
  RedHasItsReason
  GreenIsChallenged
  AmountsReconcile
  PromisesAreDiscounted
  QueueHasItsReasons
PROPERTIES
  BadNewsNeverComforts
  TimeOnlyErodes
  NothingCountsTwice
CHECK_DEADLOCK FALSE
