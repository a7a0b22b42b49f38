CONSTANTS
  Setups <- MCSetups
  InSize = 2
  OutSize = 2
  MaxQueries = 2
  MaxDeferred = 1
SPECIFICATION Spec
INVARIANTS FilterExact InputKept
PROPERTIES AnswersKept OutputDrains DeferredAnswered
CHECK_DEADLOCK FALSE
