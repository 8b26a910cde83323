CONSTANTS
  Answers <- MCAnswers
  Timeout = 1
  Process = {1, 2}
  NoAnswer = NoAnswer
SPECIFICATION Spec
INVARIANTS TypeOK RefusalIsHeard PartsAreTexts ListExtends
PROPERTIES ImplementsContract WorkerIsFreed
CHECK_DEADLOCK FALSE
