SPECIFICATION FairSpec
CONSTANT MaxHosts = 3
INVARIANTS
  ReportIsTrue
  AnswersOnce
PROPERTY
  Validates
CHECK_DEADLOCK FALSE
