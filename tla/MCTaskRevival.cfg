SPECIFICATION FairSpec
CONSTANTS
  Task = {t1, t2}
  MaxRevivals = 2
  MaxCrashes = 2
  MaxJoins = 1
INVARIANTS
  TypeOK
  ToldOnce
  ReportKept
PROPERTIES
  AnswersAwaited
  WaitEnds
CHECK_DEADLOCK FALSE
