SPECIFICATION Spec
CONSTANTS
  Runs = {cron, hand}
  Cron = cron
  Documents <- MCDocuments
  Candidates <- MCCandidates
  Answers <- MCAnswers
  Limit = 1
  HandLimits = {0}
  UseTwoPass = TRUE
  Chunk = 2
  Timeout = 1
  MaxCrashes = 1
INVARIANTS
  TypeOK
  EachRunWritesOnce
  CleanRunIsComplete
  DailyCallsAreConfirmed
PROPERTIES
  ProcessedIsFinal
  EveryRunEnds
  OnlyTheFruitlessStarve
