SPECIFICATION MCSpec
CONSTANTS
  ann = ann
  first = first
  second = second
  rumour = rumour
  report = report
  cron = cron
  manual = manual
  Creators <- MCCreators
  Calls = {first, second}
  Claims = {rumour, report}
  Author <- MCAuthor
  Side <- MCSide
  Class <- MCClass
  Windows <- MCWindows
  Horizons <- MCHorizons
  Sizes <- MCSizes
  MinN = 1
  Threshold = 15
  Session = 2
  Runs = {cron, manual}
  MaxTime = 3
  MaxStarts = 2
SYMMETRY MCSymmetry
INVARIANTS
  TypeOK
  StaleCardsNeverSpeak
  RatingsAreEarned
PROPERTIES
  RerunsOnlyAdd
