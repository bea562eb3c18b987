SPECIFICATION MCSpec
CONSTANTS
  tab = tab
  phone = phone
  quant = quant
  risk = risk
  Clients = {tab, phone}
  Names = {quant, risk}
  Directions = {"bullish", "bearish"}
  Answers <- MCAnswers
  Unit = 1000
  Pivot = 1
  Visible = 4
  HighBars = 4
  BaseBars = 4
  EmaBars = 3
  SmaBars = 3
  AtrBars = 2
  Horizons = {1, 2}
  TrendDays = 2
  Benchmark <- MCBenchmark
  MaxAge = 6
  MaxAsks = 2
  MaxTime = 22
INVARIANTS
  TypeOK
  OnlyOverlapsPayTwice
  SnapshotsMatchPlans
  LevelsAreCandidates
  OutcomesSpanTheirHorizon
PROPERTIES
  EveryLensIsScored
CHECK_DEADLOCK FALSE
