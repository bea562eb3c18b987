SPECIFICATION MCSpec
CONSTANTS
  tsr = tsr
  web = web
  stock = stock
  other = other
  Tickers = {stock, other}
  Commands = {tsr}
  Requests = {web}
  Rates <- MCRates
  Bench <- MCBench
  MaxBars = 8
  MaxScans = 3
  Pivot = 1
  Visible = 4
  HighBars = 4
  BaseBars = 4
  EmaBars = 2
  SmaBars = 5
  AtrBars = 2
  LongBars = 7
  SlopeBars = 2
  LongSlopeBars = 1
  RsiBars = 3
  VolBars = 2
  TightBars = 2
  NearBars = 2
  FarBars = 3
INVARIANTS
  ScansBuildTheHistory
CHECK_DEADLOCK FALSE
