SPECIFICATION Spec
CONSTANTS
  Sessions = 6
  Week = 3
  Tickers = {full, thin}
  full = full
  thin = thin
  Creators = {early, late}
  late = late
  Favourite = full
  Benchmark <- MCBenchmark
  Start = 3
  End = 18
  Cutoff = 15
  Lookback = 6
  Loaded = 9
  Volume = 6
  Trend = 3
  Holding = 1
  Agreeing = 2
  Powered = 2
  PostsOf <- MCPosts
  BarsOf <- MCBars
  CardsOf <- MCCards
  ZonedOf = {TRUE, FALSE}
INVARIANTS
  TypeOK
  DecisionsAreBlind
  FillsFollowDecisions
