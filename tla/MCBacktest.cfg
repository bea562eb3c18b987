SPECIFICATION Spec
CONSTANTS
  TriggerWindow = 2
  Calls = {1}
  Runners = {r1, r2}
  LastSession = 5
  Horizons = {1, 2}
  MaxFaults = 1
  Shapes <- MCShapes
  PostTimes <- MCPostTimes
  Tapes <- MCTapes
INVARIANTS
  TypeOK
  EvaluatedRowsAreFinal
  NoLookAhead
  OneRowPerHorizon
  HorizonsFormAPrefix
  NotTriggeredIsEarned
PROPERTIES
  EveryCallIsRecorded
