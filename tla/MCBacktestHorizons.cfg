SPECIFICATION Spec
CONSTANTS
  TriggerWindow = 2
  Calls = {1}
  Runners = {r1}
  LastSession = 5
  Horizons = {1, 2}
  MaxFaults = 0
  Shapes <- MCShapes
  PostTimes <- MCPostTimes
  Tapes <- MCTapes
PROPERTIES
  EveryHorizonIsRecorded
