SPECIFICATION FairSpec
CONSTANTS
  Actors = {a1, a2, a3}
  Workers = {w1, w2}
  MaxTasks = 3
INVARIANT HandedOver
PROPERTIES
  RunsInOrder
  EveryTaskRuns
