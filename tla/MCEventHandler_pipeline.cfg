SPECIFICATION Spec
CONSTANTS
  e1 = e1
  e2 = e2
  Service = "srv"
  Executors = {e1, e2}
  Items <- PipelineItems
  Reports <- PipelineReports
  InitConf <- MCConf
  LingerUpdates = {}
  StepUpdates = {}
  SizeUpdates = {}
  MaxSpawn = 2
  InitTime = 1
  MaxTime = 10
  MaxDelay = 1
  NoReport = NoReport
  Free = Free
INVARIANTS TypeOK EveryItemOnce OpenAfterFlushed QueueInOrder RowsComplete
SYMMETRY Symmetry
