SPECIFICATION FairSpec
CONSTANTS
  e1 = e1
  e2 = e2
  Service = "srv"
  Executors = {e1}
  Items <- ChangingItems
  Reports <- ChangingReports
  InitConf <- MCConf
  LingerUpdates = {2}
  StepUpdates = {3}
  SizeUpdates = {2}
  MaxSpawn = 1
  InitTime = 1
  MaxTime = 7
  MaxDelay = 1
  NoReport = NoReport
  Free = Free
PROPERTIES AcceptedIsSettled
