SPECIFICATION FairSpec
CONSTANTS
  a1 = a1
  a2 = a2
  Apps = {a1, a2}
  InitConf <- MCConf
  EnabledUpdates = {FALSE}
  LimitUpdates = {0}
  SizeUpdates = {1}
  MaxEvents = 3
  InitTime = 1
  MaxTime = 4
  LastReport = 3
  MaxMsgid = 6
  ServerStep = 2
  Submitter = Submitter
  None = None
INVARIANTS EveryEventOnce ReportSize SentInOrder IdsDistinctInSlot
PROPERTIES ReportedIsSubmitted
CHECK_DEADLOCK FALSE
