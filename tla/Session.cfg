SPECIFICATION SessionSpec
CONSTANTS
  Runs = 2
  RetryMax = 2
  MaxChats = 1
  MaxSwitches = 1
  MaxKeys = 1
  MaxHooks = 2
  Diffs <- SomeDiffs
  PipeSize = 2
INVARIANTS
  LiveTextIsOneAttempt RetriesBounded CancelStopsRequests
  FailClosedHolds PlanWritesPlanFile StoppedGroupIsGone
PROPERTIES
  ChatsEnd
CHECK_DEADLOCK FALSE
