SPECIFICATION Spec
CONSTANTS
  MaxRuns = 2
  MaxAsks = 2
  MaxOps = 1
  Ops = {"cancel", "answer", "eof"}
  HookFails = {1}
INVARIANTS TypeOK WorkerKeepsItsView CancelReported AnswersReachTheirQuestion
PROPERTIES StreamsInOrder
