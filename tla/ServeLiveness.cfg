SPECIFICATION FairSpec
CONSTANTS
  MaxRuns = 1
  MaxAsks = 2
  MaxOps = 2
  Ops = {"cancel", "answer", "eof"}
  HookFails = {}
PROPERTIES RunsEnd CancelEnds
