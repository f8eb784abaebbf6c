SPECIFICATION Spec
CONSTANTS
  MaxRuns = 1
  MaxAsks = 1
  MaxOps = 0
  Ops = {"eof"}
  HookFails = {}
INVARIANTS DrainReported
