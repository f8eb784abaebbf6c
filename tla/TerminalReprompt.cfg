SPECIFICATION TerminalSpec
CONSTANTS
  TuiRuns = 2
  MaxAsked = 2
INVARIANTS NoPromptAfterTheRun
CHECK_DEADLOCK FALSE
