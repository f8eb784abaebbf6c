SPECIFICATION Spec
CONSTANTS
  Weight <- HalfWeight
  TopLevel = TRUE
  ToolsEnabled = TRUE
  Budgeted = TRUE
  Timed = TRUE
  AutoSave = TRUE
  MaxRounds = 5
  MaxNudges = 1
  Trigger = 80
  PoolSize = 1
  Conversations <- ResumedConversation
  Rounds <- SomeRounds
  MaxToolRounds = 1
  MaxReminders = 1
PROPERTIES EveryPromptSurvives
