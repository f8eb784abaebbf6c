SPECIFICATION FairSpec
CONSTANTS
  Weight <- NearWeight
  TopLevel = TRUE
  ToolsEnabled = TRUE
  Budgeted = FALSE
  Timed = FALSE
  AutoSave = FALSE
  MaxRounds = 0
  MaxNudges = 2
  Trigger = 80
  PoolSize = 1
  Conversations <- FreshConversation
  Rounds <- SomeRounds
  MaxToolRounds = 0
  MaxReminders = 0
PROPERTIES RunEnds
