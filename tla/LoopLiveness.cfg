SPECIFICATION FairSpec
CONSTANTS
  Weight <- SlackWeight
  TopLevel = TRUE
  ToolsEnabled = TRUE
  Budgeted = FALSE
  Timed = FALSE
  AutoSave = FALSE
  MaxRounds = 0
  MaxNudges = 2
  Trigger = 80
  PoolSize = 1
  Conversations <- FreshConversation
  Rounds <- PairRounds
  MaxToolRounds = 1
  MaxReminders = 0
PROPERTIES RunEnds CancelStops CompactionLeadsToRequest
