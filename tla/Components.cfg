SPECIFICATION ComponentsSpec
CONSTANTS
  MaxLength = 6
  MaxCalls = 2
  Weight <- HalfWeight
  TopLevel = FALSE
  ToolsEnabled = TRUE
  Budgeted = TRUE
  Timed = TRUE
  AutoSave = FALSE
  MaxRounds = 2
  MaxNudges = 1
  Trigger = 80
  PoolSize = 1
  Conversations <- FreshConversation
  Rounds <- SomeRounds
  MaxToolRounds = 3
  MaxReminders = 1
  MaxCarry = 4
  MaxItems = 3
  MaxReply = 5
  MaxToolCalls = 3
  MaxPieces = 3
  Fuzz = 1
  MaxLines = 3
  MaxHunks = 2
  MaxDrift = 1
  BodyLines <- SavedLines
  MaxSaid = 2
  MaxRestores = 2
  Width = 20
  Heights = {6, 14}
  PanelMessages <- ShownMessages
  Replies <- ShownReplies
  MaxMessages = 2
  MaxChanges = 1
  TuiRuns = 2
  MaxAsked = 2
INVARIANTS
  ScanIsCut CompactionSettles BudgetHolds TypedAsMeant StreamIsStripped
  CallsAsMeant DiffDoesWhatItSays RestoreIsFaithful FrameFits AskedIsShown AnswerGoesToItsQuestion
CHECK_DEADLOCK FALSE
