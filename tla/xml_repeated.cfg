SPECIFICATION SpecTask
INVARIANT WrittenIsValid
CONSTANTS
  Expressions <- MCExpressions
  Anchors <- MCAnchors
  Days <- MCDays
  DateTexts <- MCDateTexts
  Programs <- MCPrograms
  Privileges = {"SeBackup"}
  Definitions <- MCDefinitions
  Unread <- MCUnread
  Documents <- MCDocuments
  DefaultLimits <- Bounds
  MaxTriggers = 4
  MaxActions = 2
  Durations <- MCDurations
  Dates <- MCDates
  ClassIds <- MCClassIds
  Numbers <- MCNumbers
  Pieces <- MCPieces
  Normalized <- MCNormalized
  Accounts <- MCAccounts
CHECK_DEADLOCK FALSE
