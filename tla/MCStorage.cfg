SPECIFICATION StorageSpec
CONSTANTS
  First = 1
  Last = 4
  Ahead = 2
  Retention = 1
  Batches = 1
  MaxLogs = 2
  ToolDays = {1}
  PageDays <- AnyDays
INVARIANTS NoFallbackUnlessSkewed
 
