\* Four prompts and a new one, pages of one, two or four, two writes.
SPECIFICATION SearchSpec
CONSTANTS
  Ids = {1, 2, 3, 4, 5}
  Library <- MCLibrary
  Queries <- MCQueries
  ToolPage = 3
  Known = {"l1", "p1"}
  Formats = {"md", "yaml"}
  New <- MCNew
  Edits <- MCEdits
  MaxResults = 3
  MaxMatchesPerRule = 2
  MaxTotalMatches = 3
  MaxWrites = 2
CHECK_DEADLOCK FALSE
INVARIANTS
  PagesCover
  RoomIsUsed
PROPERTIES
  ShowsWanted
  TotalCovers
