\* As MCNativeVault, of the delete command alone.
SPECIFICATION Spec
CONSTANTS
  UserSlugs <- MCUserSlugs
  Titles = {"t1"}
  Labels = {"l1"}
  Drafts <- MCDrafts
  Backups <- MCBackups
  Legacy <- MCLegacy
  TicksPerSecond = 1
  MaxPrompts = 9
  MaxVersions = 9
  LongTitles = {}
  MaxClock = 3
  MaxRecoveries = 2
CHECK_DEADLOCK FALSE
PROPERTIES
  DeleteRemoves
