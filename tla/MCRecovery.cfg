\* One base slug of the users, files with a second one; three edits.
SPECIFICATION Spec
CONSTANTS
  UserSlugs <- MCUserSlugs
  Metas <- MCMetas
  Drafts <- MCDrafts
  Files <- MCFiles
  TicksPerSecond = 2
  MaxPrompts = 3
  MaxVersions = 3
  LongTitles = {"t2"}
  MaxClock = 3
INVARIANTS
  ExportRestoresItself
PROPERTIES
  RestoreAsPreviewed
  OnlyLimitsRefuseExport
  FreshPlanCommits
