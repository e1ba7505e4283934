\* One prompt of the user, three transactions of the earlier database;
\* two prompts and three acts on the page of advanced tools, one prompt and
\* four acts on the library and the editor.
SPECIFICATION DesktopSpec
CONSTANTS
  UserSlugs <- MCUserSlugs
  Titles = {"t1"}
  Labels = {"l1"}
  Drafts <- MCDrafts
  Backups <- MCBackups
  Legacy <- MCLegacy
  TicksPerSecond = 1
  MaxPrompts = 9
  MaxVersions = 9
  LongTitles = {}
  MaxClock = 3
  MaxRecoveries = 2
  PagePrompts = {"p1", "p2", "p3"}
  PageTags = {"t1"}
  OfMemory = {"p3"}
  ListCap = 1
  Listed <- MCListed
  NoFilter = NoFilter
  Project = Project
  Absent = Absent
  Waiting = Waiting
  Failed = Failed
  MaxEvents = 3
  Kept = {"k1"}
  Names = {"n1", "n2"}
  Texts = {"b1", "b2"}
  Taggings = {"one, label", "two labels"}
  Retyped <- MCRetyped
  AtFirst <- MCAtFirst
  NoRow = NoRow
  Pending = Pending
  Errored = Errored
  MaxActs = 4
CHECK_DEADLOCK FALSE
INVARIANTS
  NotTorn
  ExportsAreWhole
  ListIsCurrent
  LibraryAgrees
PROPERTIES
  RestoredAsShown
  SavesOnlyTouched

