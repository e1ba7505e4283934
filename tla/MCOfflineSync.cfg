\* Two overlapping polls, two slugs, two calls, two faults.
SPECIFICATION FairSpec
CONSTANTS
  Slugs = {s1, s2}
  Titles = {t1}
  SemVers = {v1, v2}
  Polls = {q1, q2}
  User = User
  PageSize = 1
  MaxCalls = 2
  MaxFaults = 2
  MaxReloads = 1
  MaxOthers = 1
  MaxEvents = 4
INVARIANTS
  MemoryIsStored
PROPERTIES
  LocalKept
  Drains
