\* Two prompts that compete for two slugs and two labels.
SPECIFICATION Spec
CONSTANTS
  PromptIds = {p1, p2}
  Slugs = {s1, s2}
  Titles = {t1, t2}
  Categories = {c1}
  Bodies = {b1, b2}
  Formats = {markdown, yaml}
  Times <- MCTimes
  Labels = {l1, l2}
  NoBody = NoBody
  Keep = Keep
  MaxRow = 3
SYMMETRY Symmetry
INVARIANTS
  Referential
  IndexExact
  ChecksumsMatch
  ActiveSlugsUnique
PROPERTIES
  HistoryAppendOnly
  NewestWins
