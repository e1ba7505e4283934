\* Two processes, two prompt ids that compete for one slug.
SPECIFICATION SharedSpec
CONSTANTS
  Processes = {x1, x2}
  PromptIds = {p1, p2}
  Slugs = {s1}
  Titles = {t1, t2}
  Categories = {c1}
  Bodies = {b1, b2}
  Formats = {markdown}
  Times <- MCTimes
  Labels = {}
  NoBody = NoBody
  Keep = Keep
  MaxRow = 3
SYMMETRY Symmetry
PROPERTIES
  ImplementsLibrary
