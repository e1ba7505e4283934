\* Two clones; two prompts and a third that wants the slug of the first.
SPECIFICATION Spec
CONSTANTS
  Vaults = {x, y}
  p1 = p1
  p2 = p2
  p3 = p3
  Prompts = {p1, p2, p3}
  SlugOf <- MCSlugOf
  Bodies = {b1, b2}
  MaxEdits = 3
  MaxCrashes = 1
  MaxCommits = 3
INVARIANTS
  PullAgrees
  OnlyWritten
PROPERTIES
  PublishedIsExport
SYMMETRY Symmetry
