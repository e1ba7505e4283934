\* Two concurrent calls on one prompt, three labels in two spellings.
SPECIFICATION TagSpec
CONSTANTS
  Callers = {x1, x2}
  Prompts = {p1}
  Names <- MCNames
  Lower <- MCLower
  LabelSets <- MCLabelSets
  BackupLabels <- MCUntaggedBackups
  ProjectNames <- MCProjectNames
  ProjectIds = {1, 2}
  None = None
SYMMETRY Symmetry
INVARIANTS
  TagNamesUnique
  LabelAgreement
