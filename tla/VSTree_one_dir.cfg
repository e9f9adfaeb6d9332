SPECIFICATION TreeSpec
SYMMETRY MCSymmetry
VIEW MCView
CONSTRAINT NotReformatted
CONSTANTS
  foo = foo
  bar = bar
  INum = 4
  DNum = 4
  FileName = {foo, bar}
  FreshDisk = TRUE
  Path <- AsItIs
  Target <- TwoNames
  RmTarget <- TwoNames
  MaxSlots = 5
  MaxFd = 1000
  MaxWaiting = 1
INVARIANT ScanInRange
INVARIANT OnlyFullBreaks
PROPERTY RmSparesOthers
PROPERTY ExportIsCurrent
