SPECIFICATION TreeSpec
VIEW MCView
CONSTRAINT NotReformatted
CONSTANTS
  foo = foo
  bar = bar
  INum = 5
  DNum = 5
  FileName = {foo, bar}
  FreshDisk = FALSE
  Path <- Around
  Target <- TwoNames
  RmTarget <- OneName
  MaxSlots = 4
  MaxFd = 1000
  MaxWaiting = 1
INVARIANT ChildrenYounger
INVARIANT DotDotReturns
INVARIANT OneParent
INVARIANT NoSharedBlock
PROPERTY RmIsLocal
INVARIANT ShellsTypeOK
INVARIANT ShellsInv
PROPERTY FilesStay
PROPERTY FreshUnknown
PROPERTY NoSecondEntry
INVARIANT TreeShowsOnce
INVARIANT TreeShowsAll
