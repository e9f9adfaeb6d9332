SPECIFICATION Spec
VIEW MCView
CONSTANTS
  foo = foo
  bar = bar
  INum = 2
  DNum = 2
  FileName = {foo, bar}
  FreshDisk = FALSE
  Path <- Below
  Target <- TwoNames
  RmTarget <- TwoNames
  MaxSlots = 4
  MaxFd = 0
PROPERTY CreatesWhereNamed
