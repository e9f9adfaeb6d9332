SPECIFICATION Spec
VIEW MCView
CONSTANTS
  foo = foo
  bar = bar
  INum = 4
  DNum = 4
  FileName = {foo, bar}
  FreshDisk = FALSE
  Path <- Below
  Target <- TwoNames
  RmTarget <- TwoNames
  MaxSlots = 5
  MaxFd = 0
PROPERTY RemovedIsEmpty
