SPECIFICATION CrashSpec
SYMMETRY MCSymmetry
VIEW MCView
CONSTANTS
  foo = foo
  bar = bar
  INum = 3
  DNum = 3
  FileName = {foo, bar}
  FreshDisk = FALSE
  Path <- BareOnly
  Target <- TwoNames
  RmTarget <- TwoNames
  MaxSlots = 4
  MaxFd = 1000
  CutOps = {"create", "rm"}
INVARIANT CrashTypeOK
INVARIANT MediaInv
INVARIANT NamedIsFinished
INVARIANT CutSparesNames
INVARIANT CreationsStayInRange
