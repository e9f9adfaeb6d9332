SPECIFICATION FairSpec
CONSTANTS
  foo = foo
  bar = bar
  INum = 4
  DNum = 3
  FileName = {foo}
  FreshDisk = FALSE
  Path <- Deep
  Target <- OneName
  RmTarget <- OneName
  MaxSlots = 4
  MaxFd = 0
PROPERTY CommandEnds
INVARIANT TypeOK
INVARIANT Inv
INVARIANT EntriesInitialised
INVARIANT TableFresh
PROPERTY NamesKept
PROPERTY FreshInodeUnnamed
