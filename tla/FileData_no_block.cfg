SPECIFICATION Spec
CONSTANTS
  DSize = 3
  DNum = 2
  INum = 1
  Data <- FourWords
  SeekTo <- Ends
  ReadLen <- Lengths
  MaxFd = 0
  MaxOffset = 7
  RunsDry = TRUE
INVARIANT OffsetsMapped
