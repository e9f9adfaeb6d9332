SPECIFICATION Spec
CONSTANTS
  DSize = 3
  DNum = 6
  INum = 2
  Data <- FourWords
  SeekTo <- Ends
  ReadLen <- Lengths
  MaxFd = 1
  MaxOffset = 7
  RunsDry = FALSE
PROPERTY OpensAtEnd
