SPECIFICATION Spec
CONSTANTS
  DSize = 3
  DNum = 5
  INum = 2
  Data <- FourWords
  SeekTo <- Ends
  ReadLen <- Lengths
  MaxFd = 1
  MaxOffset = 7
  RunsDry = FALSE
INVARIANT TypeOK
INVARIANT FileInv
INVARIANT OffsetsMapped
INVARIANT AddressesApart
INVARIANT FreeIsZero
INVARIANT ReadsFile
PROPERTY FilesAreTapes
PROPERTY WriteEnds
