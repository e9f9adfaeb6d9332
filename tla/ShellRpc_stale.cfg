SPECIFICATION Spec
CONSTANTS
  ann = ann
  bob = bob
  Client <- Clients
  Faults = {"exec"}
  MaxCalls <- TwoOne
  MaxSends <- TwoOne
INVARIANT ResultIsOwn
CHECK_DEADLOCK FALSE
