SPECIFICATION Spec
CONSTANTS
  ann = ann
  bob = bob
  Client <- Clients
  Faults = {"fork", "exec", "start", "abort"}
  MaxCalls <- TwoOne
  MaxSends <- TwoOne
INVARIANT TypeOK
INVARIANT OwnIfStarted
INVARIANT AnsweredInOrder
 
CHECK_DEADLOCK FALSE
