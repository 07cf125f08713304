SPECIFICATION Spec
CONSTANTS
  Count = 2
  Payload = 74
  MaxTimeouts = 1
  SamePorts = TRUE
  Neighbour = TRUE
  MaxTtl = 3
  UintRange = 1073741824
INVARIANTS LossInRange MatchingRight ChargedBeforeSent
PROPERTY Ends
CHECK_DEADLOCK FALSE
