SPECIFICATION Spec
CONSTANTS
  Endpoints = {e1, e2}
  Free = Free
  MaxTokens = 3
  MaxPasses = 3
  MaxFaults = 2
INVARIANTS TypeOK DivergenceIsRecorded LinkIsStored ReplacementStands
PROPERTIES CredentialMovesForward
SYMMETRY EndpointSymmetry
CHECK_DEADLOCK FALSE
