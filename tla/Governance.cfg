CONSTANTS
  a1 = a1
  a2 = a2
  a3 = a3
  Addresses <- MCAddresses
  NoAddress = NoAddress
  NoTimestamp = NoTimestamp
  PROPOSAL_EXPIRY_WINDOW = 1
  MaxLedger = 3
SYMMETRY AnyAddress
SPECIFICATION GovernanceSpec
INVARIANTS
  StreamTellsState
PROPERTIES
  ConsentedHandoff
  FreezeHoldsRoles
  RenounceIsForGood
