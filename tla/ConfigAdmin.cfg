CONSTANTS
  a1 = a1
  a2 = a2
  Addresses <- MCAddresses
  NoAddress = NoAddress
  CustomOrder <- MCCustomOrder
  ConfigInputs <- MCConfigInputs
  ConfigHash <- MCConfigHash
  NoUpdate = NoUpdate
  NoSnapshot = NoSnapshot
  ProbedConfigs <- MCProbedConfigs
  ProbedMttrs <- MCProbedMttrs
  MaxWrites = 3
  MaxLedger = 1
SYMMETRY AnyAddress
VIEW ButReply
SPECIFICATION Spec
INVARIANTS
  ReadsBackValid
  StreamTellsConfig
  StaleCacheShows
  RegistryTellsTruth
  ViewsAgree
