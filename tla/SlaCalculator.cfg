CONSTANTS
  a1 = a1
  a2 = a2
  o1 = o1
  o2 = o2
  Addresses <- MCAddresses
  NoAddress = NoAddress
  OutageIds <- MCOutageIds
  Severities <- MCSeverities
  CustomOrder <- MCCustomOrder
  ConfigInputs <- MCConfigInputs
  ConfigHash <- MCConfigHash
  Mttrs <- MCMttrs
  Lanes <- MCLanes
  Results <- MCResults
  NoResult = NoResult
  NoUpdate = NoUpdate
  MAX_MTTR = 60
  MAX_RECALCS_PER_OUTAGE = 2
  MAX_HISTORY_SIZE = 2
  MaxRecorded = 3
  WEEK = 1
  U32MAX = 9
  MaxDecisions = 3
  COUNTER_MAX = 2
  TOTAL_MAX = 1600
  MaxWrites = 1
  MaxLedger = 2
SYMMETRY AnyName
VIEW ButUnread
CHECK_DEADLOCK FALSE
SPECIFICATION Spec
INVARIANTS
  StatsMatchStream
  GenerationsAlternate
  TelemetryWithinStats
  StoredDecisionReproducible
  ViewsTellDecision
PROPERTY
  ImplementsCalculation
