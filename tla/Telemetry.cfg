CONSTANTS
  Lanes = {"critical", "high", "custom"}
  Canonical <- MCCanonical
  WEEK = 2
  U32MAX = 3
  Percent = 2
  MaxDecisions = 5
  MaxLedger = 5
CHECK_DEADLOCK FALSE
SPECIFICATION PackedSpec
INVARIANTS
  RateAtMostOne
  BurstCounts
  WordsHoldLanes
  RateNeverOverstated
