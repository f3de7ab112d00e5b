CONSTANTS
  o1 = o1
  OutageIds <- MCOutageIds
  Results <- MCResults
  NoResult = NoResult
  MAX_HISTORY_SIZE = 4
  MaxRecorded = 5
  MaxLedger = 1
  Offsets <- MCOffsets
  Limits <- MCLimits
  WalkLimits <- MCWalkLimits
  MAX_PAGE_SIZE = 2
  U32MAX = 7
SPECIFICATION Spec
INVARIANTS
  PagesExact
  SkipsAtMostDropped
  MirrorMatches
PROPERTY WalkTerminates
