CONSTANTS
  o1 = o1
  o2 = o2
  OutageIds <- MCOutageIds
  Results <- MCResults
  NoResult = NoResult
  MAX_HISTORY_SIZE = 3
  MaxRecorded = 5
  MaxLedger = 2
SPECIFICATION Spec
INVARIANTS
  CountersTellEntries
  IndexExact
  Chronological
PROPERTY ImplementsRetainedLog
