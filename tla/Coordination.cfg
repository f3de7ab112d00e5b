CONSTANTS
  calc = calc
  escrow = escrow
  settle = settle
  Contracts <- MCContracts
  NoContract = NoContract
  Train <- MCTrain
  HubOf <- MCHubSelf
  Pausable <- MCPausable
  Calculator = calc
  Steps = 3
  Plan <- MCPlan
SPECIFICATION Spec
INVARIANTS
  VerdictExact
  FleetInterops
  NothingHalfDone
PROPERTIES
  RolloutCompletes
