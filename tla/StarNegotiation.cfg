CONSTANTS
  calc = calc
  escrow = escrow
  settle = settle
  Contracts <- MCContracts
  NoContract = NoContract
  Train <- MCTrain
  HubOf <- MCHubCalc
  Pausable <- MCPausable
  Calculator = calc
  Steps = 3
  Plan <- MCPlan
SPECIFICATION Spec
INVARIANTS
  FleetInterops
