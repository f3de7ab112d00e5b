---------------------------- MODULE MCCoordination ----------------------------
(* The calculator, the escrow and the settlement contract; a workflow locks  *)
(* funds, settles, and releases the payment.                                 *)
EXTENDS Coordination

CONSTANTS calc, escrow, settle

MCContracts == { calc, escrow, settle }

\* Each upgrade is decided by the contract that is upgraded, or all of them by
\* the calculator.
MCHubSelf == [c \in MCContracts |-> c]
MCHubCalc == [c \in MCContracts |-> calc]

Release(protocol, min, storage, schema, event) ==
  [protocol |-> protocol, min_compatible |-> min, storage |-> storage, schema |-> schema, event |-> event]

\* Introduce a protocol; raise the minimum, with a new storage layout; then two
\* that no handshake may let through on their own.
MCTrain == << Release(1, 1, 1, 1, 1), Release(2, 1, 1, 1, 1), Release(3, 2, 2, 1, 1),
              Release(3, 2, 2, 1, 2), Release(3, 2, 2, 2, 1) >>

MCPausable == { escrow }

MCPlan == << escrow, settle, escrow >>

=============================================================================
