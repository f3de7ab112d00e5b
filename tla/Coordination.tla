----------------------------- MODULE Coordination -----------------------------
(***************************************************************************)
(* The scenarios of coordination_harness.rs, as one system: a fleet that   *)
(* is upgraded contract by contract, and workflows that call across it.    *)
(*                                                                         *)
(* A workflow is one transaction.  It calls the contracts of its plan in   *)
(* turn, as they are now; a paused one fails the call.  Whether its caller *)
(* negotiates with them first is the caller's affair: call() does not ask. *)
(***************************************************************************)
EXTENDS VersionNegotiation, CallSafety

CONSTANTS
  Calculator,         \* the contract that makes the calls
  Plan                \* the contract each step of a workflow calls

ASSUME PlanAssumption ==
  /\ Calculator \in Contracts
  /\ Plan \in [1 .. Steps -> Contracts \ {Calculator}]

vars == << negotiationVars, workflowVars >>

\* A caller makes itself a tracker.  Bound: no workflow starts in the middle of
\* a handshake, which neither of them could tell.
StartWorkflow ==
  /\ phase = "idle" /\ ~Negotiating
  /\ New
  /\ UNCHANGED negotiationVars

CallStep(answer) ==
  /\ called < Steps /\ paused[Plan[called + 1]] => answer = "Err"
  /\ Call(answer)
  /\ UNCHANGED negotiationVars

Rollback(refused) == RollbackNext(refused) /\ UNCHANGED negotiationVars
EndRollback == RollbackDone /\ UNCHANGED negotiationVars
FinalizeWorkflow == Finalize /\ UNCHANGED negotiationVars
FailWorkflow == ReturnErr /\ UNCHANGED negotiationVars

\* The transaction ends, and the tracker with it.
EndWorkflow ==
  /\ phase \in { "rolled_back", "finalized", "reverted" }
  /\ phase' = "idle" /\ called' = 0 /\ compensationStack' = << >> /\ effects' = Fresh /\ undone' = << >>
  /\ UNCHANGED negotiationVars

\* Nothing else runs while a transaction does.
Rollout == phase = "idle" /\ NegotiationNext /\ UNCHANGED workflowVars

Init == NegotiationInit /\ WorkflowInit

WorkflowStep ==
  \/ \E answer \in Replies : CallStep(answer)
  \/ \E refused \in BOOLEAN : Rollback(refused)
  \/ EndRollback
  \/ FinalizeWorkflow
  \/ FailWorkflow
  \/ EndWorkflow

Next == Rollout \/ StartWorkflow \/ WorkflowStep

\* A step of the fleet, between two transactions.
Between(A) == phase = "idle" /\ A /\ UNCHANGED workflowVars

\* A handshake that was started is carried through, and a contract that is
\* behind is tried again and again.  A transaction does not stay open, for the
\* host bounds what it may spend: this says that the fleet gets its turn, and
\* nothing of how a workflow ends.  Nobody has to pause, to migrate or to start
\* a workflow.
Fairness ==
  /\ WF_vars(Between(HandshakeStep))
  /\ \A c \in Contracts : SF_vars(Between(Propose(c, release[c] + 1)))
  /\ WF_vars(WorkflowStep)

Spec == Init /\ [][Next]_vars /\ Fairness

=============================================================================
