------------------------------ MODULE Governance ------------------------------
(***************************************************************************)
(* Who holds the admin and operator roles, and how they change hands:      *)
(* governance.rs, with initialize, pause and freeze of lib.rs.             *)
(*                                                                         *)
(* A role passes in two steps, propose and accept, with a window after     *)
(* which the proposal lapses; it can be cancelled or superseded meanwhile, *)
(* and the admin can bypass it (set_operator) or end the admin role        *)
(* (renounce_admin).  Any address may call any entry point at any time, so *)
(* an accept may race a cancel, a re-proposal, the end of the window, a    *)
(* freeze or a renounce.                                                   *)
(*                                                                         *)
(* Indexers follow the contract by its events alone.  `view` is what one   *)
(* that applies the consumer rules to the committed events believes; it is *)
(* a history variable and no handler reads it.                             *)
(***************************************************************************)
EXTENDS ContractState

CONSTANTS
  PROPOSAL_EXPIRY_WINDOW,
  NoTimestamp

ASSUME GovernanceAssumption ==
  /\ PROPOSAL_EXPIRY_WINDOW \in Nat
  /\ NoTimestamp \notin Nat

VARIABLES
  pendingAdmin,       \* PENDING_ADMIN_KEY
  pendingAdminAt,     \* PENDING_ADMIN_TS_KEY
  pendingOperator,    \* PENDING_OP_KEY
  pendingOperatorAt,  \* PENDING_OP_TS_KEY
  view

adminSlot    == << pendingAdmin, pendingAdminAt >>
operatorSlot == << pendingOperator, pendingOperatorAt >>
slots        == << adminSlot, operatorSlot >>
governanceVars == << roleVars, guardVars, reply, slots, view, now >>

-----------------------------------------------------------------------------
(* Events, and the indexer that consumes them *)

Event(topic, who) == [topic |-> topic, who |-> who]
NoEvent == Event("none", NoAddress)

\* One event applied to a view.  A proposal while one is open, the end of one
\* when none is, or a freeze of what is frozen is an anomaly: the stream can no
\* longer be trusted to tell the slot's history.
Consume(v, e) ==
  CASE e.topic = "adm_prop"  -> [v EXCEPT !.pendingAdmin = e.who, !.pendingAdminAt = now,
                                          !.anomaly = @ \/ v.pendingAdmin # NoAddress]
    [] e.topic = "adm_acc"   -> [v EXCEPT !.admin = e.who, !.pendingAdmin = NoAddress, !.pendingAdminAt = NoTimestamp,
                                          !.anomaly = @ \/ v.pendingAdmin # e.who]
    [] e.topic \in {"adm_can", "adm_sup"}
                             -> [v EXCEPT !.pendingAdmin = NoAddress, !.pendingAdminAt = NoTimestamp,
                                          !.anomaly = @ \/ v.pendingAdmin = NoAddress]
    [] e.topic = "adm_ren"   -> [v EXCEPT !.admin = NoAddress, !.pendingAdmin = NoAddress, !.pendingAdminAt = NoTimestamp,
                                          !.anomaly = @ \/ v.pendingOperator # NoAddress]
    [] e.topic = "op_prop"   -> [v EXCEPT !.pendingOperator = e.who, !.pendingOperatorAt = now,
                                          !.anomaly = @ \/ v.pendingOperator # NoAddress]
    [] e.topic = "op_acc"    -> [v EXCEPT !.operator = e.who, !.pendingOperator = NoAddress, !.pendingOperatorAt = NoTimestamp,
                                          !.anomaly = @ \/ v.pendingOperator # e.who]
    [] e.topic \in {"op_can", "op_sup"}
                             -> [v EXCEPT !.pendingOperator = NoAddress, !.pendingOperatorAt = NoTimestamp,
                                          !.anomaly = @ \/ v.pendingOperator = NoAddress]
    [] e.topic = "op_set"    -> [v EXCEPT !.operator = e.who,
                                          !.anomaly = @ \/ v.pendingOperator # NoAddress]
    [] e.topic = "paused"    -> [v EXCEPT !.paused = TRUE]
    [] e.topic = "unpause"   -> [v EXCEPT !.paused = FALSE]
    [] e.topic = "cfg_frz"   -> [v EXCEPT !.frozen = TRUE, !.anomaly = @ \/ v.frozen]
    [] e.topic = "cfg_unfrz" -> [v EXCEPT !.frozen = FALSE, !.anomaly = @ \/ ~v.frozen]
    [] OTHER                 -> v

\* The events of a granted call, in the order it publishes them.
Publish(first, second) == view' = Consume(Consume(view, first), second)

\* What an indexer that misses nothing should believe.
Actual ==
  [admin |-> admin, operator |-> operator,
   pendingAdmin |-> pendingAdmin, pendingAdminAt |-> pendingAdminAt,
   pendingOperator |-> pendingOperator, pendingOperatorAt |-> pendingOperatorAt,
   paused |-> paused, frozen |-> frozen, anomaly |-> FALSE]

-----------------------------------------------------------------------------
(* The checks of governance.rs *)

\* Err: the host gives back the state the call found, whatever it had written.
Refused == ~Granted /\ UNCHANGED << roleVars, guardVars, slots, view >>

RequirePending(candidate) == Require(candidate # NoAddress, "NoPendingTransfer")

\* Mutant: a proposal never lapses.
RequireProposalEver(proposedAt) == Require(proposedAt # NoTimestamp, "NoPendingTransfer")

\* Past the window the source publishes the expiry event and removes both
\* pending keys before it returns ProposalExpired; being an Err, that is undone.
RequireProposalValid(proposedAt) ==
  IF proposedAt = NoTimestamp THEN "NoPendingTransfer"
  ELSE Require(now <= proposedAt + PROPOSAL_EXPIRY_WINDOW, "ProposalExpired")

RequireNewAdminDistinct(caller, newAdmin) ==
  Require(admin # NoAddress, "NotInitialized")
    ?? Require(newAdmin # admin /\ newAdmin # caller, "InvalidInput")

\* Mutant: the role entry points forget the freeze.
RoleGateUnfrozen(caller) == CheckVersion ?? RequireAdmin(caller)

RoleGate(caller) == CheckVersion ?? RequireNotFrozen ?? RequireAdmin(caller)

ClearAdminSlot    == pendingAdmin' = NoAddress /\ pendingAdminAt' = NoTimestamp
ClearOperatorSlot == pendingOperator' = NoAddress /\ pendingOperatorAt' = NoTimestamp

-----------------------------------------------------------------------------
(* Entry points *)

\* Mutant: the version stamp is forgotten.
InitializeUnstamped(newAdmin, newOperator) ==
  /\ Answer("initialize", newAdmin, Require(admin = NoAddress, "AlreadyInitialized"))
  /\ Granted
  /\ admin' = newAdmin
  /\ operator' = newOperator
  /\ paused' = FALSE
  /\ UNCHANGED << storageVersion, adminRenounced, pauseInfo, frozen, slots, view >>

\* initialize, as far as roles and guards go; it publishes nothing, so an
\* indexer starts from a read of the state, once.
Initialize(newAdmin, newOperator) ==
  /\ Answer("initialize", newAdmin, Require(admin = NoAddress, "AlreadyInitialized"))
  /\ \/ Refused
     \/ /\ Granted
        /\ admin' = newAdmin
        /\ operator' = newOperator
        /\ paused' = FALSE
        /\ storageVersion' = STORAGE_VERSION
        /\ UNCHANGED << adminRenounced, pauseInfo, frozen, slots >>
        /\ view' = IF storageVersion = 0 THEN Actual' ELSE view

Pause(caller, reasonFits) ==
  /\ Answer("pause", caller, CheckVersion ?? RequireAdmin(caller) ?? Require(reasonFits, "InvalidInput"))
  /\ \/ Refused
     \/ Granted /\ SetPaused /\ Publish(Event("paused", caller), NoEvent) /\ UNCHANGED slots

Unpause(caller) ==
  /\ Answer("unpause", caller, CheckVersion ?? RequireAdmin(caller))
  /\ \/ Refused
     \/ Granted /\ ClearPaused /\ Publish(Event("unpause", caller), NoEvent) /\ UNCHANGED slots

FreezeConfig(caller) ==
  /\ Answer("freeze_config", caller, CheckVersion ?? RequireAdmin(caller))
  /\ \/ Refused
     \/ /\ Granted
        /\ SetFrozen
        /\ Publish(IF frozen THEN NoEvent ELSE Event("cfg_frz", caller), NoEvent)
        /\ UNCHANGED slots

UnfreezeConfig(caller) ==
  /\ Answer("unfreeze_config", caller, CheckVersion ?? RequireAdmin(caller))
  /\ \/ Refused
     \/ /\ Granted
        /\ ClearFrozen
        /\ Publish(IF frozen THEN Event("cfg_unfrz", caller) ELSE NoEvent, NoEvent)
        /\ UNCHANGED slots

ProposeAdmin(caller, newAdmin) ==
  /\ Answer("propose_admin", caller, RoleGate(caller) ?? RequireNewAdminDistinct(caller, newAdmin))
  /\ \/ Refused
     \/ /\ Granted
        /\ pendingAdmin' = newAdmin
        /\ pendingAdminAt' = now
        /\ Publish(IF pendingAdmin = NoAddress THEN NoEvent ELSE Event("adm_sup", pendingAdmin),
                   Event("adm_prop", newAdmin))
        /\ UNCHANGED << roleVars, guardVars, operatorSlot >>

AcceptAdmin(caller) ==
  /\ Answer("accept_admin", caller,
       CheckVersion ?? RequireNotFrozen ?? RequirePending(pendingAdmin)
         ?? RequireProposalValid(pendingAdminAt) ?? Require(caller = pendingAdmin, "Unauthorized"))
  /\ \/ Refused
     \/ /\ Granted
        /\ admin' = caller
        /\ ClearAdminSlot
        /\ Publish(Event("adm_acc", caller), NoEvent)
        /\ UNCHANGED << storageVersion, adminRenounced, operator, guardVars, operatorSlot >>

CancelAdminProposal(caller) ==
  /\ Answer("cancel_admin_proposal", caller, RoleGate(caller) ?? RequirePending(pendingAdmin))
  /\ \/ Refused
     \/ /\ Granted
        /\ ClearAdminSlot
        /\ Publish(Event("adm_can", caller), NoEvent)
        /\ UNCHANGED << roleVars, guardVars, operatorSlot >>

ProposeOperator(caller, newOperator) ==
  /\ Answer("propose_operator", caller, RoleGate(caller))
  /\ \/ Refused
     \/ /\ Granted
        /\ pendingOperator' = newOperator
        /\ pendingOperatorAt' = now
        /\ Publish(IF pendingOperator = NoAddress THEN NoEvent ELSE Event("op_sup", pendingOperator),
                   Event("op_prop", newOperator))
        /\ UNCHANGED << roleVars, guardVars, adminSlot >>

AcceptOperator(caller) ==
  /\ Answer("accept_operator", caller,
       CheckVersion ?? RequireNotFrozen ?? RequirePending(pendingOperator)
         ?? RequireProposalValid(pendingOperatorAt) ?? Require(caller = pendingOperator, "Unauthorized"))
  /\ \/ Refused
     \/ /\ Granted
        /\ operator' = caller
        /\ ClearOperatorSlot
        /\ Publish(Event("op_acc", caller), NoEvent)
        /\ UNCHANGED << storageVersion, admin, adminRenounced, guardVars, adminSlot >>

CancelOperatorProposal(caller) ==
  /\ Answer("cancel_operator_proposal", caller, RoleGate(caller) ?? RequirePending(pendingOperator))
  /\ \/ Refused
     \/ /\ Granted
        /\ ClearOperatorSlot
        /\ Publish(Event("op_can", caller), NoEvent)
        /\ UNCHANGED << roleVars, guardVars, adminSlot >>

\* Mutant: the open proposal is dropped without an event.
OperatorSlotClosedSilently(caller) == NoEvent

\* An open operator proposal is closed, and told, before what replaces it.
OperatorSlotClosed(caller) == IF pendingOperator = NoAddress THEN NoEvent ELSE Event("op_can", caller)

\* Mutant: a renounce leaves the operator proposal standing.
RenounceAdminOnly(caller) ==
  /\ Answer("renounce_admin", caller, RoleGate(caller))
  /\ Granted
  /\ adminRenounced' = TRUE
  /\ admin' = NoAddress
  /\ ClearAdminSlot
  /\ Publish(NoEvent, Event("adm_ren", caller))
  /\ UNCHANGED << storageVersion, operator, guardVars, operatorSlot >>

RenounceAdmin(caller) ==
  /\ Answer("renounce_admin", caller, RoleGate(caller))
  /\ \/ Refused
     \/ /\ Granted
        /\ adminRenounced' = TRUE
        /\ admin' = NoAddress
        /\ ClearAdminSlot
        /\ IF pendingOperator = NoAddress THEN UNCHANGED operatorSlot ELSE ClearOperatorSlot
        /\ Publish(OperatorSlotClosed(caller), Event("adm_ren", caller))
        /\ UNCHANGED << storageVersion, operator, guardVars >>

SetOperator(caller, newOperator) ==
  /\ Answer("set_operator", caller, RoleGate(caller))
  /\ \/ Refused
     \/ /\ Granted
        /\ operator' = newOperator
        /\ IF pendingOperator = NoAddress THEN UNCHANGED operatorSlot ELSE ClearOperatorSlot
        /\ Publish(OperatorSlotClosed(caller), Event("op_set", newOperator))
        /\ UNCHANGED << storageVersion, admin, adminRenounced, guardVars, adminSlot >>

LedgerCloses == CloseLedger /\ UNCHANGED << roleVars, guardVars, reply, slots, view >>

GovernanceInit ==
  /\ ContractInit
  /\ pendingAdmin = NoAddress
  /\ pendingAdminAt = NoTimestamp
  /\ pendingOperator = NoAddress
  /\ pendingOperatorAt = NoTimestamp
  /\ view = Actual
  /\ now = 0

GovernanceNext ==
  \/ \E caller, other \in Addresses :
       \/ Initialize(caller, other)
       \/ ProposeAdmin(caller, other)
       \/ ProposeOperator(caller, other)
       \/ SetOperator(caller, other)
  \/ \E caller \in Addresses :
       \/ \E reasonFits \in BOOLEAN : Pause(caller, reasonFits)
       \/ Unpause(caller)
       \/ FreezeConfig(caller)
       \/ UnfreezeConfig(caller)
       \/ AcceptAdmin(caller)
       \/ CancelAdminProposal(caller)
       \/ AcceptOperator(caller)
       \/ CancelOperatorProposal(caller)
       \/ RenounceAdmin(caller)
  \/ LedgerCloses

GovernanceSpec == GovernanceInit /\ [][GovernanceNext]_governanceVars

-----------------------------------------------------------------------------
(* Properties *)

SlotTypeOK ==
  /\ pendingAdmin \in Addresses \cup {NoAddress}
  /\ pendingOperator \in Addresses \cup {NoAddress}
  /\ pendingAdminAt \in Nat \cup {NoTimestamp}
  /\ pendingOperatorAt \in Nat \cup {NoTimestamp}

\* Every key holds a value of its type, and no role key survives without the
\* version stamp that lets an entry point run.
TypeOK ==
  /\ ContractTypeOK
  /\ SlotTypeOK
  /\ now \in Nat
  /\ storageVersion = 0 => admin = NoAddress /\ operator = NoAddress

\* renounce_admin can be called in any state of the handoffs; whatever was
\* pending, no accept can succeed afterwards, because accept_admin and
\* accept_operator look at nothing but their slot and its age.
RenouncedIsInert ==
  adminRenounced => pendingAdmin = NoAddress /\ pendingOperator = NoAddress

\* The committed events are enough to know the roles, both handoff slots with
\* their age, the pause and the freeze, and every proposal cycle they show is
\* well formed: opened once, closed once.  (A contract initialised again after
\* a renounce, which initialize allows, publishes nothing of it.)
StreamTellsState == (adminRenounced /\ admin # NoAddress) \/ view = Actual

\* get_pause_info answers exactly while the contract is paused.
PauseInfoMatchesFlag == adminRenounced \/ pauseInfo = paused

\* A role passes to an address only on that address's own call, while the
\* proposal an indexer saw last names it and is inside the window: a cancel, a
\* supersession, a direct assignment or a renounce in between always wins.  The
\* exceptions are the two single-step paths.
ConsentedHandoff ==
  [][/\ admin' # admin =>
          \/ reply'.call \in {"initialize", "renounce_admin"}
          \/ /\ reply' = [call |-> "accept_admin", caller |-> admin', status |-> Ok]
             /\ view.pendingAdmin = admin'
             /\ now <= view.pendingAdminAt + PROPOSAL_EXPIRY_WINDOW
     /\ operator' # operator =>
          \/ reply'.call = "initialize"
          \/ reply'.call = "set_operator" /\ reply'.caller = admin
          \/ /\ reply' = [call |-> "accept_operator", caller |-> operator', status |-> Ok]
             /\ view.pendingOperator = operator'
             /\ now <= view.pendingOperatorAt + PROPOSAL_EXPIRY_WINDOW]_governanceVars

\* While the configuration is frozen the roles and the handoff slots stand
\* still.  initialize does not ask whether it is frozen: this also says that
\* no sequence of calls leaves a frozen contract without an admin.
FreezeHoldsRoles == [][frozen => UNCHANGED << roleVars, slots >>]_governanceVars

\* After renounce_admin no call but initialize changes anything, whatever the
\* state it was called in and even for an admin a later initialize installs.
RenounceIsForGood ==
  [][adminRenounced /\ reply'.call # "initialize" => UNCHANGED << roleVars, guardVars, slots >>]_governanceVars

\* What the comment of require_proposal_valid says: the call that first finds a
\* proposal lapsed clears it.
LapsedProposalIsCleared ==
  [][reply'.status = "ProposalExpired" =>
       IF reply'.call = "accept_admin" THEN pendingAdmin' = NoAddress ELSE pendingOperator' = NoAddress]_governanceVars

=============================================================================
