----------------------------- MODULE AdminProofs -----------------------------
(***************************************************************************)
(* Proofs about what an admin does: first the roles and guards             *)
(* (Governance), then the severities (ConfigAdmin and the views of it).    *)
(* The two share the variables and checks of ContractState and nothing     *)
(* else; the proofs of one do not cite those of the other.                 *)
(***************************************************************************)
EXTENDS Governance, ConfigAdmin, ConfigViews, VecOpsProofs, TLAPS

\* A chain of checks answers Ok exactly when each of them does.
LEMMA ChainOk == \A a, b : (a ?? b = Ok) <=> (a = Ok /\ b = Ok)
BY DEF ??

(***************************************************************************)
(* Proofs about Governance, for any set of addresses, any window and any   *)
(* interleaving of calls.                                                  *)
(*                                                                         *)
(* Most of what matters holds only together.  StreamTellsState needs to    *)
(* know that nothing is pending after a renounce (accept_operator does not *)
(* ask whether the admin is gone); ConsentedHandoff needs the stream to be *)
(* right about the slot; FreezeHoldsRoles needs a frozen contract to have  *)
(* an admin, since initialize does not ask whether it is frozen.  GovernanceInv is   *)
(* the conjunction that is inductive.                                      *)
(***************************************************************************)

\* A slot has both its keys or neither.
SlotsPaired ==
  /\ pendingAdmin = NoAddress <=> pendingAdminAt = NoTimestamp
  /\ pendingOperator = NoAddress <=> pendingOperatorAt = NoTimestamp

\* What the life of the contract rules out: an initialised contract lost its
\* admin by a renounce only, and none of its guards is up before it has one.
Lifecycle ==
  /\ storageVersion \in {0, STORAGE_VERSION}
  /\ admin = NoAddress /\ ~adminRenounced => storageVersion = 0
  /\ storageVersion = 0 => ~adminRenounced /\ ~pauseInfo
  /\ frozen => admin # NoAddress

GovernanceInv ==
  /\ TypeOK
  /\ SlotsPaired
  /\ Lifecycle
  /\ RenouncedIsInert
  /\ StreamTellsState
  /\ PauseInfoMatchesFlag

-----------------------------------------------------------------------------
(* Checks *)

\* What a granted admin-only, freeze-gated call knows.
LEMMA GateOpens ==
  ASSUME NEW caller \in Addresses, RoleGate(caller) = Ok
  PROVE  storageVersion = STORAGE_VERSION /\ ~frozen /\ ~adminRenounced /\ admin = caller
BY DEF RoleGate, CheckVersion, RequireNotFrozen, RequireAdmin, Require, ??, Ok

\* What a granted admin-only call knows, frozen or not.
LEMMA AdminOpens ==
  ASSUME NEW caller \in Addresses, CheckVersion ?? RequireAdmin(caller) = Ok
  PROVE  storageVersion = STORAGE_VERSION /\ ~adminRenounced /\ admin = caller
BY DEF CheckVersion, RequireAdmin, Require, ??, Ok

\* What a granted accept knows of the slot it accepts from.
LEMMA AcceptOpens ==
  ASSUME NEW caller \in Addresses, NEW candidate, NEW proposedAt,
         CheckVersion ?? RequireNotFrozen ?? RequirePending(candidate)
           ?? RequireProposalValid(proposedAt) ?? Require(caller = candidate, "Unauthorized") = Ok
  PROVE  /\ storageVersion = STORAGE_VERSION /\ ~frozen
         /\ candidate # NoAddress /\ caller = candidate
         /\ proposedAt # NoTimestamp /\ now <= proposedAt + PROPOSAL_EXPIRY_WINDOW
<1>1. /\ CheckVersion = Ok /\ RequireNotFrozen = Ok /\ RequirePending(candidate) = Ok
      /\ RequireProposalValid(proposedAt) = Ok /\ Require(caller = candidate, "Unauthorized") = Ok
  BY ChainOk
<1> QED BY <1>1 DEF CheckVersion, RequireNotFrozen, RequirePending, RequireProposalValid, Require, ??, Ok

\* What a granted cancel knows: there is something to cancel.
LEMMA CancelOpens ==
  ASSUME NEW caller \in Addresses, NEW candidate, RoleGate(caller) ?? RequirePending(candidate) = Ok
  PROVE  /\ storageVersion = STORAGE_VERSION /\ ~frozen /\ ~adminRenounced /\ admin = caller
         /\ candidate # NoAddress
<1>1. RoleGate(caller) = Ok /\ RequirePending(candidate) = Ok
  BY ChainOk
<1> QED BY <1>1, GateOpens DEF RequirePending, Require, Ok

\* The reply of a call is of its type, and the call takes no time.
LEMMA AnswerTyped ==
  ASSUME NEW call, NEW caller \in Addresses, NEW status, Answer(call, caller, status)
  PROVE  /\ reply'.caller \in Addresses \cup {NoAddress}
         /\ Granted <=> status = Ok
         /\ now' = now
BY DEF Answer, Granted

\* A call that changes no key keeps the invariant.
LEMMA RefusedKeepsInv ==
  ASSUME GovernanceInv, now' = now, UNCHANGED << roleVars, guardVars, slots, view >>,
         reply'.caller \in Addresses \cup {NoAddress}
  PROVE  GovernanceInv'
<1>1. TypeOK'
  BY DEF GovernanceInv, TypeOK, ContractTypeOK, SlotTypeOK, roleVars, guardVars, slots, adminSlot, operatorSlot
<1>2. SlotsPaired' /\ Lifecycle' /\ RenouncedIsInert' /\ PauseInfoMatchesFlag'
  BY DEF GovernanceInv, SlotsPaired, Lifecycle, RenouncedIsInert, PauseInfoMatchesFlag,
         roleVars, guardVars, slots, adminSlot, operatorSlot
<1>3. StreamTellsState'
  BY DEF GovernanceInv, StreamTellsState, Actual, roleVars, guardVars, slots, adminSlot, operatorSlot
<1> QED BY <1>1, <1>2, <1>3 DEF GovernanceInv

-----------------------------------------------------------------------------
(* One lemma per entry point *)

\* initialize: the first call starts the stream, a later one follows a renounce.
LEMMA InitializeKeepsInv ==
  ASSUME GovernanceInv, NEW newAdmin \in Addresses, NEW newOperator \in Addresses, Initialize(newAdmin, newOperator)
  PROVE  GovernanceInv'
<1>1. /\ reply'.caller \in Addresses \cup {NoAddress}
      /\ now' = now
      /\ Granted => admin = NoAddress
  BY AnswerTyped DEF Initialize, Require, Ok
<1>2. CASE Refused
  BY <1>1, <1>2, RefusedKeepsInv DEF Refused
<1>3. CASE Granted
  <2>1. /\ admin' = newAdmin /\ operator' = newOperator /\ paused' = FALSE /\ storageVersion' = STORAGE_VERSION
        /\ UNCHANGED << adminRenounced, pauseInfo, frozen, slots >>
        /\ view' = IF storageVersion = 0 THEN Actual' ELSE view
    BY <1>3 DEF Initialize, Refused
  <2>2. admin = NoAddress /\ newAdmin # NoAddress
    BY <1>1, <1>3, AddressAssumption
  <2>3. TypeOK'
    <3>1. /\ storageVersion' \in 0 .. STORAGE_VERSION
          /\ storageVersion' # 0
      BY <2>1 DEF STORAGE_VERSION
    <3>2. /\ admin' \in Addresses \cup {NoAddress} /\ operator' \in Addresses \cup {NoAddress}
          /\ adminRenounced' \in BOOLEAN /\ pauseInfo' \in BOOLEAN /\ frozen' \in BOOLEAN
          /\ paused' \in BOOLEAN
      BY <2>1 DEF GovernanceInv, TypeOK, ContractTypeOK
    <3>3. SlotTypeOK' /\ now' \in Nat
      BY <1>1, <2>1 DEF GovernanceInv, TypeOK, SlotTypeOK, slots, adminSlot, operatorSlot
    <3> QED BY <1>1, <3>1, <3>2, <3>3 DEF TypeOK, ContractTypeOK
  <2>4. SlotsPaired' /\ Lifecycle' /\ RenouncedIsInert' /\ PauseInfoMatchesFlag'
    <3>1. SlotsPaired' /\ RenouncedIsInert'
      BY <2>1 DEF GovernanceInv, SlotsPaired, RenouncedIsInert, slots, adminSlot, operatorSlot
    <3>2. Lifecycle'
      BY <2>1, <2>2 DEF GovernanceInv, Lifecycle, STORAGE_VERSION
    <3>3. adminRenounced \/ ~pauseInfo
      BY <2>2 DEF GovernanceInv, Lifecycle
    <3>4. PauseInfoMatchesFlag'
      <4>1. pauseInfo \in BOOLEAN
        BY DEF GovernanceInv, TypeOK, ContractTypeOK
      <4> QED BY <2>1, <3>3, <4>1 DEF PauseInfoMatchesFlag
    <3> QED BY <3>1, <3>2, <3>4
  <2>5. StreamTellsState'
    BY <2>1, <2>2 DEF GovernanceInv, StreamTellsState, Lifecycle
  <2> QED BY <2>3, <2>4, <2>5 DEF GovernanceInv
<1> QED BY <1>2, <1>3 DEF Initialize

\* pause raises the flag and its metadata together.
LEMMA PauseKeepsInv ==
  ASSUME GovernanceInv, NEW caller \in Addresses, NEW reasonFits \in BOOLEAN, Pause(caller, reasonFits)
  PROVE  GovernanceInv'
<1>1. /\ reply'.caller \in Addresses \cup {NoAddress}
      /\ now' = now
      /\ Granted =>
           CheckVersion ?? RequireAdmin(caller) = Ok
  BY AnswerTyped, ChainOk DEF Pause
<1>2. CASE Refused
  BY <1>1, <1>2, RefusedKeepsInv DEF Refused
<1>3. CASE Granted
  <2>1. /\ SetPaused
        /\ Publish(Event("paused", caller), NoEvent)
        /\ UNCHANGED slots
    BY <1>3 DEF Pause, Refused
  <2>2. storageVersion = STORAGE_VERSION /\ ~adminRenounced /\ admin = caller
    BY <1>1, <1>3, AdminOpens
  <2>3. now \in Nat /\ now # NoTimestamp /\ NoAddress \notin Addresses
    BY AddressAssumption, GovernanceAssumption DEF GovernanceInv, TypeOK
  <2>4. TypeOK'
    BY <1>1, <2>1, <2>2, <2>3 DEF GovernanceInv, TypeOK, ContractTypeOK, SlotTypeOK, STORAGE_VERSION,
       roleVars, guardVars, slots, adminSlot, operatorSlot, SetPaused
  <2>5. SlotsPaired' /\ Lifecycle' /\ RenouncedIsInert' /\ PauseInfoMatchesFlag'
    BY <2>1, <2>2, <2>3 DEF GovernanceInv, SlotsPaired, Lifecycle, RenouncedIsInert, PauseInfoMatchesFlag,
       STORAGE_VERSION, roleVars, guardVars, slots, adminSlot, operatorSlot, SetPaused
  <2>6. view = Actual
    BY <2>2 DEF GovernanceInv, StreamTellsState
  <2>7. view' = Actual'
    BY <2>1, <2>2, <2>3, <2>6 DEF GovernanceInv, SlotsPaired, Publish, Consume, Event, NoEvent, Actual,
       roleVars, guardVars, slots, adminSlot, operatorSlot, SetPaused
  <2> QED BY <2>4, <2>5, <2>7 DEF GovernanceInv, StreamTellsState
<1> QED BY <1>2, <1>3 DEF Pause

\* unpause takes both away.
LEMMA UnpauseKeepsInv ==
  ASSUME GovernanceInv, NEW caller \in Addresses, Unpause(caller)
  PROVE  GovernanceInv'
<1>1. /\ reply'.caller \in Addresses \cup {NoAddress}
      /\ now' = now
      /\ Granted =>
           CheckVersion ?? RequireAdmin(caller) = Ok
  BY AnswerTyped, ChainOk DEF Unpause
<1>2. CASE Refused
  BY <1>1, <1>2, RefusedKeepsInv DEF Refused
<1>3. CASE Granted
  <2>1. /\ ClearPaused
        /\ Publish(Event("unpause", caller), NoEvent)
        /\ UNCHANGED slots
    BY <1>3 DEF Unpause, Refused
  <2>2. storageVersion = STORAGE_VERSION /\ ~adminRenounced /\ admin = caller
    BY <1>1, <1>3, AdminOpens
  <2>3. now \in Nat /\ now # NoTimestamp /\ NoAddress \notin Addresses
    BY AddressAssumption, GovernanceAssumption DEF GovernanceInv, TypeOK
  <2>4. TypeOK'
    BY <1>1, <2>1, <2>2, <2>3 DEF GovernanceInv, TypeOK, ContractTypeOK, SlotTypeOK, STORAGE_VERSION,
       roleVars, guardVars, slots, adminSlot, operatorSlot, ClearPaused
  <2>5. SlotsPaired' /\ Lifecycle' /\ RenouncedIsInert' /\ PauseInfoMatchesFlag'
    BY <2>1, <2>2, <2>3 DEF GovernanceInv, SlotsPaired, Lifecycle, RenouncedIsInert, PauseInfoMatchesFlag,
       STORAGE_VERSION, roleVars, guardVars, slots, adminSlot, operatorSlot, ClearPaused
  <2>6. view = Actual
    BY <2>2 DEF GovernanceInv, StreamTellsState
  <2>7. view' = Actual'
    BY <2>1, <2>2, <2>3, <2>6 DEF GovernanceInv, SlotsPaired, Publish, Consume, Event, NoEvent, Actual,
       roleVars, guardVars, slots, adminSlot, operatorSlot, ClearPaused
  <2> QED BY <2>4, <2>5, <2>7 DEF GovernanceInv, StreamTellsState
<1> QED BY <1>2, <1>3 DEF Unpause

\* A freeze needs an admin, who is there as long as it lasts.
LEMMA FreezeConfigKeepsInv ==
  ASSUME GovernanceInv, NEW caller \in Addresses, FreezeConfig(caller)
  PROVE  GovernanceInv'
<1>1. /\ reply'.caller \in Addresses \cup {NoAddress}
      /\ now' = now
      /\ Granted =>
           CheckVersion ?? RequireAdmin(caller) = Ok
  BY AnswerTyped, ChainOk DEF FreezeConfig
<1>2. CASE Refused
  BY <1>1, <1>2, RefusedKeepsInv DEF Refused
<1>3. CASE Granted
  <2>1. /\ SetFrozen
        /\ Publish(IF frozen THEN NoEvent ELSE Event("cfg_frz", caller), NoEvent)
        /\ UNCHANGED slots
    BY <1>3 DEF FreezeConfig, Refused
  <2>2. storageVersion = STORAGE_VERSION /\ ~adminRenounced /\ admin = caller
    BY <1>1, <1>3, AdminOpens
  <2>3. now \in Nat /\ now # NoTimestamp /\ NoAddress \notin Addresses
    BY AddressAssumption, GovernanceAssumption DEF GovernanceInv, TypeOK
  <2>4. TypeOK'
    BY <1>1, <2>1, <2>2, <2>3 DEF GovernanceInv, TypeOK, ContractTypeOK, SlotTypeOK, STORAGE_VERSION,
       roleVars, guardVars, slots, adminSlot, operatorSlot, SetFrozen
  <2>5. SlotsPaired' /\ Lifecycle' /\ RenouncedIsInert' /\ PauseInfoMatchesFlag'
    BY <2>1, <2>2, <2>3 DEF GovernanceInv, SlotsPaired, Lifecycle, RenouncedIsInert, PauseInfoMatchesFlag,
       STORAGE_VERSION, roleVars, guardVars, slots, adminSlot, operatorSlot, SetFrozen
  <2>6. view = Actual
    BY <2>2 DEF GovernanceInv, StreamTellsState
  <2>7. view' = Actual'
    BY <2>1, <2>2, <2>3, <2>6 DEF GovernanceInv, SlotsPaired, Publish, Consume, Event, NoEvent, Actual,
       roleVars, guardVars, slots, adminSlot, operatorSlot, SetFrozen
  <2> QED BY <2>4, <2>5, <2>7 DEF GovernanceInv, StreamTellsState
<1> QED BY <1>2, <1>3 DEF FreezeConfig

\* unfreeze_config publishes only when it changes the flag.
LEMMA UnfreezeConfigKeepsInv ==
  ASSUME GovernanceInv, NEW caller \in Addresses, UnfreezeConfig(caller)
  PROVE  GovernanceInv'
<1>1. /\ reply'.caller \in Addresses \cup {NoAddress}
      /\ now' = now
      /\ Granted =>
           CheckVersion ?? RequireAdmin(caller) = Ok
  BY AnswerTyped, ChainOk DEF UnfreezeConfig
<1>2. CASE Refused
  BY <1>1, <1>2, RefusedKeepsInv DEF Refused
<1>3. CASE Granted
  <2>1. /\ ClearFrozen
        /\ Publish(IF frozen THEN Event("cfg_unfrz", caller) ELSE NoEvent, NoEvent)
        /\ UNCHANGED slots
    BY <1>3 DEF UnfreezeConfig, Refused
  <2>2. storageVersion = STORAGE_VERSION /\ ~adminRenounced /\ admin = caller
    BY <1>1, <1>3, AdminOpens
  <2>3. now \in Nat /\ now # NoTimestamp /\ NoAddress \notin Addresses
    BY AddressAssumption, GovernanceAssumption DEF GovernanceInv, TypeOK
  <2>4. TypeOK'
    BY <1>1, <2>1, <2>2, <2>3 DEF GovernanceInv, TypeOK, ContractTypeOK, SlotTypeOK, STORAGE_VERSION,
       roleVars, guardVars, slots, adminSlot, operatorSlot, ClearFrozen
  <2>5. SlotsPaired' /\ Lifecycle' /\ RenouncedIsInert' /\ PauseInfoMatchesFlag'
    BY <2>1, <2>2, <2>3 DEF GovernanceInv, SlotsPaired, Lifecycle, RenouncedIsInert, PauseInfoMatchesFlag,
       STORAGE_VERSION, roleVars, guardVars, slots, adminSlot, operatorSlot, ClearFrozen
  <2>6. view = Actual
    BY <2>2 DEF GovernanceInv, StreamTellsState
  <2>7. view' = Actual'
    <3>1. frozen \in BOOLEAN
      BY DEF GovernanceInv, TypeOK, ContractTypeOK
    <3>2. /\ UNCHANGED << admin, operator, pendingAdmin, pendingAdminAt, pendingOperator, pendingOperatorAt, paused >>
          /\ frozen' = FALSE
      BY <2>1 DEF roleVars, slots, adminSlot, operatorSlot, ClearFrozen
    <3>3. CASE frozen
      BY <2>1, <2>6, <3>2, <3>3 DEF Publish, Consume, Event, NoEvent, Actual
    <3>4. CASE ~frozen
      <4>1. Actual' = Actual
        BY <3>1, <3>2, <3>4 DEF Actual
      <4> QED BY <2>1, <2>6, <3>4, <4>1 DEF Publish, Consume, Event, NoEvent
    <3> QED BY <3>3, <3>4
  <2> QED BY <2>4, <2>5, <2>7 DEF GovernanceInv, StreamTellsState
<1> QED BY <1>2, <1>3 DEF UnfreezeConfig

\* propose_admin supersedes an open proposal and says so.
LEMMA ProposeAdminKeepsInv ==
  ASSUME GovernanceInv, NEW caller \in Addresses, NEW newAdmin \in Addresses, ProposeAdmin(caller, newAdmin)
  PROVE  GovernanceInv'
<1>1. /\ reply'.caller \in Addresses \cup {NoAddress}
      /\ now' = now
      /\ Granted =>
           RoleGate(caller) = Ok
  BY AnswerTyped, ChainOk DEF ProposeAdmin
<1>2. CASE Refused
  BY <1>1, <1>2, RefusedKeepsInv DEF Refused
<1>3. CASE Granted
  <2>1. /\ pendingAdmin' = newAdmin /\ pendingAdminAt' = now
        /\ Publish(IF pendingAdmin = NoAddress THEN NoEvent ELSE Event("adm_sup", pendingAdmin),
                   Event("adm_prop", newAdmin))
        /\ UNCHANGED << roleVars, guardVars, operatorSlot >>
    BY <1>3 DEF ProposeAdmin, Refused
  <2>2. storageVersion = STORAGE_VERSION /\ ~frozen /\ ~adminRenounced /\ admin = caller
    BY <1>1, <1>3, GateOpens
  <2>3. now \in Nat /\ now # NoTimestamp /\ NoAddress \notin Addresses
    BY AddressAssumption, GovernanceAssumption DEF GovernanceInv, TypeOK
  <2>4. TypeOK'
    BY <1>1, <2>1, <2>2, <2>3 DEF GovernanceInv, TypeOK, ContractTypeOK, SlotTypeOK, STORAGE_VERSION,
       roleVars, guardVars, slots, adminSlot, operatorSlot
  <2>5. SlotsPaired' /\ Lifecycle' /\ RenouncedIsInert' /\ PauseInfoMatchesFlag'
    BY <2>1, <2>2, <2>3 DEF GovernanceInv, SlotsPaired, Lifecycle, RenouncedIsInert, PauseInfoMatchesFlag,
       STORAGE_VERSION, roleVars, guardVars, slots, adminSlot, operatorSlot
  <2>6. view = Actual
    BY <2>2 DEF GovernanceInv, StreamTellsState
  <2>7. view' = Actual'
    BY <2>1, <2>2, <2>3, <2>6, ZenonT(60) DEF GovernanceInv, SlotsPaired, Publish, Consume, Event, NoEvent, Actual,
       roleVars, guardVars, slots, adminSlot, operatorSlot
  <2> QED BY <2>4, <2>5, <2>7 DEF GovernanceInv, StreamTellsState
<1> QED BY <1>2, <1>3 DEF ProposeAdmin

\* accept_admin does not ask whether the admin role was renounced: an empty slot does.
LEMMA AcceptAdminKeepsInv ==
  ASSUME GovernanceInv, NEW caller \in Addresses, AcceptAdmin(caller)
  PROVE  GovernanceInv'
<1>1. /\ reply'.caller \in Addresses \cup {NoAddress}
      /\ now' = now
      /\ Granted =>
           CheckVersion ?? RequireNotFrozen ?? RequirePending(pendingAdmin) ?? RequireProposalValid(pendingAdminAt)
           ?? Require(caller = pendingAdmin, "Unauthorized") = Ok
  BY AnswerTyped, ChainOk DEF AcceptAdmin
<1>2. CASE Refused
  BY <1>1, <1>2, RefusedKeepsInv DEF Refused
<1>3. CASE Granted
  <2>1. /\ admin' = caller
        /\ ClearAdminSlot
        /\ Publish(Event("adm_acc", caller), NoEvent)
        /\ UNCHANGED << storageVersion, adminRenounced, operator, guardVars, operatorSlot >>
    BY <1>3 DEF AcceptAdmin, Refused
  <2>2. storageVersion = STORAGE_VERSION /\ ~frozen /\ ~adminRenounced /\ pendingAdmin = caller /\ caller # NoAddress
    BY <1>1, <1>3, AcceptOpens, AddressAssumption DEF GovernanceInv, RenouncedIsInert
  <2>3. now \in Nat /\ now # NoTimestamp /\ NoAddress \notin Addresses
    BY AddressAssumption, GovernanceAssumption DEF GovernanceInv, TypeOK
  <2>4. TypeOK'
    BY <1>1, <2>1, <2>2, <2>3 DEF GovernanceInv, TypeOK, ContractTypeOK, SlotTypeOK, STORAGE_VERSION,
       roleVars, guardVars, slots, adminSlot, operatorSlot, ClearAdminSlot
  <2>5. SlotsPaired' /\ Lifecycle' /\ RenouncedIsInert' /\ PauseInfoMatchesFlag'
    BY <2>1, <2>2, <2>3 DEF GovernanceInv, SlotsPaired, Lifecycle, RenouncedIsInert, PauseInfoMatchesFlag,
       STORAGE_VERSION, roleVars, guardVars, slots, adminSlot, operatorSlot, ClearAdminSlot
  <2>6. view = Actual
    BY <2>2 DEF GovernanceInv, StreamTellsState
  <2>7. view' = Actual'
    BY <2>1, <2>2, <2>3, <2>6 DEF GovernanceInv, SlotsPaired, Publish, Consume, Event, NoEvent, Actual,
       roleVars, guardVars, slots, adminSlot, operatorSlot, ClearAdminSlot
  <2> QED BY <2>4, <2>5, <2>7 DEF GovernanceInv, StreamTellsState
<1> QED BY <1>2, <1>3 DEF AcceptAdmin

\* cancel_admin_proposal closes the cycle it ends.
LEMMA CancelAdminProposalKeepsInv ==
  ASSUME GovernanceInv, NEW caller \in Addresses, CancelAdminProposal(caller)
  PROVE  GovernanceInv'
<1>1. /\ reply'.caller \in Addresses \cup {NoAddress}
      /\ now' = now
      /\ Granted =>
           RoleGate(caller) ?? RequirePending(pendingAdmin) = Ok
  BY AnswerTyped, ChainOk DEF CancelAdminProposal
<1>2. CASE Refused
  BY <1>1, <1>2, RefusedKeepsInv DEF Refused
<1>3. CASE Granted
  <2>1. /\ ClearAdminSlot
        /\ Publish(Event("adm_can", caller), NoEvent)
        /\ UNCHANGED << roleVars, guardVars, operatorSlot >>
    BY <1>3 DEF CancelAdminProposal, Refused
  <2>2. storageVersion = STORAGE_VERSION /\ ~frozen /\ ~adminRenounced /\ admin = caller /\ pendingAdmin # NoAddress
    BY <1>1, <1>3, CancelOpens
  <2>3. now \in Nat /\ now # NoTimestamp /\ NoAddress \notin Addresses
    BY AddressAssumption, GovernanceAssumption DEF GovernanceInv, TypeOK
  <2>4. TypeOK'
    BY <1>1, <2>1, <2>2, <2>3 DEF GovernanceInv, TypeOK, ContractTypeOK, SlotTypeOK, STORAGE_VERSION,
       roleVars, guardVars, slots, adminSlot, operatorSlot, ClearAdminSlot
  <2>5. SlotsPaired' /\ Lifecycle' /\ RenouncedIsInert' /\ PauseInfoMatchesFlag'
    BY <2>1, <2>2, <2>3 DEF GovernanceInv, SlotsPaired, Lifecycle, RenouncedIsInert, PauseInfoMatchesFlag,
       STORAGE_VERSION, roleVars, guardVars, slots, adminSlot, operatorSlot, ClearAdminSlot
  <2>6. view = Actual
    BY <2>2 DEF GovernanceInv, StreamTellsState
  <2>7. view' = Actual'
    BY <2>1, <2>2, <2>3, <2>6 DEF GovernanceInv, SlotsPaired, Publish, Consume, Event, NoEvent, Actual,
       roleVars, guardVars, slots, adminSlot, operatorSlot, ClearAdminSlot
  <2> QED BY <2>4, <2>5, <2>7 DEF GovernanceInv, StreamTellsState
<1> QED BY <1>2, <1>3 DEF CancelAdminProposal

\* propose_operator supersedes an open proposal and says so.
LEMMA ProposeOperatorKeepsInv ==
  ASSUME GovernanceInv, NEW caller \in Addresses, NEW newOperator \in Addresses, ProposeOperator(caller, newOperator)
  PROVE  GovernanceInv'
<1>1. /\ reply'.caller \in Addresses \cup {NoAddress}
      /\ now' = now
      /\ Granted =>
           RoleGate(caller) = Ok
  BY AnswerTyped, ChainOk DEF ProposeOperator
<1>2. CASE Refused
  BY <1>1, <1>2, RefusedKeepsInv DEF Refused
<1>3. CASE Granted
  <2>1. /\ pendingOperator' = newOperator /\ pendingOperatorAt' = now
        /\ Publish(IF pendingOperator = NoAddress THEN NoEvent ELSE Event("op_sup", pendingOperator),
                   Event("op_prop", newOperator))
        /\ UNCHANGED << roleVars, guardVars, adminSlot >>
    BY <1>3 DEF ProposeOperator, Refused
  <2>2. storageVersion = STORAGE_VERSION /\ ~frozen /\ ~adminRenounced /\ admin = caller
    BY <1>1, <1>3, GateOpens
  <2>3. now \in Nat /\ now # NoTimestamp /\ NoAddress \notin Addresses
    BY AddressAssumption, GovernanceAssumption DEF GovernanceInv, TypeOK
  <2>4. TypeOK'
    BY <1>1, <2>1, <2>2, <2>3 DEF GovernanceInv, TypeOK, ContractTypeOK, SlotTypeOK, STORAGE_VERSION,
       roleVars, guardVars, slots, adminSlot, operatorSlot
  <2>5. SlotsPaired' /\ Lifecycle' /\ RenouncedIsInert' /\ PauseInfoMatchesFlag'
    BY <2>1, <2>2, <2>3 DEF GovernanceInv, SlotsPaired, Lifecycle, RenouncedIsInert, PauseInfoMatchesFlag,
       STORAGE_VERSION, roleVars, guardVars, slots, adminSlot, operatorSlot
  <2>6. view = Actual
    BY <2>2 DEF GovernanceInv, StreamTellsState
  <2>7. view' = Actual'
    BY <2>1, <2>2, <2>3, <2>6 DEF GovernanceInv, SlotsPaired, Publish, Consume, Event, NoEvent, Actual,
       roleVars, guardVars, slots, adminSlot, operatorSlot
  <2> QED BY <2>4, <2>5, <2>7 DEF GovernanceInv, StreamTellsState
<1> QED BY <1>2, <1>3 DEF ProposeOperator

\* accept_operator, like accept_admin, relies on the slot being empty after a renounce.
LEMMA AcceptOperatorKeepsInv ==
  ASSUME GovernanceInv, NEW caller \in Addresses, AcceptOperator(caller)
  PROVE  GovernanceInv'
<1>1. /\ reply'.caller \in Addresses \cup {NoAddress}
      /\ now' = now
      /\ Granted =>
           CheckVersion ?? RequireNotFrozen ?? RequirePending(pendingOperator) ?? RequireProposalValid(pendingOperatorAt)
           ?? Require(caller = pendingOperator, "Unauthorized") = Ok
  BY AnswerTyped, ChainOk DEF AcceptOperator
<1>2. CASE Refused
  BY <1>1, <1>2, RefusedKeepsInv DEF Refused
<1>3. CASE Granted
  <2>1. /\ operator' = caller
        /\ ClearOperatorSlot
        /\ Publish(Event("op_acc", caller), NoEvent)
        /\ UNCHANGED << storageVersion, admin, adminRenounced, guardVars, adminSlot >>
    BY <1>3 DEF AcceptOperator, Refused
  <2>2. storageVersion = STORAGE_VERSION /\ ~frozen /\ ~adminRenounced /\ pendingOperator = caller /\ caller # NoAddress
    BY <1>1, <1>3, AcceptOpens, AddressAssumption DEF GovernanceInv, RenouncedIsInert
  <2>3. now \in Nat /\ now # NoTimestamp /\ NoAddress \notin Addresses
    BY AddressAssumption, GovernanceAssumption DEF GovernanceInv, TypeOK
  <2>4. TypeOK'
    BY <1>1, <2>1, <2>2, <2>3 DEF GovernanceInv, TypeOK, ContractTypeOK, SlotTypeOK, STORAGE_VERSION,
       roleVars, guardVars, slots, adminSlot, operatorSlot, ClearOperatorSlot
  <2>5. SlotsPaired' /\ Lifecycle' /\ RenouncedIsInert' /\ PauseInfoMatchesFlag'
    BY <2>1, <2>2, <2>3 DEF GovernanceInv, SlotsPaired, Lifecycle, RenouncedIsInert, PauseInfoMatchesFlag,
       STORAGE_VERSION, roleVars, guardVars, slots, adminSlot, operatorSlot, ClearOperatorSlot
  <2>6. view = Actual
    BY <2>2 DEF GovernanceInv, StreamTellsState
  <2>7. view' = Actual'
    BY <2>1, <2>2, <2>3, <2>6 DEF GovernanceInv, SlotsPaired, Publish, Consume, Event, NoEvent, Actual,
       roleVars, guardVars, slots, adminSlot, operatorSlot, ClearOperatorSlot
  <2> QED BY <2>4, <2>5, <2>7 DEF GovernanceInv, StreamTellsState
<1> QED BY <1>2, <1>3 DEF AcceptOperator

\* cancel_operator_proposal closes the cycle it ends.
LEMMA CancelOperatorProposalKeepsInv ==
  ASSUME GovernanceInv, NEW caller \in Addresses, CancelOperatorProposal(caller)
  PROVE  GovernanceInv'
<1>1. /\ reply'.caller \in Addresses \cup {NoAddress}
      /\ now' = now
      /\ Granted =>
           RoleGate(caller) ?? RequirePending(pendingOperator) = Ok
  BY AnswerTyped, ChainOk DEF CancelOperatorProposal
<1>2. CASE Refused
  BY <1>1, <1>2, RefusedKeepsInv DEF Refused
<1>3. CASE Granted
  <2>1. /\ ClearOperatorSlot
        /\ Publish(Event("op_can", caller), NoEvent)
        /\ UNCHANGED << roleVars, guardVars, adminSlot >>
    BY <1>3 DEF CancelOperatorProposal, Refused
  <2>2. storageVersion = STORAGE_VERSION /\ ~frozen /\ ~adminRenounced /\ admin = caller /\ pendingOperator # NoAddress
    BY <1>1, <1>3, CancelOpens
  <2>3. now \in Nat /\ now # NoTimestamp /\ NoAddress \notin Addresses
    BY AddressAssumption, GovernanceAssumption DEF GovernanceInv, TypeOK
  <2>4. TypeOK'
    BY <1>1, <2>1, <2>2, <2>3 DEF GovernanceInv, TypeOK, ContractTypeOK, SlotTypeOK, STORAGE_VERSION,
       roleVars, guardVars, slots, adminSlot, operatorSlot, ClearOperatorSlot
  <2>5. SlotsPaired' /\ Lifecycle' /\ RenouncedIsInert' /\ PauseInfoMatchesFlag'
    BY <2>1, <2>2, <2>3 DEF GovernanceInv, SlotsPaired, Lifecycle, RenouncedIsInert, PauseInfoMatchesFlag,
       STORAGE_VERSION, roleVars, guardVars, slots, adminSlot, operatorSlot, ClearOperatorSlot
  <2>6. view = Actual
    BY <2>2 DEF GovernanceInv, StreamTellsState
  <2>7. view' = Actual'
    BY <2>1, <2>2, <2>3, <2>6 DEF GovernanceInv, SlotsPaired, Publish, Consume, Event, NoEvent, Actual,
       roleVars, guardVars, slots, adminSlot, operatorSlot, ClearOperatorSlot
  <2> QED BY <2>4, <2>5, <2>7 DEF GovernanceInv, StreamTellsState
<1> QED BY <1>2, <1>3 DEF CancelOperatorProposal

\* renounce_admin empties both slots and closes an open operator cycle first.
LEMMA RenounceAdminKeepsInv ==
  ASSUME GovernanceInv, NEW caller \in Addresses, RenounceAdmin(caller)
  PROVE  GovernanceInv'
<1>1. /\ reply'.caller \in Addresses \cup {NoAddress}
      /\ now' = now
      /\ Granted =>
           RoleGate(caller) = Ok
  BY AnswerTyped, ChainOk DEF RenounceAdmin
<1>2. CASE Refused
  BY <1>1, <1>2, RefusedKeepsInv DEF Refused
<1>3. CASE Granted
  <2>1. /\ adminRenounced' = TRUE /\ admin' = NoAddress
        /\ ClearAdminSlot
        /\ IF pendingOperator = NoAddress THEN UNCHANGED operatorSlot ELSE ClearOperatorSlot
        /\ Publish(OperatorSlotClosed(caller), Event("adm_ren", caller))
        /\ UNCHANGED << storageVersion, operator, guardVars >>
    BY <1>3 DEF RenounceAdmin, Refused
  <2>2. storageVersion = STORAGE_VERSION /\ ~frozen /\ ~adminRenounced /\ admin = caller
    BY <1>1, <1>3, GateOpens
  <2>3. now \in Nat /\ now # NoTimestamp /\ NoAddress \notin Addresses
    BY AddressAssumption, GovernanceAssumption DEF GovernanceInv, TypeOK
  <2>4. TypeOK'
    BY <1>1, <2>1, <2>2, <2>3 DEF GovernanceInv, TypeOK, ContractTypeOK, SlotTypeOK, STORAGE_VERSION,
       roleVars, guardVars, slots, adminSlot, operatorSlot, ClearAdminSlot, ClearOperatorSlot, OperatorSlotClosed
  <2>5. SlotsPaired' /\ Lifecycle' /\ RenouncedIsInert' /\ PauseInfoMatchesFlag'
    BY <2>1, <2>2, <2>3 DEF GovernanceInv, SlotsPaired, Lifecycle, RenouncedIsInert, PauseInfoMatchesFlag,
       STORAGE_VERSION, roleVars, guardVars, slots, adminSlot, operatorSlot, ClearAdminSlot, ClearOperatorSlot, OperatorSlotClosed
  <2>6. view = Actual
    BY <2>2 DEF GovernanceInv, StreamTellsState
  <2>7. view' = Actual'
    BY <2>1, <2>2, <2>3, <2>6, ZenonT(60) DEF GovernanceInv, SlotsPaired, Publish, Consume, Event, NoEvent, Actual,
       roleVars, guardVars, slots, adminSlot, operatorSlot, ClearAdminSlot, ClearOperatorSlot, OperatorSlotClosed
  <2> QED BY <2>4, <2>5, <2>7 DEF GovernanceInv, StreamTellsState
<1> QED BY <1>2, <1>3 DEF RenounceAdmin

\* set_operator closes an open operator cycle before it assigns the role.
LEMMA SetOperatorKeepsInv ==
  ASSUME GovernanceInv, NEW caller \in Addresses, NEW newOperator \in Addresses, SetOperator(caller, newOperator)
  PROVE  GovernanceInv'
<1>1. /\ reply'.caller \in Addresses \cup {NoAddress}
      /\ now' = now
      /\ Granted =>
           RoleGate(caller) = Ok
  BY AnswerTyped, ChainOk DEF SetOperator
<1>2. CASE Refused
  BY <1>1, <1>2, RefusedKeepsInv DEF Refused
<1>3. CASE Granted
  <2>1. /\ operator' = newOperator
        /\ IF pendingOperator = NoAddress THEN UNCHANGED operatorSlot ELSE ClearOperatorSlot
        /\ Publish(OperatorSlotClosed(caller), Event("op_set", newOperator))
        /\ UNCHANGED << storageVersion, admin, adminRenounced, guardVars, adminSlot >>
    BY <1>3 DEF SetOperator, Refused
  <2>2. storageVersion = STORAGE_VERSION /\ ~frozen /\ ~adminRenounced /\ admin = caller
    BY <1>1, <1>3, GateOpens
  <2>3. now \in Nat /\ now # NoTimestamp /\ NoAddress \notin Addresses
    BY AddressAssumption, GovernanceAssumption DEF GovernanceInv, TypeOK
  <2>4. TypeOK'
    BY <1>1, <2>1, <2>2, <2>3 DEF GovernanceInv, TypeOK, ContractTypeOK, SlotTypeOK, STORAGE_VERSION,
       roleVars, guardVars, slots, adminSlot, operatorSlot, ClearOperatorSlot, OperatorSlotClosed
  <2>5. SlotsPaired' /\ Lifecycle' /\ RenouncedIsInert' /\ PauseInfoMatchesFlag'
    BY <2>1, <2>2, <2>3 DEF GovernanceInv, SlotsPaired, Lifecycle, RenouncedIsInert, PauseInfoMatchesFlag,
       STORAGE_VERSION, roleVars, guardVars, slots, adminSlot, operatorSlot, ClearOperatorSlot, OperatorSlotClosed
  <2>6. view = Actual
    BY <2>2 DEF GovernanceInv, StreamTellsState
  <2>7. view' = Actual'
    BY <2>1, <2>2, <2>3, <2>6, ZenonT(60) DEF GovernanceInv, SlotsPaired, Publish, Consume, Event, NoEvent, Actual,
       roleVars, guardVars, slots, adminSlot, operatorSlot, ClearOperatorSlot, OperatorSlotClosed
  <2> QED BY <2>4, <2>5, <2>7 DEF GovernanceInv, StreamTellsState
<1> QED BY <1>2, <1>3 DEF SetOperator

\* A new ledger touches no key.
LEMMA NewLedgerKeepsInv ==
  ASSUME GovernanceInv, LedgerCloses
  PROVE  GovernanceInv'
<1>1. TypeOK'
  BY DEF LedgerCloses, CloseLedger, GovernanceInv, TypeOK, ContractTypeOK, SlotTypeOK, roleVars, guardVars, slots, adminSlot, operatorSlot
<1>2. SlotsPaired' /\ Lifecycle' /\ RenouncedIsInert' /\ PauseInfoMatchesFlag'
  BY DEF LedgerCloses, GovernanceInv, SlotsPaired, Lifecycle, RenouncedIsInert, PauseInfoMatchesFlag,
         roleVars, guardVars, slots, adminSlot, operatorSlot
<1>3. StreamTellsState'
  BY DEF LedgerCloses, GovernanceInv, StreamTellsState, Actual, roleVars, guardVars, slots, adminSlot, operatorSlot
<1> QED BY <1>1, <1>2, <1>3 DEF GovernanceInv

-----------------------------------------------------------------------------
(* The invariant *)

\* Before the contract is deployed there is nothing to be wrong about.
LEMMA GovernanceStarts == GovernanceInit => GovernanceInv
<1> SUFFICES ASSUME GovernanceInit PROVE GovernanceInv
  OBVIOUS
<1>1. /\ storageVersion = 0 /\ admin = NoAddress /\ operator = NoAddress /\ now = 0
      /\ adminRenounced = FALSE /\ paused = FALSE /\ pauseInfo = FALSE /\ frozen = FALSE
      /\ reply.caller = NoAddress
      /\ pendingAdmin = NoAddress /\ pendingAdminAt = NoTimestamp
      /\ pendingOperator = NoAddress /\ pendingOperatorAt = NoTimestamp
      /\ view = Actual
  BY DEF GovernanceInit, ContractInit
<1>2. 0 \in 0 .. STORAGE_VERSION
  BY DEF STORAGE_VERSION
<1>3. TypeOK
  BY <1>1, <1>2 DEF TypeOK, ContractTypeOK, SlotTypeOK
<1>4. SlotsPaired /\ Lifecycle /\ RenouncedIsInert
  BY <1>1 DEF SlotsPaired, Lifecycle, RenouncedIsInert
<1>5. StreamTellsState /\ PauseInfoMatchesFlag
  BY <1>1 DEF StreamTellsState, PauseInfoMatchesFlag
<1> QED BY <1>3, <1>4, <1>5 DEF GovernanceInv

\* Every step keeps the invariant.
LEMMA GovernanceInductive == GovernanceInv /\ [GovernanceNext]_governanceVars => GovernanceInv'
<1> SUFFICES ASSUME GovernanceInv, [GovernanceNext]_governanceVars PROVE GovernanceInv'
  OBVIOUS
<1>1. ASSUME NEW caller \in Addresses, NEW other \in Addresses,
             \/ Initialize(caller, other)
             \/ ProposeAdmin(caller, other)
             \/ ProposeOperator(caller, other)
             \/ SetOperator(caller, other)
      PROVE  GovernanceInv'
  BY <1>1, InitializeKeepsInv, ProposeAdminKeepsInv, ProposeOperatorKeepsInv, SetOperatorKeepsInv
<1>2. ASSUME NEW caller \in Addresses,
             \/ \E reasonFits \in BOOLEAN : Pause(caller, reasonFits)
             \/ Unpause(caller)
             \/ FreezeConfig(caller)
             \/ UnfreezeConfig(caller)
      PROVE  GovernanceInv'
  BY <1>2, PauseKeepsInv, UnpauseKeepsInv, FreezeConfigKeepsInv, UnfreezeConfigKeepsInv
<1>3. ASSUME NEW caller \in Addresses,
             \/ AcceptAdmin(caller)
             \/ CancelAdminProposal(caller)
             \/ AcceptOperator(caller)
             \/ CancelOperatorProposal(caller)
             \/ RenounceAdmin(caller)
      PROVE  GovernanceInv'
  BY <1>3, AcceptAdminKeepsInv, CancelAdminProposalKeepsInv, AcceptOperatorKeepsInv,
     CancelOperatorProposalKeepsInv, RenounceAdminKeepsInv
<1>4. CASE LedgerCloses
  BY <1>4, NewLedgerKeepsInv
<1>5. CASE UNCHANGED governanceVars
  <2>1. TypeOK'
    BY <1>5 DEF governanceVars, GovernanceInv, TypeOK, ContractTypeOK, SlotTypeOK, roleVars, guardVars, slots, adminSlot, operatorSlot
  <2>2. SlotsPaired' /\ Lifecycle' /\ RenouncedIsInert' /\ PauseInfoMatchesFlag'
    BY <1>5 DEF governanceVars, GovernanceInv, SlotsPaired, Lifecycle, RenouncedIsInert, PauseInfoMatchesFlag,
       roleVars, guardVars, slots, adminSlot, operatorSlot
  <2>3. StreamTellsState'
    BY <1>5 DEF governanceVars, GovernanceInv, StreamTellsState, Actual, roleVars, guardVars, slots, adminSlot, operatorSlot
  <2> QED BY <2>1, <2>2, <2>3 DEF GovernanceInv
<1> QED BY <1>1, <1>2, <1>3, <1>4, <1>5 DEF GovernanceNext

\* The inductive invariant holds in every reachable state.
THEOREM GovernanceAlways == GovernanceSpec => []GovernanceInv
BY GovernanceStarts, GovernanceInductive, PTL DEF GovernanceSpec

\* Roles, guards and slots hold values of their types, and no role exists
\* without the version stamp.
THEOREM TypeCorrect == GovernanceSpec => []TypeOK
BY GovernanceAlways, PTL DEF GovernanceInv

\* governance.rs and the pause and freeze of lib.rs: the committed events are
\* enough to know the roles, the slots and the guards, for any number of
\* addresses and any interleaving of their calls.
THEOREM RoleStreamAlwaysTells == GovernanceSpec => []StreamTellsState
BY GovernanceAlways, PTL DEF GovernanceInv

\* renounce_admin: nothing is pending afterwards, so no accept can succeed.
THEOREM RenouncedAlwaysInert == GovernanceSpec => []RenouncedIsInert
BY GovernanceAlways, PTL DEF GovernanceInv

\* pause and unpause: the metadata is there exactly while the flag is up.
THEOREM PauseInfoAlwaysMatches == GovernanceSpec => []PauseInfoMatchesFlag
BY GovernanceAlways, PTL DEF GovernanceInv

-----------------------------------------------------------------------------
(* What a step may never do *)

\* A granted call behind the freeze gate was not made on a frozen contract, and
\* not by anyone but the admin.
LEMMA GatedGrant ==
  ASSUME NEW call, NEW caller \in Addresses, NEW rest,
         \/ Answer(call, caller, RoleGate(caller) ?? rest)
         \/ Answer(call, caller, RoleGate(caller)),
         Granted
  PROVE  ~frozen /\ ~adminRenounced /\ admin = caller
<1>1. RoleGate(caller) = Ok
  BY ChainOk DEF Answer, Granted
<1> QED BY <1>1, GateOpens

\* A granted accept was made by the candidate of the slot, in time.
LEMMA AcceptGrant ==
  ASSUME NEW call, NEW caller \in Addresses, NEW candidate, NEW proposedAt,
         Answer(call, caller,
           CheckVersion ?? RequireNotFrozen ?? RequirePending(candidate)
             ?? RequireProposalValid(proposedAt) ?? Require(caller = candidate, "Unauthorized")),
         Granted
  PROVE  /\ ~frozen /\ candidate # NoAddress /\ caller = candidate
         /\ now <= proposedAt + PROPOSAL_EXPIRY_WINDOW
         /\ reply' = [call |-> call, caller |-> caller, status |-> Ok]
<1>1. /\ CheckVersion ?? RequireNotFrozen ?? RequirePending(candidate)
           ?? RequireProposalValid(proposedAt) ?? Require(caller = candidate, "Unauthorized") = Ok
      /\ reply' = [call |-> call, caller |-> caller, status |-> Ok]
  BY DEF Answer, Granted
<1> QED BY <1>1, AcceptOpens

\* What a step may do to the roles, and who made it: an initialize of a contract
\* with no admin, a gated call of the admin, or an accept by the candidate;
\* any other step leaves roles and slots alone.
RoleStep ==
  \/ UNCHANGED << roleVars, slots >>
  \/ admin = NoAddress /\ reply'.call = "initialize"
  \/ /\ ~frozen /\ ~adminRenounced /\ admin = reply'.caller
     /\ \/ UNCHANGED << admin, operator >>
        \/ reply'.call = "renounce_admin" /\ operator' = operator
        \/ reply'.call = "set_operator" /\ admin' = admin
  \/ /\ ~frozen /\ pendingAdmin # NoAddress /\ admin' = pendingAdmin /\ operator' = operator
     /\ now <= pendingAdminAt + PROPOSAL_EXPIRY_WINDOW
     /\ reply' = [call |-> "accept_admin", caller |-> pendingAdmin, status |-> Ok]
  \/ /\ ~frozen /\ pendingOperator # NoAddress /\ operator' = pendingOperator /\ admin' = admin
     /\ now <= pendingOperatorAt + PROPOSAL_EXPIRY_WINDOW
     /\ reply' = [call |-> "accept_operator", caller |-> pendingOperator, status |-> Ok]

\* Every step of the system is such a step.
LEMMA StepsAreRoleSteps == [GovernanceNext]_governanceVars => RoleStep
<1> SUFFICES ASSUME [GovernanceNext]_governanceVars PROVE RoleStep
  OBVIOUS
<1>r. Refused => RoleStep
  BY DEF Refused, RoleStep
<1>1. ASSUME NEW caller \in Addresses, NEW other \in Addresses, Initialize(caller, other) PROVE RoleStep
  BY <1>1, <1>r DEF Initialize, Answer, Granted, Require, Ok, RoleStep
<1>2. ASSUME NEW caller \in Addresses, NEW other \in Addresses, ProposeAdmin(caller, other) PROVE RoleStep
  <2>1. CASE Granted
    <3>1. ~frozen /\ ~adminRenounced /\ admin = caller
      BY <1>2, <2>1, GatedGrant DEF ProposeAdmin
    <3>2. UNCHANGED << admin, operator >> /\ reply'.caller = caller
      BY <1>2, <2>1 DEF ProposeAdmin, Refused, Answer, roleVars
    <3> QED BY <3>1, <3>2 DEF RoleStep
  <2> QED BY <1>2, <1>r, <2>1 DEF ProposeAdmin
<1>3. ASSUME NEW caller \in Addresses, NEW other \in Addresses, ProposeOperator(caller, other) PROVE RoleStep
  <2>1. CASE Granted
    <3>1. ~frozen /\ ~adminRenounced /\ admin = caller
      BY <1>3, <2>1, GatedGrant DEF ProposeOperator
    <3>2. UNCHANGED << admin, operator >> /\ reply'.caller = caller
      BY <1>3, <2>1 DEF ProposeOperator, Refused, Answer, roleVars
    <3> QED BY <3>1, <3>2 DEF RoleStep
  <2> QED BY <1>3, <1>r, <2>1 DEF ProposeOperator
<1>4. ASSUME NEW caller \in Addresses, NEW other \in Addresses, SetOperator(caller, other) PROVE RoleStep
  <2>1. CASE Granted
    <3>1. ~frozen /\ ~adminRenounced /\ admin = caller
      BY <1>4, <2>1, GatedGrant DEF SetOperator
    <3>2. admin' = admin /\ reply'.caller = caller /\ reply'.call = "set_operator"
      BY <1>4, <2>1 DEF SetOperator, Refused, Answer
    <3> QED BY <3>1, <3>2 DEF RoleStep
  <2> QED BY <1>4, <1>r, <2>1 DEF SetOperator
<1>5. ASSUME NEW caller \in Addresses,
             \/ \E reasonFits \in BOOLEAN : Pause(caller, reasonFits)
             \/ Unpause(caller)
             \/ FreezeConfig(caller)
             \/ UnfreezeConfig(caller)
      PROVE  RoleStep
  BY <1>5, <1>r DEF Pause, Unpause, FreezeConfig, UnfreezeConfig,
                    SetPaused, ClearPaused, SetFrozen, ClearFrozen, RoleStep
<1>6. ASSUME NEW caller \in Addresses, AcceptAdmin(caller) PROVE RoleStep
  <2>1. CASE Granted
    <3>1. /\ ~frozen /\ pendingAdmin # NoAddress /\ caller = pendingAdmin
          /\ now <= pendingAdminAt + PROPOSAL_EXPIRY_WINDOW
          /\ reply' = [call |-> "accept_admin", caller |-> caller, status |-> Ok]
      BY <1>6, <2>1, AcceptGrant DEF AcceptAdmin
    <3>2. admin' = caller /\ operator' = operator
      BY <1>6, <2>1 DEF AcceptAdmin, Refused
    <3> QED BY <3>1, <3>2 DEF RoleStep
  <2> QED BY <1>6, <1>r, <2>1 DEF AcceptAdmin
<1>7. ASSUME NEW caller \in Addresses, AcceptOperator(caller) PROVE RoleStep
  <2>1. CASE Granted
    <3>1. /\ ~frozen /\ pendingOperator # NoAddress /\ caller = pendingOperator
          /\ now <= pendingOperatorAt + PROPOSAL_EXPIRY_WINDOW
          /\ reply' = [call |-> "accept_operator", caller |-> caller, status |-> Ok]
      BY <1>7, <2>1, AcceptGrant DEF AcceptOperator
    <3>2. operator' = caller /\ admin' = admin
      BY <1>7, <2>1 DEF AcceptOperator, Refused
    <3> QED BY <3>1, <3>2 DEF RoleStep
  <2> QED BY <1>7, <1>r, <2>1 DEF AcceptOperator
<1>8. ASSUME NEW caller \in Addresses, CancelAdminProposal(caller) \/ CancelOperatorProposal(caller) PROVE RoleStep
  <2>1. CASE Granted
    <3>1. ~frozen /\ ~adminRenounced /\ admin = caller
      BY <1>8, <2>1, GatedGrant DEF CancelAdminProposal, CancelOperatorProposal
    <3>2. UNCHANGED << admin, operator >> /\ reply'.caller = caller
      BY <1>8, <2>1 DEF CancelAdminProposal, CancelOperatorProposal, Refused, Answer, roleVars
    <3> QED BY <3>1, <3>2 DEF RoleStep
  <2> QED BY <1>8, <1>r, <2>1 DEF CancelAdminProposal, CancelOperatorProposal
<1>9. ASSUME NEW caller \in Addresses, RenounceAdmin(caller) PROVE RoleStep
  <2>1. CASE Granted
    <3>1. ~frozen /\ ~adminRenounced /\ admin = caller
      BY <1>9, <2>1, GatedGrant DEF RenounceAdmin
    <3>2. operator' = operator /\ reply'.caller = caller /\ reply'.call = "renounce_admin"
      BY <1>9, <2>1 DEF RenounceAdmin, Refused, Answer
    <3> QED BY <3>1, <3>2 DEF RoleStep
  <2> QED BY <1>9, <1>r, <2>1 DEF RenounceAdmin
<1>10. CASE LedgerCloses
  BY <1>10 DEF LedgerCloses, RoleStep
<1>11. CASE UNCHANGED governanceVars
  BY <1>11 DEF governanceVars, RoleStep
<1> QED BY <1>1, <1>2, <1>3, <1>4, <1>5, <1>6, <1>7, <1>8, <1>9, <1>10, <1>11 DEF GovernanceNext

\* freeze_config: the roles and both slots stand still while it is in force,
\* initialize included, since a frozen contract always has an admin.
THEOREM FreezeAlwaysHolds == GovernanceSpec => FreezeHoldsRoles
<1>1. GovernanceInv /\ [GovernanceNext]_governanceVars => (frozen => UNCHANGED << roleVars, slots >>)
  <2> SUFFICES ASSUME GovernanceInv, [GovernanceNext]_governanceVars, frozen PROVE UNCHANGED << roleVars, slots >>
    OBVIOUS
  <2>1. RoleStep /\ admin # NoAddress
    BY StepsAreRoleSteps DEF GovernanceInv, Lifecycle
  <2> QED BY <2>1 DEF RoleStep
<1>2. GovernanceInv /\ [GovernanceNext]_governanceVars => [frozen => UNCHANGED << roleVars, slots >>]_governanceVars
  BY <1>1
<1> QED BY <1>2, GovernanceAlways, PTL DEF GovernanceSpec, FreezeHoldsRoles

\* The two-step handoff: whatever interleaving of proposals, cancels, direct
\* assignments and expiries, a role passes only to a consenting candidate that
\* the event stream names, inside the window.
THEOREM HandoffAlwaysConsented == GovernanceSpec => ConsentedHandoff
<1> DEFINE Consented ==
      /\ admin' # admin =>
           \/ reply'.call \in {"initialize", "renounce_admin"}
           \/ /\ reply' = [call |-> "accept_admin", caller |-> admin', status |-> Ok]
              /\ view.pendingAdmin = admin'
              /\ now <= view.pendingAdminAt + PROPOSAL_EXPIRY_WINDOW
      /\ operator' # operator =>
           \/ reply'.call = "initialize"
           \/ reply'.call = "set_operator" /\ reply'.caller = admin
           \/ /\ reply' = [call |-> "accept_operator", caller |-> operator', status |-> Ok]
              /\ view.pendingOperator = operator'
              /\ now <= view.pendingOperatorAt + PROPOSAL_EXPIRY_WINDOW
<1>1. GovernanceInv /\ [GovernanceNext]_governanceVars => Consented
  <2> SUFFICES ASSUME GovernanceInv, [GovernanceNext]_governanceVars PROVE Consented
    OBVIOUS
  <2>1. RoleStep
    BY StepsAreRoleSteps
  <2>2. pendingAdmin # NoAddress \/ pendingOperator # NoAddress =>
          /\ view.pendingAdmin = pendingAdmin /\ view.pendingAdminAt = pendingAdminAt
          /\ view.pendingOperator = pendingOperator /\ view.pendingOperatorAt = pendingOperatorAt
    BY DEF GovernanceInv, RenouncedIsInert, StreamTellsState, Actual
  <2>3. CASE UNCHANGED << admin, operator >>
    BY <2>3
  <2>4. CASE admin' # admin \/ operator' # operator
    BY <2>1, <2>2, <2>4 DEF RoleStep, roleVars
  <2> QED BY <2>3, <2>4
<1>2. GovernanceInv /\ [GovernanceNext]_governanceVars => [Consented]_governanceVars
  BY <1>1
<1> QED BY <1>2, GovernanceAlways, PTL DEF GovernanceSpec, ConsentedHandoff

\* Only initialize, or an admin who has not renounced, moves a guard.
LEMMA StepsAreGuardSteps ==
  [GovernanceNext]_governanceVars => UNCHANGED guardVars \/ reply'.call = "initialize" \/ ~adminRenounced
<1> SUFFICES ASSUME [GovernanceNext]_governanceVars, ~ UNCHANGED guardVars, adminRenounced
             PROVE  reply'.call = "initialize"
  OBVIOUS
<1>1. \A caller \in Addresses : CheckVersion ?? RequireAdmin(caller) # Ok
  BY AdminOpens
<1>2. ASSUME NEW caller \in Addresses, NEW other \in Addresses, Initialize(caller, other)
      PROVE  reply'.call = "initialize"
  BY <1>2 DEF Initialize, Answer
<1>3. ASSUME NEW caller \in Addresses, NEW reasonFits \in BOOLEAN, Pause(caller, reasonFits) PROVE FALSE
  <2>1. CheckVersion ?? RequireAdmin(caller) ?? Require(reasonFits, "InvalidInput") # Ok
    BY <1>1, ChainOk
  <2> QED BY <1>3, <2>1 DEF Pause, Answer, Granted, Refused
<1>4. ASSUME NEW caller \in Addresses, Unpause(caller) \/ FreezeConfig(caller) \/ UnfreezeConfig(caller) PROVE FALSE
  BY <1>1, <1>4 DEF Unpause, FreezeConfig, UnfreezeConfig, Answer, Granted, Refused
<1>5. ASSUME NEW caller \in Addresses, NEW other \in Addresses,
             ProposeAdmin(caller, other) \/ ProposeOperator(caller, other) \/ SetOperator(caller, other)
      PROVE  FALSE
  BY <1>5 DEF ProposeAdmin, ProposeOperator, SetOperator, Refused
<1>6. ASSUME NEW caller \in Addresses,
             \/ AcceptAdmin(caller) \/ CancelAdminProposal(caller)
             \/ AcceptOperator(caller) \/ CancelOperatorProposal(caller)
             \/ RenounceAdmin(caller)
      PROVE  FALSE
  BY <1>6 DEF AcceptAdmin, CancelAdminProposal, AcceptOperator, CancelOperatorProposal, RenounceAdmin, Refused
<1>7. ~ (LedgerCloses \/ UNCHANGED governanceVars)
  BY DEF LedgerCloses, governanceVars
<1> QED BY <1>2, <1>3, <1>4, <1>5, <1>6, <1>7 DEF GovernanceNext

\* renounce_admin, called in whatever state of the two handoffs, leaves a
\* contract that only initialize can change again.
THEOREM RenounceAlwaysForGood == GovernanceSpec => RenounceIsForGood
<1>1. GovernanceInv /\ [GovernanceNext]_governanceVars =>
        (adminRenounced /\ reply'.call # "initialize" => UNCHANGED << roleVars, guardVars, slots >>)
  <2> SUFFICES ASSUME GovernanceInv, [GovernanceNext]_governanceVars, adminRenounced, reply'.call # "initialize"
               PROVE  UNCHANGED << roleVars, guardVars, slots >>
    OBVIOUS
  <2>1. UNCHANGED guardVars
    BY StepsAreGuardSteps
  <2>2. UNCHANGED << roleVars, slots >>
    BY StepsAreRoleSteps DEF RoleStep, GovernanceInv, RenouncedIsInert
  <2> QED BY <2>1, <2>2
<1>2. GovernanceInv /\ [GovernanceNext]_governanceVars =>
        [adminRenounced /\ reply'.call # "initialize" => UNCHANGED << roleVars, guardVars, slots >>]_governanceVars
  BY <1>1
<1> QED BY <1>2, GovernanceAlways, PTL DEF GovernanceSpec, RenounceIsForGood

(***************************************************************************)
(* Proofs about ConfigAdmin, for every set of submitted configurations,    *)
(* every set of custom severities and every hash.                          *)
(*                                                                         *)
(* set_config compares a tier with its neighbours as they are at that      *)
(* moment.  ReadsBackValid says that this is enough: TierBounds is what the *)
(* checks demand of one tier, and Ladder, which compares each pair of      *)
(* neighbours once, is what any sequence of such updates preserves.        *)
(*                                                                         *)
(* The readers of ConfigViews need little else: the chains of checks of    *)
(* lib.rs and spec.rs are compared as they stand (SameVerdict), the copy in *)
(* config.rs differs where its neighbours are not looked at (CopyIsFollowed), *)
(* and an accepted tier is inside the bounds compute_result relies on.     *)
(***************************************************************************)


\* What ValidateConfig demands of a tier, wherever its neighbours are.
TierBounds(s, c) ==
  /\ 0 < c.threshold /\ c.threshold <= 1440 /\ c.threshold <= MaxThreshold[s]
  /\ 0 < c.penalty /\ c.penalty <= 10000 /\ MinPenalty[s] <= c.penalty /\ c.penalty <= MaxPenalty[s]
  /\ 0 < c.reward /\ c.reward <= 100000
  /\ c.penalty * 3 < c.reward * 2

\* The ladder as a whole.
Ladder ==
  /\ config["critical"].penalty >= config["high"].penalty
  /\ config["high"].penalty >= config["medium"].penalty
  /\ config["critical"].threshold <= config["high"].threshold
  /\ config["high"].threshold <= config["medium"].threshold
  /\ config["medium"].threshold <= config["low"].threshold

ConfigInv ==
  /\ DOMAIN config = Canonical
  /\ config = [s \in Canonical |-> config[s]]
  /\ \A s \in Canonical : SlaConfigOK(config[s]) /\ TierBounds(s, config[s])
  /\ Ladder

\* The canonical severities are the four the vector lists.
LEMMA CanonicalIs == Canonical = {"critical", "high", "medium", "low"}
<1>1. Len(CanonicalSeverities) = 4
  BY DEF CanonicalSeverities
<1>2. Elements(CanonicalSeverities) = { CanonicalSeverities[i] : i \in {1, 2, 3, 4} }
  <2>1. 1 .. 4 = {1, 2, 3, 4}
    OBVIOUS
  <2> QED BY <1>1, <2>1 DEF Elements
<1>3. /\ CanonicalSeverities[1] = "critical" /\ CanonicalSeverities[2] = "high"
      /\ CanonicalSeverities[3] = "medium" /\ CanonicalSeverities[4] = "low"
  BY DEF CanonicalSeverities
<1> QED BY <1>2, <1>3 DEF Canonical

\* set_config accepts a tier exactly when it is within its own bounds and
\* between the neighbours the checks look at.
LEMMA AcceptsMeans ==
  ASSUME NEW s \in Canonical, NEW c
  PROVE  AcceptsConfig(s, c) = Ok <=>
           /\ TierBounds(s, c)
           /\ s # "low" => c.penalty >= config[NextLower[s]].penalty /\ c.threshold <= config[NextLower[s]].threshold
           /\ s \in {"high", "medium"} => c.penalty <= config[NextHigher[s]].penalty
           /\ s # "critical" => c.threshold >= config[NextHigher[s]].threshold
<1>1. s \in {"critical", "high", "medium", "low"}
  BY CanonicalIs
<1> DEFINE lower == config[NextLower[s]]
           higher == config[NextHigher[s]]
<1>2. ValidateGeneralBounds(c) = Ok <=>
        /\ 0 < c.threshold /\ c.threshold <= 1440
        /\ 0 < c.penalty /\ c.penalty <= 10000
        /\ 0 < c.reward /\ c.reward <= 100000
  BY DEF ValidateGeneralBounds, Require, ??, Ok
<1>3. ValidateConfig(s, c) = Ok <=> TierBounds(s, c)
  BY <1>2 DEF ValidateConfig, TierBounds, Require, ??, Ok
<1>4. ValidatePenaltyOrdering(s, c) = Ok <=>
        /\ s # "low" => c.penalty >= lower.penalty
        /\ s \in {"high", "medium"} => c.penalty <= higher.penalty
  BY DEF ValidatePenaltyOrdering, Require, ??, Ok
<1>5. ValidateThresholdOrdering(s, c) = Ok <=>
        /\ s # "low" => c.threshold <= lower.threshold
        /\ s # "critical" => c.threshold >= higher.threshold
  BY DEF ValidateThresholdOrdering, Require, ??, Ok
<1>6. AcceptsConfig(s, c) = Ok <=>
        ValidateConfig(s, c) = Ok /\ ValidatePenaltyOrdering(s, c) = Ok /\ ValidateThresholdOrdering(s, c) = Ok
  BY ChainOk DEF AcceptsConfig
<1> HIDE DEF lower, higher
<1>7. AcceptsConfig(s, c) = Ok <=>
        /\ TierBounds(s, c)
        /\ s # "low" => c.penalty >= lower.penalty /\ c.threshold <= lower.threshold
        /\ s \in {"high", "medium"} => c.penalty <= higher.penalty
        /\ s # "critical" => c.threshold >= higher.threshold
  BY <1>3, <1>4, <1>5, <1>6
<1> QED BY <1>7 DEF lower, higher

\* While the configuration is the ladder, every tier reads back valid.
LEMMA LadderReadsBack == ConfigInv => ReadsBackValid
<1> SUFFICES ASSUME ConfigInv, NEW s \in Canonical
             PROVE  \/ AcceptsConfig(s, config[s]) = Ok
                    \/ s = "medium" /\ config["low"].penalty > config["medium"].penalty
  BY DEF ReadsBackValid
<1>1. \A t \in Canonical : config[t].threshold \in Int /\ config[t].penalty \in Int
  BY DEF ConfigInv, SlaConfigOK
<1>2. TierBounds(s, config[s])
  BY DEF ConfigInv
<1>3. Ladder
  BY DEF ConfigInv
<1>4. CASE s = "critical"
  BY <1>1, <1>2, <1>3, <1>4, CanonicalIs, AcceptsMeans DEF Ladder, NextLower, NextHigher
<1>5. CASE s = "high"
  BY <1>1, <1>2, <1>3, <1>5, CanonicalIs, AcceptsMeans DEF Ladder, NextLower, NextHigher
<1>6. CASE s = "medium"
  BY <1>1, <1>2, <1>3, <1>6, CanonicalIs, AcceptsMeans DEF Ladder, NextLower, NextHigher
<1>7. CASE s = "low"
  BY <1>1, <1>2, <1>3, <1>7, CanonicalIs, AcceptsMeans DEF Ladder, NextLower, NextHigher
<1> QED BY <1>4, <1>5, <1>6, <1>7, CanonicalIs

\* A granted set_config leaves a ladder.
LEMMA StoreKeepsLadder ==
  ASSUME ConfigInv, NEW s \in Canonical, NEW c, SlaConfigOK(c),
         AcceptsConfig(s, c) = Ok, config' = [config EXCEPT ![s] = c]
  PROVE  ConfigInv'
<1>1. /\ TierBounds(s, c)
      /\ s # "low" => c.penalty >= config[NextLower[s]].penalty /\ c.threshold <= config[NextLower[s]].threshold
      /\ s \in {"high", "medium"} => c.penalty <= config[NextHigher[s]].penalty
      /\ s # "critical" => c.threshold >= config[NextHigher[s]].threshold
  BY AcceptsMeans
<1>2. /\ DOMAIN config' = Canonical
      /\ config' = [t \in Canonical |-> config'[t]]
      /\ \A t \in Canonical : config'[t] = IF t = s THEN c ELSE config[t]
  BY DEF ConfigInv
<1>3. \A t \in Canonical : SlaConfigOK(config'[t]) /\ TierBounds(t, config'[t])
  BY <1>1, <1>2 DEF ConfigInv
<1>4. \A t \in Canonical : config[t].threshold \in Int /\ config[t].penalty \in Int
  BY DEF ConfigInv, SlaConfigOK
<1>5. Ladder /\ c.threshold \in Int /\ c.penalty \in Int
  BY DEF ConfigInv, SlaConfigOK
<1>6. Ladder'
  <2>1. CASE s = "critical"
    BY <1>1, <1>2, <1>4, <1>5, <2>1, CanonicalIs DEF Ladder, NextLower, NextHigher
  <2>2. CASE s = "high"
    BY <1>1, <1>2, <1>4, <1>5, <2>2, CanonicalIs DEF Ladder, NextLower, NextHigher
  <2>3. CASE s = "medium"
    BY <1>1, <1>2, <1>4, <1>5, <2>3, CanonicalIs DEF Ladder, NextLower, NextHigher
  <2>4. CASE s = "low"
    BY <1>1, <1>2, <1>4, <1>5, <2>4, CanonicalIs DEF Ladder, NextLower, NextHigher
  <2> QED BY <2>1, <2>2, <2>3, <2>4, CanonicalIs
<1> QED BY <1>2, <1>3, <1>6 DEF ConfigInv

\* The configuration initialize writes is a ladder.
LEMMA InitInv == Init => ConfigInv
<1> SUFFICES ASSUME config = DefaultConfig PROVE ConfigInv
  BY DEF Init, ConfigInit
<1>1. DOMAIN config = {"critical", "high", "medium", "low"}
  BY DEF DefaultConfig
<1>2. /\ config["critical"] = [threshold |-> 15, penalty |-> 100, reward |-> 750]
      /\ config["high"] = [threshold |-> 30, penalty |-> 50, reward |-> 750]
      /\ config["medium"] = [threshold |-> 60, penalty |-> 25, reward |-> 750]
      /\ config["low"] = [threshold |-> 120, penalty |-> 10, reward |-> 600]
  BY DEF DefaultConfig
<1>3. \A s \in Canonical : SlaConfigOK(config[s]) /\ TierBounds(s, config[s])
  BY <1>2, CanonicalIs DEF SlaConfigOK, TierBounds, MaxThreshold, MinPenalty, MaxPenalty
<1>4. Ladder
  BY <1>2 DEF Ladder
<1>5. config = [s \in Canonical |-> config[s]]
  BY <1>1, CanonicalIs DEF DefaultConfig
<1> QED BY <1>1, <1>3, <1>4, <1>5, CanonicalIs DEF ConfigInv

\* No other call touches the canonical configuration.
LEMMA InvInductive == ConfigInv /\ [Next]_vars => ConfigInv'
<1> SUFFICES ASSUME ConfigInv, [Next]_vars PROVE ConfigInv'
  OBVIOUS
<1>1. ASSUME NEW caller \in Addresses, NEW s \in Canonical \cup Custom, NEW c \in ConfigInputs,
             SetConfig(caller, s, c)
      PROVE  ConfigInv'
  <2>1. CASE UNCHANGED config
    BY <2>1 DEF ConfigInv, Ladder
  <2>2. CASE Granted /\ StoreConfig(s, c)
    <3>1. AdminGate(caller) ?? AcceptsConfig(s, c) = Ok
      BY <1>1, <2>2 DEF SetConfig, Answer, Granted
    <3>2. AcceptsConfig(s, c) = Ok
      BY <3>1, ChainOk
    <3>3. s \in Canonical
      BY <3>2 DEF AcceptsConfig, ValidateConfig, Require, ??, Ok
    <3>4. SlaConfigOK(c)
      BY ConfigAssumption DEF SlaConfigOK
    <3>5. config' = [config EXCEPT ![s] = c]
      BY <2>2 DEF StoreConfig
    <3> QED BY <3>2, <3>3, <3>4, <3>5, StoreKeepsLadder
  <2> QED BY <1>1, <2>1, <2>2 DEF SetConfig, ConfigRefused, configVars
<1>2. CASE UNCHANGED config
  BY <1>2 DEF ConfigInv, Ladder
<1>3. ASSUME NEW caller \in Addresses, NEW s \in Canonical \cup Custom, NEW c \in ConfigInputs,
             SetCustomSeverity(caller, s, c)
      PROVE  UNCHANGED config
  BY <1>3 DEF SetCustomSeverity, ConfigRefused, configVars, StoreCustomSeverity
<1>4. ASSUME NEW caller \in Addresses, NEW s \in Canonical \cup Custom, RemoveCustomSeverity(caller, s)
      PROVE  UNCHANGED config
  BY <1>4 DEF RemoveCustomSeverity, ConfigRefused, configVars, DropCustomSeverity
<1>5. ASSUME NEW caller \in Addresses, Guard(caller) PROVE UNCHANGED config
  BY <1>5 DEF Guard, configVars
<1>6. NewLedger => UNCHANGED config
  BY DEF NewLedger, configVars
<1>7. UNCHANGED vars => UNCHANGED config
  BY DEF vars, configVars
<1> QED BY <1>1, <1>2, <1>3, <1>4, <1>5, <1>6, <1>7 DEF Next, Configure, Remove

\* The canonical tiers stay inside their bounds and in their ladder.
THEOREM LadderAlways == Spec => []ConfigInv
BY InitInv, InvInductive, PTL DEF Spec

\* set_config: whatever sequence of updates the admin made, each tier's own
\* configuration can be submitted again, medium under the exemption excepted.
THEOREM ReadsBackAlwaysValid == Spec => []ReadsBackValid
BY LadderAlways, LadderReadsBack, PTL

-----------------------------------------------------------------------------
(* What a step does to the configuration *)

\* A granted write: the stamp and the registry are those of the new values.
Wrote(severity, c) ==
  /\ \/ /\ severity \in Canonical
        /\ config' = [config EXCEPT ![severity] = c]
        /\ custom' = custom
        /\ told' = Told("cfg_upd", severity, c)
     \/ /\ severity \in Custom \ Canonical
        /\ config' = config
        /\ custom' = With(custom, severity, c)
        /\ told' = Told(AddOrUpdate(severity), severity, c)
  /\ RecordUpdate
  /\ UNCHANGED << backend, now >>

Dropped(severity) ==
  /\ severity \in DOMAIN custom
  /\ DropCustomSeverity(severity)
  /\ told' = Told("cfg_rem", severity, << >>)
  /\ UNCHANGED << backend, now >>

\* Every step writes a tier, drops a custom severity, closes a ledger, or
\* leaves the configuration and its readers alone.
LEMMA ConfigSteps ==
  ASSUME [Next]_vars
  PROVE  \/ \E severity \in Canonical \cup Custom, c \in ConfigInputs : Wrote(severity, c)
         \/ \E severity \in Custom \cup Canonical : Dropped(severity)
         \/ NewLedger
         \/ UNCHANGED << configVars, told, backend, now >>
<1>1. ASSUME NEW caller \in Addresses, NEW s \in Canonical \cup Custom, NEW c \in ConfigInputs,
             SetConfig(caller, s, c), Observed(Told("cfg_upd", s, c))
      PROVE  Wrote(s, c) \/ UNCHANGED << configVars, told, backend, now >>
  <2>1. CASE ~Granted /\ UNCHANGED configVars
    BY <1>1, <2>1 DEF SetConfig, Answer, Observed
  <2>2. CASE Granted /\ StoreConfig(s, c)
    <3>1. AdminGate(caller) ?? AcceptsConfig(s, c) = Ok
      BY <1>1, <2>2 DEF SetConfig, Answer, Granted
    <3>2. AcceptsConfig(s, c) = Ok
      BY <3>1, ChainOk
    <3>3. s \in Canonical
      BY <3>2 DEF AcceptsConfig, ValidateConfig, Require, ??, Ok
    <3>4. told' = Told("cfg_upd", s, c) /\ UNCHANGED << backend, now >>
      BY <1>1, <2>2 DEF SetConfig, Answer, Observed
    <3> QED BY <2>2, <3>3, <3>4 DEF Wrote, StoreConfig
  <2> QED BY <1>1, <2>1, <2>2 DEF SetConfig, ConfigRefused
<1>2. ASSUME NEW caller \in Addresses, NEW s \in Canonical \cup Custom, NEW c \in ConfigInputs,
             SetCustomSeverity(caller, s, c), Observed(Told(AddOrUpdate(s), s, c))
      PROVE  Wrote(s, c) \/ UNCHANGED << configVars, told, backend, now >>
  <2>1. CASE ~Granted /\ UNCHANGED configVars
    BY <1>2, <2>1 DEF SetCustomSeverity, Answer, Observed
  <2>2. CASE Granted /\ StoreCustomSeverity(s, c)
    <3>1. AdminGate(caller) ?? Require(s \notin Canonical, "InvalidSeverity") ?? ValidateGeneralBounds(c) = Ok
      BY <1>2, <2>2 DEF SetCustomSeverity, Answer, Granted
    <3>2. Require(s \notin Canonical, "InvalidSeverity") = Ok
      BY <3>1, ChainOk
    <3>3. s \in Custom \ Canonical
      BY <3>2 DEF Require, Ok
    <3>4. told' = Told(AddOrUpdate(s), s, c) /\ UNCHANGED << backend, now >>
      BY <1>2, <2>2 DEF SetCustomSeverity, Answer, Observed
    <3> QED BY <2>2, <3>3, <3>4 DEF Wrote, StoreCustomSeverity
  <2> QED BY <1>2, <2>1, <2>2 DEF SetCustomSeverity, ConfigRefused
<1>3. ASSUME NEW caller \in Addresses, NEW s \in Canonical \cup Custom, Remove(caller, s)
      PROVE  Dropped(s) \/ UNCHANGED << configVars, told, backend, now >>
  <2>1. CASE ~Granted /\ UNCHANGED configVars
    BY <1>3, <2>1 DEF Remove, RemoveCustomSeverity, Answer, Observed
  <2>2. CASE Granted /\ DropCustomSeverity(s)
    <3>1. AdminGate(caller) ?? Require(s \in DOMAIN custom, "SeverityNotInSet") = Ok
      BY <1>3, <2>2 DEF Remove, RemoveCustomSeverity, Answer, Granted
    <3>2. Require(s \in DOMAIN custom, "SeverityNotInSet") = Ok
      BY <3>1, ChainOk
    <3>3. s \in DOMAIN custom
      BY <3>2 DEF Require, Ok
    <3>4. told' = Told("cfg_rem", s, << >>) /\ UNCHANGED << backend, now >>
      BY <1>3, <2>2 DEF Remove, RemoveCustomSeverity, Answer, Observed
    <3> QED BY <2>2, <3>3, <3>4 DEF Dropped
  <2> QED BY <1>3, <2>1, <2>2 DEF Remove, RemoveCustomSeverity, ConfigRefused
<1>4. ASSUME NEW caller \in Addresses, Guard(caller)
      PROVE  UNCHANGED << configVars, told, backend, now >>
  BY <1>4 DEF Guard, Answer
<1>5. UNCHANGED vars => UNCHANGED << configVars, told, backend, now >>
  BY DEF vars
<1> QED BY <1>1, <1>2, <1>3, <1>4, <1>5 DEF Next, Configure

-----------------------------------------------------------------------------
(* The indexer *)

LEMMA StreamKept == StreamTellsConfig /\ [Next]_vars => StreamTellsConfig'
<1> SUFFICES ASSUME StreamTellsConfig, [Next]_vars
             PROVE  StreamTellsConfig'
  OBVIOUS
<1>1. told = [config |-> config, custom |-> custom, anomaly |-> FALSE]
  BY DEF StreamTellsConfig
<1>2. ASSUME NEW s, NEW c, Wrote(s, c)
      PROVE  StreamTellsConfig'
  <2>1. CASE told' = Told("cfg_upd", s, c) /\ config' = [config EXCEPT ![s] = c] /\ custom' = custom
    <3>1. told' = [told EXCEPT !.config[s] = c]
      BY <2>1 DEF Told
    <3>2. told' = [config |-> [config EXCEPT ![s] = c], custom |-> custom, anomaly |-> FALSE]
      BY <1>1, <3>1
    <3> QED BY <2>1, <3>2 DEF StreamTellsConfig
  <2>2. CASE told' = Told(AddOrUpdate(s), s, c) /\ config' = config /\ custom' = With(custom, s, c)
    <3>1. CASE s \in DOMAIN custom
      <4>1. told' = [told EXCEPT !.custom = With(@, s, c), !.anomaly = @ \/ s \notin DOMAIN told.custom]
        BY <2>2, <3>1 DEF Told, AddOrUpdate
      <4>2. (told.anomaly \/ s \notin DOMAIN told.custom) = FALSE
        BY <1>1, <3>1
      <4>3. told' = [config |-> config, custom |-> With(custom, s, c), anomaly |-> FALSE]
        BY <1>1, <4>1, <4>2
      <4> QED BY <2>2, <4>3 DEF StreamTellsConfig
    <3>2. CASE s \notin DOMAIN custom
      <4>1. told' = [told EXCEPT !.custom = With(@, s, c), !.anomaly = @ \/ s \in DOMAIN told.custom]
        BY <2>2, <3>2 DEF Told, AddOrUpdate
      <4>2. (told.anomaly \/ s \in DOMAIN told.custom) = FALSE
        BY <1>1, <3>2
      <4>3. told' = [config |-> config, custom |-> With(custom, s, c), anomaly |-> FALSE]
        BY <1>1, <4>1, <4>2
      <4> QED BY <2>2, <4>3 DEF StreamTellsConfig
    <3> QED BY <3>1, <3>2
  <2> QED BY <1>2, <2>1, <2>2 DEF Wrote
<1>3. ASSUME NEW s, Dropped(s)
      PROVE  StreamTellsConfig'
  <2> DEFINE left == [t \in DOMAIN custom \ {s} |-> custom[t]]
  <2>1. told' = [told EXCEPT !.custom = [t \in DOMAIN told.custom \ {s} |-> told.custom[t]],
                             !.anomaly = told.anomaly \/ s \notin DOMAIN told.custom]
    BY <1>3 DEF Dropped, Told
  <2>2. (told.anomaly \/ s \notin DOMAIN told.custom) = FALSE
    BY <1>1, <1>3 DEF Dropped
  <2>3. [t \in DOMAIN told.custom \ {s} |-> told.custom[t]] = left
    BY <1>1
  <2> HIDE DEF left
  <2>4. told' = [config |-> config, custom |-> left, anomaly |-> FALSE]
    BY <1>1, <2>1, <2>2, <2>3
  <2>5. config' = config /\ custom' = left
    BY <1>3 DEF Dropped, DropCustomSeverity, left
  <2> QED BY <2>4, <2>5 DEF StreamTellsConfig
<1>4. CASE UNCHANGED << configVars, told >>
  BY <1>1, <1>4 DEF configVars, StreamTellsConfig
<1> QED BY <1>2, <1>3, <1>4, ConfigSteps DEF NewLedger

\* Whatever is set, registered and removed, in any order, the events rebuild
\* the two maps, and tell an addition from an update (set_config,
\* set_custom_severity, remove_custom_severity).
THEOREM StreamAlwaysTells == Spec => []StreamTellsConfig
<1>1. Init => StreamTellsConfig
  BY DEF Init, ConfigInit, StreamTellsConfig
<1> QED BY <1>1, StreamKept, PTL DEF Spec

-----------------------------------------------------------------------------
(* The caching backend *)

\* A stamp is none or a ledger that has begun; the stamp a backend holds is
\* none or a ledger that has closed, so no later write can repeat it.
CacheInv ==
  /\ now \in Nat
  /\ lastUpdate = NoUpdate \/ lastUpdate \in 0 .. now
  /\ backend.update = NoUpdate \/ (backend.update \in Nat /\ backend.update < now)
  /\ StaleCacheShows

LEMMA CacheKept == CacheInv /\ [Next]_vars => CacheInv'
<1> SUFFICES ASSUME CacheInv, [Next]_vars
             PROVE  CacheInv'
  OBVIOUS
<1>1. NoUpdate \notin Nat
  BY ConfigAssumption
<1>2. ASSUME NEW s, NEW c, Wrote(s, c)
      PROVE  CacheInv'
  BY <1>1, <1>2 DEF Wrote, RecordUpdate, CacheInv, StaleCacheShows
<1>3. ASSUME NEW s, Dropped(s)
      PROVE  CacheInv'
  BY <1>3 DEF Dropped, DropCustomSeverity, CacheInv, StaleCacheShows
<1>4. CASE NewLedger
  <2>1. /\ now' = now + 1 /\ lastUpdate' = lastUpdate /\ config' = config
        /\ backend' = backend \/ backend' = [update |-> lastUpdate, config |-> config]
    BY <1>4 DEF NewLedger, CloseLedger, configVars
  <2>2. CASE backend' = backend
    BY <2>1, <2>2 DEF CacheInv, StaleCacheShows
  <2>3. CASE backend' = [update |-> lastUpdate, config |-> config]
    <3>1. backend'.update = lastUpdate /\ backend'.config = config
      BY <2>3
    <3> QED BY <2>1, <3>1 DEF CacheInv, StaleCacheShows
  <2> QED BY <2>1, <2>2, <2>3
<1>5. CASE UNCHANGED << configVars, backend, now >>
  BY <1>5 DEF configVars, CacheInv, StaleCacheShows
<1> QED BY <1>2, <1>3, <1>4, <1>5, ConfigSteps

\* The refetch rule of config_metadata.rs is enough, for any number of updates
\* in one ledger: a copy that differs from the configuration bears another stamp.
THEOREM StaleCacheAlwaysShows == Spec => []StaleCacheShows
<1>1. Init => CacheInv
  <2> SUFFICES ASSUME Init PROVE CacheInv
    OBVIOUS
  <2>1. now = 0 /\ lastUpdate = NoUpdate /\ config = DefaultConfig
    BY DEF Init, ConfigInit
  <2>2. backend.update = NoUpdate /\ backend.config = DefaultConfig
    BY DEF Init
  <2> QED BY <2>1, <2>2 DEF CacheInv, StaleCacheShows
<1>2. CacheInv => StaleCacheShows
  BY DEF CacheInv
<1> QED BY <1>1, <1>2, CacheKept, PTL DEF Spec

-----------------------------------------------------------------------------
(* The registry *)

Tier == ConfigInputs \cup { DefaultConfig[s] : s \in Canonical }

\* The custom maps there can be.
Customs == UNION { [S -> ConfigInputs] : S \in SUBSET Custom }

\* The version hash of a canonical and a custom map.
Folded(c, f) ==
  LET registered == Keep(CustomOrder, DOMAIN f)
  IN  ConfigHash([i \in 1 .. 4 |-> c[CanonicalSeverities[i]]]
                   \o [i \in 1 .. Len(registered) |-> f[registered[i]]])

\* No two canonical ladders share a hash, whatever is registered beside them.
\* The hash of the code is a number modulo a prime: this is an assumption.
NoCollisions ==
  \A c, d \in [Canonical -> Tier] : \A f, g \in Customs : Folded(c, f) = Folded(d, g) => c = d

\* Since the first write, some snapshot shows the ladder in force.
Recoverable == lastUpdate # NoUpdate => \E hash \in DOMAIN registry : registry[hash] = config

RegistryInv ==
  /\ config \in [Canonical -> Tier]
  /\ custom \in Customs
  /\ \A hash \in DOMAIN registry :
       \E c \in [Canonical -> Tier], f \in Customs : hash = Folded(c, f) /\ registry[hash] = c
  /\ Recoverable

LEMMA HashIsFolded == ConfigVersionHash = Folded(config, custom)
BY DEF ConfigVersionHash, Folded

LEMMA HashIsFoldedNext == ConfigVersionHash' = Folded(config', custom')
BY DEF ConfigVersionHash, Folded

LEMMA RegistryKept == RegistryInv /\ [Next]_vars => RegistryInv'
<1> SUFFICES ASSUME RegistryInv, [Next]_vars
             PROVE  RegistryInv'
  OBVIOUS
<1>1. ASSUME NEW s \in Canonical \cup Custom, NEW c \in ConfigInputs, Wrote(s, c)
      PROVE  RegistryInv'
  <2>1. config' \in [Canonical -> Tier]
    <3>1. c \in Tier
      BY DEF Tier
    <3> QED BY <1>1, <3>1 DEF Wrote, RegistryInv
  <2>2. custom' \in Customs
    <3>1. CASE custom' = custom
      BY <3>1 DEF RegistryInv
    <3>2. CASE s \in Custom /\ custom' = With(custom, s, c)
      <4>1. PICK S \in SUBSET Custom : custom \in [S -> ConfigInputs]
        BY DEF RegistryInv, Customs
      <4>2. With(custom, s, c) \in [S \cup {s} -> ConfigInputs]
        BY <4>1 DEF With
      <4>3. S \cup {s} \in SUBSET Custom
        BY <3>2, <4>1
      <4> QED BY <3>2, <4>2, <4>3 DEF Customs
    <3> QED BY <1>1, <3>1, <3>2 DEF Wrote
  <2>3. registry' = With(registry, Folded(config', custom'), config')
    BY <1>1, HashIsFoldedNext DEF Wrote, RecordUpdate
  <2>4. ASSUME NEW hash \in DOMAIN registry'
        PROVE  \E d \in [Canonical -> Tier], f \in Customs : hash = Folded(d, f) /\ registry'[hash] = d
    <3>1. CASE hash = Folded(config', custom')
      <4>1. registry'[hash] = config'
        BY <2>3, <3>1 DEF With
      <4> QED BY <2>1, <2>2, <3>1, <4>1
    <3>2. CASE hash # Folded(config', custom')
      <4>1. hash \in DOMAIN registry /\ registry'[hash] = registry[hash]
        BY <2>3, <2>4, <3>2 DEF With
      <4> QED BY <4>1 DEF RegistryInv
    <3> QED BY <3>1, <3>2
  <2>5. Recoverable'
    <3>1. PICK hash : hash = Folded(config', custom')
      OBVIOUS
    <3>2. hash \in DOMAIN registry' /\ registry'[hash] = config'
      BY <2>3, <3>1 DEF With
    <3> QED BY <3>2 DEF Recoverable
  <2> QED BY <2>1, <2>2, <2>4, <2>5 DEF RegistryInv
<1>2. ASSUME NEW s, Dropped(s)
      PROVE  RegistryInv'
  <2>1. PICK S \in SUBSET Custom : custom \in [S -> ConfigInputs]
    BY DEF RegistryInv, Customs
  <2>2. custom' \in [S \ {s} -> ConfigInputs]
    BY <1>2, <2>1 DEF Dropped, DropCustomSeverity
  <2>3. custom' \in Customs
    <3>1. S \ {s} \in SUBSET Custom
      BY <2>1
    <3> QED BY <2>2, <3>1 DEF Customs
  <2>4. UNCHANGED << config, registry, lastUpdate >>
    BY <1>2 DEF Dropped, DropCustomSeverity
  <2> QED BY <2>3, <2>4 DEF RegistryInv, Recoverable
<1>3. CASE UNCHANGED configVars
  BY <1>3 DEF configVars, RegistryInv, Recoverable
<1> QED BY <1>1, <1>2, <1>3, ConfigSteps DEF NewLedger

\* A snapshot found under the hash in force is the configuration in force, for
\* any sequence of updates and removals, if the hash tells ladders apart; and
\* the ladder in force is recoverable from the first write on
\* (record_config_registry, get_config_snapshot_by_version).
THEOREM RegistryAlwaysTells == ASSUME NoCollisions PROVE Spec => []RegistryTellsTruth
<1>1. Init => RegistryInv
  <2> SUFFICES ASSUME Init PROVE RegistryInv
    OBVIOUS
  <2>1. config = DefaultConfig /\ custom = NoCustom /\ registry = [h \in {} |-> DefaultConfig]
    BY DEF Init, ConfigInit
  <2>2. DefaultConfig \in [Canonical -> Tier]
    BY CanonicalIs DEF DefaultConfig, Tier
  <2>3. NoCustom \in Customs
    <3>1. NoCustom \in [{} -> ConfigInputs] /\ {} \in SUBSET Custom
      BY DEF NoCustom
    <3> QED BY <3>1 DEF Customs
  <2>4. Recoverable
    BY DEF Init, ConfigInit, Recoverable
  <2> QED BY <2>1, <2>2, <2>3, <2>4 DEF RegistryInv
<1>2. RegistryInv => RegistryTellsTruth
  BY NoCollisions, HashIsFolded DEF NoCollisions, RegistryInv, RegistryTellsTruth, Recoverable
<1> QED BY <1>1, <1>2, RegistryKept, PTL DEF Spec

-----------------------------------------------------------------------------
(* The readers *)

\* The two lists of canonical severities hold the same names.
LEMMA SameCanonical == \A severity : IsCanonicalSeverity(severity) <=> severity \in Canonical
<1>1. CANONICAL_SEVERITIES = CanonicalSeverities /\ DOMAIN CANONICAL_SEVERITIES = 1 .. Len(CanonicalSeverities)
  BY DEF CANONICAL_SEVERITIES, CanonicalSeverities
<1> QED BY <1>1 DEF IsCanonicalSeverity, Canonical, Elements

\* A rule carries what it asks and the error of breaking it.
LEMMA RuleSays == \A r, h, e : r = Rule(h, e) => r.holds = h /\ r.error = e
BY DEF Rule

\* The rules of the executable specification, one by one.
LEMMA RulesAre ==
  ASSUME NEW severity, NEW c, NEW R, R = ConfigRules(severity, c)
  PROVE  /\ DOMAIN R = 1 .. 12
         /\ (R[1].holds <=> (IsCanonicalSeverity(severity))) /\ R[1].error = "InvalidSeverity"
         /\ (R[2].holds <=> (c.threshold \in THRESHOLD_RANGE)) /\ R[2].error = "InvalidThreshold"
         /\ (R[3].holds <=> (c.penalty \in PENALTY_RANGE)) /\ R[3].error = "InvalidPenalty"
         /\ (R[4].holds <=> (c.reward \in REWARD_RANGE)) /\ R[4].error = "InvalidReward"
         /\ (R[5].holds <=> (severity = "critical" => c.threshold <= 60)) /\ R[5].error = "InvalidThreshold"
         /\ (R[6].holds <=> (severity = "critical" => c.penalty >= 50)) /\ R[6].error = "InvalidPenalty"
         /\ (R[7].holds <=> (severity = "high" => c.threshold <= 120)) /\ R[7].error = "InvalidThreshold"
         /\ (R[8].holds <=> (severity = "high" => c.penalty >= 25)) /\ R[8].error = "InvalidPenalty"
         /\ (R[9].holds <=> (severity = "medium" => c.threshold <= 240)) /\ R[9].error = "InvalidThreshold"
         /\ (R[10].holds <=> (severity = "medium" => c.penalty >= 10)) /\ R[10].error = "InvalidPenalty"
         /\ (R[11].holds <=> (severity = "low" => c.penalty <= 100)) /\ R[11].error = "InvalidPenalty"
         /\ (R[12].holds <=> (c.penalty * 3 < c.reward * 2)) /\ R[12].error = "InvalidReward"
<1>1. R[1] = Rule(IsCanonicalSeverity(severity), "InvalidSeverity")
  BY DEF ConfigRules
<1>2. R[2] = Rule(c.threshold \in THRESHOLD_RANGE, "InvalidThreshold")
  BY DEF ConfigRules
<1>3. R[3] = Rule(c.penalty \in PENALTY_RANGE, "InvalidPenalty")
  BY DEF ConfigRules
<1>4. R[4] = Rule(c.reward \in REWARD_RANGE, "InvalidReward")
  BY DEF ConfigRules
<1>5. R[5] = Rule(severity = "critical" => c.threshold <= 60, "InvalidThreshold")
  BY DEF ConfigRules
<1>6. R[6] = Rule(severity = "critical" => c.penalty >= 50, "InvalidPenalty")
  BY DEF ConfigRules
<1>7. R[7] = Rule(severity = "high" => c.threshold <= 120, "InvalidThreshold")
  BY DEF ConfigRules
<1>8. R[8] = Rule(severity = "high" => c.penalty >= 25, "InvalidPenalty")
  BY DEF ConfigRules
<1>9. R[9] = Rule(severity = "medium" => c.threshold <= 240, "InvalidThreshold")
  BY DEF ConfigRules
<1>10. R[10] = Rule(severity = "medium" => c.penalty >= 10, "InvalidPenalty")
  BY DEF ConfigRules
<1>11. R[11] = Rule(severity = "low" => c.penalty <= 100, "InvalidPenalty")
  BY DEF ConfigRules
<1>12. R[12] = Rule(c.penalty * 3 < c.reward * 2, "InvalidReward")
  BY DEF ConfigRules
<1>13. DOMAIN R = 1 .. 12
  BY DEF ConfigRules
<1>14. (R[1].holds <=> (IsCanonicalSeverity(severity))) /\ R[1].error = "InvalidSeverity"
  BY <1>1, RuleSays
<1>15. (R[2].holds <=> (c.threshold \in THRESHOLD_RANGE)) /\ R[2].error = "InvalidThreshold"
  <2>1. PICK r : r = R[2]
    OBVIOUS
  <2>2. r = Rule(c.threshold \in THRESHOLD_RANGE, "InvalidThreshold")
    BY <1>2, <2>1
  <2>3. r.holds <=> (c.threshold \in THRESHOLD_RANGE)
    BY <2>2, Zenon DEF Rule
  <2>4. r.error = "InvalidThreshold"
    BY <2>2 DEF Rule
  <2> QED BY <2>1, <2>3, <2>4
<1>16. (R[3].holds <=> (c.penalty \in PENALTY_RANGE)) /\ R[3].error = "InvalidPenalty"
  <2>1. PICK r : r = R[3]
    OBVIOUS
  <2>2. r = Rule(c.penalty \in PENALTY_RANGE, "InvalidPenalty")
    BY <1>3, <2>1
  <2>3. r.holds <=> (c.penalty \in PENALTY_RANGE)
    BY <2>2, Zenon DEF Rule
  <2>4. r.error = "InvalidPenalty"
    BY <2>2 DEF Rule
  <2> QED BY <2>1, <2>3, <2>4
<1>17. (R[4].holds <=> (c.reward \in REWARD_RANGE)) /\ R[4].error = "InvalidReward"
  <2>1. PICK r : r = R[4]
    OBVIOUS
  <2>2. r = Rule(c.reward \in REWARD_RANGE, "InvalidReward")
    BY <1>4, <2>1
  <2>3. r.holds <=> (c.reward \in REWARD_RANGE)
    BY <2>2, Zenon DEF Rule
  <2>4. r.error = "InvalidReward"
    BY <2>2 DEF Rule
  <2> QED BY <2>1, <2>3, <2>4
<1>18. (R[5].holds <=> (severity = "critical" => c.threshold <= 60)) /\ R[5].error = "InvalidThreshold"
  BY <1>5, RuleSays
<1>19. (R[6].holds <=> (severity = "critical" => c.penalty >= 50)) /\ R[6].error = "InvalidPenalty"
  BY <1>6, RuleSays
<1>20. (R[7].holds <=> (severity = "high" => c.threshold <= 120)) /\ R[7].error = "InvalidThreshold"
  BY <1>7, RuleSays
<1>21. (R[8].holds <=> (severity = "high" => c.penalty >= 25)) /\ R[8].error = "InvalidPenalty"
  BY <1>8, RuleSays
<1>22. (R[9].holds <=> (severity = "medium" => c.threshold <= 240)) /\ R[9].error = "InvalidThreshold"
  BY <1>9, RuleSays
<1>23. (R[10].holds <=> (severity = "medium" => c.penalty >= 10)) /\ R[10].error = "InvalidPenalty"
  BY <1>10, RuleSays
<1>24. (R[11].holds <=> (severity = "low" => c.penalty <= 100)) /\ R[11].error = "InvalidPenalty"
  BY <1>11, RuleSays
<1>25. (R[12].holds <=> (c.penalty * 3 < c.reward * 2)) /\ R[12].error = "InvalidReward"
  <2>1. PICK r : r = R[12]
    OBVIOUS
  <2>2. r = Rule(c.penalty * 3 < c.reward * 2, "InvalidReward")
    BY <1>12, <2>1
  <2>3. r.holds <=> (c.penalty * 3 < c.reward * 2)
    BY <2>2, Zenon DEF Rule
  <2>4. r.error = "InvalidReward"
    BY <2>2 DEF Rule
  <2> QED BY <2>1, <2>3, <2>4
<1> QED BY ONLY <1>13, <1>14, <1>15, <1>16, <1>17, <1>18, <1>19, <1>20, <1>21, <1>22, <1>23, <1>24, <1>25

\* The verdict is the error of the first rule that is broken.
LEMMA FirstBroken ==
  ASSUME NEW severity, NEW c, NEW R, R = ConfigRules(severity, c), DOMAIN R = 1 .. 12
  PROVE  /\ (\A i \in 1 .. 12 : R[i].holds) => ExpectedValidateConfig(severity, c) = "Ok"
         /\ \A n \in 1 .. 12 : ~R[n].holds /\ (\A i \in 1 .. 12 : i < n => R[i].holds) =>
              ExpectedValidateConfig(severity, c) = R[n].error
<1> DEFINE broken == { i \in 1 .. 12 : ~R[i].holds }
<1>1. ExpectedValidateConfig(severity, c) =
        IF broken = {} THEN "Ok" ELSE R[CHOOSE i \in broken : \A j \in broken : i <= j].error
  BY DEF ExpectedValidateConfig
<1>2. ASSUME NEW n \in 1 .. 12, ~R[n].holds, \A i \in 1 .. 12 : i < n => R[i].holds
      PROVE  ExpectedValidateConfig(severity, c) = R[n].error
  <2>1. n \in broken /\ \A j \in broken : n <= j
    BY <1>2
  <2>2. \A i \in broken : i \in 1 .. 12
    OBVIOUS
  <2> HIDE DEF broken
  <2>3. PICK m : m = CHOOSE i \in broken : \A j \in broken : i <= j
    OBVIOUS
  <2>4. m \in broken /\ \A j \in broken : m <= j
    BY <2>1, <2>3
  <2>5. m = n
    BY <2>1, <2>2, <2>4
  <2> QED BY <1>1, <2>1, <2>3, <2>5
<1> QED BY <1>1, <1>2

\* The list of rules as the chain of conditions it is read as.
LEMMA RulesInOrder ==
  ASSUME NEW severity, NEW c, NEW R, R = ConfigRules(severity, c)
  PROVE  ExpectedValidateConfig(severity, c) =
           IF ~R[1].holds THEN R[1].error
           ELSE IF ~R[2].holds THEN R[2].error
           ELSE IF ~R[3].holds THEN R[3].error
           ELSE IF ~R[4].holds THEN R[4].error
           ELSE IF ~R[5].holds THEN R[5].error
           ELSE IF ~R[6].holds THEN R[6].error
           ELSE IF ~R[7].holds THEN R[7].error
           ELSE IF ~R[8].holds THEN R[8].error
           ELSE IF ~R[9].holds THEN R[9].error
           ELSE IF ~R[10].holds THEN R[10].error
           ELSE IF ~R[11].holds THEN R[11].error
           ELSE IF ~R[12].holds THEN R[12].error
           ELSE "Ok"
<1>1. PICK v : v = ExpectedValidateConfig(severity, c)
  OBVIOUS
<1>2. /\ (\A i \in 1 .. 12 : R[i].holds) => v = "Ok"
      /\ \A n \in 1 .. 12 : ~R[n].holds /\ (\A i \in 1 .. 12 : i < n => R[i].holds) => v = R[n].error
  BY <1>1, FirstBroken, RulesAre
<1>3. \A i \in 1 .. 12 : i \in {1, 2, 3, 4, 5, 6, 7, 8, 9, 10, 11, 12}
  OBVIOUS
<1>4. ~R[1].holds => v = R[1].error
  BY <1>2, <1>3
<1>5. R[1].holds /\ ~R[2].holds => v = R[2].error
  BY <1>2, <1>3
<1>6. R[1].holds /\ R[2].holds /\ ~R[3].holds => v = R[3].error
  BY <1>2, <1>3
<1>7. R[1].holds /\ R[2].holds /\ R[3].holds /\ ~R[4].holds => v = R[4].error
  BY <1>2, <1>3
<1>8. R[1].holds /\ R[2].holds /\ R[3].holds /\ R[4].holds /\ ~R[5].holds => v = R[5].error
  BY <1>2, <1>3
<1>9. R[1].holds /\ R[2].holds /\ R[3].holds /\ R[4].holds /\ R[5].holds /\ ~R[6].holds => v = R[6].error
  BY <1>2, <1>3
<1>10. R[1].holds /\ R[2].holds /\ R[3].holds /\ R[4].holds /\ R[5].holds /\ R[6].holds /\ ~R[7].holds => v = R[7].error
  BY <1>2, <1>3
<1>11. R[1].holds /\ R[2].holds /\ R[3].holds /\ R[4].holds /\ R[5].holds /\ R[6].holds /\ R[7].holds /\ ~R[8].holds => v = R[8].error
  BY <1>2, <1>3
<1>12. R[1].holds /\ R[2].holds /\ R[3].holds /\ R[4].holds /\ R[5].holds /\ R[6].holds /\ R[7].holds /\ R[8].holds /\ ~R[9].holds => v = R[9].error
  BY <1>2, <1>3
<1>13. R[1].holds /\ R[2].holds /\ R[3].holds /\ R[4].holds /\ R[5].holds /\ R[6].holds /\ R[7].holds /\ R[8].holds /\ R[9].holds /\ ~R[10].holds => v = R[10].error
  BY <1>2, <1>3
<1>14. R[1].holds /\ R[2].holds /\ R[3].holds /\ R[4].holds /\ R[5].holds /\ R[6].holds /\ R[7].holds /\ R[8].holds /\ R[9].holds /\ R[10].holds /\ ~R[11].holds => v = R[11].error
  BY <1>2, <1>3
<1>15. R[1].holds /\ R[2].holds /\ R[3].holds /\ R[4].holds /\ R[5].holds /\ R[6].holds /\ R[7].holds /\ R[8].holds /\ R[9].holds /\ R[10].holds /\ R[11].holds /\ ~R[12].holds => v = R[12].error
  BY <1>2, <1>3
<1>16. R[1].holds /\ R[2].holds /\ R[3].holds /\ R[4].holds /\ R[5].holds /\ R[6].holds /\ R[7].holds /\ R[8].holds /\ R[9].holds /\ R[10].holds /\ R[11].holds /\ R[12].holds => v = "Ok"
  BY <1>2, <1>3
<1> QED BY ONLY <1>1, <1>4, <1>5, <1>6, <1>7, <1>8, <1>9, <1>10, <1>11, <1>12, <1>13, <1>14, <1>15, <1>16

\* The ranges of the executable specification as comparisons.
LEMMA Ranges ==
  ASSUME NEW x \in Int
  PROVE  /\ x \in THRESHOLD_RANGE <=> (0 < x /\ x <= 1440)
         /\ x \in PENALTY_RANGE <=> (0 < x /\ x <= 10000)
         /\ x \in REWARD_RANGE <=> (0 < x /\ x <= 100000)
<1>1. ASSUME NEW top \in Int PROVE x \in 1 .. top <=> (0 < x /\ x <= top)
  BY SMT
<1>2. x \in THRESHOLD_RANGE <=> (0 < x /\ x <= 1440)
  <2>1. PICK top \in Int : top = 1440
    BY SMT
  <2>2. THRESHOLD_RANGE = 1 .. top
    BY <2>1, SMT DEF THRESHOLD_RANGE
  <2>3. x \in THRESHOLD_RANGE <=> (0 < x /\ x <= top)
    BY ONLY <1>1, <2>2
  <2> QED BY ONLY <2>1, <2>3
<1>3. x \in PENALTY_RANGE <=> (0 < x /\ x <= 10000)
  <2>1. PICK top \in Int : top = 10000
    BY SMT
  <2>2. PENALTY_RANGE = 1 .. top
    BY <2>1, SMT DEF PENALTY_RANGE
  <2>3. x \in PENALTY_RANGE <=> (0 < x /\ x <= top)
    BY ONLY <1>1, <2>2
  <2> QED BY ONLY <2>1, <2>3
<1>4. x \in REWARD_RANGE <=> (0 < x /\ x <= 100000)
  <2>1. PICK top \in Int : top = 100000
    BY SMT
  <2>2. REWARD_RANGE = 1 .. top
    BY <2>1, SMT DEF REWARD_RANGE
  <2>3. x \in REWARD_RANGE <=> (0 < x /\ x <= top)
    BY ONLY <1>1, <2>2
  <2> QED BY ONLY <2>1, <2>3
<1> QED BY ONLY <1>2, <1>3, <1>4

\* validate_config and the executable specification refuse for the same reason.
LEMMA SameVerdict ==
  ASSUME NEW severity, NEW c, SlaConfigOK(c)
  PROVE  ValidateConfig(severity, c) = ExpectedValidateConfig(severity, c)
<1>1. PICK R : R = ConfigRules(severity, c)
  OBVIOUS
<1>2. /\ \A x \in Int : x \in THRESHOLD_RANGE <=> (0 < x /\ x <= 1440)
      /\ \A x \in Int : x \in PENALTY_RANGE <=> (0 < x /\ x <= 10000)
      /\ \A x \in Int : x \in REWARD_RANGE <=> (0 < x /\ x <= 100000)
  BY Ranges
<1>3. c.threshold \in Int /\ c.penalty \in Int /\ c.reward \in Int
  BY DEF SlaConfigOK
<1>4. ExpectedValidateConfig(severity, c) =
        IF ~(severity \in Canonical) THEN "InvalidSeverity"
        ELSE IF ~(0 < c.threshold /\ c.threshold <= 1440) THEN "InvalidThreshold"
        ELSE IF ~(0 < c.penalty /\ c.penalty <= 10000) THEN "InvalidPenalty"
        ELSE IF ~(0 < c.reward /\ c.reward <= 100000) THEN "InvalidReward"
        ELSE IF ~(severity = "critical" => c.threshold <= 60) THEN "InvalidThreshold"
        ELSE IF ~(severity = "critical" => c.penalty >= 50) THEN "InvalidPenalty"
        ELSE IF ~(severity = "high" => c.threshold <= 120) THEN "InvalidThreshold"
        ELSE IF ~(severity = "high" => c.penalty >= 25) THEN "InvalidPenalty"
        ELSE IF ~(severity = "medium" => c.threshold <= 240) THEN "InvalidThreshold"
        ELSE IF ~(severity = "medium" => c.penalty >= 10) THEN "InvalidPenalty"
        ELSE IF ~(severity = "low" => c.penalty <= 100) THEN "InvalidPenalty"
        ELSE IF ~(c.penalty * 3 < c.reward * 2) THEN "InvalidReward"
        ELSE "Ok"
  <2>1. R[1].holds <=> severity \in Canonical
    BY <1>1, SameCanonical, RulesAre
  <2>2. /\ R[2].holds <=> (0 < c.threshold /\ c.threshold <= 1440)
        /\ R[3].holds <=> (0 < c.penalty /\ c.penalty <= 10000)
        /\ R[4].holds <=> (0 < c.reward /\ c.reward <= 100000)
    BY <1>1, <1>2, <1>3, RulesAre
  <2> QED BY <1>1, <2>1, <2>2, RulesAre, RulesInOrder
<1>5. PICK T \in Int, P \in Int, W \in Int : T = c.threshold /\ P = c.penalty /\ W = c.reward
  BY <1>3
<1>6. ValidateConfig(severity, c) =
        IF severity \notin Canonical THEN "InvalidSeverity"
        ELSE IF ~(0 < T /\ T <= 1440) THEN "InvalidThreshold"
        ELSE IF ~(0 < P /\ P <= 10000) THEN "InvalidPenalty"
        ELSE IF ~(0 < W /\ W <= 100000) THEN "InvalidReward"
        ELSE IF ~(T <= MaxThreshold[severity]) THEN "InvalidThreshold"
        ELSE IF ~(MinPenalty[severity] <= P /\ P <= MaxPenalty[severity]) THEN "InvalidPenalty"
        ELSE IF ~(P * 3 < W * 2) THEN "InvalidReward" ELSE "Ok"
  <2>1. PICK general : general = ValidateGeneralBounds(c)
    OBVIOUS
  <2>2. general = IF ~(0 < T /\ T <= 1440) THEN "InvalidThreshold"
                  ELSE IF ~(0 < P /\ P <= 10000) THEN "InvalidPenalty"
                  ELSE IF ~(0 < W /\ W <= 100000) THEN "InvalidReward" ELSE "Ok"
    BY <1>5, <2>1 DEF ValidateGeneralBounds, Require, ??, Ok
  <2>3. ValidateConfig(severity, c) =
          IF severity \notin Canonical THEN "InvalidSeverity"
          ELSE IF general # "Ok" THEN general
          ELSE IF ~(T <= MaxThreshold[severity]) THEN "InvalidThreshold"
          ELSE IF ~(MinPenalty[severity] <= P /\ P <= MaxPenalty[severity]) THEN "InvalidPenalty"
          ELSE IF ~(P * 3 < W * 2) THEN "InvalidReward" ELSE "Ok"
    BY <1>5, <2>1 DEF ValidateConfig, Require, ??, Ok
  <2> QED BY ONLY <2>2, <2>3
<1>7. severity \in Canonical <=> severity \in {"critical", "high", "medium", "low"}
  BY CanonicalIs
<1>8. CASE severity \notin Canonical
  BY <1>4, <1>6, <1>8
<1>9. CASE severity = "critical"
  <2>1. MaxThreshold[severity] = 60 /\ MinPenalty[severity] = 50 /\ MaxPenalty[severity] = 10000
    BY <1>9 DEF MaxThreshold, MinPenalty, MaxPenalty
  <2> QED BY <1>4, <1>5, <1>6, <1>7, <1>9, <2>1
<1>10. CASE severity = "high"
  <2>1. MaxThreshold[severity] = 120 /\ MinPenalty[severity] = 25 /\ MaxPenalty[severity] = 10000
    BY <1>10 DEF MaxThreshold, MinPenalty, MaxPenalty
  <2> QED BY <1>4, <1>5, <1>6, <1>7, <1>10, <2>1
<1>11. CASE severity = "medium"
  <2>1. MaxThreshold[severity] = 240 /\ MinPenalty[severity] = 10 /\ MaxPenalty[severity] = 10000
    BY <1>11 DEF MaxThreshold, MinPenalty, MaxPenalty
  <2> QED BY <1>4, <1>5, <1>6, <1>7, <1>11, <2>1
<1>12. CASE severity = "low"
  <2>1. MaxThreshold[severity] = 1440 /\ MinPenalty[severity] = 0 /\ MaxPenalty[severity] = 100
    BY <1>12 DEF MaxThreshold, MinPenalty, MaxPenalty
  <2> QED BY <1>4, <1>5, <1>6, <1>7, <1>12, <2>1
<1> QED BY <1>7, <1>8, <1>9, <1>10, <1>11, <1>12

\* Arithmetic: products of positive numbers, a factor no less, a share of a
\* reward in percent.
LEMMA Positive == \A x, y \in Nat : 0 < x /\ 0 < y => x * y \in Nat /\ 0 < x * y
OBVIOUS

LEMMA NoLess == ASSUME NEW x \in Int, NEW p \in Int, NEW q \in Int, 0 <= x, p <= q PROVE x * p <= x * q
OBVIOUS

LEMMA Share ==
  ASSUME NEW w \in Int, 0 < w, NEW m \in {100, 150, 200}
  PROVE  (w * m) \div 100 \in Int /\ 0 < (w * m) \div 100 /\ (w * m) \div 100 <= (w * 200) \div 100
OBVIOUS

\* What an accepted tier pays or charges for a repair time.
LEMMA Settles ==
  ASSUME NEW c, SlaConfigOK(c), NEW mttr \in Nat, 0 < c.threshold, 0 < c.penalty, 0 < c.reward,
         NEW want, want = ExpectedComputeResult(mttr, c)
  PROVE  /\ want.error = "Ok"
         /\ mttr > c.threshold => want.amount = -((mttr - c.threshold) * c.penalty) /\ want.amount < 0
         /\ mttr <= c.threshold =>
              \E m \in {100, 150, 200} : want.amount = (c.reward * m) \div 100 /\ want.amount > 0
<1>1. PICK t \in Nat, p \in Int, w \in Int : t = c.threshold /\ p = c.penalty /\ w = c.reward
  BY DEF SlaConfigOK
<1>2. 0 < t /\ 0 < p /\ 0 < w
  BY <1>1
<1>3. CASE mttr > t
  <2>1. PICK a \in Int : a = -((mttr - t) * p)
    BY <1>1
  <2>2. a < 0
    <3>1. ASSUME NEW x \in Nat, NEW y \in Nat, 0 < x, 0 < y PROVE -(x * y) < 0
      BY <3>1, Positive
    <3>2. mttr - t \in Nat /\ 0 < mttr - t /\ p \in Nat
      BY <1>2, <1>3
    <3> QED BY <1>2, <2>1, <3>1, <3>2
  <2>3. want = Outcome("viol", "pen", "poor", a, a < 0, "InvalidPenaltyAmount")
    BY <1>1, <1>3, <2>1 DEF ExpectedComputeResult
  <2>4. want.amount = a /\ want.error = "Ok"
    BY <2>2, <2>3 DEF Outcome
  <2> QED BY <1>1, <1>3, <2>1, <2>2, <2>4
<1>4. CASE mttr <= t
  <2>1. PICK ratio : ratio = (mttr * 100) \div t
    OBVIOUS
  <2>2. PICK tier : tier = RewardTier(ratio)
    OBVIOUS
  <2>3. PICK m : m = tier.multiplier
    OBVIOUS
  <2>4. m \in {100, 150, 200}
    BY <2>2, <2>3 DEF RewardTier
  <2>5. PICK a \in Int : a = (w * m) \div 100
    BY <2>4
  <2>6. a > 0
    <3>1. (w * m) \div 100 \in Int /\ 0 < (w * m) \div 100
      BY <1>2, <2>4, Share
    <3> QED BY <2>5, <3>1
  <2>7. want = Outcome("met", "rew", tier.rating, a, a > 0, "InvalidRewardAmount")
    BY <1>1, <1>2, <1>4, <2>1, <2>2, <2>3, <2>5 DEF ExpectedComputeResult
  <2>8. want.amount = a /\ want.error = "Ok"
    BY <2>6, <2>7 DEF Outcome
  <2> QED BY <1>1, <1>4, <2>4, <2>5, <2>6, <2>8
<1> QED BY <1>1, <1>3, <1>4

\* Whatever validate_config accepts computes.
LEMMA AcceptedComputes ==
  ASSUME NEW severity, NEW c, SlaConfigOK(c), NEW mttr \in Nat
  PROVE  ValidatedConfigComputes(severity, c, mttr)
<1> SUFFICES ASSUME ExpectedValidateConfig(severity, c) = "Ok"
             PROVE  ExpectedComputeResult(mttr, c).error = "Ok" /\ ExpectedComputeResult(mttr, c).amount # 0
  BY DEF ValidatedConfigComputes
<1>1. ValidateConfig(severity, c) = Ok
  BY SameVerdict DEF Ok
<1>2. ValidateGeneralBounds(c) = Ok
  BY <1>1 DEF ValidateConfig, Require, ??, Ok
<1>3. 0 < c.threshold /\ 0 < c.penalty /\ 0 < c.reward
  BY <1>2 DEF ValidateGeneralBounds, Require, ??, Ok
<1>4. PICK want : want = ExpectedComputeResult(mttr, c)
  OBVIOUS
<1>5. want.error = "Ok" /\ (mttr > c.threshold \/ mttr <= c.threshold)
  BY <1>3, <1>4, Settles DEF SlaConfigOK
<1>6. want.amount # 0
  <2>1. mttr > c.threshold => -((mttr - c.threshold) * c.penalty) # 0
    <3>1. ASSUME NEW x \in Nat, NEW y \in Nat, 0 < x, 0 < y PROVE -(x * y) # 0
      BY <3>1, Positive
    <3>2. c.threshold \in Nat /\ c.penalty \in Nat
      BY <1>3 DEF SlaConfigOK
    <3>3. mttr > c.threshold => mttr - c.threshold \in Nat /\ 0 < mttr - c.threshold
      BY <3>2
    <3> QED BY <1>3, <3>1, <3>2, <3>3
  <2>2. CASE mttr > c.threshold
    BY <1>3, <1>4, <2>1, <2>2, Settles
  <2>3. CASE mttr <= c.threshold
    <3>1. PICK m \in {100, 150, 200} : want.amount = (c.reward * m) \div 100 /\ want.amount > 0
      BY <1>3, <1>4, <2>3, Settles
    <3>2. (c.reward * m) \div 100 \in Int
      BY DEF SlaConfigOK
    <3> QED BY <3>1, <3>2
  <2> QED BY <1>5, <2>2, <2>3
<1> QED BY <1>4, <1>5, <1>6

\* For every probed configuration and repair time, of any severity.
LEMMA SpecMatched == ValidationMatchesSpec
<1>1. ASSUME NEW severity, NEW c \in ProbedConfigs
      PROVE  /\ ValidateMatchesSpec(ValidateConfig(severity, c), severity, c)
             /\ \A mttr \in ProbedMttrs : ValidatedConfigComputes(severity, c, mttr)
  <2>1. SlaConfigOK(c)
    BY ViewAssumption DEF SlaConfigOK
  <2> QED BY <2>1, SameVerdict, AcceptedComputes, ViewAssumption DEF ValidateMatchesSpec
<1> QED BY <1>1 DEF ValidationMatchesSpec

\* The second copy asks what the contract asks but for the neighbours'
\* penalties.
LEMMA CopyChecks ==
  ASSUME storageVersion = STORAGE_VERSION, ~frozen, NEW severity, NEW c
  PROVE  LET verdict == AcceptsConfig(severity, c)
             set     == CopySetConfig(severity, c)
         IN  /\ verdict # "InvalidPenalty" => set.error = verdict
             /\ verdict = Ok => set.error = Ok
<1>1. CheckVersion = Ok /\ RequireNotFrozen = Ok
  BY DEF CheckVersion, RequireNotFrozen, Require, ??, Ok, STORAGE_VERSION
<1>2. \A verdict : (CheckVersion ?? RequireNotFrozen ?? verdict) = verdict
  BY <1>1 DEF ??
<1>3. PICK bounds, penalties, thresholds :
        /\ bounds = ValidateConfig(severity, c)
        /\ penalties = ValidatePenaltyOrdering(severity, c)
        /\ thresholds = ValidateThresholdOrdering(severity, c)
  OBVIOUS
<1>4. PICK verdict : verdict = AcceptsConfig(severity, c)
  OBVIOUS
<1>5. verdict = (bounds ?? penalties ?? thresholds)
  BY <1>3, <1>4 DEF AcceptsConfig
<1>6. CopyAcceptsConfig(severity, c) = (bounds ?? thresholds)
  BY <1>3 DEF CopyAcceptsConfig
<1>7. PICK error : error = CopySetConfig(severity, c).error /\ error = (bounds ?? thresholds)
  BY <1>2, <1>6 DEF CopySetConfig, Leaves
<1>8. penalties \in {Ok, "InvalidPenalty"}
  BY <1>3 DEF ValidatePenaltyOrdering, Require, ??, Ok
<1>9. verdict # "InvalidPenalty" => error = verdict
  BY <1>5, <1>7, <1>8 DEF ??
<1>10. Ok # "InvalidPenalty"
  BY DEF Ok
<1> QED BY <1>4, <1>7, <1>9, <1>10

\* What the second copy writes, and what it leaves alone.
LEMMA CopyIsFollowed == storageVersion = STORAGE_VERSION => CopyFollows
<1> SUFFICES ASSUME storageVersion = STORAGE_VERSION, ~frozen,
                    NEW severity \in Canonical \cup Custom, NEW c \in ConfigInputs
             PROVE  LET verdict == AcceptsConfig(severity, c)
                        set     == CopySetConfig(severity, c)
                        add     == CopySetCustomSeverity(severity, c)
                    IN  /\ verdict # "InvalidPenalty" => set.error = verdict
                        /\ verdict = Ok => set.config = [config EXCEPT ![severity] = c] /\ set.lastUpdate = now
                        /\ add.error = Ok => severity \in Custom /\ add.custom = With(custom, severity, c)
                        /\ { set.registry, add.registry } = { registry }
                        /\ add.lastUpdate = lastUpdate
  BY DEF CopyFollows
<1>1. PICK verdict : verdict = AcceptsConfig(severity, c)
  OBVIOUS
<1>2. PICK set : set = CopySetConfig(severity, c)
  OBVIOUS
<1>3. PICK add : add = CopySetCustomSeverity(severity, c)
  OBVIOUS
<1>4. (verdict # "InvalidPenalty" => set.error = verdict) /\ (verdict = Ok => set.error = Ok)
  BY <1>1, <1>2, CopyChecks
<1>5. verdict = Ok => set.config = [config EXCEPT ![severity] = c] /\ set.lastUpdate = now
  BY <1>2, <1>4 DEF CopySetConfig, Leaves
<1>6. add.error = Ok => severity \in Custom /\ add.custom = With(custom, severity, c)
  <2> SUFFICES ASSUME add.error = Ok PROVE severity \in Custom /\ add.custom = With(custom, severity, c)
    OBVIOUS
  <2>1. PICK v, f, n, b : /\ v = CheckVersion /\ f = RequireNotFrozen
                          /\ n = Require(severity \notin Canonical, "InvalidSeverity") /\ b = ValidateGeneralBounds(c)
    OBVIOUS
  <2>2. (v ?? f ?? n ?? b) = Ok
    BY <1>3, <2>1 DEF CopySetCustomSeverity, Leaves
  <2>3. n = Ok
    BY <2>2, ChainOk
  <2>4. severity \notin Canonical
    BY <2>1, <2>3 DEF Require, Ok
  <2>5. add.custom = With(custom, severity, c)
    BY <1>3 DEF CopySetCustomSeverity, Leaves
  <2> QED BY <2>4, <2>5
<1>7. set.registry = registry /\ add.registry = registry /\ add.lastUpdate = lastUpdate
  BY <1>2, <1>3 DEF CopySetConfig, CopySetCustomSeverity, Leaves
<1> QED BY <1>1, <1>2, <1>3, <1>4, <1>5, <1>6, <1>7

\* Two vectors one after the other, element by element.
LEMMA Appended ==
  ASSUME NEW n \in Nat, NEW m \in Nat, NEW f, NEW g
  PROVE  [i \in 1 .. n |-> f[i]] \o [i \in 1 .. m |-> g[i]]
           = [i \in 1 .. n + m |-> IF i <= n THEN f[i] ELSE g[i - n]]
<1> DEFINE X == { f[i] : i \in 1 .. n } \cup { g[i] : i \in 1 .. m }
           a == [i \in 1 .. n |-> f[i]]
           b == [i \in 1 .. m |-> g[i]]
<1>1. a \in Seq(X) /\ b \in Seq(X) /\ Len(a) = n /\ Len(b) = m
  OBVIOUS
<1> HIDE DEF X
<1>2. a \o b \in Seq(X) /\ Len(a \o b) = n + m
  BY <1>1
<1>3. \A i \in 1 .. n + m : (a \o b)[i] = IF i <= n THEN f[i] ELSE g[i - n]
  BY <1>1
<1>4. PICK ab : ab = a \o b
  OBVIOUS
<1>5. ab = [i \in 1 .. n + m |-> ab[i]]
  BY <1>2, <1>4
<1>6. ab = [i \in 1 .. n + m |-> IF i <= n THEN f[i] ELSE g[i - n]]
  BY <1>3, <1>4, <1>5
<1> QED BY <1>4, <1>6

\* A backend that folds the two ordered snapshots gets the hash in force.
LEMMA FoldedSnapshots ==
  ASSUME NEW read, read = BuildConfigSnapshot \o CustomConfigSnapshot
  PROVE  ConfigVersionHash = ConfigHash([i \in DOMAIN read |-> read[i].config])
<1>1. PICK registered : registered = Keep(CustomOrder, DOMAIN custom)
  OBVIOUS
<1>2. registered \in Seq(Custom)
  <2>1. OrderedBy(CustomOrder, Custom \X Custom)
    BY ViewAssumption DEF OrderedBy, Custom, Elements
  <2> QED BY <1>1, <2>1, ViewAssumption, KeepProperties
<1>3. PICK m \in Nat : m = Len(registered)
  BY <1>2
<1>4. DOMAIN registered = 1 .. m
  BY <1>2, <1>3
<1> DEFINE tiers == [i \in 1 .. 4 |-> config[CanonicalSeverities[i]]]
           extras == [i \in 1 .. m |-> custom[registered[i]]]
           tierEntries == [i \in 1 .. 4 |-> Entry(CanonicalSeverities[i], config[CanonicalSeverities[i]])]
           extraEntries == [i \in 1 .. m |-> Entry(registered[i], custom[registered[i]])]
<1>5. read = [i \in 1 .. 4 + m |-> IF i <= 4 THEN tierEntries[i] ELSE extraEntries[i - 4]]
  <2>1. BuildConfigSnapshot = [i \in 1 .. 4 |-> tierEntries[i]]
    BY DEF BuildConfigSnapshot
  <2>2. CustomConfigSnapshot = [i \in 1 .. m |-> extraEntries[i]]
    BY <1>1, <1>4 DEF CustomConfigSnapshot
  <2> HIDE DEF tierEntries, extraEntries
  <2> QED BY <2>1, <2>2, Appended
<1>6. tiers \o extras = [i \in 1 .. 4 + m |-> IF i <= 4 THEN tiers[i] ELSE extras[i - 4]]
  <2>1. tiers = [i \in 1 .. 4 |-> tiers[i]] /\ extras = [i \in 1 .. m |-> extras[i]]
    OBVIOUS
  <2> HIDE DEF tiers, extras
  <2> QED BY <2>1, Appended
<1>7. \A i \in 1 .. 4 + m : read[i].config = IF i <= 4 THEN tiers[i] ELSE extras[i - 4]
  <2> SUFFICES ASSUME NEW i \in 1 .. 4 + m
               PROVE  read[i].config = IF i <= 4 THEN tiers[i] ELSE extras[i - 4]
    OBVIOUS
  <2>1. \A name, value : Entry(name, value).config = value
    BY DEF Entry
  <2>2. CASE i <= 4
    <3>1. i \in 1 .. 4
      BY <2>2
    <3>2. read[i] = tierEntries[i]
      <4> HIDE DEF tierEntries, extraEntries
      <4> QED BY <1>5, <2>2
    <3> QED BY <2>1, <2>2, <3>1, <3>2
  <2>3. CASE ~(i <= 4)
    <3>1. i - 4 \in 1 .. m
      BY <2>3
    <3>2. read[i] = extraEntries[i - 4]
      <4> HIDE DEF tierEntries, extraEntries
      <4> QED BY <1>5, <2>3
    <3> QED BY <2>1, <2>3, <3>1, <3>2
  <2> QED BY <2>2, <2>3
<1>8. DOMAIN read = 1 .. 4 + m
  <2> HIDE DEF tierEntries, extraEntries
  <2> QED BY <1>5
<1>9. [i \in DOMAIN read |-> read[i].config] = tiers \o extras
  <2> HIDE DEF tiers, extras
  <2> QED BY <1>6, <1>7, <1>8
<1>10. ConfigVersionHash = ConfigHash(tiers \o extras)
  BY <1>1, <1>3 DEF ConfigVersionHash
<1> HIDE DEF tiers, extras
<1> QED BY <1>9, <1>10

\* The lookup custom severities share finds the canonical tier.
LEMMA SameSnapshot == BuildConfigSnapshot = CopyGetConfigSnapshot
<1>1. \A i \in 1 .. 4 : CanonicalSeverities[i] \in Canonical
  BY DEF Canonical, Elements, CanonicalSeverities
<1>2. \A i \in 1 .. 4 : LoadConfig(CanonicalSeverities[i]) = config[CanonicalSeverities[i]]
  BY <1>1 DEF LoadConfig
<1> QED BY <1>2 DEF BuildConfigSnapshot, CopyGetConfigSnapshot

\* What get_economic_exposure says of each tier and of all of them.
LEMMA Exposed ==
  ASSUME ConfigInv, NEW i \in 1 .. 4, NEW s, s = CanonicalSeverities[i]
  PROVE  /\ s \in Canonical
         /\ EconomicExposure.breakdown[i].severity = s
         /\ EconomicExposure.breakdown[i].max_reward = (config[s].reward * 200) \div 100
         /\ EconomicExposure.total_max_reward \in Int
         /\ (config[s].reward * 200) \div 100 <= EconomicExposure.total_max_reward
         /\ EconomicExposure.total_penalty_per_minute \in Int
         /\ config[s].penalty <= EconomicExposure.total_penalty_per_minute
<1> DEFINE e(j) == SeverityExposure(CanonicalSeverities[j])
<1>1. \A j \in 1 .. 4 : CanonicalSeverities[j] \in Canonical
  BY DEF Canonical, Elements, CanonicalSeverities
<1>2. \A j \in 1 .. 4 :
        /\ e(j).severity = CanonicalSeverities[j]
        /\ e(j).max_reward = (config[CanonicalSeverities[j]].reward * 200) \div 100
        /\ e(j).penalty_per_minute = config[CanonicalSeverities[j]].penalty
  BY DEF SeverityExposure
<1>3. \A j \in 1 .. 4 :
        /\ e(j).max_reward \in Int /\ 0 <= e(j).max_reward
        /\ e(j).penalty_per_minute \in Int /\ 0 <= e(j).penalty_per_minute
  <2> SUFFICES ASSUME NEW j \in 1 .. 4
               PROVE  /\ e(j).max_reward \in Int /\ 0 <= e(j).max_reward
                      /\ e(j).penalty_per_minute \in Int /\ 0 <= e(j).penalty_per_minute
    OBVIOUS
  <2>1. PICK c : c = config[CanonicalSeverities[j]]
    OBVIOUS
  <2>2. c.reward \in Int /\ 0 < c.reward /\ c.penalty \in Int /\ 0 < c.penalty
    BY <1>1, <2>1 DEF ConfigInv, SlaConfigOK, TierBounds
  <2>3. (c.reward * 200) \div 100 \in Int /\ 0 < (c.reward * 200) \div 100
    BY <2>2, Share
  <2> QED BY <1>2, <2>1, <2>2, <2>3
<1>4. EconomicExposure.breakdown[i] = e(i)
  BY DEF EconomicExposure
<1>5. /\ EconomicExposure.total_max_reward = e(1).max_reward + e(2).max_reward + e(3).max_reward + e(4).max_reward
      /\ EconomicExposure.total_penalty_per_minute =
           e(1).penalty_per_minute + e(2).penalty_per_minute + e(3).penalty_per_minute + e(4).penalty_per_minute
  BY DEF EconomicExposure
<1>6. i \in {1, 2, 3, 4} /\ 1 \in 1 .. 4 /\ 2 \in 1 .. 4 /\ 3 \in 1 .. 4 /\ 4 \in 1 .. 4
  OBVIOUS
<1> HIDE DEF e
<1>7. /\ EconomicExposure.total_max_reward \in Int
      /\ EconomicExposure.total_penalty_per_minute \in Int
      /\ e(i).max_reward <= EconomicExposure.total_max_reward
      /\ e(i).penalty_per_minute <= EconomicExposure.total_penalty_per_minute
  BY <1>3, <1>5, <1>6
<1> QED BY <1>1, <1>2, <1>4, <1>7

\* No tier pays or charges more than the exposure says.
LEMMA WithinExposure ==
  ASSUME ConfigInv, NEW i \in 1 .. 4, NEW mttr \in Nat,
         NEW c, c = config[CanonicalSeverities[i]],
         NEW amount, amount = ExpectedComputeResult(mttr, c).amount
  PROVE  /\ amount <= (c.reward * 200) \div 100
         /\ -amount <= SaturatingSub(mttr, c.threshold) * EconomicExposure.total_penalty_per_minute
<1>1. PICK s : s = CanonicalSeverities[i]
  OBVIOUS
<1>2. PICK total \in Int : total = EconomicExposure.total_penalty_per_minute /\ c.penalty <= total
  BY <1>1, Exposed
<1>3. SlaConfigOK(c) /\ 0 < c.threshold /\ 0 < c.penalty /\ 0 < c.reward
  BY <1>1, Exposed DEF ConfigInv, TierBounds
<1>4. PICK t \in Nat, p \in Int, w \in Int : t = c.threshold /\ p = c.penalty /\ w = c.reward
  BY <1>3 DEF SlaConfigOK
<1>5. 0 < (w * 200) \div 100
  BY <1>3, <1>4, Share
<1>6. CASE mttr > t
  <2>1. amount = -((mttr - t) * p) /\ amount < 0
    BY <1>3, <1>4, <1>6, Settles
  <2>2. PICK late \in Nat : late = mttr - t
    BY <1>6
  <2>3. late * p \in Int /\ late * p <= late * total
    BY <1>2, <1>4, <2>2, NoLess
  <2>4. SaturatingSub(mttr, t) = late
    BY <1>6, <2>2 DEF SaturatingSub
  <2>5. PICK charge \in Int : charge = late * p
    BY <2>3
  <2>6. amount = -charge
    BY <2>1, <2>2, <2>5
  <2>7. -amount = charge /\ amount <= 0
    BY <2>5, <2>6, <2>1
  <2>8. amount <= (w * 200) \div 100
    BY <1>5, <2>6, <2>7
  <2> QED BY <1>2, <1>4, <2>3, <2>4, <2>5, <2>7, <2>8
<1>7. CASE mttr <= t
  <2>1. PICK m \in {100, 150, 200} : amount = (w * m) \div 100 /\ amount > 0
    BY <1>3, <1>4, <1>7, Settles
  <2>2. amount \in Int /\ amount <= (w * 200) \div 100
    BY <1>3, <1>4, <2>1, Share
  <2>3. SaturatingSub(mttr, t) = 0
    BY <1>7 DEF SaturatingSub
  <2>4. 0 * total = 0
    BY <1>2
  <2> QED BY <1>2, <1>4, <2>1, <2>2, <2>3, <2>4
<1> QED BY <1>4, <1>6, <1>7

\* The readers agree in every state whose ladder is legal.
LEMMA LadderViewsAgree == ConfigInv /\ storageVersion = STORAGE_VERSION => ViewsAgree
<1> SUFFICES ASSUME ConfigInv, storageVersion = STORAGE_VERSION PROVE ViewsAgree
  OBVIOUS
<1>1. CopyFollows
  BY CopyIsFollowed DEF ConfigInv
<1>2. LET read == BuildConfigSnapshot \o CustomConfigSnapshot
      IN  ConfigBundle.config_version_hash = ConfigHash([i \in DOMAIN read |-> read[i].config])
  BY FoldedSnapshots DEF ConfigBundle
<1>3. ConfigBundle.snapshot = CopyGetConfigSnapshot
  BY SameSnapshot DEF ConfigBundle
<1>4. ASSUME NEW i \in 1 .. 4, NEW mttr \in ProbedMttrs
      PROVE  LET exposure == EconomicExposure.breakdown[i]
                 c        == config[exposure.severity]
                 amount   == ExpectedComputeResult(mttr, c).amount
             IN  /\ amount <= exposure.max_reward
                 /\ exposure.max_reward <= EconomicExposure.total_max_reward
                 /\ -amount <= SaturatingSub(mttr, c.threshold) * EconomicExposure.total_penalty_per_minute
  <2>1. PICK exposure : exposure = EconomicExposure.breakdown[i]
    OBVIOUS
  <2>2. PICK s : s = CanonicalSeverities[i]
    OBVIOUS
  <2>3. /\ exposure.severity = s
        /\ exposure.max_reward = (config[s].reward * 200) \div 100
        /\ (config[s].reward * 200) \div 100 <= EconomicExposure.total_max_reward
    BY <2>1, <2>2, Exposed
  <2>4. PICK c : c = config[s]
    OBVIOUS
  <2>5. PICK amount : amount = ExpectedComputeResult(mttr, c).amount
    OBVIOUS
  <2>6. mttr \in Nat
    BY ViewAssumption
  <2>7. /\ amount <= (c.reward * 200) \div 100
        /\ -amount <= SaturatingSub(mttr, c.threshold) * EconomicExposure.total_penalty_per_minute
    BY <2>2, <2>4, <2>5, <2>6, WithinExposure
  <2> QED BY <2>1, <2>3, <2>4, <2>5, <2>7
<1> QED BY <1>1, <1>2, <1>3, <1>4, SpecMatched DEF ViewsAgree

\* No call of this specification migrates.
LEMMA VersionStays == storageVersion = STORAGE_VERSION /\ [Next]_vars => (storageVersion = STORAGE_VERSION)'
<1>1. [Next]_vars => UNCHANGED storageVersion
  BY DEF Next, vars, roleVars, Configure, Remove, SetConfig, SetCustomSeverity, RemoveCustomSeverity, Guard,
         SetPaused, ClearPaused, SetFrozen, ClearFrozen, NewLedger
<1> QED BY <1>1 DEF STORAGE_VERSION

\* The readers of the configuration agree, after any sequence of writes and
\* removals and for every repair time: the contract's checks give the verdict
\* of the executable specification, the checks of the copy in config.rs differ
\* on the neighbours' penalties alone, the snapshots fold to the hash in force,
\* and no tier pays or charges by the minute more than the exposure says.
THEOREM ViewsAlwaysAgree == Spec => []ViewsAgree
<1>1. Init => storageVersion = STORAGE_VERSION
  BY DEF Init, Initialized
<1> QED BY <1>1, VersionStays, LadderAlways, LadderViewsAgree, PTL DEF Spec

=============================================================================
