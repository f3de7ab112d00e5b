---------------------------- MODULE ContractState ----------------------------
(***************************************************************************)
(* The roles and the two emergency guards every entry point consults, and  *)
(* the way an entry point answers its caller.                              *)
(*                                                                         *)
(* A handler runs its checks in order and returns the first error; the     *)
(* host then discards every storage write and every event of the call,     *)
(* those made before the error included.  So a handler here answers with   *)
(* the first error of its checks, joined by ??, and either changes nothing *)
(* (Refused) or does all it does (Granted).  A caller is always the        *)
(* address that signed: require_auth is the host's, and it aborts a call   *)
(* the named address did not sign before any state could change.           *)
(***************************************************************************)
EXTENDS HostClock

CONSTANTS
  Addresses,
  NoAddress            \* Option::None of an address key

ASSUME AddressAssumption == NoAddress \notin Addresses

STORAGE_VERSION == 3

VARIABLES
  storageVersion,      \* STORAGE_VERSION_KEY, 0 while absent
  admin,               \* ADMIN_KEY
  adminRenounced,      \* is ADMIN_RENOUNCED_KEY present
  operator,            \* OPERATOR_KEY
  paused,              \* PAUSED_KEY
  pauseInfo,           \* is PAUSE_INFO_KEY present
  frozen,              \* FREEZE_KEY
  reply                \* the last call and how it ended: what its caller learns

roleVars  == << storageVersion, admin, adminRenounced, operator >>
guardVars == << paused, pauseInfo, frozen >>

-----------------------------------------------------------------------------
(* Checks and answers *)

Ok == "Ok"

\* The `?` of the source: the first check that fails decides.
a ?? b == IF a = Ok THEN b ELSE a

Require(condition, error) == IF condition THEN Ok ELSE error

\* Mutant: the layout before the present one is let through.
CheckVersionLenient ==
  Require(storageVersion # 0, "NotInitialized") ?? Require(storageVersion + 1 >= STORAGE_VERSION, "VersionMismatch")

CheckVersion ==
  Require(storageVersion # 0, "NotInitialized") ?? Require(storageVersion = STORAGE_VERSION, "VersionMismatch")

\* Mutant: the renounced marker is not asked for, only the key.
RequireAdminUnmarked(caller) ==
  Require(admin # NoAddress, "NotInitialized") ?? Require(caller = admin, "Unauthorized")

RequireAdmin(caller) ==
  Require(~adminRenounced, "AdminRenounced")
    ?? Require(admin # NoAddress, "NotInitialized")
    ?? Require(caller = admin, "Unauthorized")

\* Mutant: the admin may do what the operator may.
RequireOperatorOrAdmin(caller) ==
  Require(operator # NoAddress, "NotInitialized") ?? Require(caller \in { operator, admin }, "Unauthorized")

RequireOperator(caller) ==
  Require(operator # NoAddress, "NotInitialized") ?? Require(caller = operator, "Unauthorized")

RequireNotPaused == Require(~paused, "ContractPaused")

RequireNotFrozen == Require(~frozen, "ConfigFrozen")

\* A call runs inside one ledger.
Answer(call, caller, status) ==
  /\ reply' = [call |-> call, caller |-> caller, status |-> status]
  /\ now' = now

Granted == reply'.status = Ok

-----------------------------------------------------------------------------
(* pause, unpause, freeze_config, unfreeze_config, once granted *)

SetPaused   == paused' = TRUE /\ pauseInfo' = TRUE /\ UNCHANGED << roleVars, frozen >>

\* Mutant: the pause metadata survives the unpause.
ClearPausedKeepsInfo == paused' = FALSE /\ UNCHANGED << roleVars, frozen, pauseInfo >>

ClearPaused == paused' = FALSE /\ pauseInfo' = FALSE /\ UNCHANGED << roleVars, frozen >>

SetFrozen == frozen' = TRUE /\ UNCHANGED << roleVars, paused, pauseInfo >>

ClearFrozen == frozen' = FALSE /\ UNCHANGED << roleVars, paused, pauseInfo >>

\* Before the contract is deployed no key exists.
ContractInit ==
  /\ storageVersion = 0
  /\ admin = NoAddress
  /\ adminRenounced = FALSE
  /\ operator = NoAddress
  /\ paused = FALSE
  /\ pauseInfo = FALSE
  /\ frozen = FALSE
  /\ reply = [call |-> "deploy", caller |-> NoAddress, status |-> Ok]

\* What a component that starts after initialize finds.
Initialized(theAdmin, theOperator) ==
  /\ storageVersion = STORAGE_VERSION
  /\ admin = theAdmin
  /\ adminRenounced = FALSE
  /\ operator = theOperator
  /\ paused = FALSE
  /\ pauseInfo = FALSE
  /\ frozen = FALSE
  /\ reply = [call |-> "initialize", caller |-> theAdmin, status |-> Ok]

ContractTypeOK ==
  /\ storageVersion \in 0 .. STORAGE_VERSION
  /\ admin \in Addresses \cup {NoAddress}
  /\ adminRenounced \in BOOLEAN
  /\ operator \in Addresses \cup {NoAddress}
  /\ paused \in BOOLEAN
  /\ pauseInfo \in BOOLEAN
  /\ frozen \in BOOLEAN
  /\ reply.caller \in Addresses \cup {NoAddress}

=============================================================================
