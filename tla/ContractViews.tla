----------------------------- MODULE ContractViews -----------------------------
(***************************************************************************)
(* What the contract tells about itself: the probes that work before a     *)
(* migration, the audit state a backend boots from, the footprint rent is  *)
(* computed from, and the table of its own methods.  All read the same     *)
(* keys by different ways, at any point of the contract's life.            *)
(***************************************************************************)
EXTENDS Contract

-----------------------------------------------------------------------------
(* Probes: they look at STORAGE_VERSION_KEY themselves *)

Stamped == Require(storageVersion # 0, "NotInitialized")

MigrationComplete == storageVersion = STORAGE_VERSION

Healthcheck ==
  LET status == IF storageVersion = 0 THEN "noinit"
                ELSE IF storageVersion # STORAGE_VERSION THEN "migrate"
                ELSE IF adminRenounced THEN "noadmin"
                ELSE "ok"
  IN  [ready |-> status = "ok", status |-> status]

\* get_migration_state, answered while Stamped.
MigrationState ==
  [stored_version |-> storageVersion, expected_version |-> STORAGE_VERSION,
   needs_migration |-> storageVersion # STORAGE_VERSION]

\* get_version_info, and what get_version_negotiation_info says of this contract.
VersionInfo ==
  [storage_version |-> storageVersion, needs_migration |-> storageVersion # STORAGE_VERSION,
   is_paused |-> paused]

ContractInfo ==
  [storage_version |-> storageVersion, needs_migration |-> storageVersion # STORAGE_VERSION,
   is_paused |-> paused, is_config_frozen |-> frozen,
   supported_severities |-> CanonicalSeverities, max_recalcs_per_outage |-> MAX_RECALCS_PER_OUTAGE]

RequireReadableConfig == Require(config # NoConfig, "NotInitialized")

FingerprintStatus == Stamped ?? RequireReadableConfig

Fingerprint ==
  [storage_version |-> storageVersion, config_version_hash |-> ConfigVersionHash,
   is_paused |-> paused, needs_migration |-> storageVersion # STORAGE_VERSION,
   is_config_frozen |-> frozen, captured_at |-> now]

-----------------------------------------------------------------------------
(* Versioned reads *)

GetAdmin    == CheckVersion ?? Require(admin # NoAddress, "NotInitialized")
GetOperator == CheckVersion ?? Require(operator # NoAddress, "NotInitialized")

GovernanceInfo ==
  [has_pending_admin |-> pendingAdmin # NoAddress, has_pending_operator |-> pendingOperator # NoAddress,
   proposal_expiry_window_secs |-> PROPOSAL_EXPIRY_WINDOW]

AuditStatus ==
  CheckVersion
    ?? Require(admin # NoAddress, "NotInitialized")
    ?? Require(operator # NoAddress, "NotInitialized")
    ?? RequireReadableConfig

\* `pause_info` is a vector of none or one; the length comes from the counter.
AuditState ==
  [admin |-> admin, operator |-> operator,
   pending_admin |-> pendingAdmin, pending_operator |-> pendingOperator,
   paused |-> paused, config_frozen |-> frozen, pause_info |-> IF pauseInfo THEN 1 ELSE 0,
   config_version_hash |-> ConfigVersionHash, stats |-> stats, history_len |-> historyLen]

-----------------------------------------------------------------------------
(* Footprint and rent *)

OutagesRetained == { r.outage_id : r \in Elements(History!ReadAllEntries) }

BytesWhen(present, bytes) == IF present THEN bytes ELSE 0

\* The keys initialize writes are 1332 bytes, and the one of the custom map 48;
\* whether RETENTION_LIMIT_KEY was ever written is not part of the state here.
\* CUSTOM_TELEMETRY_KEY has no line in the sum, whether it exists or not.
StorageFootprintEstimate(retentionKey) ==
  1332
    + SaturatingSub(tail, head) * (120 + 16 + 20)
    + Cardinality(OutagesRetained) * 24
    + BytesWhen(frozen, 20)
    + BytesWhen(pendingAdmin # NoAddress, 80) + BytesWhen(pendingAdminAt # NoTimestamp, 24)
    + BytesWhen(pendingOperator # NoAddress, 80) + BytesWhen(pendingOperatorAt # NoTimestamp, 24)
    + 48 + Cardinality(DOMAIN custom) * 150
    + BytesWhen(pauseInfo, 200)
    + BytesWhen(retentionKey, 16)
    + BytesWhen(lastUpdate # NoUpdate, 16)
    + BytesWhen(adminRenounced, 20)
    + BytesWhen(registry # [h \in {} |-> DefaultConfig], 200)

\* Per ledger, rounded up.
RentEstimate(footprint) ==
  LET num   == footprint * 1000
      denom == 1024 * 20000
  IN  num \div denom + BytesWhen(num % denom > 0, 1)

-----------------------------------------------------------------------------
(* get_public_api *)

Method(mutates, auth) == [mutates |-> mutates, auth |-> auth]

AdminMethods ==
  { "cancel_admin_proposal", "cancel_operator_proposal", "freeze_config", "migrate", "pause",
    "propose_admin", "propose_operator", "prune_history", "prune_history_by_age",
    "remove_custom_severity", "renounce_admin", "set_config", "set_custom_severity", "set_operator",
    "set_retention_limit", "unfreeze_config", "unpause" }

\* The reads are all that is left.
PublicApi(method) ==
  CASE method \in AdminMethods -> Method(TRUE, "admin")
    [] method = "calculate_sla" -> Method(TRUE, "operator")
    [] method \in { "accept_admin", "accept_operator" } -> Method(TRUE, "addr")
    [] method = "initialize" -> Method(TRUE, "multi")
    [] OTHER -> Method(FALSE, "none")

\* SLAError, in the order of its codes: what get_failure_schema lists.
FailureSchema ==
  << "AlreadyInitialized", "NotInitialized", "Unauthorized", "ConfigNotFound", "VersionMismatch",
     "ContractPaused", "NoPendingTransfer", "InvalidThreshold", "InvalidPenalty", "InvalidReward",
     "InvalidSeverity", "RetentionLimitOutOfRange", "DuplicateOutageInput", "InvalidPenaltyAmount",
     "InvalidRewardAmount", "ConfigFrozen", "InvalidInput", "SeverityNotInSet", "OutageRecalcLimit",
     "ProposalExpired", "AdminRenounced", "ExposureOverflow" >>

-----------------------------------------------------------------------------
(* Properties *)

\* Is it the party the table names that made the call?  Of the two signatures
\* of initialize, that of the new admin is the one the call is attributed to.
Authorised(auth, caller) ==
  CASE auth = "admin"    -> caller = admin
    [] auth = "operator" -> caller = operator
    [] auth = "multi"    -> caller = admin'
    [] OTHER             -> FALSE

\* The table a backend generates its client from is right about the contract:
\* whatever changes in storage, over migrations, renounces and second lives,
\* is changed by a method listed as mutating, called by the party listed for it,
\* and granted; whatever is refused is refused with a code of the failure schema.
ApiAsDescribed ==
  [][\/ /\ UNCHANGED << roleVars, guardVars, configVars, settledVars, legacy >>
        /\ ~Granted => reply'.status \in Elements(FailureSchema)
     \/ LET method == PublicApi(reply'.call)
        IN  Granted /\ method.mutates /\ Authorised(method.auth, reply'.caller)]_contractVars

\* A probe says ready exactly while some address passes the admin checks of
\* the entry points, and that a migration is due exactly while it is; the
\* fingerprint is readable in every migrated state.
ProbesAgree ==
  /\ Healthcheck.ready <=> CheckVersion = Ok /\ \E a \in Addresses : RequireAdmin(a) = Ok
  /\ Stamped = Ok => (Healthcheck.status = "migrate" <=> MigrationState.needs_migration)
  /\ ContractInfo.needs_migration # MigrationComplete
  /\ CheckVersion = Ok => FingerprintStatus = Ok

\* The audit state answers exactly while both role getters do, counts the rows
\* get_history returns, names the configuration hash of the fingerprint, and has
\* pause metadata exactly while paused, until a second initialize lifts a pause
\* and leaves them.
AuditAgrees ==
  /\ AuditStatus = Ok <=> GetAdmin = Ok /\ GetOperator = Ok
  /\ AuditStatus = Ok =>
       /\ AuditState.history_len = Len(History!ReadAllEntries)
       /\ AuditState.paused = VersionInfo.is_paused
       /\ AuditState.config_version_hash = Fingerprint.config_version_hash
       /\ AuditState.stats.total_calculations >= AuditState.history_len \/ AuditState.stats.total_calculations = COUNTER_MAX
       /\ ~SecondLife => AuditState.pause_info = (IF paused THEN 1 ELSE 0)

\* The outages with an index sub-key.
Indexed == { o \in OutageIds : outageIndex[o] # << >> }

\* The rows and outages the footprint charges for, which it takes from the
\* counters and from the rows themselves, are the entry and index sub-keys in
\* storage, those an earlier life left excepted.
SubKeysCounted ==
  LET rows == SaturatingSub(tail, head)
  IN  /\ rows <= Cardinality(DOMAIN entries)
      /\ OutagesRetained \subseteq Indexed
      /\ ~SecondLife => rows = Cardinality(DOMAIN entries) /\ OutagesRetained = Indexed

\* The rent covers the footprint, and no ledger more than it has to.
RentCovers ==
  \A retentionKey \in BOOLEAN :
    LET estimate == StorageFootprintEstimate(retentionKey)
    IN  /\ RentEstimate(estimate) * 20480 >= estimate
        /\ (RentEstimate(estimate) - 1) * 20480 < estimate

\* The readers tell one story in every state: the probes about the checks of
\* the entry points, the audit state about roles, history and statistics, the
\* footprint about the history that is stored.
ReadersAgree == ProbesAgree /\ AuditAgrees /\ (CheckVersion = Ok => SubKeysCounted /\ RentCovers)

=============================================================================
