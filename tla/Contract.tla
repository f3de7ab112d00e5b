------------------------------- MODULE Contract -------------------------------
(***************************************************************************)
(* The whole life of one deployment: initialize, or the storage an older   *)
(* version left and migrate; then everything of SlaCalculator; then        *)
(* renounce_admin, and what an initialize after it finds.                  *)
(*                                                                         *)
(* renounce_admin removes ADMIN_KEY, and ADMIN_KEY is all initialize looks *)
(* at, so it runs a second time on storage that is not empty.  It resets   *)
(* head, tail, length, statistics, the telemetry of the canonical tiers    *)
(* and the configuration; it cannot name the entry and index sub-keys of   *)
(* the first life, and they stay, as does the custom telemetry lane, which *)
(* has a key of its own.                                                   *)
(***************************************************************************)
EXTENDS SlaCalculator, SequencesExt

CONSTANTS
  PROPOSAL_EXPIRY_WINDOW, NoTimestamp,   \* as in Governance
  LegacyHistories     \* the single-vector histories an older version leaves

\* A reward is positive and a penalty negative: RequireAmount, in any version.
Signed(r) ==
  /\ r.met \in BOOLEAN
  /\ r.amount \in Int
  /\ IF r.met THEN r.amount > 0 ELSE r.amount < 0

ASSUME ContractAssumption ==
  /\ LegacyHistories \subseteq Seq(Results)
  /\ \A log \in LegacyHistories :
       /\ Len(log) <= MAX_HISTORY_SIZE
       /\ \A i \in 1 .. Len(log) : Signed(log[i]) /\ log[i].recorded_at <= 1
       /\ \A i, j \in 1 .. Len(log) : i < j => log[i].recorded_at <= log[j].recorded_at

VARIABLES
  pendingAdmin, pendingAdminAt, pendingOperator, pendingOperatorAt, view,
  legacy,             \* HISTORY_KEY, << >> while absent
  lifeStart           \* history variable: decisions recorded before the last initialize

Roles == INSTANCE Governance

handoffVars  == << pendingAdmin, pendingAdminAt, pendingOperator, pendingOperatorAt, view >>
lifeVars     == << legacy, lifeStart >>
contractVars == << vars, handoffVars, lifeVars >>

-----------------------------------------------------------------------------
(* initialize *)

\* Mutant: the head is left where the first life had it.
EmptyCountersKeepHead == tail' = 0 /\ historyLen' = 0 /\ UNCHANGED head

EmptyCounters == head' = 0 /\ tail' = 0 /\ historyLen' = 0

\* Mutant: the statistics are set up only where there are none.
ZeroedLifeKeepsStats == UNCHANGED stats

ZeroedLife == stats' = ZeroStats

\* Mutant: the lanes are left as the first life had them.
ZeroedLanesNone(counts) == counts

\* The four packed words become zero; CUSTOM_TELEMETRY_KEY is not one of them.
ZeroedLanes(counts) == [lane \in Lanes |-> IF lane = "custom" THEN counts[lane] ELSE 0]

\* Neither the sub-keys of the history, nor the retention limit, nor the custom
\* lane, nor the registry and stamp of the configuration, nor HISTORY_KEY are
\* touched.
InitializeStorage ==
  /\ EmptyCounters
  /\ ZeroedLife
  /\ calculations' = ZeroedLanes(calculations)
  /\ violations' = ZeroedLanes(violations)
  /\ lastCalculations' = ZeroedLanes(lastCalculations)
  /\ lastViolations' = ZeroedLanes(lastViolations)
  /\ config' = DefaultConfig
  /\ custom' = NoCustom
  /\ lifeStart' = Len(recorded)
  /\ UNCHANGED << entries, outageIndex, retentionLimit, lastUpdate, registry, recorded, decided, legacy >>

Initialize(newAdmin, newOperator) ==
  /\ Roles!Initialize(newAdmin, newOperator)
  /\ \/ ~Granted /\ UNCHANGED << configVars, settledVars, lifeVars >>
     \/ Granted /\ InitializeStorage
  /\ UNCHANGED writes

RenounceAdmin(caller) ==
  /\ Roles!RenounceAdmin(caller)
  /\ UNCHANGED << configVars, writes, settledVars, lifeVars >>

-----------------------------------------------------------------------------
(* migrate *)

\* CONFIG_KEY absent, as in storage from before it existed.
NoConfig == [s \in {} |-> << >>]

\* The other keys this sets read as the same default while they are absent.
InitMissingStorageDefaults ==
  config' = IF config = NoConfig THEN DefaultConfig ELSE config

\* Mutant: the entries are converted, the index of the outages is not built.
MigrateToShardedUnindexed(log) ==
  /\ entries' = [i \in head .. head + Len(log) - 1 |-> log[i - head + 1]]
  /\ tail' = head + Len(log)
  /\ historyLen' = Len(log)
  /\ UNCHANGED << head, outageIndex >>

MigrateToSharded(log) == History!RebuildHistory(log)

\* Mutant: the vector is removed before it is read.
ConvertHistoryAfterRemoval == legacy' = << >> /\ MigrateToSharded(legacy')

\* The arms v1 -> v2 and v2 -> v3: what the first stores the second stores again.
ConvertHistory == legacy' = << >> /\ MigrateToSharded(legacy)

Migrate(caller) ==
  /\ Answer("migrate", caller,
       Require(admin # NoAddress, "NotInitialized")
         ?? Require(caller = admin, "Unauthorized")
         ?? Require(storageVersion <= STORAGE_VERSION, "VersionMismatch"))
  /\ \/ /\ ~Granted \/ storageVersion = STORAGE_VERSION
        /\ UNCHANGED << storageVersion, configVars, settledVars, legacy >>
     \/ /\ Granted
        /\ storageVersion < STORAGE_VERSION
        /\ IF storageVersion = 0 THEN InitMissingStorageDefaults ELSE UNCHANGED config
        /\ ConvertHistory
        /\ storageVersion' = STORAGE_VERSION
        /\ UNCHANGED << custom, lastUpdate, registry, retentionLimit, recorded, telemetryVars, stats >>
  /\ UNCHANGED << admin, adminRenounced, operator, guardVars, writes, handoffVars, lifeStart >>

-----------------------------------------------------------------------------

\* calculate_sla and the admin calls beside it, the ledger included.
Operate == Next /\ UNCHANGED << handoffVars, lifeVars >>

\* No handoff is open; those of Governance are not taken here.
NoHandoff ==
  /\ pendingAdmin = NoAddress
  /\ pendingAdminAt = NoTimestamp
  /\ pendingOperator = NoAddress
  /\ pendingOperatorAt = NoTimestamp
  /\ view = Roles!Actual

\* The statistics a list of decisions adds up to.
StatsOf(log) ==
  [total_calculations |-> AtMost(Len(log), COUNTER_MAX),
   total_violations |-> AtMost(SumOf(log, LAMBDA r : IF r.met THEN 0 ELSE 1), COUNTER_MAX),
   total_rewards |-> AtMost(SumOf(log, LAMBDA r : IF r.met THEN r.amount ELSE 0), TOTAL_MAX),
   total_penalties |-> AtMost(SumOf(log, LAMBDA r : IF r.met THEN 0 ELSE -r.amount), TOTAL_MAX)]

EmptyStorage ==
  /\ lastUpdate = NoUpdate
  /\ registry = [h \in {} |-> DefaultConfig]
  /\ History!HistoryInit
  /\ Counters!TelemetryInit
  /\ decided = [lane \in Lanes |-> << >>]
  /\ writes = 0
  /\ lifeStart = 0
  /\ now = 1

\* Just deployed: no key exists, and none is read before initialize.
Deployed ==
  /\ ContractInit
  /\ config = NoConfig
  /\ custom = NoCustom
  /\ retentionLimit = MAX_HISTORY_SIZE
  /\ legacy = << >>
  /\ recorded = << >>
  /\ stats = ZeroStats

\* One tier an admin has repriced, or none.
OlderConfigs ==
  { DefaultConfig } \cup
    UNION { { [DefaultConfig EXCEPT ![s] = c] : c \in { d \in ConfigInputs : ValidateConfig(s, d) = Ok } } :
              s \in Canonical \cap Severities }

\* One custom severity an admin has registered, or none.
OlderCustoms ==
  { NoCustom } \cup
    UNION { { [t \in {s} |-> c] : c \in { d \in ConfigInputs : ValidateGeneralBounds(d) = Ok } } :
              s \in Severities \ Canonical }

\* Upgraded from an older version, in any posture its admin left: paused,
\* frozen, renounced, repriced, pruned.  Its vector holds the newest of the
\* decisions its statistics have counted.  The keys of the sharded history do
\* not exist; the lanes, the stamp and the registry are taken as empty.
Upgraded ==
  /\ storageVersion \in 0 .. STORAGE_VERSION - 1
  /\ adminRenounced \in BOOLEAN
  /\ \E theAdmin, theOperator \in Addresses :
       theAdmin # theOperator /\ admin = (IF adminRenounced THEN NoAddress ELSE theAdmin) /\ operator = theOperator
  /\ paused \in BOOLEAN
  /\ pauseInfo = paused
  /\ frozen \in BOOLEAN
  /\ reply = [call |-> "upgrade", caller |-> admin, status |-> Ok]
  /\ config \in OlderConfigs \cup (IF storageVersion = 0 THEN {NoConfig} ELSE {})
  /\ custom \in OlderCustoms
  /\ recorded \in LegacyHistories
  /\ \E pruned \in 0 .. Len(recorded) : legacy = SubSeq(recorded, pruned + 1, Len(recorded))
  /\ retentionLimit \in 1 .. MAX_HISTORY_SIZE
  /\ Len(legacy) <= retentionLimit
  /\ stats = StatsOf(recorded)

LifeInit == (Deployed \/ Upgraded) /\ EmptyStorage /\ NoHandoff

LifeNext ==
  \/ \E caller, other \in Addresses : Initialize(caller, other)
  \/ \E caller \in Addresses : RenounceAdmin(caller) \/ Migrate(caller)
  \/ Operate

LifeSpec == LifeInit /\ [][LifeNext]_contractVars

-----------------------------------------------------------------------------
(* Properties *)

SecondLife == adminRenounced /\ admin # NoAddress

ThisLife == SubSeq(recorded, lifeStart + 1, Len(recorded))

\* A migrated history is a well-formed one, and stays one for as long as the
\* contract is in its first life: whatever the old vector was, the new
\* entry keys, counters and outage indices agree after migrate and after all
\* that is done to them later, renounced or not, until initialize runs again.
FirstLifeIsExact ==
  ~SecondLife =>
    History!CountersTellEntries /\ History!IndexExact

\* migrate loses, repeats and reorders no decision: the sharded history is the
\* vector it converts, each outage's index finds its decisions in that order,
\* and the statistics keep counting from where they were.
MigrationKeepsDecisions ==
  [][reply'.call = "migrate" /\ storageVersion' # storageVersion =>
       /\ History!ReadAllEntries' = legacy
       /\ \A o \in OutageIds :
            History!EntriesForOutage(o)' = History!Keep(legacy, { r \in Results : r.outage_id = o })
       /\ stats' = stats]_contractVars

\* The full history shows only decisions of the present life, the newest ones,
\* none left out in between: what an earlier life left in storage is out of its
\* reach even after the indices are used again.  In a second life, where nobody
\* can prune, it is exactly as many of them as the retention limit allows.
HistoryIsThisLife ==
  LET shown == Len(History!ReadAllEntries)
  IN  /\ IsSuffix(History!ReadAllEntries, recorded)
      /\ shown <= Len(ThisLife)
      /\ SecondLife => shown = AtMost(Len(ThisLife), retentionLimit)

\* The statistics count the decisions since initialize, older versions of the
\* contract included, and nothing of an earlier life.
StatsMatchLife == stats = StatsOf(ThisLife)

\* No lane counts more decisions than were taken since it was last at zero, nor
\* more violations than there were among them: for a canonical tier since
\* initialize, for the custom lane since the contract was deployed.
LanesMatchLife ==
  \A lane \in Lanes :
    LET since == IF lane = "custom" THEN recorded ELSE ThisLife
    IN  /\ calculations[lane] <= Len(since)
        /\ violations[lane] <= SumOf(since, LAMBDA r : IF r.met THEN 0 ELSE 1)

\* History, totals and canonical telemetry show the work of the present life
\* and start again where initialize did.  The custom bucket of
\* get_severity_telemetry does not: it may still show decisions of a life
\* before.
ShowsThisLife == HistoryIsThisLife /\ StatsMatchLife /\ LanesMatchLife

\* Nothing is read or written in a layout the binary does not understand: an
\* upgraded contract stands still until migrate, a deployed one until initialize.
NothingBeforeMigration ==
  [][storageVersion # STORAGE_VERSION =>
       \/ storageVersion' = STORAGE_VERSION
       \/ UNCHANGED << roleVars, guardVars, configVars, settledVars, lifeVars >>]_contractVars

\* After a renounce only decisions are added: the configuration, the guards and
\* the retention limit never change again and nobody prunes, whoever a second
\* initialize made admin.
LockedForGood ==
  [][adminRenounced /\ reply'.call # "initialize" =>
       /\ UNCHANGED << roleVars, guardVars, configVars, retentionLimit >>
       /\ IsPrefix(recorded, recorded') /\ (recorded' = recorded => UNCHANGED << historyVars, stats >>)]_contractVars

\* What the comments of get_latest_by_outage and latest_for_outage say: the
\* decision they return is one for that outage.
LookupTellsOutage ==
  \A o \in OutageIds : History!LatestForOutage(o) # NoResult => History!LatestForOutage(o).outage_id = o

=============================================================================
