--------------------------- MODULE ContractProofs ---------------------------
(***************************************************************************)
(* Proofs about the life of a deployment: what initialize, migrate and     *)
(* renounce_admin do to the storage the composition runs on, what the      *)
(* readers and the entry points then answer, and how large an amount is.   *)
(***************************************************************************)
EXTENDS SlaCalculatorProofs, ContractViews

-----------------------------------------------------------------------------
(* The life of a deployment: Contract                                        *)
(*                                                                           *)
(* LifeInv: before a version is written there is nothing in the new layout;  *)
(* in a first life the storage is exact; in a second one it is so between    *)
(* its counters, whatever lies outside them.  Totals are of this life.       *)

\* An entry point that checks the version runs in the present layout only.
LEMMA VersionOpens == CheckVersion = Ok <=> storageVersion = STORAGE_VERSION
BY DEF CheckVersion, Require, Ok, ??, STORAGE_VERSION

LEMMA AdminOpens ==
  ASSUME NEW caller, (CheckVersion ?? RequireAdmin(caller)) = Ok
  PROVE  storageVersion = STORAGE_VERSION /\ ~adminRenounced
<1>1. CheckVersion = Ok /\ RequireAdmin(caller) = Ok
  BY ChainOk, Zenon
<1>2. (Require(~adminRenounced, "AdminRenounced") ?? Require(admin # NoAddress, "NotInitialized")) = Ok
  BY <1>1, ChainOk, Zenon DEF RequireAdmin
<1>3. Require(~adminRenounced, "AdminRenounced") = Ok
  BY <1>2, ChainOk, Zenon
<1>4. ~adminRenounced
  BY <1>3 DEF Require, Ok
<1> QED BY <1>1, <1>4, VersionOpens

LEMMA GateOpens ==
  ASSUME NEW caller, AdminGate(caller) = Ok
  PROVE  storageVersion = STORAGE_VERSION /\ ~adminRenounced
<1>1. (CheckVersion ?? RequireAdmin(caller)) = Ok
  BY ChainOk, Zenon DEF AdminGate
<1> QED BY <1>1, AdminOpens

LEMMA AnswerTells ==
  ASSUME NEW call, NEW caller, NEW status, Answer(call, caller, status), Granted
  PROVE  status = Ok
BY DEF Answer, Granted

\* calculate_sla and the calls beside it, granted, are made on a contract of
\* the present layout; all but calculate_sla need an admin who is not renounced.
LEMMA OnlyGranted ==
  ASSUME Operate
  PROVE  \/ UNCHANGED << roleVars, guardVars, configVars, settledVars >>
         \/ storageVersion = STORAGE_VERSION /\ ~adminRenounced
         \/ /\ storageVersion = STORAGE_VERSION
            /\ UNCHANGED << roleVars, guardVars, configVars >>
            /\ \E caller, severity : \E outage \in OutageIds, mttr \in Mttrs :
                 CalculateSla(caller, outage, severity, mttr)
<1> DEFINE Quiet == UNCHANGED << roleVars, guardVars, configVars, settledVars >>
           Open  == storageVersion = STORAGE_VERSION /\ ~adminRenounced
           Sla   == /\ storageVersion = STORAGE_VERSION
                    /\ UNCHANGED << roleVars, guardVars, configVars >>
                    /\ \E caller, severity : \E outage \in OutageIds, mttr \in Mttrs :
                         CalculateSla(caller, outage, severity, mttr)
<1>1. ASSUME NEW caller, NEW outage \in OutageIds, NEW severity, NEW mttr \in Mttrs,
             CalculateSla(caller, outage, severity, mttr)
      PROVE  Quiet \/ Sla
  <2>1. UNCHANGED << roleVars, guardVars, configVars >> /\ (Granted \/ UNCHANGED settledVars)
    BY <1>1 DEF CalculateSla
  <2>2. ASSUME Granted PROVE storageVersion = STORAGE_VERSION
    <3> DEFINE prev   == History!LatestForOutage(outage)
               same   == SameGeneration(prev, Generation(severity), mttr, LoadConfig(severity))
               range  == Require(mttr <= MAX_MTTR, "InvalidInput")
               amount == RequireAmount(ComputeResult(outage, mttr, LoadConfig(severity), Generation(severity), now))
               inputs == Require(same => SameInputs(prev, mttr, LoadConfig(severity)), "DuplicateOutageInput")
               limit  == Require(prev = NoResult \/ same \/ Len(outageIndex[outage]) < MAX_RECALCS_PER_OUTAGE,
                                 "OutageRecalcLimit")
    <3>1. (CheckVersion ?? range ?? RequireNotPaused ?? RequireOperator(caller) ?? RequireConfig(severity)
             ?? amount ?? inputs ?? limit) = Ok
      BY <1>1, <2>2 DEF CalculateSla, Answer, Granted
    <3> HIDE DEF range, amount, inputs, limit
    <3>2. (CheckVersion ?? range ?? RequireNotPaused ?? RequireOperator(caller) ?? RequireConfig(severity)
             ?? amount ?? inputs) = Ok
      BY <3>1, ChainOk, Zenon
    <3>3. (CheckVersion ?? range ?? RequireNotPaused ?? RequireOperator(caller) ?? RequireConfig(severity)) = Ok
      BY <3>2, ChainOk, Zenon
    <3>4. (CheckVersion ?? range ?? RequireNotPaused) = Ok
      BY <3>3, ChainOk, Zenon
    <3>5. CheckVersion = Ok
      BY <3>4, ChainOk, Zenon
    <3> QED BY <3>5, VersionOpens
  <2> QED BY <1>1, <2>1, <2>2
<1>2. ASSUME NEW caller, NEW severity, NEW c, Configure(caller, severity, c)
      PROVE  Quiet \/ Open
  <2>1. UNCHANGED << roleVars, guardVars, settledVars >> /\ (Granted \/ UNCHANGED configVars)
    BY <1>2 DEF Configure, Configured, SetConfig, SetCustomSeverity, ConfigRefused
  <2>2. ASSUME Granted PROVE AdminGate(caller) = Ok
    <3>1. CASE SetConfig(caller, severity, c)
      BY <2>2, <3>1, AnswerTells, ChainOk, Zenon DEF SetConfig
    <3>2. CASE SetCustomSeverity(caller, severity, c)
      BY <2>2, <3>2, AnswerTells, ChainOk, Zenon DEF SetCustomSeverity
    <3> QED BY <1>2, <3>1, <3>2 DEF Configure
  <2> QED BY <2>1, <2>2, GateOpens
<1>3. ASSUME NEW caller, NEW severity, Unregister(caller, severity)
      PROVE  Quiet \/ Open
  <2>1. UNCHANGED << roleVars, guardVars, settledVars >> /\ (Granted \/ UNCHANGED configVars)
    BY <1>3 DEF Unregister, Configured, RemoveCustomSeverity, ConfigRefused
  <2>2. ASSUME Granted PROVE AdminGate(caller) = Ok
    BY <1>3, <2>2, AnswerTells, ChainOk, Zenon DEF Unregister, RemoveCustomSeverity
  <2> QED BY <2>1, <2>2, GateOpens
<1>4. ASSUME NEW caller, NEW n, PruneHistory(caller, n) \/ PruneHistoryByAge(caller, n) \/ SetRetentionLimit(caller, n)
      PROVE  Quiet \/ Open
  <2>1. UNCHANGED << roleVars, guardVars, configVars, telemetryVars, stats >> /\ (Granted \/ UNCHANGED historyVars)
    BY <1>4 DEF PruneHistory, PruneHistoryByAge, SetRetentionLimit, KeepingRest
  <2>2. ASSUME Granted PROVE (CheckVersion ?? RequireAdmin(caller)) = Ok
    <3>1. CASE PruneHistory(caller, n)
      BY <2>2, <3>1, AnswerTells, Zenon DEF PruneHistory
    <3>2. CASE PruneHistoryByAge(caller, n)
      BY <2>2, <3>2, AnswerTells, ChainOk, Zenon DEF PruneHistoryByAge
    <3>3. CASE SetRetentionLimit(caller, n)
      BY <2>2, <3>3, AnswerTells, ChainOk, Zenon DEF SetRetentionLimit, AdminGate
    <3> QED BY <1>4, <3>1, <3>2, <3>3
  <2> QED BY <2>1, <2>2, AdminOpens DEF settledVars
<1>5. ASSUME NEW caller, NEW fits, Pause(caller, fits) \/ Unpause(caller)
      PROVE  Quiet \/ Open
  <2>1. UNCHANGED << configVars, settledVars >> /\ (Granted \/ UNCHANGED << roleVars, guardVars >>)
    BY <1>5 DEF Pause, Unpause
  <2>2. ASSUME Granted PROVE (CheckVersion ?? RequireAdmin(caller)) = Ok
    <3>1. CASE Pause(caller, fits)
      BY <2>2, <3>1, AnswerTells, ChainOk, Zenon DEF Pause
    <3>2. CASE Unpause(caller)
      BY <2>2, <3>2, AnswerTells, Zenon DEF Unpause
    <3> QED BY <1>5, <3>1, <3>2
  <2> QED BY <2>1, <2>2, AdminOpens
<1>6. ASSUME NewLedger PROVE Quiet
  BY <1>6 DEF NewLedger
<1> HIDE DEF Quiet, Open, Sla
<1>7. Quiet \/ Open \/ Sla
  BY <1>1, <1>2, <1>3, <1>4, <1>5, <1>6, Zenon DEF Operate, Next
<1> QED BY <1>7, Zenon DEF Quiet, Open, Sla

\* What initialize, renounce_admin and migrate do when they are granted, and
\* that they do nothing when they are not.
LEMMA InitializeSays ==
  ASSUME NEW newAdmin, NEW newOperator, Initialize(newAdmin, newOperator)
  PROVE  /\ reply'.call = "initialize" /\ now' = now /\ UNCHANGED writes
         /\ \/ UNCHANGED << roleVars, guardVars, configVars, settledVars, lifeVars >>
            \/ /\ admin = NoAddress /\ admin' = newAdmin /\ storageVersion' = STORAGE_VERSION
               /\ UNCHANGED adminRenounced
               /\ InitializeStorage
<1>1. /\ reply' = [call |-> "initialize", caller |-> newAdmin,
                   status |-> Roles!Require(admin = NoAddress, "AlreadyInitialized")]
      /\ now' = now /\ UNCHANGED writes
  BY DEF Initialize, Roles!Initialize, Roles!Answer
<1>2. CASE ~Granted
  BY <1>1, <1>2 DEF Initialize, Roles!Initialize, Roles!Refused, Granted, Roles!Granted, Ok, Roles!Ok,
                    roleVars, guardVars, Roles!roleVars, Roles!guardVars
<1>3. CASE Granted
  <2>1. admin = NoAddress
    BY <1>1, <1>3 DEF Granted, Ok, Roles!Require, Roles!Ok
  <2>2. admin' = newAdmin /\ storageVersion' = STORAGE_VERSION /\ UNCHANGED adminRenounced /\ InitializeStorage
    BY <1>3 DEF Initialize, Roles!Initialize, Roles!Refused, Granted, Roles!Granted, Ok, Roles!Ok,
                STORAGE_VERSION, Roles!STORAGE_VERSION
  <2> QED BY <1>1, <2>1, <2>2
<1> QED BY <1>2, <1>3

LEMMA RenounceSays ==
  ASSUME NEW caller, RenounceAdmin(caller)
  PROVE  /\ reply'.call = "renounce_admin" /\ now' = now
         /\ UNCHANGED << configVars, writes, settledVars, lifeVars >>
         /\ \/ UNCHANGED << roleVars, guardVars >>
            \/ /\ storageVersion = STORAGE_VERSION /\ ~adminRenounced
               /\ adminRenounced' = TRUE /\ admin' = NoAddress /\ UNCHANGED storageVersion
<1>1. /\ reply' = [call |-> "renounce_admin", caller |-> caller, status |-> Roles!RoleGate(caller)]
      /\ now' = now /\ UNCHANGED << configVars, writes, settledVars, lifeVars >>
  BY DEF RenounceAdmin, Roles!RenounceAdmin, Roles!Answer
<1>2. CASE ~Granted
  BY <1>1, <1>2 DEF RenounceAdmin, Roles!RenounceAdmin, Roles!Refused, Granted, Roles!Granted, Ok, Roles!Ok,
                    roleVars, guardVars, Roles!roleVars, Roles!guardVars
<1>3. CASE Granted
  <2>1. Roles!RoleGate(caller) = Ok
    BY <1>1, <1>3 DEF Granted
  <2>2. storageVersion = STORAGE_VERSION /\ ~adminRenounced
    BY <2>1 DEF Roles!RoleGate, Roles!CheckVersion, Roles!RequireNotFrozen, Roles!RequireAdmin, Roles!Require,
                Roles!Ok, Ok, Roles!??, STORAGE_VERSION, Roles!STORAGE_VERSION
  <2>3. adminRenounced' = TRUE /\ admin' = NoAddress /\ UNCHANGED storageVersion
    BY <1>3 DEF RenounceAdmin, Roles!RenounceAdmin, Roles!Refused, Granted, Roles!Granted, Ok, Roles!Ok
  <2> QED BY <1>1, <2>2, <2>3
<1> QED BY <1>2, <1>3

LEMMA MigrateSays ==
  ASSUME NEW caller, Migrate(caller)
  PROVE  /\ reply'.call = "migrate" /\ now' = now
         /\ UNCHANGED << admin, adminRenounced, operator, guardVars, lifeStart >>
         /\ \/ UNCHANGED << storageVersion, configVars, settledVars, legacy >>
            \/ /\ storageVersion # STORAGE_VERSION /\ storageVersion' = STORAGE_VERSION
               /\ admin # NoAddress
               /\ IF storageVersion = 0 THEN InitMissingStorageDefaults ELSE UNCHANGED config
               /\ ConvertHistory
               /\ UNCHANGED << custom, retentionLimit, recorded, telemetryVars, stats >>
<1> DEFINE status == Require(admin # NoAddress, "NotInitialized")
                       ?? Require(caller = admin, "Unauthorized")
                       ?? Require(storageVersion <= STORAGE_VERSION, "VersionMismatch")
<1>1. reply' = [call |-> "migrate", caller |-> caller, status |-> status] /\ now' = now
  BY DEF Migrate, Answer
<1>2. ASSUME Granted PROVE admin # NoAddress
  <2>1. Require(admin # NoAddress, "NotInitialized") = Ok
    BY <1>1, <1>2, ChainOk, ZenonT(60) DEF Granted
  <2> QED BY <2>1 DEF Require, Ok
<1>3. ASSUME Granted, storageVersion < STORAGE_VERSION PROVE storageVersion # STORAGE_VERSION
  BY <1>3 DEF STORAGE_VERSION
<1> HIDE DEF status
<1> QED BY <1>1, <1>2, <1>3 DEF Migrate

(***************************************************************************)
(* Nothing is read or written in a layout the binary does not understand:  *)
(* each entry point but initialize and migrate stops at check_version.     *)
(***************************************************************************)
THEOREM NothingRunsBeforeMigration == LifeSpec => NothingBeforeMigration
<1> DEFINE Still == storageVersion # STORAGE_VERSION =>
                      \/ storageVersion' = STORAGE_VERSION
                      \/ UNCHANGED << roleVars, guardVars, configVars, settledVars, lifeVars >>
<1>1. ASSUME LifeNext PROVE Still
  <2>1. ASSUME NEW caller, NEW other, Initialize(caller, other) PROVE Still
    BY <2>1, InitializeSays
  <2>2. ASSUME NEW caller, RenounceAdmin(caller) PROVE Still
    BY <2>2, RenounceSays
  <2>3. ASSUME NEW caller, Migrate(caller) PROVE Still
    BY <2>3, MigrateSays DEF roleVars, lifeVars
  <2>4. CASE Operate
    BY <2>4, OnlyGranted DEF Operate
  <2> HIDE DEF Still
  <2> QED BY <1>1, <2>1, <2>2, <2>3, <2>4 DEF LifeNext
<1>2. UNCHANGED contractVars => Still
  BY DEF contractVars, vars, lifeVars
<1>3. [LifeNext]_contractVars => Still
  BY <1>1, <1>2
<1> QED BY <1>3, PTL DEF LifeSpec, NothingBeforeMigration

-----------------------------------------------------------------------------
(* The invariant of a contract's life *)

\* The four tiers as an admin may have priced them, and the severities an admin
\* may have registered beside them.
TiersPriced == config \in [Canonical -> Configurations] /\ \A s \in Canonical : InBounds(config[s])
Registered == \A s \in DOMAIN custom : s \notin Canonical /\ custom[s] \in Configurations /\ InBounds(custom[s])

\* Before migrate, and before initialize, nothing of the present layout exists;
\* what an older version left is a vector within the limit and a configuration
\* within bounds.
Untouched ==
  /\ Store!HistoryInit
  /\ legacy \in Seq(Results) /\ Ends(legacy, recorded)
  /\ Len(legacy) <= retentionLimit
  /\ \A k \in 1 .. Len(legacy) : legacy[k].recorded_at <= 1
  /\ \A i, j \in 1 .. Len(legacy) : i < j => legacy[i].recorded_at <= legacy[j].recorded_at
  /\ adminRenounced => admin = NoAddress
  /\ TiersPriced \/ (config = NoConfig /\ storageVersion = 0)
  /\ Registered

\* An exact history: nobody has initialized again.
FirstShape == Store!StoreInv /\ lifeStart = 0 /\ Ends(Window, recorded)

\* What a second initialize leads to.  The entries of the first life are still
\* there, so entry keys and indices no longer agree with the counters; but
\* nobody can prune, so the counters are where the decisions made since put
\* them, and the entries between them are those decisions.
SecondShape ==
  /\ storageVersion = STORAGE_VERSION
  /\ tail = Len(recorded) - lifeStart
  /\ head = IF tail > retentionLimit THEN tail - retentionLimit ELSE 0
  /\ \A i \in head .. tail - 1 : i \in DOMAIN entries /\ entries[i] = recorded[lifeStart + i + 1]

\* StatsOf, column by column.
TotalsOf(log) ==
  [total_calculations |-> AtMost(Len(log), COUNTER_MAX),
   total_violations   |-> AtMost(SumUp(ViolationsIn(log)), COUNTER_MAX),
   total_rewards      |-> AtMost(SumUp(RewardsIn(log)), TOTAL_MAX),
   total_penalties    |-> AtMost(SumUp(PenaltiesIn(log)), TOTAL_MAX)]

LogOK ==
  /\ recorded \in Seq(Results)
  /\ \A k \in 1 .. Len(recorded) : Signed(recorded[k])
  /\ lifeStart \in 0 .. Len(recorded)

\* LanesMatchLife, with the violations as a column.
LaneFits(c, v, log) == c <= Len(log) /\ v <= SumUp(ViolationsIn(log))

Since(lane) == IF lane = "custom" THEN recorded ELSE ThisLife

LanesFit ==
  /\ calculations \in [Lanes -> Nat] /\ violations \in [Lanes -> Nat]
  /\ \A lane \in Lanes : LaneFits(calculations[lane], violations[lane], Since(lane))

LifeInv ==
  /\ storageVersion \in 0 .. STORAGE_VERSION
  /\ retentionLimit \in 1 .. MAX_HISTORY_SIZE
  /\ now \in 1 .. MaxLedger
  /\ LogOK
  /\ storageVersion = STORAGE_VERSION => Known
  /\ storageVersion # STORAGE_VERSION => Untouched
  /\ admin = NoAddress => adminRenounced \/ (storageVersion # STORAGE_VERSION /\ recorded = << >>)
  /\ ~SecondLife => FirstShape
  /\ SecondLife => SecondShape
  /\ stats = TotalsOf(ThisLife)
  /\ LanesFit

EmptyHistory == Store!HistoryInit /\ retentionLimit \in 1 .. MAX_HISTORY_SIZE /\ now \in Nat

ExactAndEmpty == Store!StoreInv /\ Len(Window) = 0

\* Storage without a decision is a consistent history, whatever the time.
LEMMA EmptyIsExact == EmptyHistory => ExactAndEmpty
<1> SUFFICES ASSUME EmptyHistory PROVE ExactAndEmpty
  OBVIOUS
<1> USE CalculatorAssumption DEF EmptyHistory, Store!HistoryInit
<1>1. DOMAIN entries = {} /\ head .. tail - 1 = {}
  OBVIOUS
<1>2. Store!StoreTypeOK
  BY <1>1 DEF Store!StoreTypeOK
<1>3. Store!NoOrphanEntries /\ Store!CachedLengthWithinLimit
  BY <1>1 DEF Store!NoOrphanEntries, Store!CachedLengthWithinLimit
<1>4. \A outage \in OutageIds : Len(outageIndex[outage]) = 0
  OBVIOUS
<1>5. Store!IndexExact /\ Store!Chronological
  BY <1>1, <1>4 DEF Store!IndexExact, Store!Chronological, Store!StrictlyIncreasing, Store!Elements
<1>6. Store!StoreInv
  BY <1>2, <1>3, <1>5 DEF Store!StoreInv
<1>7. Len(Window) = 0
  BY <1>6, WindowIs
<1> QED BY <1>6, <1>7 DEF ExactAndEmpty

LEMMA EmptyIsExactNext == EmptyHistory' => ExactAndEmpty'
BY EmptyIsExact, PTL

\* What initialize and migrate leave is a known configuration.
FreshConfig == TiersPriced /\ Registered /\ now \in 1 .. MaxLedger

LEMMA FreshIsKnown == FreshConfig => Known
BY DEF FreshConfig, TiersPriced, Registered, Known, LoadConfig, InBounds

LEMMA FreshIsKnownNext == FreshConfig' => Known'
BY FreshIsKnown, PTL

\* What initialize writes, and migrate where there is nothing to keep.
LEMMA DefaultsPriced == config = DefaultConfig => TiersPriced
<1>1. \A s \in Canonical : InBounds(DefaultConfig[s])
  BY CanonicalNames DEF DefaultConfig, InBounds
<1> QED BY <1>1, DefaultsKnown DEF TiersPriced

LEMMA DefaultsPricedNext == (config = DefaultConfig)' => TiersPriced'
BY DefaultsPriced, PTL

\* An admin of an older version was held to the same bounds.
LEMMA OlderPriced == config \in OlderConfigs => TiersPriced
<1> SUFFICES ASSUME config \in OlderConfigs PROVE TiersPriced
  OBVIOUS
<1>1. CASE config = DefaultConfig
  BY <1>1, DefaultsPriced
<1>2. ASSUME NEW s \in Canonical \cap Severities,
             config \in { [DefaultConfig EXCEPT ![s] = c] : c \in { d \in ConfigInputs : ValidateConfig(s, d) = Ok } }
      PROVE  TiersPriced
  <2>1. PICK c \in ConfigInputs : config = [DefaultConfig EXCEPT ![s] = c] /\ ValidateConfig(s, c) = Ok
    BY <1>2
  <2>2. c \in Configurations /\ InBounds(c)
    BY <2>1, ValidatedIsBounded DEF Configurations
  <2>3. \A t \in Canonical : InBounds(DefaultConfig[t])
    BY CanonicalNames DEF DefaultConfig, InBounds
  <2> QED BY <2>1, <2>2, <2>3, DefaultsKnown DEF TiersPriced
<1> QED BY <1>1, <1>2 DEF OlderConfigs

LEMMA OlderRegistered == custom \in OlderCustoms => Registered /\ IsFiniteSet(DOMAIN custom)
<1> SUFFICES ASSUME custom \in OlderCustoms PROVE Registered /\ IsFiniteSet(DOMAIN custom)
  OBVIOUS
<1>1. CASE custom = NoCustom
  BY <1>1, FS_EmptySet DEF NoCustom, Registered
<1>2. ASSUME NEW s \in Severities \ Canonical, NEW c \in ConfigInputs, ValidateGeneralBounds(c) = Ok,
             custom = [t \in {s} |-> c]
      PROVE  Registered /\ IsFiniteSet(DOMAIN custom)
  <2>1. InBounds(c) /\ c \in Configurations
    BY <1>2, BoundsChecked DEF Configurations
  <2>2. DOMAIN custom = {s} /\ custom[s] = c
    BY <1>2
  <2> QED BY <1>2, <2>1, <2>2, FS_Singleton DEF Registered
<1>3. ASSUME NEW s \in Severities \ Canonical,
             custom \in { [t \in {s} |-> c] : c \in { d \in ConfigInputs : ValidateGeneralBounds(d) = Ok } }
      PROVE  Registered /\ IsFiniteSet(DOMAIN custom)
  <2>1. PICK c \in ConfigInputs : custom = [t \in {s} |-> c] /\ ValidateGeneralBounds(c) = Ok
    BY <1>3
  <2> QED BY <1>2, <2>1
<1> QED BY <1>1, <1>3 DEF OlderCustoms

\* A life without a decision adds up to nothing.
LEMMA TotalsOfNone ==
  ASSUME NEW log, Len(log) = 0
  PROVE  TotalsOf(log) = ZeroStats
<1>1. Len(ViolationsIn(log)) = 0 /\ Len(RewardsIn(log)) = 0 /\ Len(PenaltiesIn(log)) = 0
  BY DEF ViolationsIn, RewardsIn, PenaltiesIn
<1>2. SumUp(ViolationsIn(log)) = 0 /\ SumUp(RewardsIn(log)) = 0 /\ SumUp(PenaltiesIn(log)) = 0
  BY <1>1, SumOfNone
<1>3. AtMost(0, COUNTER_MAX) = 0 /\ AtMost(0, TOTAL_MAX) = 0
  BY CalculatorAssumption DEF AtMost
<1> QED BY <1>2, <1>3 DEF TotalsOf, ZeroStats

LEMMA TotalsAreStats == \A log : StatsOf(log) = TotalsOf(log)
BY DEF StatsOf, TotalsOf, SumOf, ViolationsIn, RewardsIn, PenaltiesIn

\* The decisions since initialize: the end of the stream.
LEMMA LifeIs ==
  ASSUME NEW log \in Seq(Results), NEW start \in Nat, NEW end \in Nat, start <= end, end = Len(log)
  PROVE  /\ SubSeq(log, start + 1, end) \in Seq(Results)
         /\ Len(SubSeq(log, start + 1, end)) = end - start
         /\ \A k \in 1 .. end - start : SubSeq(log, start + 1, end)[k] = log[start + k]
<1>1. PICK n \in Nat, m \in Nat : n = end /\ m = start /\ m <= n
  OBVIOUS
<1>2. SubSeq(log, start + 1, end) = [k \in 1 .. n - m |-> log[m + k]]
  BY <1>1
<1>3. \A k \in 1 .. n - m : m + k \in 1 .. n /\ log[m + k] \in Results
  BY <1>1
<1> QED BY <1>1, <1>2, <1>3

\* Any column of violations adds up to a number.
LEMMA SumsAreNaturals ==
  ASSUME NEW log \in Seq(Results), \A k \in 1 .. Len(log) : Signed(log[k])
  PROVE  Len(log) \in Nat /\ SumUp(ViolationsIn(log)) \in Nat
<1>1. PICK n, v : n \in Nat /\ n = Len(log) /\ v = ViolationsIn(log)
  OBVIOUS
<1>2. Len(v) = n /\ \A k \in 1 .. n : v[k] \in Nat
  BY <1>1 DEF ViolationsIn, Signed
<1> QED BY <1>1, <1>2, SumOfNaturals

\* One decision more, for the stream and for the life.
LEMMA LifeGrows ==
  ASSUME NEW log \in Seq(Results), NEW start \in 0 .. Len(log), NEW r \in Results
  PROVE  SubSeq(Append(log, r), start + 1, Len(Append(log, r))) = Append(SubSeq(log, start + 1, Len(log)), r)
<1>1. PICK n \in Nat, m \in Nat : n = Len(log) /\ m = start /\ m <= n
  OBVIOUS
<1>2. PICK longer \in Seq(Results) :
        /\ longer = Append(log, r) /\ Len(longer) = n + 1
        /\ \A k \in 1 .. n : longer[k] = log[k]
        /\ longer[n + 1] = r
  BY <1>1, Appended
<1>3. PICK life \in Seq(Results) :
        /\ life = SubSeq(log, m + 1, n) /\ Len(life) = n - m
        /\ \A k \in 1 .. n - m : life[k] = log[m + k]
  <2>1. /\ SubSeq(log, m + 1, n) \in Seq(Results) /\ Len(SubSeq(log, m + 1, n)) = n - m
        /\ \A k \in 1 .. n - m : SubSeq(log, m + 1, n)[k] = log[m + k]
    BY <1>1, LifeIs
  <2> QED BY <2>1
<1>4. PICK e \in Nat : e = Len(longer) /\ m <= e /\ e = n + 1
  BY <1>1, <1>2
<1>5. PICK next : next = SubSeq(longer, m + 1, e)
  OBVIOUS
<1>6. /\ next \in Seq(Results) /\ Len(next) = e - m
      /\ \A k \in 1 .. e - m : next[k] = longer[m + k]
  <2>1. e = Len(longer) /\ m <= e
    BY <1>4
  <2>2. SubSeq(longer, m + 1, e) \in Seq(Results)
    BY <2>1, LifeIs
  <2>3. Len(SubSeq(longer, m + 1, e)) = e - m
    BY <2>1, LifeIs
  <2>4. \A k \in 1 .. e - m : SubSeq(longer, m + 1, e)[k] = longer[m + k]
    BY <2>1, LifeIs
  <2> QED BY <1>5, <2>2, <2>3, <2>4
<1>7. PICK grown \in Seq(Results) :
        /\ grown = Append(life, r) /\ Len(grown) = n - m + 1
        /\ \A k \in 1 .. n - m : grown[k] = life[k]
        /\ grown[n - m + 1] = r
  <2>1. /\ Append(life, r) \in Seq(Results) /\ Len(Append(life, r)) = n - m + 1
        /\ \A k \in 1 .. n - m : Append(life, r)[k] = life[k]
        /\ Append(life, r)[n - m + 1] = r
    BY <1>3, Appended
  <2> QED BY <2>1
<1>8. \A k \in 1 .. e - m : next[k] = grown[k]
  <2> TAKE k \in 1 .. e - m
  <2>1. CASE k <= n - m
    <3>1. k \in 1 .. n - m /\ m + k \in 1 .. n
      BY <1>1, <2>1
    <3> QED BY <1>2, <1>3, <1>6, <1>7, <3>1
  <2>2. CASE k = n - m + 1
    <3>1. m + k = n + 1
      BY <1>1, <2>2
    <3>2. next[k] = longer[m + k]
      BY <1>6
    <3>3. next[k] = r
      BY <1>2, <3>1, <3>2
    <3>4. grown[k] = r
      BY <1>7, <2>2
    <3> QED BY <3>3, <3>4
  <2>3. k <= n - m \/ k = n - m + 1
    BY <1>1, <1>4
  <2> QED BY <2>1, <2>2, <2>3
<1>9. next = grown
  <2>1. Len(next) = Len(grown) /\ 1 .. Len(next) = 1 .. e - m
    BY <1>1, <1>4, <1>6, <1>7
  <2> QED BY <1>8, <1>6, <2>1
<1> QED BY <1>1, <1>2, <1>3, <1>4, <1>5, <1>7, <1>9

\* The totals follow a decision.
LEMMA TotalsGrow ==
  ASSUME NEW log \in Seq(Results), NEW r \in Results, \A k \in 1 .. Len(log) : Signed(log[k]), Signed(r),
         stats = TotalsOf(log), IncrementStats(r)
  PROVE  stats' = TotalsOf(Append(log, r))
<1>1. PICK t : t = Append(log, r)
  OBVIOUS
<1>2. Len(t) = Len(log) + 1 /\ Len(log) \in Nat
  BY <1>1, Appended
<1>3. PICK n \in Nat, v \in Nat, w \in Nat, p \in Nat :
        /\ n = Len(log) /\ v = SumUp(ViolationsIn(log))
        /\ w = SumUp(RewardsIn(log)) /\ p = SumUp(PenaltiesIn(log))
  BY <1>1, <1>2, ColumnsGrow
<1>0. r.met \in BOOLEAN /\ r.amount \in Int /\ IF r.met THEN r.amount > 0 ELSE r.amount < 0
  BY DEF Signed
<1>4. PICK dv \in Nat, dw \in Nat, dp \in Nat :
        /\ dv = (IF r.met THEN 0 ELSE 1) /\ dw = (IF r.met THEN r.amount ELSE 0)
        /\ dp = (IF r.met THEN 0 ELSE -r.amount)
  <2>1. (IF r.met THEN 0 ELSE 1) \in Nat
    BY <1>0
  <2>2. (IF r.met THEN r.amount ELSE 0) \in Nat
    BY <1>0
  <2>3. (IF r.met THEN 0 ELSE -r.amount) \in Nat
    BY <1>0
  <2> QED BY <2>1, <2>2, <2>3, Zenon
<1>5. /\ Len(t) = n + 1 /\ SumUp(ViolationsIn(t)) = v + dv
      /\ SumUp(RewardsIn(t)) = w + dw /\ SumUp(PenaltiesIn(t)) = p + dp
  BY <1>1, <1>2, <1>3, <1>4, ColumnsGrow
<1>6. stats = [total_calculations |-> AtMost(n, COUNTER_MAX), total_violations |-> AtMost(v, COUNTER_MAX),
               total_rewards |-> AtMost(w, TOTAL_MAX), total_penalties |-> AtMost(p, TOTAL_MAX)]
  BY <1>3 DEF TotalsOf
<1>7. stats' = [total_calculations |-> Saturating(stats.total_calculations, 1, COUNTER_MAX),
                total_violations |-> Saturating(stats.total_violations, dv, COUNTER_MAX),
                total_rewards |-> Saturating(stats.total_rewards, dw, TOTAL_MAX),
                total_penalties |-> Saturating(stats.total_penalties, dp, TOTAL_MAX)]
  BY <1>4, Zenon DEF IncrementStats
<1>8. COUNTER_MAX \in Nat /\ TOTAL_MAX \in Nat
  BY CalculatorAssumption
<1>9. Saturating(AtMost(n, COUNTER_MAX), 1, COUNTER_MAX) = AtMost(n + 1, COUNTER_MAX)
  BY <1>8, SaturatedSum
<1>10. Saturating(AtMost(v, COUNTER_MAX), dv, COUNTER_MAX) = AtMost(v + dv, COUNTER_MAX)
  BY <1>8, SaturatedSum
<1>11. Saturating(AtMost(w, TOTAL_MAX), dw, TOTAL_MAX) = AtMost(w + dw, TOTAL_MAX)
  BY <1>8, SaturatedSum
<1>12. Saturating(AtMost(p, TOTAL_MAX), dp, TOTAL_MAX) = AtMost(p + dp, TOTAL_MAX)
  BY <1>8, SaturatedSum
<1>13. stats' = [total_calculations |-> AtMost(n + 1, COUNTER_MAX), total_violations |-> AtMost(v + dv, COUNTER_MAX),
                 total_rewards |-> AtMost(w + dw, TOTAL_MAX), total_penalties |-> AtMost(p + dp, TOTAL_MAX)]
  BY <1>6, <1>7, <1>9, <1>10, <1>11, <1>12
<1> QED BY <1>1, <1>5, <1>13 DEF TotalsOf

\* The newest decisions of a log are its end.
LEMMA SuffixEnds ==
  ASSUME NEW log \in Seq(Results), NEW pruned \in 0 .. Len(log)
  PROVE  /\ Ends(SubSeq(log, pruned + 1, Len(log)), log)
         /\ SubSeq(log, pruned + 1, Len(log)) \in Seq(Results)
         /\ \A k \in 1 .. Len(SubSeq(log, pruned + 1, Len(log))) :
              pruned + k \in 1 .. Len(log) /\ SubSeq(log, pruned + 1, Len(log))[k] = log[pruned + k]
<1>1. PICK n \in Nat, m \in Nat : n = Len(log) /\ m = pruned /\ m <= n
  OBVIOUS
<1>2. PICK x : x = SubSeq(log, m + 1, n)
  OBVIOUS
<1>3. x \in Seq(Results) /\ Len(x) = n - m
  BY <1>1, <1>2, LifeIs
<1>4. \A k \in 1 .. n - m : x[k] = log[m + k]
  BY <1>1, <1>2, LifeIs
<1>5. \A k \in 1 .. n - m : m + k \in 1 .. n /\ m + k = k + (n - (n - m))
  BY <1>1
<1>6. Ends(x, log)
  BY <1>1, <1>3, <1>4, <1>5 DEF Ends, Store!Ends
<1> QED BY <1>1, <1>2, <1>3, <1>4, <1>5, <1>6

\* The sums of a column are numbers, and it grows by what a decision adds.
LEMMA LaneGrows ==
  ASSUME NEW log \in Seq(Results), \A k \in 1 .. Len(log) : Signed(log[k]), NEW r \in Results, Signed(r),
         NEW c \in Nat, NEW v \in Nat, LaneFits(c, v, log),
         NEW c1 \in Nat, NEW v1 \in Nat, c1 <= c + 1, v1 <= v + (IF r.met THEN 0 ELSE 1)
  PROVE  LaneFits(c1, v1, Append(log, r))
<1>1. PICK t : t = Append(log, r)
  OBVIOUS
<1>2. PICK n \in Nat, w \in Nat, by \in Nat :
        n = Len(log) /\ w = SumUp(ViolationsIn(log)) /\ by = (IF r.met THEN 0 ELSE 1)
  <2>1. SumUp(ViolationsIn(log)) \in Nat
    BY <1>1, ColumnsGrow
  <2>2. r.met \in BOOLEAN
    BY DEF Signed
  <2>3. (IF r.met THEN 0 ELSE 1) \in Nat
    BY <2>2
  <2>4. Len(log) \in Nat
    OBVIOUS
  <2> QED BY <2>1, <2>3, <2>4, Zenon
<1>3. Len(t) = n + 1
  BY <1>1, <1>2, Appended
<1>4. SumUp(ViolationsIn(t)) = w + by
  BY <1>1, <1>2, ColumnsGrow
<1>5. c <= n /\ v <= w
  BY <1>2 DEF LaneFits
<1>6. c1 <= n + 1 /\ v1 <= w + by
  BY <1>2, <1>5
<1> QED BY <1>1, <1>3, <1>4, <1>6 DEF LaneFits

\* A stored decision moves one lane, by one at most.
LEMMA SettleMovesLanes ==
  ASSUME calculations \in [Lanes -> Nat], violations \in [Lanes -> Nat],
         NEW severity, NEW r, Settle(severity, r), r.met \in BOOLEAN
  PROVE  /\ calculations' \in [Lanes -> Nat] /\ violations' \in [Lanes -> Nat]
         /\ \A lane \in Lanes : /\ calculations'[lane] <= calculations[lane] + 1
                                /\ violations'[lane] <= violations[lane] + (IF r.met THEN 0 ELSE 1)
<1>1. PICK lane \in Lanes : lane = LaneOf(severity)
  BY CalculatorAssumption DEF LaneOf
<1>2. PICK by \in {0, 1} : by = (IF r.met THEN 0 ELSE 1)
  OBVIOUS
<1>3. PICK c \in Nat, v \in Nat : c = calculations[lane] /\ v = violations[lane]
  OBVIOUS
<1>4. PICK sc \in BOOLEAN, sv \in BOOLEAN :
        sc = Counters!Stale(lastCalculations[lane]) /\ sv = Counters!Stale(lastViolations[lane])
  BY DEF Counters!Stale
<1>5. PICK c1, v1 : c1 = Counters!Bump(c, sc, 1) /\ v1 = Counters!Bump(v, sv, by)
  OBVIOUS
<1>6. calculations' = [calculations EXCEPT ![lane] = c1] /\ violations' = [violations EXCEPT ![lane] = v1]
  BY <1>1, <1>2, <1>3, <1>4, <1>5, Zenon DEF Settle, Counters!Decide, Counters!RecordTelemetry
<1>7. c1 \in Nat /\ c1 <= c + 1
  BY <1>5, CalculatorAssumption DEF Counters!Bump, Counters!Capped
<1>8. v1 \in Nat /\ v1 <= v + by
  BY <1>5, CalculatorAssumption DEF Counters!Bump, Counters!Capped
<1>9. ASSUME NEW l \in Lanes
      PROVE  calculations'[l] <= calculations[l] + 1 /\ violations'[l] <= violations[l] + by
  BY <1>3, <1>6, <1>7, <1>8
<1> QED BY <1>2, <1>6, <1>7, <1>8, <1>9

LEMMA LifeInvInit == LifeInit => LifeInv
<1> SUFFICES ASSUME LifeInit PROVE LifeInv
  OBVIOUS
<1>1. /\ Store!HistoryInit /\ lifeStart = 0 /\ now = 1
      /\ calculations = Counters!NoCounts /\ violations = Counters!NoCounts
  BY DEF LifeInit, EmptyStorage, History!HistoryInit, Store!HistoryInit, Counters!TelemetryInit
<1>2. /\ recorded \in LegacyHistories \cup { << >> }
      /\ \E pruned \in 0 .. Len(recorded) : legacy = SubSeq(recorded, pruned + 1, Len(recorded))
      /\ retentionLimit \in 1 .. MAX_HISTORY_SIZE /\ Len(legacy) <= retentionLimit
      /\ adminRenounced \in BOOLEAN /\ (adminRenounced => admin = NoAddress)
      /\ storageVersion \in 0 .. STORAGE_VERSION /\ storageVersion # STORAGE_VERSION
      /\ config \in OlderConfigs \/ (config = NoConfig /\ storageVersion = 0)
      /\ custom \in OlderCustoms
      /\ admin = NoAddress => adminRenounced \/ recorded = << >>
      /\ (stats = ZeroStats /\ recorded = << >>) \/ stats = StatsOf(recorded)
  <2>1. CASE Deployed
    <3>1. recorded = << >> /\ legacy = << >> /\ retentionLimit = MAX_HISTORY_SIZE /\ adminRenounced = FALSE
          /\ storageVersion = 0 /\ config = NoConfig /\ custom = NoCustom /\ stats = ZeroStats
      BY <2>1 DEF Deployed, ContractInit
    <3>2. Len(recorded) = 0 /\ SubSeq(recorded, 1, 0) = << >>
      BY <3>1
    <3>3. MAX_HISTORY_SIZE \in 1 .. MAX_HISTORY_SIZE /\ 0 <= MAX_HISTORY_SIZE
      BY CalculatorAssumption
    <3>4. \E pruned \in 0 .. Len(recorded) : legacy = SubSeq(recorded, pruned + 1, Len(recorded))
      <4>1. PICK pruned \in 0 .. Len(recorded) : pruned = 0
        BY <3>2
      <4>2. legacy = SubSeq(recorded, pruned + 1, Len(recorded))
        BY <3>1, <3>2, <4>1
      <4> QED BY <4>2, Zenon
    <3>5. custom \in OlderCustoms
      BY <3>1, Zenon DEF OlderCustoms
    <3>6. Len(legacy) = 0
      BY <3>1
    <3>7. storageVersion \in 0 .. STORAGE_VERSION /\ storageVersion # STORAGE_VERSION
      BY <3>1 DEF STORAGE_VERSION
    <3>8. retentionLimit \in 1 .. MAX_HISTORY_SIZE /\ Len(legacy) <= retentionLimit
      BY <3>1, <3>3, <3>6
    <3> QED BY <3>1, <3>4, <3>5, <3>7, <3>8, Zenon
  <2>2. CASE Upgraded
    BY <2>2, AddressAssumption DEF Upgraded, STORAGE_VERSION
  <2> QED BY <2>1, <2>2 DEF LifeInit
<1>3. /\ recorded \in Seq(Results) /\ Len(recorded) \in Nat
      /\ \A k \in 1 .. Len(recorded) : Signed(recorded[k]) /\ recorded[k].recorded_at <= 1
      /\ \A i, j \in 1 .. Len(recorded) : i < j => recorded[i].recorded_at <= recorded[j].recorded_at
  <2>1. CASE recorded = << >>
    BY <2>1
  <2>2. CASE recorded \in LegacyHistories
    BY <2>2, ContractAssumption
  <2> QED BY <1>2, <2>1, <2>2
<1>4. PICK pruned \in 0 .. Len(recorded) : legacy = SubSeq(recorded, pruned + 1, Len(recorded))
  BY <1>2
<1>5. /\ legacy \in Seq(Results) /\ Ends(legacy, recorded)
      /\ \A k \in 1 .. Len(legacy) : pruned + k \in 1 .. Len(recorded) /\ legacy[k] = recorded[pruned + k]
  BY <1>3, <1>4, SuffixEnds
<1>6. /\ \A k \in 1 .. Len(legacy) : legacy[k].recorded_at <= 1
      /\ \A i, j \in 1 .. Len(legacy) : i < j => legacy[i].recorded_at <= legacy[j].recorded_at
  <2>1. \A k \in 1 .. Len(legacy) : legacy[k].recorded_at <= 1
    BY <1>3, <1>5
  <2>2. ASSUME NEW i \in 1 .. Len(legacy), NEW j \in 1 .. Len(legacy), i < j
        PROVE  legacy[i].recorded_at <= legacy[j].recorded_at
    <3>1. pruned + i < pruned + j
      BY <2>2
    <3> QED BY <1>3, <1>5, <3>1
  <2> QED BY <2>1, <2>2
<1>7. retentionLimit \in 1 .. MAX_HISTORY_SIZE /\ now \in 1 .. MaxLedger /\ now \in Nat
  BY <1>1, <1>2, MaxLedgerAssumption
<1>8. LogOK
  BY <1>1, <1>3 DEF LogOK
<1>9. Untouched
  <2>1. TiersPriced \/ (config = NoConfig /\ storageVersion = 0)
    BY <1>2, OlderPriced
  <2>2. Registered
    BY <1>2, OlderRegistered
  <2> QED BY <1>1, <1>2, <1>5, <1>6, <2>1, <2>2 DEF Untouched
<1>10. FirstShape
  <2>1. Store!StoreInv /\ Len(Window) = 0
    BY <1>1, <1>7, EmptyIsExact DEF EmptyHistory, ExactAndEmpty
  <2> QED BY <1>1, <1>3, <2>1 DEF FirstShape, Ends, Store!Ends
<1>11. ThisLife = recorded
  <2>1. ThisLife = SubSeq(recorded, 1, Len(recorded))
    BY <1>1 DEF ThisLife
  <2> QED BY <1>8, <2>1 DEF LogOK
<1>12. stats = TotalsOf(ThisLife)
  <2>1. CASE recorded = << >> /\ stats = ZeroStats
    BY <1>11, <2>1, TotalsOfNone
  <2>2. CASE stats = StatsOf(recorded)
    BY <1>11, <2>2, TotalsAreStats
  <2> QED BY <1>2, <2>1, <2>2
<1>13. ~SecondLife
  BY <1>2 DEF SecondLife
<1>14. LanesFit
  <2>1. \A lane \in Lanes : calculations[lane] = 0 /\ violations[lane] = 0 /\ Since(lane) = recorded
    BY <1>1, <1>11 DEF Counters!NoCounts, Since
  <2>2. calculations \in [Lanes -> Nat] /\ violations \in [Lanes -> Nat]
    BY <1>1 DEF Counters!NoCounts
  <2>3. LaneFits(0, 0, recorded)
    BY <1>3, SumsAreNaturals DEF LaneFits
  <2> QED BY <2>1, <2>2, <2>3 DEF LanesFit
<1> QED BY <1>2, <1>7, <1>8, <1>9, <1>10, <1>12, <1>13, <1>14 DEF LifeInv

LEMMA LanesStay ==
  ASSUME LanesFit, UNCHANGED << calculations, violations, recorded, lifeStart >>
  PROVE  LanesFit'
<1>1. \A lane \in Lanes : Since(lane)' = Since(lane)
  BY DEF Since, ThisLife
<1>2. ASSUME NEW lane \in Lanes PROVE LaneFits(calculations'[lane], violations'[lane], Since(lane)')
  BY <1>1 DEF LanesFit
<1> QED BY <1>2 DEF LanesFit, LaneFits

\* Time may pass; nothing else of the contract's life moves.
LEMMA IdleKeepsLife ==
  ASSUME LifeInv,
         UNCHANGED << storageVersion, admin, adminRenounced, config, custom, historyVars, stats, lifeVars >>,
         UNCHANGED << calculations, violations >>,
         now' \in 1 .. MaxLedger, now <= now'
  PROVE  LifeInv'
<1>1. /\ storageVersion' \in 0 .. STORAGE_VERSION /\ retentionLimit' \in 1 .. MAX_HISTORY_SIZE
      /\ LogOK' /\ stats' = TotalsOf(ThisLife)'
      /\ admin' = NoAddress => adminRenounced' \/ (storageVersion' # STORAGE_VERSION /\ recorded' = << >>)
  BY DEF LifeInv, LogOK, historyVars, lifeVars, ThisLife
<1>2. storageVersion' = STORAGE_VERSION => Known'
  BY DEF LifeInv, Known, LoadConfig, Configurations
<1>3. storageVersion' # STORAGE_VERSION => Untouched'
  BY DEF LifeInv, Untouched, TiersPriced, Registered, Ends, Store!Ends, Store!HistoryInit, historyVars, lifeVars
<1>4. ASSUME ~SecondLife' PROVE FirstShape'
  <2>1. FirstShape
    BY <1>4 DEF LifeInv, SecondLife
  <2>2. Store!StoreTypeOK' /\ Store!NoOrphanEntries' /\ Store!CachedLengthWithinLimit' /\ Store!IndexExact'
    BY <2>1 DEF FirstShape, Store!StoreInv, Store!StoreTypeOK, Store!NoOrphanEntries,
                Store!CachedLengthWithinLimit, Store!IndexExact, historyVars
  <2>3. Store!Chronological'
    <3>1. \A i \in head .. tail - 1 : entries[i].recorded_at <= now /\ entries[i].recorded_at \in Nat
      BY <2>1, CalculatorAssumption
         DEF FirstShape, Store!StoreInv, Store!StoreTypeOK, Store!NoOrphanEntries, Store!Chronological
    <3>2. now \in Nat /\ now' \in Nat
      BY DEF LifeInv
    <3>3. \A i \in head .. tail - 1 : entries[i].recorded_at <= now'
      BY <3>1, <3>2
    <3> QED BY <2>1, <3>3 DEF FirstShape, Store!StoreInv, Store!Chronological, historyVars
  <2>4. Ends(Window, recorded)' /\ lifeStart' = 0
    BY <2>1 DEF FirstShape, Ends, Store!Ends, Window, Store!Window, historyVars, lifeVars
  <2> QED BY <2>2, <2>3, <2>4 DEF FirstShape, Store!StoreInv
<1>5. SecondLife' => SecondShape'
  BY DEF LifeInv, SecondLife, SecondShape, historyVars, lifeVars
<1>6. LanesFit'
  BY LanesStay DEF LifeInv, historyVars, lifeVars
<1> QED BY <1>1, <1>2, <1>3, <1>4, <1>5, <1>6 DEF LifeInv

LEMMA InitializeKeepsLife ==
  ASSUME LifeInv, NEW newAdmin \in Addresses, NEW newOperator, Initialize(newAdmin, newOperator)
  PROVE  LifeInv'
<1>1. now' = now /\ now \in 1 .. MaxLedger
  BY InitializeSays DEF LifeInv
<1>2. CASE UNCHANGED << roleVars, guardVars, configVars, settledVars, lifeVars >>
  BY <1>1, <1>2, IdleKeepsLife DEF roleVars, configVars, settledVars, telemetryVars
<1>3. CASE /\ admin = NoAddress /\ admin' = newAdmin /\ storageVersion' = STORAGE_VERSION
           /\ UNCHANGED adminRenounced /\ InitializeStorage
  <2>1. /\ head' = 0 /\ tail' = 0 /\ historyLen' = 0 /\ stats' = ZeroStats
        /\ config' = DefaultConfig /\ custom' = NoCustom /\ lifeStart' = Len(recorded)
        /\ UNCHANGED << entries, outageIndex, retentionLimit, recorded, legacy >>
    BY <1>3 DEF InitializeStorage, EmptyCounters, ZeroedLife
  <2>2. recorded \in Seq(Results) /\ Len(recorded) \in Nat /\ retentionLimit \in 1 .. MAX_HISTORY_SIZE
    BY DEF LifeInv, LogOK
  <2>3. LogOK'
    BY <2>1, <2>2 DEF LifeInv, LogOK
  <2>4. Known'
    <3>1. TiersPriced' /\ Registered'
      BY <2>1, DefaultsPricedNext DEF Registered, NoCustom
    <3> QED BY <1>1, <3>1, FreshIsKnownNext DEF FreshConfig
  <2>5. stats' = TotalsOf(ThisLife)'
    <3>1. Len(SubSeq(recorded, Len(recorded) + 1, Len(recorded))) = 0
      BY <2>2, LifeIs
    <3>2. Len(ThisLife') = 0
      BY <2>1, <3>1 DEF ThisLife
    <3>3. TotalsOf(ThisLife') = ZeroStats
      BY <3>2, TotalsOfNone
    <3> QED BY <2>1, <3>3 DEF TotalsOf
  <2>6. ASSUME ~SecondLife' PROVE FirstShape'
    <3>1. ~adminRenounced
      BY <1>3, <2>6, AddressAssumption DEF SecondLife
    <3>2. Untouched /\ recorded = << >>
      BY <1>3, <3>1 DEF LifeInv
    <3>3. EmptyHistory'
      BY <1>1, <2>1, <2>2, <3>2 DEF EmptyHistory, Untouched, Store!HistoryInit
    <3>4. Store!StoreInv' /\ Len(Window') = 0
      BY <3>3, EmptyIsExactNext DEF ExactAndEmpty
    <3>5. lifeStart' = 0 /\ Len(recorded') = 0
      BY <2>1, <3>2
    <3> QED BY <3>4, <3>5 DEF FirstShape, Ends, Store!Ends
  <2>7. SecondLife' => SecondShape'
    BY <1>3, <2>1, <2>2 DEF SecondShape
  <2>8. LanesFit'
    <3>1. /\ calculations' = ZeroedLanes(calculations) /\ violations' = ZeroedLanes(violations)
          /\ calculations \in [Lanes -> Nat] /\ violations \in [Lanes -> Nat]
      BY <1>3 DEF InitializeStorage, LifeInv, LanesFit
    <3>2. calculations' \in [Lanes -> Nat] /\ violations' \in [Lanes -> Nat]
      BY <3>1 DEF ZeroedLanes
    <3>3. ASSUME NEW lane \in Lanes PROVE LaneFits(calculations'[lane], violations'[lane], Since(lane)')
      <4>1. CASE lane = "custom"
        <5>1. LaneFits(calculations[lane], violations[lane], recorded)
          BY <4>1 DEF LifeInv, LanesFit, Since
        <5> QED BY <2>1, <3>1, <4>1, <5>1 DEF ZeroedLanes, Since
      <4>2. CASE lane # "custom"
        <5>1. calculations'[lane] = 0 /\ violations'[lane] = 0
          BY <3>1, <4>2 DEF ZeroedLanes
        <5>2. ThisLife' \in Seq(Results) /\ Len(ThisLife') = 0
          BY <2>1, <2>2, LifeIs DEF ThisLife
        <5>3. Since(lane)' = ThisLife'
          BY <4>2 DEF Since
        <5>4. LaneFits(0, 0, ThisLife')
          <6>1. PICK life : life = ThisLife'
            OBVIOUS
          <6>2. \A k \in 1 .. Len(life) : Signed(life[k])
            BY <5>2, <6>1
          <6>3. life \in Seq(Results) /\ Len(life) = 0
            BY <5>2, <6>1
          <6>4. SumUp(ViolationsIn(life)) \in Nat
            BY <6>2, <6>3, SumsAreNaturals
          <6>5. LaneFits(0, 0, life)
            BY <6>3, <6>4 DEF LaneFits
          <6> QED BY <6>1, <6>5
        <5> QED BY <5>1, <5>3, <5>4
      <4> QED BY <4>1, <4>2
    <3> QED BY <3>2, <3>3 DEF LanesFit, LaneFits
  <2> QED BY <1>1, <1>3, <2>1, <2>2, <2>3, <2>4, <2>5, <2>6, <2>7, <2>8, AddressAssumption DEF LifeInv, STORAGE_VERSION
<1> QED BY <1>2, <1>3, InitializeSays

LEMMA RenounceKeepsLife ==
  ASSUME LifeInv, NEW caller, RenounceAdmin(caller)
  PROVE  LifeInv'
<1>1. /\ now' = now /\ now \in 1 .. MaxLedger
      /\ UNCHANGED << configVars, settledVars, lifeVars >>
  BY RenounceSays DEF LifeInv
<1>2. CASE UNCHANGED << roleVars, guardVars >>
  BY <1>1, <1>2, IdleKeepsLife DEF roleVars, configVars, settledVars, telemetryVars
<1>3. CASE /\ storageVersion = STORAGE_VERSION /\ ~adminRenounced
           /\ adminRenounced' = TRUE /\ admin' = NoAddress /\ UNCHANGED storageVersion
  <2>1. /\ UNCHANGED << config, custom, historyVars, stats, lifeStart, legacy >>
        /\ UNCHANGED << entries, outageIndex, head, tail, historyLen, retentionLimit, recorded >>
    BY <1>1 DEF configVars, settledVars, lifeVars, historyVars
  <2>2. Known' /\ LogOK' /\ stats' = TotalsOf(ThisLife)'
    BY <1>1, <1>3, <2>1 DEF LifeInv, Known, LoadConfig, Configurations, LogOK, ThisLife
  <2>3. FirstShape'
    <3>1. FirstShape
      BY <1>3 DEF LifeInv, SecondLife
    <3> QED BY <1>1, <2>1, <3>1
            DEF FirstShape, Ends, Store!Ends, Window, Store!Window, Store!StoreInv, Store!StoreTypeOK,
                Store!NoOrphanEntries, Store!CachedLengthWithinLimit, Store!IndexExact, Store!Chronological
  <2>4. LanesFit'
    BY <1>1, <2>1, LanesStay DEF LifeInv, settledVars, telemetryVars
  <2> QED BY <1>1, <1>3, <2>1, <2>2, <2>3, <2>4 DEF LifeInv, SecondLife
<1> QED BY <1>2, <1>3, RenounceSays

\* migrate keeps the configuration it finds, or writes the default.
LEMMA MigrateKeepsPrices ==
  ASSUME Untouched, IF storageVersion = 0 THEN InitMissingStorageDefaults ELSE UNCHANGED config, UNCHANGED custom
  PROVE  TiersPriced' /\ Registered'
<1>1. Registered'
  BY DEF Untouched, Registered
<1>2. CASE config' = DefaultConfig
  BY <1>1, <1>2, DefaultsPricedNext
<1>3. CASE config' = config /\ TiersPriced
  BY <1>1, <1>3 DEF TiersPriced
<1> QED BY <1>2, <1>3 DEF Untouched, InitMissingStorageDefaults

LEMMA MigrateKeepsLife ==
  ASSUME LifeInv, NEW caller, Migrate(caller)
  PROVE  /\ LifeInv'
         /\ storageVersion' # storageVersion => Store!StoreInv' /\ Window' = legacy /\ stats' = stats
<1>1. /\ now' = now /\ now \in 1 .. MaxLedger
      /\ UNCHANGED << admin, adminRenounced, operator, guardVars, lifeStart >>
  BY MigrateSays DEF LifeInv
<1>2. CASE UNCHANGED << storageVersion, configVars, settledVars, legacy >>
  BY <1>1, <1>2, IdleKeepsLife DEF configVars, settledVars, telemetryVars, lifeVars
<1>3. CASE /\ storageVersion # STORAGE_VERSION /\ storageVersion' = STORAGE_VERSION
           /\ admin # NoAddress
           /\ IF storageVersion = 0 THEN InitMissingStorageDefaults ELSE UNCHANGED config
           /\ ConvertHistory
           /\ UNCHANGED << custom, retentionLimit, recorded, telemetryVars, stats >>
  <2>1. Untouched /\ LogOK /\ ~SecondLife /\ ~SecondLife'
    BY <1>1, <1>3 DEF LifeInv, Untouched, SecondLife
  <2>2. Store!StoreInv /\ lifeStart = 0
    BY <2>1 DEF LifeInv, FirstShape
  <2>3. legacy \in Seq(Results)
    BY <2>1 DEF Untouched
  <2>4. Store!RebuildHistory(legacy)
    BY <1>3, SameWrites, Zenon DEF ConvertHistory, MigrateToSharded
  <2>5. Store!StoreInv'
    <3>1. Store!OrderedBy(legacy, Store!Older)
      BY <2>1, <2>3 DEF Untouched, Store!OrderedBy, Store!Older
    <3>2. \A k \in 1 .. Len(legacy) : legacy[k].recorded_at <= now
      <4>1. \A k \in 1 .. Len(legacy) : legacy[k] \in Results /\ legacy[k].recorded_at <= 1
        BY <2>1, <2>3 DEF Untouched
      <4>2. \A k \in 1 .. Len(legacy) : legacy[k].recorded_at \in Nat
        BY <4>1, CalculatorAssumption
      <4> QED BY <1>1, <4>1, <4>2
    <3>3. Len(legacy) <= retentionLimit
      BY <2>1 DEF Untouched
    <3>4. UNCHANGED << retentionLimit, now >>
      BY <1>1, <1>3
    <3> QED BY <2>2, <2>3, <2>4, <3>1, <3>2, <3>3, <3>4, StoreAssumptions, Store!RebuildKeepsStore, Zenon
  <2>6. Window' = legacy
    BY <2>2, <2>3, <2>4, <2>5, StoreAssumptions, Store!RebuiltWindow, Zenon DEF Window
  <2>7. FirstShape'
    <3>1. recorded' = recorded /\ lifeStart' = 0
      BY <1>1, <1>3, <2>2
    <3>2. Ends(Window', recorded')
      BY <2>1, <2>6, <3>1 DEF Untouched
    <3> QED BY <2>5, <3>1, <3>2 DEF FirstShape, Ends
  <2>8. Known'
    <3>1. TiersPriced' /\ Registered'
      BY <1>3, <2>1, MigrateKeepsPrices
    <3> QED BY <1>1, <3>1, FreshIsKnownNext DEF FreshConfig
  <2>9. LogOK' /\ stats' = TotalsOf(ThisLife)' /\ retentionLimit' \in 1 .. MAX_HISTORY_SIZE
    BY <1>1, <1>3 DEF LifeInv, LogOK, ThisLife
  <2>10. LanesFit'
    BY <1>1, <1>3, LanesStay DEF LifeInv, telemetryVars
  <2>11. LifeInv'
    BY <1>1, <1>3, <2>1, <2>7, <2>8, <2>9, <2>10 DEF LifeInv, STORAGE_VERSION
  <2> QED BY <1>3, <2>5, <2>6, <2>11
<1> QED BY <1>2, <1>3, MigrateSays

\* Calls are made inside one ledger; none of these touches a role but as a guard.
LEMMA OperateTells ==
  ASSUME Operate
  PROVE  /\ UNCHANGED roleVars /\ UNCHANGED lifeVars
         /\ now' = now \/ CloseLedger
<1> DEFINE Same == UNCHANGED roleVars /\ (now' = now \/ CloseLedger)
<1>1. ASSUME NEW caller, NEW outage, NEW severity, NEW mttr, CalculateSla(caller, outage, severity, mttr)
      PROVE  Same
  BY <1>1 DEF CalculateSla, Answer
<1>2. ASSUME NEW caller, NEW severity, NEW c, Configure(caller, severity, c) \/ Unregister(caller, severity)
      PROVE  Same
  BY <1>2 DEF Configure, SetConfig, SetCustomSeverity, Unregister, RemoveCustomSeverity, Answer
<1>3. ASSUME NEW caller, NEW n, PruneHistory(caller, n) \/ PruneHistoryByAge(caller, n) \/ SetRetentionLimit(caller, n)
      PROVE  Same
  BY <1>3 DEF PruneHistory, PruneHistoryByAge, SetRetentionLimit, Answer, KeepingRest
<1>4. ASSUME NEW caller, NEW fits, Pause(caller, fits) \/ Unpause(caller)
      PROVE  Same
  BY <1>4 DEF Pause, Unpause, Answer, SetPaused, ClearPaused
<1>5. ASSUME NewLedger PROVE Same
  BY <1>5 DEF NewLedger
<1> HIDE DEF Same
<1>6. Same
  BY <1>1, <1>2, <1>3, <1>4, <1>5, Zenon DEF Operate, Next
<1> QED BY <1>6 DEF Operate, Same

\* An end that gains what the whole gains is still an end; so is the end of one.
LEMMA EndsGrow ==
  ASSUME NEW v \in Seq(Results), NEW w \in Seq(Results), NEW r \in Results, Ends(v, w)
  PROVE  Ends(Append(v, r), Append(w, r))
<1>1. PICK a \in Nat, b \in Nat : a = Len(v) /\ b = Len(w) /\ a <= b /\ \A k \in 1 .. a : v[k] = w[k + (b - a)]
  BY DEF Ends, Store!Ends
<1>2. PICK x, y : x = Append(v, r) /\ y = Append(w, r)
  OBVIOUS
<1>3. /\ Len(x) = a + 1 /\ (\A k \in 1 .. a : x[k] = v[k]) /\ x[a + 1] = r
      /\ Len(y) = b + 1 /\ (\A k \in 1 .. b : y[k] = w[k]) /\ y[b + 1] = r
  BY <1>1, <1>2, Appended
<1>4. \A k \in 1 .. a + 1 : x[k] = y[k + (b + 1 - (a + 1))]
  <2> TAKE k \in 1 .. a + 1
  <2>1. k + (b + 1 - (a + 1)) = k + (b - a)
    BY <1>1
  <2>2. CASE k \in 1 .. a
    <3>1. k + (b - a) \in 1 .. b
      BY <1>1, <2>2
    <3>2. x[k] = v[k] /\ v[k] = w[k + (b - a)] /\ y[k + (b - a)] = w[k + (b - a)]
      BY <1>1, <1>3, <2>2, <3>1
    <3> QED BY <2>1, <3>2
  <2>3. CASE k = a + 1
    <3>1. k + (b - a) = b + 1
      BY <1>1, <2>3
    <3> QED BY <1>3, <2>1, <2>3, <3>1
  <2> QED BY <1>1, <2>2, <2>3
<1>5. Store!Ends(x, y)
  BY <1>1, <1>3, <1>4 DEF Store!Ends
<1> QED BY <1>2, <1>5 DEF Ends

LEMMA EndsOfEnds ==
  ASSUME NEW u, NEW v, NEW w, Ends(u, v), Ends(v, w)
  PROVE  Ends(u, w)
<1>1. PICK a \in Nat, b \in Nat, c \in Nat :
        /\ a = Len(u) /\ b = Len(v) /\ c = Len(w) /\ a <= b /\ b <= c
        /\ \A k \in 1 .. a : u[k] = v[k + (b - a)]
        /\ \A k \in 1 .. b : v[k] = w[k + (c - b)]
  BY DEF Ends, Store!Ends
<1>2. \A k \in 1 .. a : u[k] = w[k + (c - a)]
  <2> TAKE k \in 1 .. a
  <2>1. k + (b - a) \in 1 .. b /\ (k + (b - a)) + (c - b) = k + (c - a)
    BY <1>1
  <2>2. u[k] = v[k + (b - a)] /\ v[k + (b - a)] = w[(k + (b - a)) + (c - b)]
    BY <1>1, <2>1
  <2> QED BY <2>1, <2>2
<1>3. Store!Ends(u, w)
  BY <1>1, <1>2 DEF Store!Ends
<1> QED BY <1>3 DEF Ends

\* In a second life an append moves the counters on, and only them decides
\* what it drops: whatever keys it meets are not read.
LEMMA SecondAppend ==
  ASSUME LogOK, SecondShape, retentionLimit \in Nat, retentionLimit >= 1,
         NEW r \in Results, Store!Record(r), UNCHANGED << storageVersion, lifeStart >>
  PROVE  SecondShape'
<1>1. /\ recorded' = Append(recorded, r) /\ retentionLimit' = retentionLimit
      /\ Store!AppendEntry(r, retentionLimit, outageIndex[r.outage_id])
  BY DEF Store!Record
<1>2. PICK n \in Nat, m \in Nat, t \in Nat, limit \in Nat :
        /\ n = Len(recorded) /\ m = lifeStart /\ m <= n /\ t = tail /\ t = n - m
        /\ limit = retentionLimit /\ limit >= 1
  <2>1. PICK n \in Nat : n = Len(recorded)
    BY DEF LogOK
  <2>2. PICK m \in Nat : m = lifeStart /\ m <= n
    BY <2>1 DEF LogOK
  <2>3. tail = n - m /\ n - m \in Nat
    BY <2>1, <2>2 DEF SecondShape
  <2>4. retentionLimit \in Nat /\ retentionLimit >= 1
    OBVIOUS
  <2> QED BY <2>1, <2>2, <2>3, <2>4
<1>3. PICK h \in Nat : h = head /\ h = (IF t > limit THEN t - limit ELSE 0)
  <2>1. (IF t > limit THEN t - limit ELSE 0) \in Nat
    BY <1>2
  <2>2. head = (IF t > limit THEN t - limit ELSE 0)
    BY <1>2 DEF SecondShape
  <2> QED BY <2>1, <2>2
<1>4. /\ Len(recorded') = n + 1 /\ recorded'[n + 1] = r
      /\ \A k \in 1 .. n : recorded'[k] = recorded[k]
  BY <1>1, <1>2, Appended DEF LogOK
<1>5. \A i \in h .. t - 1 : i \in DOMAIN entries /\ entries[i] = recorded[m + i + 1]
  BY <1>2, <1>3 DEF SecondShape
<1> DEFINE written == [i \in DOMAIN entries \cup {t} |-> IF i = t THEN r ELSE entries[i]]
<1>6. \A i \in h .. t : i \in DOMAIN written /\ written[i] = recorded'[m + i + 1]
  <2> TAKE i \in h .. t
  <2>1. CASE i = t
    <3>1. m + t + 1 = n + 1
      BY <1>2
    <3>2. recorded'[m + t + 1] = r
      BY <1>4, <3>1
    <3> QED BY <2>1, <3>2
  <2>2. CASE i \in h .. t - 1
    <3>1. m + i + 1 \in 1 .. n /\ i # t
      BY <1>2, <1>3, <2>2
    <3>2. i \in DOMAIN entries /\ entries[i] = recorded[m + i + 1] /\ recorded'[m + i + 1] = recorded[m + i + 1]
      BY <1>4, <1>5, <2>2, <3>1
    <3> QED BY <3>1, <3>2
  <2> QED BY <1>2, <1>3, <2>1, <2>2
<1>7. /\ tail' = t + 1
      /\ \/ Store!SaturatingSub(t + 1, h) <= limit /\ entries' = written /\ head' = h
         \/ Store!SaturatingSub(t + 1, h) > limit /\ entries' = Store!Without(written, {h}) /\ head' = h + 1
  BY <1>1, <1>2, <1>3, Zenon DEF Store!AppendEntry
<1> HIDE DEF written
<1>8. h <= t /\ Store!SaturatingSub(t + 1, h) = t + 1 - h
  <2>1. h <= t
    BY <1>2, <1>3
  <2> QED BY <2>1 DEF Store!SaturatingSub
<1>9. head' = (IF t + 1 > limit THEN t + 1 - limit ELSE 0)
  <2>1. CASE t + 1 - h <= limit /\ head' = h
    <3>1. t <= limit /\ h = 0
      BY <1>2, <1>3, <2>1
    <3> QED BY <1>2, <2>1, <3>1
  <2>2. CASE t + 1 - h > limit /\ head' = h + 1
    <3>1. t + 1 > limit
      BY <2>2
    <3>2. t > limit \/ t = limit
      BY <1>2, <3>1
    <3>3. CASE t > limit
      <4>1. h = t - limit
        BY <1>3, <3>3
      <4> QED BY <1>2, <2>2, <3>1, <4>1
    <3>4. CASE t = limit
      <4>1. h = 0
        BY <1>2, <1>3, <3>4
      <4> QED BY <1>2, <2>2, <3>1, <3>4, <4>1
    <3> QED BY <3>2, <3>3, <3>4
  <2> QED BY <1>7, <1>8, <2>1, <2>2
<1>10. \A i \in head' .. t : i \in DOMAIN entries' /\ entries'[i] = recorded'[m + i + 1]
  <2>1. CASE entries' = written /\ head' = h
    BY <1>6, <2>1
  <2>2. CASE entries' = Store!Without(written, {h}) /\ head' = h + 1
    <3>1. \A i \in h + 1 .. t : i \in h .. t /\ i # h
      BY <1>2, <1>3
    <3>2. \A i \in h + 1 .. t : i \in DOMAIN written \ {h}
      BY <1>6, <3>1
    <3>3. \A i \in DOMAIN written \ {h} : i \in DOMAIN entries' /\ entries'[i] = written[i]
      BY <2>2 DEF Store!Without
    <3> QED BY <1>6, <2>2, <3>1, <3>2, <3>3
  <2> QED BY <1>7, <2>1, <2>2
<1>11. tail' = Len(recorded') - lifeStart' /\ storageVersion' = STORAGE_VERSION
  BY <1>2, <1>4, <1>7 DEF SecondShape
<1>12. t + 1 - 1 = t
  BY <1>2
<1>13. head' = IF tail' > retentionLimit' THEN tail' - retentionLimit' ELSE 0
  BY <1>1, <1>2, <1>7, <1>9
<1>14. \A i \in head' .. tail' - 1 : i \in DOMAIN entries' /\ entries'[i] = recorded'[lifeStart' + i + 1]
  <2>1. tail' - 1 = t /\ lifeStart' = m
    BY <1>2, <1>7, <1>12
  <2> QED BY <1>10, <2>1
<1> QED BY <1>11, <1>13, <1>14 DEF SecondShape

LEMMA OperateKeepsLife ==
  ASSUME LifeInv, Operate
  PROVE  LifeInv'
<1>1. UNCHANGED << roleVars, lifeVars >> /\ (now' = now \/ CloseLedger)
  BY OperateTells
<1>2. now \in 1 .. MaxLedger /\ now <= now' /\ now' \in 1 .. MaxLedger
  BY <1>1, MaxLedgerAssumption DEF LifeInv, CloseLedger
<1>3. CASE UNCHANGED << configVars, settledVars >>
  BY <1>1, <1>2, <1>3, IdleKeepsLife DEF configVars, settledVars, telemetryVars, roleVars
<1>4. CASE storageVersion # STORAGE_VERSION
  BY <1>3, <1>4, OnlyGranted
<1>5. ASSUME storageVersion = STORAGE_VERSION, ~UNCHANGED << configVars, settledVars >>
      PROVE  LifeInv'
  <2>1. Known /\ LogOK /\ Next
    BY <1>5 DEF LifeInv, Operate
  <2>2. Known'
    BY <2>1, KnownKept
  <2>3. /\ UNCHANGED << storageVersion, admin, adminRenounced, lifeStart, legacy >>
        /\ (SecondLife' <=> SecondLife)
    BY <1>1 DEF roleVars, lifeVars, SecondLife
  <2>4. LogOK' /\ stats' = TotalsOf(ThisLife)' /\ LanesFit'
    <3>1. CASE UNCHANGED << telemetryVars, stats, recorded >>
      BY <2>3, <3>1, LanesStay DEF LifeInv, LogOK, ThisLife, telemetryVars
    <3>2. ASSUME NEW severity, NEW r \in Results, Settle(severity, r), Signed(r)
          PROVE  LogOK' /\ stats' = TotalsOf(ThisLife)' /\ LanesFit'
      <4>1. recorded' = Append(recorded, r) /\ IncrementStats(r)
        BY <3>2 DEF Settle, History!Record
      <4>2. PICK n \in Nat, m \in Nat : n = Len(recorded) /\ m = lifeStart /\ m <= n
        BY <2>1 DEF LogOK
      <4>3. recorded \in Seq(Results) /\ \A k \in 1 .. n : Signed(recorded[k])
        BY <2>1, <4>2 DEF LogOK
      <4>4. /\ recorded' \in Seq(Results) /\ Len(recorded') = n + 1
            /\ (\A k \in 1 .. n : recorded'[k] = recorded[k]) /\ recorded'[n + 1] = r
        BY <4>1, <4>2, <4>3, Appended
      <4>5. \A k \in 1 .. n + 1 : Signed(recorded'[k])
        <5> TAKE k \in 1 .. n + 1
        <5>1. k \in 1 .. n \/ k = n + 1
          BY <4>2
        <5> QED BY <3>2, <4>3, <4>4, <5>1
      <4>6. LogOK'
        BY <2>3, <4>2, <4>4, <4>5 DEF LogOK
      <4>7. ThisLife \in Seq(Results) /\ \A k \in 1 .. Len(ThisLife) : Signed(ThisLife[k])
        <5>1. SubSeq(recorded, m + 1, n) \in Seq(Results) /\ Len(SubSeq(recorded, m + 1, n)) = n - m
          BY <4>2, <4>3, LifeIs
        <5>2. \A k \in 1 .. n - m : SubSeq(recorded, m + 1, n)[k] = recorded[m + k]
          BY <4>2, <4>3, LifeIs
        <5>3. \A k \in 1 .. n - m : m + k \in 1 .. n
          BY <4>2
        <5> QED BY <4>2, <4>3, <5>1, <5>2, <5>3 DEF ThisLife
      <4>8. ThisLife' = Append(ThisLife, r)
        BY <2>1, <2>3, <4>1, LifeGrows DEF ThisLife, LogOK
      <4>9. stats' = TotalsOf(Append(ThisLife, r))
        BY <3>2, <4>1, <4>7, TotalsGrow DEF LifeInv
      <4>10. TotalsOf(ThisLife)' = TotalsOf(ThisLife')
        BY DEF TotalsOf
      <4>11. LanesFit'
        <5>1. /\ calculations \in [Lanes -> Nat] /\ violations \in [Lanes -> Nat]
              /\ \A lane \in Lanes : LaneFits(calculations[lane], violations[lane], Since(lane))
          BY DEF LifeInv, LanesFit
        <5>2. /\ calculations' \in [Lanes -> Nat] /\ violations' \in [Lanes -> Nat]
              /\ \A lane \in Lanes : /\ calculations'[lane] <= calculations[lane] + 1
                                     /\ violations'[lane] <= violations[lane] + (IF r.met THEN 0 ELSE 1)
          BY <3>2, <5>1, SettleMovesLanes DEF Signed
        <5>3. ASSUME NEW lane \in Lanes PROVE LaneFits(calculations'[lane], violations'[lane], Since(lane)')
          <6>1. /\ Since(lane) \in Seq(Results) /\ (\A k \in 1 .. Len(Since(lane)) : Signed(Since(lane)[k]))
                /\ Since(lane)' = Append(Since(lane), r)
            BY <2>1, <4>1, <4>7, <4>8 DEF Since, LogOK
          <6> QED BY <3>2, <5>1, <5>2, <6>1, LaneGrows
        <5> QED BY <5>2, <5>3 DEF LanesFit, LaneFits
      <4> QED BY <4>6, <4>8, <4>9, <4>10, <4>11
    <3> QED BY <2>1, <3>1, <3>2, StepCounts
  <2>5. ASSUME ~SecondLife PROVE FirstShape' /\ retentionLimit' \in 1 .. MAX_HISTORY_SIZE
    <3>1. FirstShape
      BY <2>5 DEF LifeInv
    <3>2. [Store!Next]_(Store!vars)
      BY <2>1, StoreStep
    <3>3. Store!Inv'
      BY <2>1, <3>1, <3>2, StoreAssumptions, Store!InvInductive, Zenon DEF FirstShape, LogOK, Store!Inv
    <3>4. Store!StoreInv /\ Store!StoreInv'
      BY <3>1, <3>3 DEF FirstShape, Store!Inv
    <3>5. Moves
      BY <3>2, <3>4, WindowMoves
    <3>6. Ends(Window', recorded')
      <4>1. Window \in Seq(Results) /\ recorded \in Seq(Results) /\ Ends(Window, recorded)
        BY <2>1, <3>1, <3>4, WindowIs DEF FirstShape, LogOK
      <4>2. CASE UNCHANGED recorded /\ Ends(Window', Window)
        BY <4>1, <4>2, EndsOfEnds
      <4>3. ASSUME NEW r \in Results, recorded' = Append(recorded, r), Ends(Window', Append(Window, r))
            PROVE  Ends(Window', recorded')
        BY <4>1, <4>3, EndsGrow, EndsOfEnds
      <4> QED BY <3>5, <4>2, <4>3 DEF Moves
    <3>7. retentionLimit' \in 1 .. MAX_HISTORY_SIZE
      BY <3>4 DEF Store!StoreInv, Store!StoreTypeOK
    <3> QED BY <2>3, <3>1, <3>4, <3>6, <3>7 DEF FirstShape, Ends
  <2>6. ASSUME SecondLife PROVE SecondShape' /\ retentionLimit' \in 1 .. MAX_HISTORY_SIZE
    <3>1. adminRenounced /\ SecondShape /\ retentionLimit \in 1 .. MAX_HISTORY_SIZE
      BY <2>6 DEF SecondLife, LifeInv
    <3>2. PICK caller, severity : \E outage \in OutageIds, mttr \in Mttrs : CalculateSla(caller, outage, severity, mttr)
      BY <1>5, <3>1, OnlyGranted
    <3>3. PICK r \in Results : Settle(severity, r)
      <4>1. UNCHANGED configVars
        BY <3>2 DEF CalculateSla
      <4> QED BY <1>5, <2>1, <3>2, <4>1, SlaCounts
    <3>4. Store!Record(r) /\ retentionLimit' = retentionLimit
      BY <3>3, SameWrites, Zenon DEF Settle, History!Record
    <3>5. retentionLimit \in Nat /\ retentionLimit >= 1
      BY <3>1, CalculatorAssumption
    <3> QED BY <2>1, <2>3, <3>1, <3>4, <3>5, SecondAppend
  <2> QED BY <1>2, <1>5, <2>2, <2>3, <2>4, <2>5, <2>6 DEF LifeInv
<1> QED BY <1>3, <1>4, <1>5

LEMMA LifeInvKept == LifeInv /\ [LifeNext]_contractVars => LifeInv'
<1> SUFFICES ASSUME LifeInv, [LifeNext]_contractVars PROVE LifeInv'
  OBVIOUS
<1>1. ASSUME NEW caller \in Addresses, NEW other \in Addresses, Initialize(caller, other) PROVE LifeInv'
  BY <1>1, InitializeKeepsLife
<1>2. ASSUME NEW caller \in Addresses, RenounceAdmin(caller) PROVE LifeInv'
  BY <1>2, RenounceKeepsLife
<1>3. ASSUME NEW caller \in Addresses, Migrate(caller) PROVE LifeInv'
  BY <1>3, MigrateKeepsLife
<1>4. CASE Operate
  BY <1>4, OperateKeepsLife
<1>5. CASE UNCHANGED contractVars
  <2>1. /\ now' = now /\ UNCHANGED << calculations, violations >>
        /\ UNCHANGED << storageVersion, admin, adminRenounced, config, custom, historyVars, stats, lifeVars >>
    BY <1>5 DEF contractVars, vars, roleVars, configVars, settledVars, telemetryVars
  <2>2. now \in 1 .. MaxLedger
    BY DEF LifeInv
  <2> QED BY <2>1, <2>2, IdleKeepsLife
<1> QED BY <1>1, <1>2, <1>3, <1>4, <1>5 DEF LifeNext

LEMMA LifeInvAlways == LifeSpec => []LifeInv
BY LifeInvInit, LifeInvKept, PTL DEF LifeSpec

\* The end of a sequence of decisions, in the words of the properties.
LEMMA EndsIsSuffix ==
  ASSUME NEW v \in Seq(Results), NEW w \in Seq(Results), Ends(v, w)
  PROVE  IsSuffix(v, w)
<1>1. PICK a \in Nat, b \in Nat : a = Len(v) /\ b = Len(w) /\ a <= b /\ \A k \in 1 .. a : v[k] = w[k + (b - a)]
  BY DEF Ends, Store!Ends
<1>2. PICK x \in Seq(Results), y \in Seq(Results) :
        /\ x = Reverse(v) /\ Len(x) = a /\ (\A k \in 1 .. a : x[k] = v[(a - k) + 1])
        /\ y = Reverse(w) /\ Len(y) = b /\ (\A k \in 1 .. b : y[k] = w[(b - k) + 1])
  <2>1. PICK x, y : /\ x = Reverse(v) /\ x = [k \in 1 .. a |-> v[(a - k) + 1]]
                    /\ y = Reverse(w) /\ y = [k \in 1 .. b |-> w[(b - k) + 1]]
    BY <1>1 DEF Reverse
  <2>2. \A k \in 1 .. a : (a - k) + 1 \in 1 .. a /\ v[(a - k) + 1] \in Results
    BY <1>1
  <2>3. \A k \in 1 .. b : (b - k) + 1 \in 1 .. b /\ w[(b - k) + 1] \in Results
    BY <1>1
  <2>4. x \in [1 .. a -> Results] /\ y \in [1 .. b -> Results]
    BY <2>1, <2>2, <2>3
  <2>5. x \in Seq(Results) /\ Len(x) = a /\ y \in Seq(Results) /\ Len(y) = b
    BY <2>4
  <2>6. (\A k \in 1 .. a : x[k] = v[(a - k) + 1]) /\ (\A k \in 1 .. b : y[k] = w[(b - k) + 1])
    BY <2>1
  <2> QED BY <2>1, <2>5, <2>6
<1>3. \A k \in 1 .. a : x[k] = y[k]
  <2> TAKE k \in 1 .. a
  <2>1. /\ (a - k) + 1 \in 1 .. a /\ k \in 1 .. b
        /\ ((a - k) + 1) + (b - a) = (b - k) + 1
    BY <1>1
  <2>2. x[k] = v[(a - k) + 1] /\ v[(a - k) + 1] = w[((a - k) + 1) + (b - a)] /\ y[k] = w[(b - k) + 1]
    BY <1>1, <1>2, <2>1
  <2> QED BY <2>1, <2>2
<1>4. SubSeq(x, 1, a) = SubSeq(y, 1, a)
  <2>1. SubSeq(x, 1, a) = [k \in 1 .. a |-> x[k]] /\ SubSeq(y, 1, a) = [k \in 1 .. a |-> y[k]]
    BY <1>1, <1>2
  <2> QED BY <1>3, <2>1
<1> QED BY <1>1, <1>2, <1>4 DEF IsSuffix, IsPrefix

\* What a reader is shown in a second life is what lies between the counters.
LEMMA SecondReads ==
  ASSUME LogOK, SecondShape, retentionLimit \in Nat, retentionLimit >= 1
  PROVE  /\ Store!ReadAllEntries \in Seq(Results)
         /\ Len(Store!ReadAllEntries) = AtMost(Len(recorded) - lifeStart, retentionLimit)
         /\ Ends(Store!ReadAllEntries, recorded)
<1>1. PICK n \in Nat, m \in Nat, t \in Nat, limit \in Nat :
        /\ n = Len(recorded) /\ m = lifeStart /\ m <= n /\ t = tail /\ t = n - m
        /\ limit = retentionLimit /\ limit >= 1
  <2>1. PICK n \in Nat : n = Len(recorded)
    BY DEF LogOK
  <2>2. PICK m \in Nat : m = lifeStart /\ m <= n
    BY <2>1 DEF LogOK
  <2>3. tail = n - m /\ n - m \in Nat
    BY <2>1, <2>2 DEF SecondShape
  <2> QED BY <2>1, <2>2, <2>3
<1>2. PICK h \in Nat : h = head /\ h = (IF t > limit THEN t - limit ELSE 0)
  <2>1. (IF t > limit THEN t - limit ELSE 0) \in Nat
    BY <1>1
  <2>2. head = (IF t > limit THEN t - limit ELSE 0)
    BY <1>1 DEF SecondShape
  <2> QED BY <2>1, <2>2
<1>3. PICK c \in Nat : c = t - h /\ c = AtMost(t, limit) /\ h <= t
  <2>1. h <= t /\ t - h = AtMost(t, limit)
    BY <1>1, <1>2 DEF AtMost
  <2> QED BY <2>1
<1>4. Store!SaturatingSub(t, h) = c
  BY <1>3 DEF Store!SaturatingSub
<1>5. PICK slots : slots = Store!Run(h, c)
  OBVIOUS
<1>6. /\ slots \in Seq(Nat) /\ Len(slots) = c /\ Store!StrictlyIncreasing(slots)
      /\ Store!Elements(slots) = h .. h + c - 1
  BY <1>5, StoreAssumptions, Store!Consecutive, Zenon
<1>7. \A k \in 1 .. c : slots[k] = h + k - 1
  BY <1>5 DEF Store!Run
<1>8. \A i \in h .. t - 1 : i \in DOMAIN entries /\ entries[i] = recorded[m + i + 1]
  BY <1>1, <1>2 DEF SecondShape
<1>9. Store!Elements(slots) \subseteq DOMAIN entries
  <2>1. h + c - 1 = t - 1
    BY <1>3
  <2> QED BY <1>6, <1>8, <2>1
<1>10. Store!Keep(slots, DOMAIN entries) = slots
  BY <1>6, <1>9, StoreAssumptions, Store!KeepAllIndices, Zenon
<1>11. Store!ReadAllEntries = [k \in 1 .. c |-> entries[slots[k]]]
  <2>1. Store!ReadAllEntries = Store!ReadSlots(slots)
    BY <1>1, <1>2, <1>4, <1>5 DEF Store!ReadAllEntries, Store!ReadRange
  <2> QED BY <1>6, <1>10, <2>1 DEF Store!ReadSlots
<1>12. \A k \in 1 .. c : entries[slots[k]] = recorded[k + (n - c)] /\ k + (n - c) \in 1 .. n
  <2> TAKE k \in 1 .. c
  <2>1. h + k - 1 \in h .. t - 1 /\ m + (h + k - 1) + 1 = k + (n - c) /\ k + (n - c) \in 1 .. n
    BY <1>1, <1>3
  <2> QED BY <1>7, <1>8, <2>1
<1>13. PICK shown : shown = Store!ReadAllEntries
  OBVIOUS
<1>14. /\ shown \in Seq(Results) /\ Len(shown) = c
       /\ \A k \in 1 .. c : shown[k] = recorded[k + (n - c)]
  <2>1. \A k \in 1 .. c : recorded[k + (n - c)] \in Results
    BY <1>1, <1>12 DEF LogOK
  <2>2. shown = [k \in 1 .. c |-> entries[slots[k]]]
    BY <1>11, <1>13
  <2>3. \A k \in 1 .. c : entries[slots[k]] \in Results
    BY <1>12, <2>1
  <2>4. shown \in [1 .. c -> Results]
    BY <2>2, <2>3
  <2>5. shown \in Seq(Results) /\ Len(shown) = c
    BY <2>4
  <2>6. \A k \in 1 .. c : shown[k] = recorded[k + (n - c)]
    BY <1>12, <2>2
  <2> QED BY <2>5, <2>6
<1>15. c <= n
  BY <1>1, <1>3
<1> QED BY <1>1, <1>3, <1>13, <1>14, <1>15 DEF Ends, Store!Ends

\* The readers show the entries between the counters, and each outage its own.
ShowsWindow ==
  /\ History!ReadAllEntries = Window
  /\ \A o \in OutageIds : History!EntriesForOutage(o) = History!Keep(Window, { r \in Results : r.outage_id = o })

LEMMA WindowIsShown == Store!StoreInv => ShowsWindow
<1> SUFFICES ASSUME Store!StoreInv PROVE ShowsWindow
  OBVIOUS
<1>1. History!ReadAllEntries = Window
  BY WindowIs, SameReads
<1>2. ASSUME NEW o \in OutageIds
      PROVE  History!EntriesForOutage(o) = History!Keep(Window, { r \in Results : r.outage_id = o })
  <2>1. Store!EntriesForOutage(o) = Store!Keep(Store!Window, { r \in Results : r.outage_id = o })
    BY StoreAssumptions, Store!IndexIsFilter, Zenon
  <2>2. History!EntriesForOutage(o) = Store!EntriesForOutage(o)
    BY SameVectors DEF History!EntriesForOutage, Store!EntriesForOutage, History!ReadSlots, Store!ReadSlots
  <2> QED BY <2>1, <2>2, SameVectors DEF Window
<1> QED BY <1>1, <1>2 DEF ShowsWindow

LEMMA WindowIsShownNext == Store!StoreInv' => ShowsWindow'
BY WindowIsShown, PTL

LEMMA ViolationsAdded == \A log : SumOf(log, LAMBDA r : IF r.met THEN 0 ELSE 1) = SumUp(ViolationsIn(log))
BY DEF SumOf, ViolationsIn

LEMMA LanesAreMatched == LanesFit => LanesMatchLife
<1> SUFFICES ASSUME LanesFit, NEW lane \in Lanes
             PROVE  LET since == IF lane = "custom" THEN recorded ELSE ThisLife
                    IN  /\ calculations[lane] <= Len(since)
                        /\ violations[lane] <= SumOf(since, LAMBDA r : IF r.met THEN 0 ELSE 1)
  BY Zenon DEF LanesMatchLife
<1>1. PICK since : since = Since(lane)
  OBVIOUS
<1>2. calculations[lane] <= Len(since) /\ violations[lane] <= SumUp(ViolationsIn(since))
  BY <1>1 DEF LanesFit, LaneFits
<1>3. SumOf(since, LAMBDA r : IF r.met THEN 0 ELSE 1) = SumUp(ViolationsIn(since))
  BY ViolationsAdded, Zenon
<1> QED BY <1>1, <1>2, <1>3 DEF Since

LEMMA InvShowsLife == LifeInv => ShowsThisLife
<1> SUFFICES ASSUME LifeInv PROVE ShowsThisLife
  OBVIOUS
<1>1. LogOK /\ retentionLimit \in Nat /\ retentionLimit >= 1
  BY CalculatorAssumption DEF LifeInv
<1>2. Len(ThisLife) = Len(recorded) - lifeStart
  <2>1. PICK n \in Nat, m \in Nat : n = Len(recorded) /\ m = lifeStart /\ m <= n
    BY <1>1 DEF LogOK
  <2>2. Len(SubSeq(recorded, m + 1, n)) = n - m
    BY <1>1, <2>1, LifeIs DEF LogOK
  <2> QED BY <2>1, <2>2 DEF ThisLife
<1> DEFINE TotalsShown == StatsMatchLife /\ LanesMatchLife
<1>5. TotalsShown
  <2>1. StatsMatchLife
    BY TotalsAreStats DEF StatsMatchLife, LifeInv
  <2> QED BY <2>1, LanesAreMatched DEF LifeInv
<1>3. CASE ~SecondLife
  <2>1. FirstShape
    BY <1>3 DEF LifeInv
  <2>2. Store!ReadAllEntries = Window /\ Window \in Seq(Results) /\ Ends(Window, recorded) /\ lifeStart = 0
    BY <2>1, WindowIs DEF FirstShape
  <2>3. IsSuffix(Window, recorded)
    BY <1>1, <2>2, EndsIsSuffix DEF LogOK
  <2>4. Len(Window) <= Len(ThisLife)
    BY <1>1, <1>2, <2>2 DEF LogOK, Ends, Store!Ends
  <2>5. HistoryIsThisLife
    BY <1>3, <2>2, <2>3, <2>4, SameReads DEF HistoryIsThisLife
  <2> QED BY <1>5, <2>5 DEF ShowsThisLife
<1>4. CASE SecondLife
  <2>1. SecondShape
    BY <1>4 DEF LifeInv
  <2>2. /\ Store!ReadAllEntries \in Seq(Results) /\ Ends(Store!ReadAllEntries, recorded)
        /\ Len(Store!ReadAllEntries) = AtMost(Len(ThisLife), retentionLimit)
    BY <1>1, <1>2, <2>1, SecondReads
  <2>3. IsSuffix(Store!ReadAllEntries, recorded)
    BY <1>1, <2>2, EndsIsSuffix DEF LogOK
  <2>4. Len(ThisLife) \in Nat
    BY <1>1, <1>2 DEF LogOK
  <2>5. Len(Store!ReadAllEntries) <= Len(ThisLife)
    BY <1>1, <2>2, <2>4 DEF AtMost
  <2>6. HistoryIsThisLife
    BY <2>2, <2>3, <2>5, SameReads DEF HistoryIsThisLife
  <2> QED BY <1>5, <2>6 DEF ShowsThisLife
<1> QED BY <1>3, <1>4

(***************************************************************************)
(* In its first life, whatever an older version left in it, the storage is *)
(* exact: counters, entry keys and outage indices tell one history.        *)
(***************************************************************************)
THEOREM FirstLifeAlwaysExact == LifeSpec => []FirstLifeIsExact
<1>1. LifeInv => FirstLifeIsExact
  BY DEF LifeInv, FirstShape, FirstLifeIsExact, Store!StoreInv,
         Store!NoOrphanEntries, Store!CachedLengthWithinLimit, Store!IndexExact, Store!StrictlyIncreasing, Store!Elements,
         History!CountersTellEntries, History!NoOrphanEntries, History!CachedLengthWithinLimit,
         History!IndexExact, History!StrictlyIncreasing, History!Elements
<1> QED BY <1>1, LifeInvAlways, PTL

(***************************************************************************)
(* What the contract shows is its present life: a second initialize, which *)
(* cannot remove the entries of the first, still hides them.               *)
(***************************************************************************)
THEOREM LifeIsAlwaysShown == LifeSpec => []ShowsThisLife
BY InvShowsLife, LifeInvAlways, PTL

(***************************************************************************)
(* migrate loses, repeats and reorders no decision.                        *)
(***************************************************************************)
THEOREM MigrationAlwaysKeeps == LifeSpec => MigrationKeepsDecisions
<1> DEFINE Kept == reply'.call = "migrate" /\ storageVersion' # storageVersion =>
                     /\ History!ReadAllEntries' = legacy
                     /\ \A o \in OutageIds :
                          History!EntriesForOutage(o)' = History!Keep(legacy, { r \in Results : r.outage_id = o })
                     /\ stats' = stats
<1>1. ASSUME LifeInv, LifeNext PROVE Kept
  <2>1. ASSUME NEW caller, NEW other, Initialize(caller, other) PROVE Kept
    BY <2>1, InitializeSays
  <2>2. ASSUME NEW caller, RenounceAdmin(caller) PROVE Kept
    BY <2>2, RenounceSays
  <2>3. ASSUME NEW caller, Migrate(caller), storageVersion' # storageVersion PROVE Kept
    <3>1. Store!StoreInv' /\ Window' = legacy /\ stats' = stats
      BY <1>1, <2>3, MigrateKeepsLife
    <3>2. ShowsWindow'
      BY <3>1, WindowIsShownNext
    <3> QED BY <3>1, <3>2 DEF ShowsWindow
  <2>4. CASE Operate
    BY <2>4, OperateTells DEF roleVars
  <2> HIDE DEF Kept
  <2>5. ASSUME NEW caller, Migrate(caller) PROVE Kept
    BY <2>3, <2>5 DEF Kept
  <2> QED BY <1>1, <2>1, <2>2, <2>4, <2>5 DEF LifeNext
<1>2. UNCHANGED contractVars => Kept
  BY DEF contractVars, vars, roleVars
<1>3. LifeInv /\ [LifeNext]_contractVars => Kept
  BY <1>1, <1>2
<1> QED BY <1>3, LifeInvAlways, PTL DEF LifeSpec, MigrationKeepsDecisions

(***************************************************************************)
(* After a renounce decisions are added and nothing else is done, whoever  *)
(* a second initialize made admin: every gate asks for the marker.         *)
(***************************************************************************)
THEOREM RenouncedIsLocked == LifeSpec => LockedForGood
<1> DEFINE Locked == adminRenounced /\ reply'.call # "initialize" =>
                       /\ UNCHANGED << roleVars, guardVars, configVars, retentionLimit >>
                       /\ IsPrefix(recorded, recorded')
                       /\ recorded' = recorded => UNCHANGED << historyVars, stats >>
<1>1. ASSUME LifeInv, UNCHANGED << roleVars, guardVars, configVars, settledVars >> PROVE Locked
  <2>1. recorded \in Seq(Results)
    BY <1>1 DEF LifeInv, LogOK
  <2> QED BY <1>1, <2>1 DEF settledVars, historyVars, IsPrefix
<1>2. ASSUME LifeInv, LifeNext PROVE Locked
  <2>1. ASSUME NEW caller, NEW other, Initialize(caller, other) PROVE Locked
    BY <2>1, InitializeSays
  <2>2. ASSUME NEW caller, RenounceAdmin(caller) PROVE Locked
    <3>1. CASE adminRenounced
      BY <1>1, <1>2, <2>2, <3>1, RenounceSays
    <3> QED BY <3>1
  <2>3. ASSUME NEW caller, Migrate(caller) PROVE Locked
    <3>1. CASE adminRenounced
      <4>1. storageVersion = STORAGE_VERSION \/ admin = NoAddress
        BY <1>2, <3>1 DEF LifeInv, Untouched
      <4> QED BY <1>1, <1>2, <2>3, <4>1, MigrateSays DEF roleVars
    <3> QED BY <3>1
  <2>4. CASE Operate
    <3>1. CASE adminRenounced
      <4>1. CASE UNCHANGED << roleVars, guardVars, configVars, settledVars >>
        BY <1>1, <1>2, <4>1
      <4>2. ASSUME storageVersion = STORAGE_VERSION, UNCHANGED << roleVars, guardVars, configVars >>,
                   NEW caller, NEW severity, NEW outage \in OutageIds, NEW mttr \in Mttrs,
                   CalculateSla(caller, outage, severity, mttr)
            PROVE  Locked
        <5>1. Known /\ recorded \in Seq(Results)
          BY <1>2, <4>2 DEF LifeInv, LogOK
        <5>2. CASE UNCHANGED settledVars
          BY <1>1, <1>2, <4>2, <5>2
        <5>3. ASSUME NEW r \in Results, Settle(severity, r) PROVE Locked
          <6>1. recorded' = Append(recorded, r) /\ retentionLimit' = retentionLimit
            BY <5>3 DEF Settle, History!Record
          <6>2. PICK n \in Nat : n = Len(recorded)
            BY <5>1
          <6>3. Len(recorded') = n + 1 /\ recorded' \in Seq(Results) /\ \A k \in 1 .. n : recorded'[k] = recorded[k]
            BY <5>1, <6>1, <6>2, Appended
          <6>4. recorded' # recorded
            BY <6>2, <6>3
          <6>5. SubSeq(recorded, 1, n) = SubSeq(recorded', 1, n)
            <7>1. /\ SubSeq(recorded, 1, n) = [k \in 1 .. n |-> recorded[k]]
                  /\ SubSeq(recorded', 1, n) = [k \in 1 .. n |-> recorded'[k]]
              BY <5>1, <6>2, <6>3
            <7> QED BY <6>3, <7>1
          <6>6. IsPrefix(recorded, recorded')
            BY <6>2, <6>3, <6>5 DEF IsPrefix
          <6> QED BY <4>2, <6>1, <6>4, <6>6
        <5> QED BY <4>2, <5>1, <5>2, <5>3, SlaCounts
      <4> HIDE DEF Locked
      <4> QED BY <2>4, <3>1, <4>1, <4>2, OnlyGranted
    <3> QED BY <3>1
  <2> HIDE DEF Locked
  <2> QED BY <1>2, <2>1, <2>2, <2>3, <2>4 DEF LifeNext
<1>3. LifeInv /\ UNCHANGED contractVars => Locked
  BY <1>1 DEF contractVars, vars
<1> HIDE DEF Locked
<1>4. LifeInv /\ [LifeNext]_contractVars => Locked
  BY <1>2, <1>3
<1> QED BY <1>4, LifeInvAlways, PTL DEF LifeSpec, LockedForGood, Locked

-----------------------------------------------------------------------------
(***************************************************************************)
(* The readers of a deployment (ContractViews): the health probe, the      *)
(* audit record, the fingerprint, the footprint and the rent.  LifeInv     *)
(* says what the log and the numbers are; ReaderInv adds what the readers  *)
(* lean on: in a first life the pause metadata is there exactly while the  *)
(* contract is paused, in both lives every key between the counters is     *)
(* listed under its outage, and what they count is finite.                 *)
(***************************************************************************)

\* The keys between the counters can be counted, and each of them is listed
\* under its outage.  Outside the counters a second life has keys of the first.
Indexes ==
  /\ historyLen = tail - head
  /\ IsFiniteSet(DOMAIN entries)
  /\ outageIndex \in [OutageIds -> Seq(Nat)]
  /\ IsFiniteSet(Indexed)
  /\ \A i \in head .. tail - 1 : i \in Elements(outageIndex[entries[i].outage_id])

RetainedOutages == { entries[i].outage_id : i \in head .. tail - 1 }

\* In an exact history no key lies outside them.
LEMMA ExactIndexes ==
  ASSUME Store!StoreInv
  PROVE  Indexes /\ DOMAIN entries = head .. tail - 1 /\ Indexed = RetainedOutages
<1>1. /\ head \in Nat /\ tail \in Nat /\ head <= tail /\ historyLen = tail - head
      /\ DOMAIN entries = head .. tail - 1
      /\ outageIndex \in [OutageIds -> Seq(Nat)]
  BY DEF Store!StoreInv, Store!StoreTypeOK, Store!NoOrphanEntries, Store!CachedLengthWithinLimit
<1>2. PICK slots : slots = head .. tail - 1
  OBVIOUS
<1>3. \A i \in slots : entries[i] \in Results /\ entries[i].outage_id \in OutageIds
  BY <1>1, <1>2, CalculatorAssumption DEF Store!StoreInv, Store!StoreTypeOK
<1>4. \A o \in OutageIds : Elements(outageIndex[o]) = { i \in slots : entries[i].outage_id = o }
  BY <1>2 DEF Store!StoreInv, Store!IndexExact, Store!Elements, Elements
<1>5. \A i \in slots : i \in Elements(outageIndex[entries[i].outage_id])
  BY <1>3, <1>4
<1>6. \A o \in OutageIds : outageIndex[o] # << >> <=> Elements(outageIndex[o]) # {}
  <2> TAKE o \in OutageIds
  <2>1. outageIndex[o] \in Seq(Nat)
    BY <1>1
  <2>2. outageIndex[o] # << >> => 1 \in 1 .. Len(outageIndex[o])
    BY <2>1
  <2>3. 1 \in 1 .. Len(outageIndex[o]) => outageIndex[o][1] \in Elements(outageIndex[o])
    BY DEF Elements
  <2>4. outageIndex[o] = << >> => Elements(outageIndex[o]) = {}
    BY DEF Elements
  <2> QED BY <2>2, <2>3, <2>4
<1>7. Indexed = RetainedOutages
  <2>1. ASSUME NEW o \in Indexed PROVE o \in RetainedOutages
    BY <1>2, <1>4, <1>6, <2>1 DEF Indexed, RetainedOutages
  <2>2. ASSUME NEW o \in RetainedOutages PROVE o \in Indexed
    BY <1>2, <1>3, <1>4, <1>6, <2>2 DEF Indexed, RetainedOutages
  <2> QED BY <2>1, <2>2
<1>8. IsFiniteSet(slots)
  BY <1>1, <1>2, FS_Interval
<1>9. IsFiniteSet(RetainedOutages)
  <2>1. PICK f : f = [i \in slots |-> entries[i].outage_id]
    OBVIOUS
  <2>2. f \in Surjection(slots, RetainedOutages)
    BY <1>2, <2>1 DEF Surjection, RetainedOutages
  <2> QED BY <1>8, <2>2, FS_Surjection
<1> QED BY <1>1, <1>2, <1>5, <1>7, <1>8, <1>9 DEF Indexes

LEMMA KeepIs ==
  ASSUME NEW s \in Seq(Nat), NEW S
  PROVE  Store!Keep(s, S) \in Seq(Nat) /\ Elements(Store!Keep(s, S)) = Elements(s) \cap S
<1>1. PICK x : x = Keep(s, S)
  OBVIOUS
<1>2. Store!Keep(s, S) = x
  BY <1>1 DEF Store!Keep, Store!KeepLoop, Keep, KeepLoop
<1>3. OrderedBy(s, Nat \X Nat)
  BY DEF OrderedBy
<1>4. Keep(s, S) \in Seq(Nat) /\ Elements(Keep(s, S)) = Elements(s) \cap S
  BY <1>3, KeepProperties
<1> QED BY <1>1, <1>2, <1>4

LEMMA ElementsOfAppend ==
  ASSUME NEW s \in Seq(Nat), NEW n \in Nat
  PROVE  Append(s, n) \in Seq(Nat) /\ Elements(Append(s, n)) = Elements(s) \cup {n}
<1>1. PICK m \in Nat : m = Len(s)
  OBVIOUS
<1>2. PICK x : x = Append(s, n)
  OBVIOUS
<1>3. x \in Seq(Nat) /\ Len(x) = m + 1 /\ (\A k \in 1 .. m : x[k] = s[k]) /\ x[m + 1] = n
  BY <1>1, <1>2
<1>4. 1 .. m + 1 = (1 .. m) \cup {m + 1}
  BY <1>1
<1>5. Elements(x) = { x[k] : k \in (1 .. m) \cup {m + 1} } /\ Elements(s) = { s[k] : k \in 1 .. m }
  BY <1>1, <1>3, <1>4 DEF Elements
<1>6. { x[k] : k \in (1 .. m) \cup {m + 1} } = { s[k] : k \in 1 .. m } \cup {n}
  BY <1>3, Zenon
<1> QED BY <1>2, <1>3, <1>5, <1>6

\* An append keeps the listing, old keys outside the counters or not: it adds
\* its own index, and drops one index from one outage.
LEMMA IndexesKept ==
  ASSUME head \in Nat, tail \in Nat, head <= tail, retentionLimit \in Nat, retentionLimit >= 1,
         Indexes, \A i \in head .. tail - 1 : i \in DOMAIN entries /\ entries[i] \in Results,
         NEW r \in Results, Store!Record(r)
  PROVE  Indexes'
<1> DEFINE written == [i \in DOMAIN entries \cup {tail} |-> IF i = tail THEN r ELSE entries[i]]
           indexed == [outageIndex EXCEPT ![r.outage_id] = Append(outageIndex[r.outage_id], tail)]
<1>1. PICK h \in Nat, t \in Nat : h = head /\ t = tail /\ h <= t
  OBVIOUS
<1>2. PICK w : w = written
  OBVIOUS
<1>3. PICK x : x = indexed
  OBVIOUS
<1>4. /\ tail' = t + 1 /\ historyLen' = Store!SaturatingSub(tail', head')
      /\ \/ entries' = w /\ outageIndex' = x /\ head' = h
         \/ /\ entries' = Store!Without(w, {h}) /\ head' = h + 1
            /\ outageIndex' = IF h \in DOMAIN w
                              THEN [x EXCEPT ![w[h].outage_id] = Store!Keep(@, Nat \ {h})]
                              ELSE x
  BY <1>1, <1>2, <1>3, Zenon DEF Store!Record, Store!AppendEntry
<1>5. /\ DOMAIN w = DOMAIN entries \cup {t} /\ w[t] = r
      /\ \A i \in DOMAIN entries : i # t => w[i] = entries[i]
  BY <1>1, <1>2
<1> HIDE DEF written
<1>6. r.outage_id \in OutageIds /\ outageIndex[r.outage_id] \in Seq(Nat)
  BY CalculatorAssumption DEF Indexes
<1>7. /\ x \in [OutageIds -> Seq(Nat)]
      /\ Elements(x[r.outage_id]) = Elements(outageIndex[r.outage_id]) \cup {t}
      /\ \A o \in OutageIds : o # r.outage_id => x[o] = outageIndex[o]
  <2>1. /\ Append(outageIndex[r.outage_id], tail) \in Seq(Nat)
        /\ Elements(Append(outageIndex[r.outage_id], tail)) = Elements(outageIndex[r.outage_id]) \cup {t}
    BY <1>1, <1>6, ElementsOfAppend
  <2>2. outageIndex \in [OutageIds -> Seq(Nat)]
    BY DEF Indexes
  <2> QED BY <1>3, <1>6, <2>1, <2>2
<1> HIDE DEF indexed
<1>8. \A i \in h .. t : i \in DOMAIN w /\ w[i] \in Results /\ w[i].outage_id \in OutageIds /\ i \in Elements(x[w[i].outage_id])
  <2> TAKE i \in h .. t
  <2>1. CASE i = t
    BY <1>5, <1>6, <1>7, <2>1
  <2>2. CASE i # t
    <3>1. i \in head .. tail - 1
      BY <1>1, <2>2
    <3>2. i \in DOMAIN entries /\ w[i] = entries[i] /\ w[i] \in Results /\ w[i].outage_id \in OutageIds
      BY <1>5, <2>2, <3>1, CalculatorAssumption
    <3>3. i \in Elements(outageIndex[w[i].outage_id])
      BY <3>1, <3>2 DEF Indexes
    <3>4. i \in Elements(x[w[i].outage_id])
      BY <1>7, <3>2, <3>3
    <3> QED BY <1>5, <3>2, <3>4
  <2> QED BY <2>1, <2>2
<1>9. IsFiniteSet(DOMAIN w)
  <2>1. IsFiniteSet(DOMAIN entries)
    BY DEF Indexes
  <2>2. IsFiniteSet(DOMAIN entries \cup {t})
    BY <2>1, FS_AddElement
  <2> QED BY <1>5, <2>2
<1>10. PICK X : X = { o \in OutageIds : x[o] # << >> }
  OBVIOUS
<1>11. IsFiniteSet(X)
  <2>1. X \subseteq Indexed \cup {r.outage_id}
    BY <1>7, <1>10 DEF Indexed
  <2>2. IsFiniteSet(Indexed \cup {r.outage_id})
    BY FS_AddElement DEF Indexes
  <2> QED BY <2>1, <2>2, FS_Subset
<1>12. historyLen' = tail' - head' /\ tail' - 1 = t /\ head' <= tail'
  BY <1>1, <1>4 DEF Store!SaturatingSub
<1>13. CASE entries' = w /\ outageIndex' = x /\ head' = h
  <2>1. Indexed' = X
    BY <1>10, <1>13 DEF Indexed
  <2>2. \A i \in head' .. tail' - 1 : i \in Elements(outageIndex'[entries'[i].outage_id])
    BY <1>8, <1>12, <1>13
  <2> QED BY <1>7, <1>9, <1>11, <1>12, <1>13, <2>1, <2>2 DEF Indexes
<1>14. CASE /\ entries' = Store!Without(w, {h}) /\ head' = h + 1
            /\ outageIndex' = IF h \in DOMAIN w
                              THEN [x EXCEPT ![w[h].outage_id] = Store!Keep(@, Nat \ {h})]
                              ELSE x
  <2>1. h \in h .. t
    BY <1>1
  <2>2. PICK o \in OutageIds : o = w[h].outage_id /\ h \in DOMAIN w
    BY <1>8, <2>1
  <2>3. x[o] \in Seq(Nat)
    BY <1>7
  <2>4. PICK y : y = Store!Keep(x[o], Nat \ {h})
    OBVIOUS
  <2>5. y \in Seq(Nat) /\ Elements(y) = Elements(x[o]) \cap (Nat \ {h})
    BY <2>3, <2>4, KeepIs
  <2>6. outageIndex' = [x EXCEPT ![o] = y]
    BY <1>14, <2>2, <2>4
  <2>7. /\ outageIndex' \in [OutageIds -> Seq(Nat)] /\ outageIndex'[o] = y
        /\ \A p \in OutageIds : p # o => outageIndex'[p] = x[p]
    BY <1>7, <2>5, <2>6
  <2>8. DOMAIN entries' = DOMAIN w \ {h} /\ \A i \in DOMAIN w \ {h} : entries'[i] = w[i]
    BY <1>14 DEF Store!Without
  <2>9. \A i \in h + 1 .. t : i \in Elements(outageIndex'[entries'[i].outage_id])
    <3> TAKE i \in h + 1 .. t
    <3>1. i \in h .. t /\ i # h /\ i \in Nat
      BY <1>1
    <3>2. entries'[i] = w[i] /\ w[i].outage_id \in OutageIds /\ i \in Elements(x[w[i].outage_id])
      BY <1>8, <2>8, <3>1
    <3>3. CASE w[i].outage_id = o
      BY <2>5, <2>7, <3>1, <3>2, <3>3
    <3>4. CASE w[i].outage_id # o
      BY <2>7, <3>2, <3>4
    <3> QED BY <3>3, <3>4
  <2>10. Indexed' \subseteq X
    <3>1. ASSUME NEW p \in OutageIds, outageIndex'[p] # << >> PROVE x[p] # << >>
      <4>1. CASE p # o
        BY <2>7, <3>1, <4>1
      <4>2. CASE p = o
        <5>1. y # << >>
          BY <2>7, <3>1, <4>2
        <5>2. 1 \in 1 .. Len(y)
          BY <2>5, <5>1
        <5>3. y[1] \in Elements(y)
          BY <5>2 DEF Elements
        <5>4. Elements(x[o]) # {}
          BY <2>5, <5>3
        <5>5. x[o] = << >> => Elements(x[o]) = {}
          BY DEF Elements
        <5> QED BY <4>2, <5>4, <5>5
      <4> QED BY <4>1, <4>2
    <3> QED BY <1>10, <3>1 DEF Indexed
  <2>11. IsFiniteSet(Indexed') /\ IsFiniteSet(DOMAIN entries')
    <3>1. IsFiniteSet(Indexed')
      BY <1>11, <2>10, FS_Subset
    <3>2. IsFiniteSet(DOMAIN w \ {h})
      BY <1>9, FS_RemoveElement
    <3> QED BY <2>8, <3>1, <3>2
  <2>12. \A i \in head' .. tail' - 1 : i \in Elements(outageIndex'[entries'[i].outage_id])
    BY <1>12, <1>14, <2>9
  <2> QED BY <1>12, <2>7, <2>11, <2>12 DEF Indexes
<1> QED BY <1>4, <1>13, <1>14

-----------------------------------------------------------------------------

\* What the readers rely on beside LifeInv: pause metadata exactly while
\* paused, in a first life, an admin that is an address, and keys and custom
\* severities that can be counted.
ReaderInv ==
  /\ admin \in Addresses \cup {NoAddress}
  /\ paused \in BOOLEAN /\ pauseInfo \in BOOLEAN
  /\ ~SecondLife => pauseInfo = paused
  /\ admin = NoAddress /\ ~adminRenounced => ~paused
  /\ IsFiniteSet(DOMAIN custom)
  /\ SecondLife => Indexes

LEMMA IndexesStay ==
  ASSUME Indexes, UNCHANGED << entries, outageIndex, head, tail, historyLen >>
  PROVE  Indexes'
BY DEF Indexes, Indexed

LEMMA ReaderInvInit == LifeInit => ReaderInv
<1> SUFFICES ASSUME LifeInit PROVE ReaderInv
  OBVIOUS
<1>1. CASE Deployed
  <2>1. paused = FALSE /\ pauseInfo = FALSE /\ adminRenounced = FALSE /\ admin = NoAddress /\ custom = NoCustom
    BY <1>1 DEF Deployed, ContractInit
  <2> QED BY <2>1, FS_EmptySet DEF ReaderInv, SecondLife, NoCustom
<1>2. CASE Upgraded
  <2>1. /\ admin \in Addresses \cup {NoAddress} /\ paused \in BOOLEAN /\ pauseInfo = paused
        /\ admin = NoAddress <=> adminRenounced
    BY <1>2, AddressAssumption DEF Upgraded
  <2>2. IsFiniteSet(DOMAIN custom)
    BY <1>2, OlderRegistered DEF Upgraded
  <2> QED BY <2>1, <2>2 DEF ReaderInv, SecondLife
<1> QED BY <1>1, <1>2 DEF LifeInit

LEMMA CustomStaysCountable ==
  ASSUME IsFiniteSet(DOMAIN custom), Operate
  PROVE  IsFiniteSet(DOMAIN custom')
<1>1. CASE UNCHANGED custom
  BY <1>1
<1>2. ASSUME NEW severity, NEW c, custom' = With(custom, severity, c)
      PROVE  IsFiniteSet(DOMAIN custom')
  <2>1. DOMAIN custom' = DOMAIN custom \cup {severity}
    BY <1>2 DEF With
  <2> QED BY <2>1, FS_AddElement
<1>3. ASSUME NEW severity, custom' = [s \in DOMAIN custom \ {severity} |-> custom[s]]
      PROVE  IsFiniteSet(DOMAIN custom')
  <2>1. DOMAIN custom' = DOMAIN custom \ {severity}
    BY <1>3
  <2> QED BY <2>1, FS_RemoveElement
<1> DEFINE Goal == IsFiniteSet(DOMAIN custom')
<1>4. ASSUME NEW caller, NEW outage, NEW severity, NEW mttr, CalculateSla(caller, outage, severity, mttr)
      PROVE  Goal
  BY <1>1, <1>4 DEF CalculateSla, configVars
<1>5. ASSUME NEW caller, NEW severity, NEW c, Configure(caller, severity, c)
      PROVE  Goal
  BY <1>1, <1>2, <1>5 DEF Configure, SetConfig, SetCustomSeverity, ConfigRefused, StoreConfig, StoreCustomSeverity, configVars
<1>6. ASSUME NEW caller, NEW severity, Unregister(caller, severity)
      PROVE  Goal
  BY <1>1, <1>3, <1>6 DEF Unregister, RemoveCustomSeverity, ConfigRefused, DropCustomSeverity, configVars
<1>7. ASSUME NEW caller, NEW n, PruneHistory(caller, n) \/ PruneHistoryByAge(caller, n) \/ SetRetentionLimit(caller, n)
      PROVE  Goal
  BY <1>1, <1>7 DEF PruneHistory, PruneHistoryByAge, SetRetentionLimit, KeepingRest, configVars
<1>8. ASSUME NEW caller, NEW fits, Pause(caller, fits) \/ Unpause(caller)
      PROVE  Goal
  BY <1>1, <1>8 DEF Pause, Unpause, configVars
<1>9. ASSUME NewLedger PROVE Goal
  BY <1>1, <1>9 DEF NewLedger, configVars
<1> HIDE DEF Goal
<1>10. Goal
  BY <1>4, <1>5, <1>6, <1>7, <1>8, <1>9, Zenon DEF Operate, Next
<1> QED BY <1>10 DEF Goal

\* pause and unpause write both keys, or neither.
LEMMA GuardsMove ==
  ASSUME Operate
  PROVE  UNCHANGED << paused, pauseInfo >> \/ (paused' = TRUE /\ pauseInfo' = TRUE) \/ (paused' = FALSE /\ pauseInfo' = FALSE)
<1> DEFINE Goal == UNCHANGED << paused, pauseInfo >> \/ (paused' = TRUE /\ pauseInfo' = TRUE) \/ (paused' = FALSE /\ pauseInfo' = FALSE)
<1>1. CASE UNCHANGED guardVars
  BY <1>1 DEF guardVars
<1>2. ASSUME NEW caller, NEW outage, NEW severity, NEW mttr, CalculateSla(caller, outage, severity, mttr)
      PROVE  Goal
  BY <1>1, <1>2 DEF CalculateSla
<1>3. ASSUME NEW caller, NEW severity, NEW c, Configure(caller, severity, c) \/ Unregister(caller, severity)
      PROVE  Goal
  BY <1>1, <1>3 DEF Configure, SetConfig, SetCustomSeverity, Unregister, RemoveCustomSeverity
<1>4. ASSUME NEW caller, NEW n, PruneHistory(caller, n) \/ PruneHistoryByAge(caller, n) \/ SetRetentionLimit(caller, n)
      PROVE  Goal
  BY <1>1, <1>4 DEF PruneHistory, PruneHistoryByAge, SetRetentionLimit, KeepingRest
<1>5. ASSUME NEW caller, NEW fits, Pause(caller, fits) \/ Unpause(caller)
      PROVE  Goal
  BY <1>1, <1>5 DEF Pause, Unpause, SetPaused, ClearPaused
<1>6. ASSUME NewLedger PROVE Goal
  BY <1>1, <1>6 DEF NewLedger
<1> HIDE DEF Goal
<1>7. Goal
  BY <1>2, <1>3, <1>4, <1>5, <1>6, Zenon DEF Operate, Next
<1> QED BY <1>7 DEF Goal

\* The counters of a second life, and the keys between them.
LEMMA SecondNumbers ==
  ASSUME LogOK, SecondShape, retentionLimit \in Nat, retentionLimit >= 1
  PROVE  /\ head \in Nat /\ tail \in Nat /\ head <= tail
         /\ tail = Len(recorded) - lifeStart /\ tail - head = AtMost(tail, retentionLimit)
         /\ \A i \in head .. tail - 1 : i \in DOMAIN entries /\ entries[i] \in Results
<1>1. PICK n \in Nat, m \in Nat, t \in Nat, limit \in Nat :
        /\ n = Len(recorded) /\ m = lifeStart /\ m <= n /\ t = tail /\ t = n - m
        /\ limit = retentionLimit /\ limit >= 1
  <2>1. PICK n \in Nat : n = Len(recorded)
    BY DEF LogOK
  <2>2. PICK m \in Nat : m = lifeStart /\ m <= n
    BY <2>1 DEF LogOK
  <2>3. tail = n - m /\ n - m \in Nat
    BY <2>1, <2>2 DEF SecondShape
  <2> QED BY <2>1, <2>2, <2>3
<1>2. PICK h \in Nat : h = head /\ h = (IF t > limit THEN t - limit ELSE 0)
  <2>1. (IF t > limit THEN t - limit ELSE 0) \in Nat
    BY <1>1
  <2>2. head = (IF t > limit THEN t - limit ELSE 0)
    BY <1>1 DEF SecondShape
  <2> QED BY <2>1, <2>2
<1>3. h <= t /\ t - h = AtMost(t, limit)
  BY <1>1, <1>2 DEF AtMost
<1>4. \A i \in h .. t - 1 : i \in DOMAIN entries /\ entries[i] = recorded[m + i + 1] /\ m + i + 1 \in 1 .. n
  BY <1>1, <1>2 DEF SecondShape
<1>5. \A k \in 1 .. n : recorded[k] \in Results
  BY <1>1 DEF LogOK
<1> QED BY <1>1, <1>2, <1>3, <1>4, <1>5

LEMMA SecondWindow ==
  ASSUME LogOK, SecondShape, retentionLimit \in Nat, retentionLimit >= 1
  PROVE  Store!ReadAllEntries = Window
<1>1. PICK h \in Nat, t \in Nat : h = head /\ t = tail /\ h <= t
  BY SecondNumbers
<1>2. \A i \in h .. t - 1 : i \in DOMAIN entries
  BY <1>1, SecondNumbers
<1>3. PICK c \in Nat : c = t - h
  BY <1>1
<1>4. Store!SaturatingSub(t, h) = c
  BY <1>1, <1>3 DEF Store!SaturatingSub
<1>5. PICK slots : slots = Store!Run(h, c)
  OBVIOUS
<1>6. /\ slots \in Seq(Nat) /\ Len(slots) = c /\ Store!StrictlyIncreasing(slots)
      /\ Store!Elements(slots) = h .. h + c - 1
  BY <1>5, StoreAssumptions, Store!Consecutive, Zenon
<1>7. \A k \in 1 .. c : slots[k] = h + k - 1
  BY <1>5 DEF Store!Run
<1>8. Store!Elements(slots) \subseteq DOMAIN entries
  <2>1. h + c - 1 = t - 1
    BY <1>1, <1>3
  <2> QED BY <1>2, <1>6, <2>1
<1>9. Store!Keep(slots, DOMAIN entries) = slots
  BY <1>6, <1>8, StoreAssumptions, Store!KeepAllIndices, Zenon
<1>10. Store!ReadAllEntries = [k \in 1 .. c |-> entries[slots[k]]]
  <2>1. Store!ReadAllEntries = Store!ReadSlots(slots)
    BY <1>1, <1>4, <1>5 DEF Store!ReadAllEntries, Store!ReadRange
  <2> QED BY <1>6, <1>9, <2>1 DEF Store!ReadSlots
<1>11. Window = [k \in 1 .. c |-> entries[h + k - 1]]
  BY <1>1, <1>3 DEF Window, Store!Window
<1>12. [k \in 1 .. c |-> entries[slots[k]]] = [k \in 1 .. c |-> entries[h + k - 1]]
  BY <1>7, Zenon
<1> QED BY <1>10, <1>11, <1>12

\* initialize lifts a pause and leaves its metadata; renounce_admin moves no guard.
LEMMA InitializeGuards ==
  ASSUME NEW newAdmin \in Addresses, NEW newOperator, Initialize(newAdmin, newOperator), admin' # admin
  PROVE  paused' = FALSE /\ UNCHANGED pauseInfo
BY DEF Initialize, Roles!Initialize, Roles!Refused, Roles!roleVars

LEMMA RenounceGuards ==
  ASSUME NEW caller, RenounceAdmin(caller)
  PROVE  UNCHANGED guardVars
BY DEF RenounceAdmin, Roles!RenounceAdmin, Roles!Refused, guardVars, Roles!guardVars

\* In a second life every change of the history is a decision.
LEMMA SecondIndexesKept ==
  ASSUME LifeInv, SecondLife, Indexes, Operate
  PROVE  Indexes'
<1>1. CASE UNCHANGED settledVars
  BY <1>1, IndexesStay DEF settledVars, historyVars
<1>2. CASE storageVersion # STORAGE_VERSION
  BY <1>1, <1>2, OnlyGranted
<1>3. ASSUME storageVersion = STORAGE_VERSION, ~UNCHANGED settledVars PROVE Indexes'
  <2>1. adminRenounced /\ SecondShape /\ LogOK /\ retentionLimit \in 1 .. MAX_HISTORY_SIZE /\ Known
    BY <1>3 DEF SecondLife, LifeInv
  <2>2. PICK caller, severity : \E outage \in OutageIds, mttr \in Mttrs : CalculateSla(caller, outage, severity, mttr)
    BY <1>3, <2>1, OnlyGranted
  <2>3. PICK r \in Results : Settle(severity, r)
    BY <1>3, <2>1, <2>2, SlaCounts
  <2>4. Store!Record(r)
    BY <2>3, SameWrites, Zenon DEF Settle
  <2>5. retentionLimit \in Nat /\ retentionLimit >= 1
    BY <2>1, CalculatorAssumption
  <2>6. head \in Nat /\ tail \in Nat /\ head <= tail
    BY <2>1, <2>5, SecondNumbers
  <2>7. \A i \in head .. tail - 1 : i \in DOMAIN entries /\ entries[i] \in Results
    BY <2>1, <2>5, SecondNumbers
  <2> QED BY <2>4, <2>5, <2>6, <2>7, IndexesKept
<1> QED BY <1>1, <1>2, <1>3

LEMMA ReaderInvStep == LifeInv /\ ReaderInv /\ LifeNext => ReaderInv'
<1> SUFFICES ASSUME LifeInv, ReaderInv, LifeNext PROVE ReaderInv'
  OBVIOUS
<1>1. CASE UNCHANGED << roleVars, guardVars, configVars, settledVars >>
  <2>1. Indexes => Indexes'
    BY <1>1, IndexesStay DEF settledVars, historyVars
  <2> QED BY <1>1, <2>1 DEF ReaderInv, SecondLife, roleVars, guardVars, configVars
<1>2. ASSUME NEW caller \in Addresses, NEW other, Initialize(caller, other) PROVE ReaderInv'
  <2>1. CASE /\ admin = NoAddress /\ admin' = caller /\ storageVersion' = STORAGE_VERSION
             /\ UNCHANGED adminRenounced /\ InitializeStorage
    <3>1. /\ head' = 0 /\ tail' = 0 /\ historyLen' = 0 /\ custom' = NoCustom
          /\ UNCHANGED << entries, outageIndex >>
      BY <2>1 DEF InitializeStorage, EmptyCounters
    <3>2. paused' = FALSE /\ UNCHANGED pauseInfo
      BY <1>2, <2>1, AddressAssumption, InitializeGuards
    <3>3. ~SecondLife
      BY <2>1 DEF SecondLife
    <3>4. Indexes'
      <4>1. Indexes
        BY <3>3, ExactIndexes DEF LifeInv, FirstShape
      <4>2. head' .. tail' - 1 = {}
        BY <3>1
      <4>3. historyLen' = tail' - head'
        BY <3>1
      <4> QED BY <3>1, <4>1, <4>2, <4>3 DEF Indexes, Indexed
    <3>5. IsFiniteSet(DOMAIN custom')
      BY <3>1, FS_EmptySet DEF NoCustom
    <3>6. ~SecondLife' => ~pauseInfo
      BY <2>1, <3>3, AddressAssumption DEF SecondLife, ReaderInv, LifeInv
    <3> QED BY <2>1, <3>2, <3>3, <3>4, <3>5, <3>6 DEF ReaderInv
  <2> QED BY <1>1, <1>2, <2>1, InitializeSays
<1>3. ASSUME NEW caller, RenounceAdmin(caller) PROVE ReaderInv'
  <2>1. UNCHANGED << configVars, settledVars, guardVars >>
    BY <1>3, RenounceSays, RenounceGuards
  <2>2. CASE /\ storageVersion = STORAGE_VERSION /\ ~adminRenounced
             /\ adminRenounced' = TRUE /\ admin' = NoAddress /\ UNCHANGED storageVersion
    BY <2>1, <2>2 DEF ReaderInv, SecondLife, guardVars, configVars
  <2> QED BY <1>1, <1>3, <2>1, <2>2, RenounceSays
<1>4. ASSUME NEW caller, Migrate(caller) PROVE ReaderInv'
  <2>1. UNCHANGED << admin, adminRenounced, operator, guardVars >>
    BY <1>4, MigrateSays
  <2>2. CASE UNCHANGED << storageVersion, configVars, settledVars, legacy >>
    BY <1>1, <2>1, <2>2 DEF roleVars
  <2>3. CASE storageVersion # STORAGE_VERSION /\ storageVersion' = STORAGE_VERSION /\ admin # NoAddress /\ UNCHANGED custom
    <3>1. ~SecondLife
      BY <2>3 DEF SecondLife, LifeInv, Untouched
    <3> QED BY <2>1, <2>3, <3>1 DEF ReaderInv, SecondLife, guardVars
  <2> QED BY <1>4, <2>2, <2>3, MigrateSays
<1>5. CASE Operate
  <2>1. UNCHANGED << storageVersion, admin, adminRenounced >>
    BY <1>5, OperateTells DEF roleVars
  <2>2. IsFiniteSet(DOMAIN custom')
    BY <1>5, CustomStaysCountable DEF ReaderInv
  <2>3. SecondLife' => Indexes'
    BY <1>5, <2>1, SecondIndexesKept DEF ReaderInv, SecondLife
  <2>4. storageVersion # STORAGE_VERSION => UNCHANGED << paused, pauseInfo >>
    BY <1>5, OnlyGranted DEF guardVars
  <2>5. /\ paused' \in BOOLEAN /\ pauseInfo' \in BOOLEAN
        /\ ~SecondLife' => pauseInfo' = paused'
    <3>1. SecondLife' = SecondLife
      BY <2>1 DEF SecondLife
    <3>2. CASE UNCHANGED << paused, pauseInfo >>
      BY <3>1, <3>2 DEF ReaderInv
    <3>3. CASE paused' = TRUE /\ pauseInfo' = TRUE
      BY <3>3
    <3>4. CASE paused' = FALSE /\ pauseInfo' = FALSE
      BY <3>4
    <3> QED BY <1>5, <3>2, <3>3, <3>4, GuardsMove
  <2>6. admin' = NoAddress /\ ~adminRenounced' => ~paused'
    BY <2>1, <2>4 DEF ReaderInv, LifeInv
  <2>7. admin' \in Addresses \cup {NoAddress}
    BY <2>1 DEF ReaderInv
  <2> QED BY <2>2, <2>3, <2>5, <2>6, <2>7 DEF ReaderInv
<1> QED BY <1>2, <1>3, <1>4, <1>5 DEF LifeNext

LEMMA ReaderInvAlways == LifeSpec => []ReaderInv
<1>1. UNCHANGED contractVars => (ReaderInv => ReaderInv')
  BY IndexesStay DEF contractVars, vars, ReaderInv, SecondLife, roleVars, guardVars, configVars, settledVars, historyVars
<1>2. LifeInv /\ ReaderInv /\ [LifeNext]_contractVars => ReaderInv'
  BY <1>1, ReaderInvStep
<1> QED BY <1>2, ReaderInvInit, LifeInvAlways, PTL DEF LifeSpec

-----------------------------------------------------------------------------

\* The history as its readers find it in either life.
LEMMA RowsRead ==
  ASSUME LifeInv, ReaderInv
  PROVE  /\ Indexes
         /\ head \in Nat /\ tail \in Nat /\ head <= tail
         /\ \A i \in head .. tail - 1 : i \in DOMAIN entries /\ entries[i] \in Results
         /\ History!ReadAllEntries = Window
         /\ ~SecondLife => DOMAIN entries = head .. tail - 1 /\ Indexed = RetainedOutages
<1>1. CASE ~SecondLife
  <2>1. Store!StoreInv
    BY <1>1 DEF LifeInv, FirstShape
  <2> QED BY <1>1, <2>1, ExactIndexes, WindowIs, SameReads DEF Store!StoreInv, Store!StoreTypeOK
<1>2. CASE SecondLife
  <2>1. LogOK /\ SecondShape /\ retentionLimit \in Nat /\ retentionLimit >= 1
    BY <1>2, CalculatorAssumption DEF LifeInv
  <2> QED BY <1>2, <2>1, SecondNumbers, SecondWindow, SameReads DEF ReaderInv
<1> QED BY <1>1, <1>2

\* The estimate is a sum of sizes.
LEMMA FootprintIs ==
  ASSUME IsFiniteSet(DOMAIN custom), NEW retentionKey \in BOOLEAN,
         NEW rows \in Nat, rows = SaturatingSub(tail, head), NEW outages \in Nat, outages = Cardinality(OutagesRetained)
  PROVE  StorageFootprintEstimate(retentionKey) \in Nat
<1>1. PICK c \in Nat : c = Cardinality(DOMAIN custom)
  BY FS_CardinalityType
<1>2. \A p, b : BytesWhen(p, b) = 0 \/ BytesWhen(p, b) = b
  BY DEF BytesWhen
<1>3. PICK b1 \in Nat : b1 = BytesWhen(frozen, 20)
  BY <1>2
<1>4. PICK b2 \in Nat : b2 = BytesWhen(pendingAdmin # NoAddress, 80)
  BY <1>2
<1>5. PICK b3 \in Nat : b3 = BytesWhen(pendingAdminAt # NoTimestamp, 24)
  BY <1>2
<1>6. PICK b4 \in Nat : b4 = BytesWhen(pendingOperator # NoAddress, 80)
  BY <1>2
<1>7. PICK b5 \in Nat : b5 = BytesWhen(pendingOperatorAt # NoTimestamp, 24)
  BY <1>2
<1>8. PICK b6 \in Nat : b6 = BytesWhen(pauseInfo, 200)
  BY <1>2
<1>9. PICK b7 \in Nat : b7 = BytesWhen(retentionKey, 16)
  BY <1>2
<1>10. PICK b8 \in Nat : b8 = BytesWhen(lastUpdate # NoUpdate, 16)
  BY <1>2
<1>11. PICK b9 \in Nat : b9 = BytesWhen(adminRenounced, 20)
  BY <1>2
<1>12. PICK b10 \in Nat : b10 = BytesWhen(registry # [h \in {} |-> DefaultConfig], 200)
  BY <1>2
<1>13. StorageFootprintEstimate(retentionKey) =
         1332 + rows * (120 + 16 + 20) + outages * 24 + b1 + b2 + b3 + b4 + b5 + 48 + c * 150 + b6 + b7 + b8 + b9 + b10
  BY <1>1, <1>3, <1>4, <1>5, <1>6, <1>7, <1>8, <1>9, <1>10, <1>11, <1>12 DEF StorageFootprintEstimate
<1> QED BY <1>1, <1>13

\* A rent is the smallest that covers the bytes.
LEMMA RentIsCeiling ==
  ASSUME NEW f \in Nat
  PROVE  RentEstimate(f) * 20480 >= f /\ (RentEstimate(f) - 1) * 20480 < f
<1>1. PICK n \in Nat, q \in Int, m \in Int :
        /\ n = f * 1000 /\ q = n \div 20480000 /\ m = n % 20480000
        /\ n = q * 20480000 + m /\ 0 <= m /\ m < 20480000
  OBVIOUS
<1>2. RentEstimate(f) = q + (IF m > 0 THEN 1 ELSE 0)
  BY <1>1 DEF RentEstimate, BytesWhen
<1> QED BY <1>1, <1>2

\* A migrated contract has its configuration.
LEMMA ConfigReadable ==
  ASSUME LifeInv, CheckVersion = Ok
  PROVE  RequireReadableConfig = Ok
<1>1. config \in [Canonical -> Configurations]
  BY VersionOpens DEF LifeInv, Known
<1>2. "low" \in Canonical
  BY DEF Canonical, CanonicalSeverities, Elements
<1>3. config # NoConfig
  BY <1>1, <1>2 DEF NoConfig
<1> QED BY <1>3 DEF RequireReadableConfig, Require

LEMMA ProbesTell ==
  ASSUME LifeInv, ReaderInv
  PROVE  ProbesAgree
<1>1. CheckVersion = Ok <=> storageVersion = STORAGE_VERSION
  BY VersionOpens
<1>2. (\E a \in Addresses : RequireAdmin(a) = Ok) <=> ~adminRenounced /\ admin # NoAddress
  <2>1. ASSUME NEW a \in Addresses, RequireAdmin(a) = Ok PROVE ~adminRenounced /\ admin # NoAddress
    BY <2>1 DEF RequireAdmin, Require, Ok, ??
  <2>2. ASSUME ~adminRenounced, admin # NoAddress PROVE admin \in Addresses /\ RequireAdmin(admin) = Ok
    BY <2>2 DEF ReaderInv, RequireAdmin, Require, Ok, ??
  <2> QED BY <2>1, <2>2
<1>3. Healthcheck.ready <=> storageVersion = STORAGE_VERSION /\ ~adminRenounced
  <2> DEFINE status == IF storageVersion = 0 THEN "noinit"
                       ELSE IF storageVersion # STORAGE_VERSION THEN "migrate"
                       ELSE IF adminRenounced THEN "noadmin"
                       ELSE "ok"
  <2>1. Healthcheck.ready = (status = "ok")
    BY DEF Healthcheck
  <2>2. status = "ok" <=> storageVersion = STORAGE_VERSION /\ ~adminRenounced
    BY DEF STORAGE_VERSION
  <2> HIDE DEF status
  <2> QED BY <2>1, <2>2
<1>4. storageVersion = STORAGE_VERSION /\ ~adminRenounced => admin # NoAddress
  BY DEF LifeInv
<1>5. Stamped = Ok => (Healthcheck.status = "migrate" <=> MigrationState.needs_migration)
  BY DEF Stamped, Require, Ok, Healthcheck, MigrationState, STORAGE_VERSION
<1>6. ContractInfo.needs_migration # MigrationComplete
  BY DEF ContractInfo, MigrationComplete
<1>7. CheckVersion = Ok => FingerprintStatus = Ok
  <2>1. CheckVersion = Ok => Stamped = Ok
    BY VersionOpens DEF Stamped, Require, STORAGE_VERSION
  <2> QED BY <2>1, ConfigReadable DEF FingerprintStatus, ??
<1> QED BY <1>1, <1>2, <1>3, <1>4, <1>5, <1>6, <1>7 DEF ProbesAgree

LEMMA AuditTells ==
  ASSUME LifeInv, ReaderInv
  PROVE  AuditAgrees
<1>1. AuditStatus = Ok <=> GetAdmin = Ok /\ GetOperator = Ok
  <2> DEFINE v == CheckVersion
             a == Require(admin # NoAddress, "NotInitialized")
             o == Require(operator # NoAddress, "NotInitialized")
             c == RequireReadableConfig
  <2>1. v = Ok => c = Ok
    BY ConfigReadable
  <2>2. AuditStatus = (((v ?? a) ?? o) ?? c) /\ GetAdmin = (v ?? a) /\ GetOperator = (v ?? o)
    BY DEF AuditStatus, GetAdmin, GetOperator
  <2> HIDE DEF v, a, o, c
  <2> QED BY <2>1, <2>2, ChainOk DEF ??
<1>2. historyLen = Len(History!ReadAllEntries) /\ historyLen = tail - head
  <2>1. PICK n \in Nat : n = tail - head
    BY RowsRead
  <2>2. History!ReadAllEntries = [k \in 1 .. n |-> entries[head + k - 1]]
    BY <2>1, RowsRead DEF Window, Store!Window
  <2> QED BY <2>1, <2>2, RowsRead DEF Indexes
<1>3. stats.total_calculations >= historyLen \/ stats.total_calculations = COUNTER_MAX
  <2>1. HistoryIsThisLife /\ stats = TotalsOf(ThisLife)
    BY InvShowsLife DEF ShowsThisLife, LifeInv
  <2>2. Len(History!ReadAllEntries) <= Len(ThisLife)
    BY <2>1 DEF HistoryIsThisLife
  <2>3. stats.total_calculations = AtMost(Len(ThisLife), COUNTER_MAX)
    BY <2>1 DEF TotalsOf
  <2> QED BY <1>2, <2>2, <2>3 DEF AtMost
<1>4. ~SecondLife => (IF pauseInfo THEN 1 ELSE 0) = (IF paused THEN 1 ELSE 0)
  BY DEF ReaderInv
<1>5. /\ AuditState.history_len = historyLen /\ AuditState.paused = paused
      /\ AuditState.config_version_hash = ConfigVersionHash /\ AuditState.stats = stats
      /\ AuditState.pause_info = (IF pauseInfo THEN 1 ELSE 0)
      /\ VersionInfo.is_paused = paused /\ Fingerprint.config_version_hash = ConfigVersionHash
  BY DEF AuditState, VersionInfo, Fingerprint
<1> QED BY <1>1, <1>2, <1>3, <1>4, <1>5 DEF AuditAgrees

LEMMA FootprintTells ==
  ASSUME LifeInv, ReaderInv
  PROVE  SubKeysCounted /\ RentCovers
<1>1. /\ Indexes /\ head \in Nat /\ tail \in Nat /\ head <= tail
      /\ \A i \in head .. tail - 1 : i \in DOMAIN entries /\ entries[i] \in Results
      /\ History!ReadAllEntries = Window
      /\ ~SecondLife => DOMAIN entries = head .. tail - 1 /\ Indexed = RetainedOutages
  BY RowsRead
<1>2. OutagesRetained = RetainedOutages
  <2>1. PICK n \in Nat : n = tail - head
    BY <1>1
  <2>2. Window = [k \in 1 .. n |-> entries[head + k - 1]]
    BY <2>1 DEF Window, Store!Window
  <2>3. Elements(Window) = { entries[i] : i \in head .. tail - 1 }
    <3>1. Elements(Window) = { Window[k] : k \in 1 .. n }
      BY <2>2 DEF Elements
    <3>2. \A k \in 1 .. n : head + k - 1 \in head .. tail - 1 /\ Window[k] = entries[head + k - 1]
      BY <1>1, <2>1, <2>2
    <3>3. \A i \in head .. tail - 1 : i - head + 1 \in 1 .. n /\ head + (i - head + 1) - 1 = i
      BY <1>1, <2>1
    <3>4. ASSUME NEW e \in Elements(Window) PROVE e \in { entries[i] : i \in head .. tail - 1 }
      BY <3>1, <3>2, <3>4
    <3>5. ASSUME NEW i \in head .. tail - 1 PROVE entries[i] \in Elements(Window)
      <4>1. PICK k \in 1 .. n : head + k - 1 = i
        BY <3>3
      <4> QED BY <3>1, <3>2, <4>1
    <3> QED BY <3>4, <3>5
  <2> QED BY <1>1, <2>3 DEF OutagesRetained, RetainedOutages
<1>3. RetainedOutages \subseteq Indexed
  <2>1. ASSUME NEW i \in head .. tail - 1 PROVE entries[i].outage_id \in Indexed
    <3>1. entries[i].outage_id \in OutageIds
      BY <1>1, CalculatorAssumption
    <3>2. i \in Elements(outageIndex[entries[i].outage_id])
      BY <1>1 DEF Indexes
    <3>3. Elements(<< >>) = {}
      BY DEF Elements
    <3> QED BY <3>1, <3>2, <3>3 DEF Indexed
  <2> QED BY <2>1 DEF RetainedOutages
<1>4. PICK rows \in Nat, keys \in Nat : rows = tail - head /\ keys = Cardinality(DOMAIN entries) /\ rows <= keys
  <2>1. IsFiniteSet(DOMAIN entries) /\ Cardinality(DOMAIN entries) \in Nat
    BY <1>1, FS_CardinalityType DEF Indexes
  <2>2. Cardinality(head .. tail - 1) = tail - head
    BY <1>1, FS_Interval
  <2>3. head .. tail - 1 \subseteq DOMAIN entries
    BY <1>1
  <2>4. Cardinality(head .. tail - 1) <= Cardinality(DOMAIN entries)
    BY <2>1, <2>3, FS_Subset
  <2> QED BY <1>1, <2>1, <2>2, <2>4
<1>5. rows = SaturatingSub(tail, head)
  BY <1>1, <1>4 DEF SaturatingSub
<1>6. SubKeysCounted
  <2>1. ASSUME ~SecondLife PROVE rows = keys /\ OutagesRetained = Indexed
    <3>1. Cardinality(head .. tail - 1) = tail - head
      BY <1>1, FS_Interval
    <3> QED BY <1>1, <1>2, <1>4, <2>1, <3>1
  <2> QED BY <1>2, <1>3, <1>4, <1>5, <2>1 DEF SubKeysCounted
<1>7. PICK outages \in Nat : outages = Cardinality(OutagesRetained)
  <2>1. IsFiniteSet(RetainedOutages)
    BY <1>1, <1>3, FS_Subset DEF Indexes
  <2> QED BY <1>2, <2>1, FS_CardinalityType
<1>8. ASSUME NEW retentionKey \in BOOLEAN
      PROVE  LET estimate == StorageFootprintEstimate(retentionKey)
             IN  /\ RentEstimate(estimate) * 20480 >= estimate
                 /\ (RentEstimate(estimate) - 1) * 20480 < estimate
  <2>1. PICK estimate \in Nat : estimate = StorageFootprintEstimate(retentionKey)
    BY <1>5, <1>7, FootprintIs DEF ReaderInv
  <2> QED BY <2>1, RentIsCeiling
<1> QED BY <1>6, <1>8 DEF RentCovers

LEMMA InvReaders == LifeInv /\ ReaderInv => ReadersAgree
BY ProbesTell, AuditTells, FootprintTells DEF ReadersAgree

(***************************************************************************)
(* Probes, audit state and fingerprint tell one story, and the footprint   *)
(* charges for the history sub-keys that are stored, before a migration,   *)
(* in a first life and in a second one.                                    *)
(***************************************************************************)
THEOREM ReadersAlwaysAgree == LifeSpec => []ReadersAgree
BY InvReaders, LifeInvAlways, ReaderInvAlways, PTL

-----------------------------------------------------------------------------
(* The table of the methods: ApiAsDescribed                                  *)
(*                                                                           *)
(* Each entry point answers with a code of the failure schema or Ok, changes *)
(* nothing when it is refused, and is granted only past the check of the     *)
(* party the table lists.                                                    *)

Codes == Elements(FailureSchema)

Statuses == Codes \cup {Ok}

Storage == << roleVars, guardVars, configVars, settledVars, legacy >>

\* One step of ApiAsDescribed.
ApiStep ==
  \/ UNCHANGED Storage /\ (~Granted => reply'.status \in Codes)
  \/ LET method == PublicApi(reply'.call)
     IN  Granted /\ method.mutates /\ Authorised(method.auth, reply'.caller)

LEMMA CodesListed ==
  Codes = { "AlreadyInitialized", "NotInitialized", "Unauthorized", "ConfigNotFound", "VersionMismatch",
            "ContractPaused", "NoPendingTransfer", "InvalidThreshold", "InvalidPenalty", "InvalidReward",
            "InvalidSeverity", "RetentionLimitOutOfRange", "DuplicateOutageInput", "InvalidPenaltyAmount",
            "InvalidRewardAmount", "ConfigFrozen", "InvalidInput", "SeverityNotInSet", "OutageRecalcLimit",
            "ProposalExpired", "AdminRenounced", "ExposureOverflow" }
<1>1. PICK schema : schema = FailureSchema
  OBVIOUS
<1>2. Len(schema) = 22
  BY <1>1 DEF FailureSchema
<1>3. Codes = { schema[i] : i \in 1 .. 22 }
  BY <1>1, <1>2 DEF Codes, Elements
<1>4. /\ schema[1] = "AlreadyInitialized" /\ schema[2] = "NotInitialized" /\ schema[3] = "Unauthorized"
      /\ schema[4] = "ConfigNotFound" /\ schema[5] = "VersionMismatch" /\ schema[6] = "ContractPaused"
      /\ schema[7] = "NoPendingTransfer" /\ schema[8] = "InvalidThreshold" /\ schema[9] = "InvalidPenalty"
      /\ schema[10] = "InvalidReward" /\ schema[11] = "InvalidSeverity"
      /\ schema[12] = "RetentionLimitOutOfRange" /\ schema[13] = "DuplicateOutageInput"
      /\ schema[14] = "InvalidPenaltyAmount" /\ schema[15] = "InvalidRewardAmount"
      /\ schema[16] = "ConfigFrozen" /\ schema[17] = "InvalidInput" /\ schema[18] = "SeverityNotInSet"
      /\ schema[19] = "OutageRecalcLimit" /\ schema[20] = "ProposalExpired"
      /\ schema[21] = "AdminRenounced" /\ schema[22] = "ExposureOverflow"
  BY <1>1 DEF FailureSchema
<1>5. \A i \in 1 .. 22 :
        \/ i = 1 \/ i = 2 \/ i = 3 \/ i = 4 \/ i = 5 \/ i = 6 \/ i = 7 \/ i = 8 \/ i = 9 \/ i = 10 \/ i = 11
        \/ i = 12 \/ i = 13 \/ i = 14 \/ i = 15 \/ i = 16 \/ i = 17 \/ i = 18 \/ i = 19 \/ i = 20 \/ i = 21
        \/ i = 22
  OBVIOUS
<1> HIDE DEF Codes
<1> QED BY <1>3, <1>4, <1>5

\* A chain of checks answers with one of their codes.
LEMMA ChainTells ==
  ASSUME NEW a \in Statuses, NEW b \in Statuses
  PROVE  a ?? b \in Statuses
BY DEF ??

LEMMA RequireTells ==
  ASSUME NEW condition, NEW error \in Codes
  PROVE  Require(condition, error) \in Statuses
BY DEF Require, Statuses

LEMMA ChecksTell ==
  /\ CheckVersion \in Statuses
  /\ RequireNotPaused \in Statuses
  /\ RequireNotFrozen \in Statuses
  /\ \A caller : RequireAdmin(caller) \in Statuses /\ RequireOperator(caller) \in Statuses
<1> USE CodesListed
<1>1. /\ Require(storageVersion # 0, "NotInitialized") \in Statuses
      /\ Require(storageVersion = STORAGE_VERSION, "VersionMismatch") \in Statuses
  BY RequireTells
<1>2. ASSUME NEW caller
      PROVE  /\ Require(~adminRenounced, "AdminRenounced") \in Statuses
             /\ Require(admin # NoAddress, "NotInitialized") \in Statuses
             /\ Require(caller = admin, "Unauthorized") \in Statuses
             /\ Require(operator # NoAddress, "NotInitialized") \in Statuses
             /\ Require(caller = operator, "Unauthorized") \in Statuses
  BY RequireTells
<1>3. RequireNotPaused \in Statuses /\ RequireNotFrozen \in Statuses
  BY RequireTells DEF RequireNotPaused, RequireNotFrozen
<1>4. ASSUME NEW caller PROVE RequireAdmin(caller) \in Statuses /\ RequireOperator(caller) \in Statuses
  BY <1>2, ChainTells, Zenon DEF RequireAdmin, RequireOperator
<1> QED BY <1>1, <1>3, <1>4, ChainTells, Zenon DEF CheckVersion

\* Who passes: the admin, or the operator.
LEMMA AdminPasses ==
  ASSUME NEW caller, RequireAdmin(caller) = Ok
  PROVE  caller = admin
<1>1. Require(caller = admin, "Unauthorized") = Ok
  BY ChainOk, ZenonT(60) DEF RequireAdmin
<1> QED BY <1>1 DEF Require, Ok

LEMMA OperatorPasses ==
  ASSUME NEW caller, RequireOperator(caller) = Ok
  PROVE  caller = operator
<1>1. Require(caller = operator, "Unauthorized") = Ok
  BY ChainOk, Zenon DEF RequireOperator
<1> QED BY <1>1 DEF Require, Ok

LEMMA GatePasses ==
  ASSUME NEW caller, AdminGate(caller) = Ok
  PROVE  caller = admin
<1>1. RequireAdmin(caller) = Ok
  BY ChainOk, ZenonT(60) DEF AdminGate
<1> QED BY <1>1, AdminPasses

LEMMA GateTells == \A caller : AdminGate(caller) \in Statuses
BY ChecksTell, ChainTells, Zenon DEF AdminGate

\* A method as the table has it.
LEMMA ListedMethods ==
  /\ \A method \in AdminMethods : PublicApi(method) = Method(TRUE, "admin")
  /\ PublicApi("calculate_sla") = Method(TRUE, "operator")
  /\ PublicApi("initialize") = Method(TRUE, "multi")
BY DEF PublicApi, AdminMethods

LEMMA AdminStep ==
  ASSUME NEW call \in AdminMethods, NEW caller, NEW status \in Statuses,
         reply' = [call |-> call, caller |-> caller, status |-> status],
         status = Ok => caller = admin,
         ~Granted => UNCHANGED Storage
  PROVE  ApiStep /\ reply'.status \in Statuses
<1>1. PublicApi(reply'.call) = Method(TRUE, "admin")
  BY ListedMethods
<1>2. CASE Granted
  <2>1. reply'.caller = admin
    BY <1>2 DEF Granted
  <2> QED BY <1>1, <1>2, <2>1 DEF ApiStep, Authorised, Method
<1>3. CASE ~Granted
  BY <1>3 DEF Granted, ApiStep, Statuses
<1> QED BY <1>2, <1>3

-----------------------------------------------------------------------------
(* The entry points *)

LEMMA BoundsTell == \A c : ValidateGeneralBounds(c) \in Statuses
<1> TAKE c
<1>1. /\ Require(0 < c.threshold /\ c.threshold <= 1440, "InvalidThreshold") \in Statuses
      /\ Require(0 < c.penalty /\ c.penalty <= 10000, "InvalidPenalty") \in Statuses
      /\ Require(0 < c.reward /\ c.reward <= 100000, "InvalidReward") \in Statuses
  BY CodesListed, RequireTells
<1>2. (Require(0 < c.threshold /\ c.threshold <= 1440, "InvalidThreshold")
         ?? Require(0 < c.penalty /\ c.penalty <= 10000, "InvalidPenalty")) \in Statuses
  BY <1>1, ChainTells
<1> QED BY <1>1, <1>2, ChainTells DEF ValidateGeneralBounds

LEMMA ConfigTells == \A severity, c : AcceptsConfig(severity, c) \in Statuses
<1> TAKE severity, c
<1> USE CodesListed, RequireTells
<1>1. ValidateConfig(severity, c) \in Statuses
  <2>1. /\ Require(severity \in Canonical, "InvalidSeverity") \in Statuses
        /\ Require(c.threshold <= MaxThreshold[severity], "InvalidThreshold") \in Statuses
        /\ Require(MinPenalty[severity] <= c.penalty /\ c.penalty <= MaxPenalty[severity], "InvalidPenalty")
             \in Statuses
        /\ Require(c.penalty * 3 < c.reward * 2, "InvalidReward") \in Statuses
    OBVIOUS
  <2> QED BY ONLY <2>1, BoundsTell, ChainTells, Zenon DEF ValidateConfig
<1>2. ValidatePenaltyOrdering(severity, c) \in Statuses
  <2>1. /\ Require(severity # "low" => c.penalty >= config[NextLower[severity]].penalty, "InvalidPenalty")
             \in Statuses
        /\ Require(severity \in {"high", "medium"} => c.penalty <= config[NextHigher[severity]].penalty,
                   "InvalidPenalty") \in Statuses
    OBVIOUS
  <2> QED BY ONLY <2>1, ChainTells, Zenon DEF ValidatePenaltyOrdering
<1>3. ValidateThresholdOrdering(severity, c) \in Statuses
  <2>1. /\ Require(severity # "low" => c.threshold <= config[NextLower[severity]].threshold, "InvalidThreshold")
             \in Statuses
        /\ Require(severity # "critical" => c.threshold >= config[NextHigher[severity]].threshold,
                   "InvalidThreshold") \in Statuses
    OBVIOUS
  <2> QED BY ONLY <2>1, ChainTells, Zenon DEF ValidateThresholdOrdering
<1> QED BY ONLY <1>1, <1>2, <1>3, ChainTells, Zenon DEF AcceptsConfig

LEMMA ConfigureDescribed ==
  ASSUME NEW caller, NEW severity, NEW c, Configure(caller, severity, c), UNCHANGED legacy
  PROVE  ApiStep /\ reply'.status \in Statuses
<1>1. UNCHANGED << roleVars, guardVars, settledVars >> /\ (Granted \/ UNCHANGED configVars)
  BY DEF Configure, Configured, SetConfig, SetCustomSeverity, ConfigRefused
<1>2. ~Granted => UNCHANGED Storage
  BY <1>1 DEF Storage
<1>3. CASE SetConfig(caller, severity, c)
  <2> DEFINE status == AdminGate(caller) ?? AcceptsConfig(severity, c)
  <2>1. status \in Statuses
    BY GateTells, ConfigTells, ChainTells, Zenon
  <2>2. status = Ok => caller = admin
    BY ChainOk, GatePasses, Zenon
  <2>3. reply' = [call |-> "set_config", caller |-> caller, status |-> status]
    BY <1>3 DEF SetConfig, Answer
  <2> HIDE DEF status
  <2> QED BY <1>2, <2>1, <2>2, <2>3, AdminStep DEF AdminMethods
<1>4. CASE SetCustomSeverity(caller, severity, c)
  <2> DEFINE named  == Require(severity \notin Canonical, "InvalidSeverity")
             status == AdminGate(caller) ?? named ?? ValidateGeneralBounds(c)
  <2>1. named \in Statuses
    BY CodesListed, RequireTells
  <2>2. (AdminGate(caller) ?? named) \in Statuses
    BY <2>1, GateTells, ChainTells
  <2> HIDE DEF named
  <2>3. status \in Statuses
    <3>1. PICK gate : gate = (AdminGate(caller) ?? named)
      OBVIOUS
    <3>2. ValidateGeneralBounds(c) \in Statuses
      BY BoundsTell
    <3>3. (gate ?? ValidateGeneralBounds(c)) \in Statuses
      BY <2>2, <3>1, <3>2, ChainTells
    <3> QED BY <3>1, <3>3, Zenon
  <2>4. ASSUME status = Ok PROVE caller = admin
    <3>1. (AdminGate(caller) ?? named) = Ok
      BY <2>4, ChainOk, Zenon
    <3>2. AdminGate(caller) = Ok
      BY <3>1, ChainOk, Zenon
    <3> QED BY <3>2, GatePasses
  <2>5. reply' = [call |-> "set_custom_severity", caller |-> caller, status |-> status]
    BY <1>4 DEF SetCustomSeverity, Answer, named
  <2> HIDE DEF status
  <2> QED BY <1>2, <2>3, <2>4, <2>5, AdminStep DEF AdminMethods
<1> QED BY <1>3, <1>4 DEF Configure

LEMMA UnregisterDescribed ==
  ASSUME NEW caller, NEW severity, Unregister(caller, severity), UNCHANGED legacy
  PROVE  ApiStep /\ reply'.status \in Statuses
<1> DEFINE present == Require(severity \in DOMAIN custom, "SeverityNotInSet")
           status  == AdminGate(caller) ?? present
<1>1. ~Granted => UNCHANGED Storage
  BY DEF Unregister, Configured, RemoveCustomSeverity, ConfigRefused, Storage
<1>2. present \in Statuses
  BY CodesListed, RequireTells
<1>3. status \in Statuses
  BY <1>2, GateTells, ChainTells, Zenon
<1>4. status = Ok => caller = admin
  BY ChainOk, GatePasses, Zenon
<1>5. reply' = [call |-> "remove_custom_severity", caller |-> caller, status |-> status]
  BY DEF Unregister, RemoveCustomSeverity, Answer
<1> HIDE DEF status
<1> QED BY <1>1, <1>3, <1>4, <1>5, AdminStep DEF AdminMethods

LEMMA RetentionDescribed ==
  ASSUME NEW caller, NEW n, UNCHANGED legacy,
         PruneHistory(caller, n) \/ PruneHistoryByAge(caller, n) \/ SetRetentionLimit(caller, n)
  PROVE  ApiStep /\ reply'.status \in Statuses
<1>1. ~Granted => UNCHANGED Storage
  BY DEF PruneHistory, PruneHistoryByAge, SetRetentionLimit, KeepingRest, Storage, settledVars
<1>2. PICK checked : checked = (CheckVersion ?? RequireAdmin(caller))
  OBVIOUS
<1>3. checked \in Statuses /\ (checked = Ok => caller = admin)
  BY <1>2, ChecksTell, ChainTells, ChainOk, AdminPasses, Zenon
<1>4. CASE PruneHistory(caller, n)
  <2>1. reply' = [call |-> "prune_history", caller |-> caller, status |-> checked]
    BY <1>2, <1>4 DEF PruneHistory, Answer
  <2> QED BY <1>1, <1>3, <2>1, AdminStep DEF AdminMethods
<1>5. CASE PruneHistoryByAge(caller, n)
  <2> DEFINE young  == Require(n < now, "InvalidInput")
             status == checked ?? young
  <2>1. young \in Statuses
    BY CodesListed, RequireTells
  <2>2. status \in Statuses /\ (status = Ok => caller = admin)
    BY <1>3, <2>1, ChainTells, ChainOk, Zenon
  <2>3. reply' = [call |-> "prune_history_by_age", caller |-> caller, status |-> status]
    BY <1>2, <1>5 DEF PruneHistoryByAge, Answer
  <2> HIDE DEF status
  <2> QED BY <1>1, <2>2, <2>3, AdminStep DEF AdminMethods
<1>6. CASE SetRetentionLimit(caller, n)
  <2> DEFINE within == Require(n \in 1 .. MAX_HISTORY_SIZE, "RetentionLimitOutOfRange")
             status == AdminGate(caller) ?? within
  <2>1. within \in Statuses
    BY CodesListed, RequireTells
  <2>2. status \in Statuses /\ (status = Ok => caller = admin)
    BY <2>1, GateTells, GatePasses, ChainTells, ChainOk, Zenon
  <2>3. reply' = [call |-> "set_retention_limit", caller |-> caller, status |-> status]
    BY <1>6 DEF SetRetentionLimit, Answer
  <2> HIDE DEF status
  <2> QED BY <1>1, <2>2, <2>3, AdminStep DEF AdminMethods
<1> QED BY <1>4, <1>5, <1>6

LEMMA PauseDescribed ==
  ASSUME NEW caller, NEW fits, Pause(caller, fits) \/ Unpause(caller), UNCHANGED legacy
  PROVE  ApiStep /\ reply'.status \in Statuses
<1> DEFINE gate   == CheckVersion ?? RequireAdmin(caller)
           reason == Require(fits, "InvalidInput")
<1>1. ~Granted => UNCHANGED Storage
  BY DEF Pause, Unpause, Storage
<1>2. gate \in Statuses /\ (gate = Ok => caller = admin)
  BY ChecksTell, ChainTells, ChainOk, AdminPasses, Zenon
<1>3. reason \in Statuses
  BY RequireTells, CodesListed
<1>4. CASE Pause(caller, fits)
  <2>1. (gate ?? reason) \in Statuses /\ ((gate ?? reason) = Ok => caller = admin)
    BY <1>2, <1>3, ChainTells, ChainOk, Zenon
  <2>2. reply' = [call |-> "pause", caller |-> caller, status |-> gate ?? reason]
    BY <1>4 DEF Pause, Answer
  <2> HIDE DEF gate, reason
  <2> QED BY <1>1, <2>1, <2>2, AdminStep DEF AdminMethods
<1>5. CASE Unpause(caller)
  <2>1. reply' = [call |-> "unpause", caller |-> caller, status |-> gate]
    BY <1>5 DEF Unpause, Answer
  <2> HIDE DEF gate
  <2> QED BY <1>1, <1>2, <2>1, AdminStep DEF AdminMethods
<1> QED BY <1>4, <1>5

LEMMA SlaDescribed ==
  ASSUME NEW caller, NEW outage, NEW severity, NEW mttr, CalculateSla(caller, outage, severity, mttr),
         UNCHANGED legacy
  PROVE  ApiStep /\ reply'.status \in Statuses
<1> DEFINE prev   == History!LatestForOutage(outage)
           same   == SameGeneration(prev, Generation(severity), mttr, LoadConfig(severity))
           result == ComputeResult(outage, mttr, LoadConfig(severity), Generation(severity), now)
           range  == Require(mttr <= MAX_MTTR, "InvalidInput")
           known  == RequireConfig(severity)
           amount == RequireAmount(result)
           inputs == Require(same => SameInputs(prev, mttr, LoadConfig(severity)), "DuplicateOutageInput")
           limit  == Require(prev = NoResult \/ same \/ Len(outageIndex[outage]) < MAX_RECALCS_PER_OUTAGE,
                             "OutageRecalcLimit")
           status == CheckVersion ?? range ?? RequireNotPaused ?? RequireOperator(caller) ?? known
                       ?? amount ?? inputs ?? limit
<1>1. reply' = [call |-> "calculate_sla", caller |-> caller, status |-> status]
  BY DEF CalculateSla, Answer
<1>2. ~Granted => UNCHANGED Storage
  BY DEF CalculateSla, Storage
<1>3. range \in Statuses /\ inputs \in Statuses /\ limit \in Statuses
  BY CodesListed, RequireTells
<1>4. known \in Statuses
  BY CodesListed, RequireTells DEF RequireConfig
<1>5. amount \in Statuses
  <2> HIDE DEF result
  <2>1. /\ Require(result.amount > 0, "InvalidRewardAmount") \in Statuses
        /\ Require(result.amount < 0, "InvalidPenaltyAmount") \in Statuses
    BY CodesListed, RequireTells
  <2> QED BY <2>1 DEF RequireAmount
<1> HIDE DEF range, known, amount, inputs, limit
<1>6. status \in Statuses
  <2> DEFINE first  == CheckVersion ?? range ?? RequireNotPaused
             second == first ?? RequireOperator(caller) ?? known
  <2>1. first \in Statuses
    BY <1>3, ChecksTell, ChainTells, Zenon
  <2> HIDE DEF first
  <2>2. second \in Statuses
    BY <1>4, <2>1, ChecksTell, ChainTells, Zenon
  <2> HIDE DEF second
  <2>3. (second ?? amount ?? inputs ?? limit) \in Statuses
    BY <1>3, <1>5, <2>2, ChainTells, Zenon
  <2> QED BY <2>3, Zenon DEF first, second
<1>7. ASSUME status = Ok PROVE caller = operator
  <2> DEFINE first == CheckVersion ?? range ?? RequireNotPaused ?? RequireOperator(caller)
  <2>1. (first ?? known ?? amount) = Ok
    <3>1. (first ?? known ?? amount ?? inputs) = Ok
      BY <1>7, ChainOk, Zenon
    <3> HIDE DEF first
    <3> QED BY <3>1, ChainOk, Zenon
  <2>2. first = Ok
    <3> HIDE DEF first
    <3>1. (first ?? known) = Ok
      BY <2>1, ChainOk, Zenon
    <3> QED BY <3>1, ChainOk, Zenon
  <2>3. RequireOperator(caller) = Ok
    BY <2>2, ChainOk, Zenon
  <2> QED BY <2>3, OperatorPasses
<1> HIDE DEF status
<1>8. CASE Granted
  <2>1. reply'.caller = operator /\ PublicApi(reply'.call) = Method(TRUE, "operator")
    BY <1>1, <1>7, <1>8, ListedMethods DEF Granted
  <2> QED BY <1>1, <1>6, <1>8, <2>1 DEF ApiStep, Authorised, Method
<1>9. CASE ~Granted
  BY <1>1, <1>2, <1>6, <1>9 DEF Granted, ApiStep, Statuses
<1> QED BY <1>8, <1>9

LEMMA InitializeDescribed ==
  ASSUME NEW newAdmin, NEW newOperator, Initialize(newAdmin, newOperator)
  PROVE  ApiStep /\ reply'.status \in Statuses
<1>1. reply' = [call |-> "initialize", caller |-> newAdmin,
                status |-> Roles!Require(admin = NoAddress, "AlreadyInitialized")]
  BY DEF Initialize, Roles!Initialize, Roles!Answer
<1>2. reply'.status \in Statuses
  BY <1>1, CodesListed DEF Roles!Require, Roles!Ok, Statuses, Ok
<1>3. CASE ~Granted
  <2>1. UNCHANGED << roleVars, guardVars >>
    BY <1>3 DEF Initialize, Roles!Initialize, Roles!Refused, Granted, Roles!Granted, Ok, Roles!Ok,
                roleVars, guardVars, Roles!roleVars, Roles!guardVars
  <2>2. UNCHANGED << configVars, settledVars, legacy >>
    BY <1>3 DEF Initialize, lifeVars
  <2> QED BY <1>2, <1>3, <2>1, <2>2 DEF ApiStep, Storage, Statuses, Granted
<1>4. CASE Granted
  <2>1. admin' = newAdmin
    BY <1>4 DEF Initialize, Roles!Initialize, Roles!Refused, Granted, Roles!Granted, Ok, Roles!Ok
  <2>2. PublicApi(reply'.call) = Method(TRUE, "multi") /\ reply'.caller = newAdmin
    BY <1>1, ListedMethods
  <2> QED BY <1>2, <1>4, <2>1, <2>2 DEF ApiStep, Authorised, Method
<1> QED BY <1>3, <1>4

LEMMA RenounceDescribed ==
  ASSUME NEW caller, RenounceAdmin(caller)
  PROVE  ApiStep /\ reply'.status \in Statuses
<1>1. reply' = [call |-> "renounce_admin", caller |-> caller, status |-> Roles!RoleGate(caller)]
      /\ UNCHANGED << configVars, settledVars, legacy >>
  BY DEF RenounceAdmin, Roles!RenounceAdmin, Roles!Answer, lifeVars
<1>2. Roles!RoleGate(caller) = CheckVersion ?? RequireNotFrozen ?? RequireAdmin(caller)
  BY DEF Roles!RoleGate, Roles!CheckVersion, Roles!RequireNotFrozen, Roles!RequireAdmin, Roles!Require,
         Roles!Ok, Roles!??, Roles!STORAGE_VERSION,
         CheckVersion, RequireNotFrozen, RequireAdmin, Require, Ok, ??, STORAGE_VERSION
<1>3. Roles!RoleGate(caller) \in Statuses
  BY <1>2, ChecksTell, ChainTells, ZenonT(60)
<1>4. Roles!RoleGate(caller) = Ok => caller = admin
  BY <1>2, ChainOk, AdminPasses, Zenon
<1>5. ~Granted => UNCHANGED << roleVars, guardVars >>
  BY DEF RenounceAdmin, Roles!RenounceAdmin, Roles!Refused, Granted, Roles!Granted, Ok, Roles!Ok,
         roleVars, guardVars, Roles!roleVars, Roles!guardVars
<1>6. ~Granted => UNCHANGED Storage
  BY <1>1, <1>5 DEF Storage
<1> QED BY <1>1, <1>3, <1>4, <1>6, AdminStep DEF AdminMethods

LEMMA MigrateDescribed ==
  ASSUME NEW caller, Migrate(caller)
  PROVE  ApiStep /\ reply'.status \in Statuses
<1> DEFINE known  == Require(admin # NoAddress, "NotInitialized")
           theirs == Require(caller = admin, "Unauthorized")
           older  == Require(storageVersion <= STORAGE_VERSION, "VersionMismatch")
           status == known ?? theirs ?? older
<1>1. reply' = [call |-> "migrate", caller |-> caller, status |-> status]
  BY DEF Migrate, Answer
<1>2. known \in Statuses /\ theirs \in Statuses /\ older \in Statuses
  BY CodesListed, RequireTells
<1>3. theirs = Ok => caller = admin
  BY DEF Require, Ok
<1>4. ~Granted => UNCHANGED << admin, adminRenounced, operator, guardVars, storageVersion, configVars, settledVars, legacy >>
  BY DEF Migrate
<1>5. ~Granted => UNCHANGED Storage
  BY <1>4 DEF Storage, roleVars
<1> HIDE DEF known, theirs, older
<1>6. status \in Statuses
  BY <1>2, ChainTells, Zenon
<1>7. ASSUME status = Ok PROVE caller = admin
  <2>1. (known ?? theirs) = Ok
    BY <1>7, ChainOk, Zenon
  <2> QED BY <1>3, <2>1, ChainOk, Zenon
<1> HIDE DEF status
<1> QED BY <1>1, <1>5, <1>6, <1>7, AdminStep DEF AdminMethods

LEMMA LedgerDescribed ==
  ASSUME NewLedger, UNCHANGED legacy, reply.status \in Statuses
  PROVE  ApiStep /\ reply'.status \in Statuses
<1>1. reply' = reply /\ UNCHANGED Storage
  BY DEF NewLedger, Storage
<1> QED BY <1>1 DEF ApiStep, Statuses, Granted

LEMMA StepDescribed ==
  ASSUME LifeNext, reply.status \in Statuses
  PROVE  ApiStep /\ reply'.status \in Statuses
<1>1. CASE Operate
  <2>1. UNCHANGED legacy /\ Next
    BY <1>1 DEF Operate, lifeVars
  <2> QED
    BY <2>1, SlaDescribed, ConfigureDescribed, UnregisterDescribed, RetentionDescribed, PauseDescribed,
       LedgerDescribed, Zenon DEF Next
<1> QED BY <1>1, InitializeDescribed, RenounceDescribed, MigrateDescribed DEF LifeNext

\* Between two calls the reply is the last one's.
ReplyKnown == reply.status \in Statuses

LEMMA ReplyKnownAlways == LifeSpec => []ReplyKnown
<1>1. LifeInit => ReplyKnown
  BY DEF ReplyKnown, LifeInit, Deployed, Upgraded, ContractInit, Statuses
<1>2. ReplyKnown /\ [LifeNext]_contractVars => ReplyKnown'
  BY StepDescribed DEF ReplyKnown, contractVars, vars
<1> QED BY <1>1, <1>2, PTL DEF LifeSpec

(***************************************************************************)
(* The method table is right about every step of a deployment's life:      *)
(* what changes storage is listed as mutating and was called by the party  *)
(* listed; what is refused changes nothing and answers from the schema.    *)
(***************************************************************************)
THEOREM ApiIsAsDescribed == LifeSpec => ApiAsDescribed
<1> DEFINE Described ==
      \/ /\ UNCHANGED << roleVars, guardVars, configVars, settledVars, legacy >>
         /\ ~Granted => reply'.status \in Elements(FailureSchema)
      \/ LET method == PublicApi(reply'.call)
         IN  Granted /\ method.mutates /\ Authorised(method.auth, reply'.caller)
<1>1. ApiStep => Described
  BY DEF ApiStep, Storage, Codes
<1> HIDE DEF Described
<1>2. ReplyKnown /\ [LifeNext]_contractVars => [Described]_contractVars
  BY <1>1, StepDescribed DEF ReplyKnown
<1>3. [][Described]_contractVars => ApiAsDescribed
  BY DEF ApiAsDescribed, Described
<1> QED BY <1>2, <1>3, ReplyKnownAlways, PTL DEF LifeSpec

-----------------------------------------------------------------------------
(* The amounts: what the checked arithmetic of compute_result guards against *)

\* A product of two positive numbers under two bounds.
LEMMA ProductBounded ==
  ASSUME NEW a \in Nat, NEW b \in Nat, NEW high \in Nat, NEW most \in Nat,
         0 < a, a <= high, 0 < b, b <= most
  PROVE  a * b \in Nat /\ 0 < a * b /\ a * b <= high * most
<1>1. a * b \in Nat /\ high * most \in Nat /\ a * most \in Nat
  OBVIOUS
<1>2. b <= a * b
  OBVIOUS
<1>3. a * b <= a * most
  OBVIOUS
<1>4. a * most <= high * most
  OBVIOUS
<1> QED BY <1>1, <1>2, <1>3, <1>4

\* Of a configuration in bounds, at any mttr calculate_sla lets through, a met
\* deadline earns a reward and a missed one costs a penalty, and both are small.
LEMMA RewardBounded ==
  ASSUME NEW t \in Nat, NEW w \in Nat, 0 < w, w <= 100000, NEW mttr \in Nat
  PROVE  /\ (w * Multiplier(mttr, t)) \div 100 \in Int
         /\ 0 < (w * Multiplier(mttr, t)) \div 100 /\ (w * Multiplier(mttr, t)) \div 100 <= 200 * 1000
<1>1. PICK m \in {100, 150, 200} : m = Multiplier(mttr, t)
  BY DEF Multiplier
<1>2. CASE m = 100
  BY <1>1, <1>2, SMT
<1>3. CASE m = 150
  BY <1>1, <1>3, SMT
<1>4. CASE m = 200
  BY <1>1, <1>4, SMT
<1> QED BY <1>2, <1>3, <1>4

LEMMA AmountsBounded ==
  ASSUME NEW c, InBounds(c), c.threshold \in Nat, c.penalty \in Int, c.reward \in Int,
         NEW mttr \in Nat, mttr <= MAX_MTTR
  PROVE  /\ Amount(mttr, c) \in Int
         /\ mttr <= c.threshold => 0 < Amount(mttr, c) /\ Amount(mttr, c) <= 200 * 1000
         /\ ~(mttr <= c.threshold) => Amount(mttr, c) < 0 /\ -(MAX_MTTR * 10000) <= Amount(mttr, c)
<1>1. PICK t \in Nat, p \in Nat, w \in Nat : t = c.threshold /\ p = c.penalty /\ w = c.reward
  BY SMT DEF InBounds
<1>2. 0 < p /\ p <= 10000 /\ 0 < w /\ w <= 100000
  BY <1>1, SMT DEF InBounds
<1>3. MAX_MTTR \in Nat
  BY CalculatorAssumption
<1>4. CASE mttr <= c.threshold
  <2>1. ~(mttr > c.threshold)
    BY <1>1, <1>4, SMT
  <2>2. Amount(mttr, c) = (w * Multiplier(mttr, t)) \div 100
    BY <1>1, <2>1, SMT DEF Amount
  <2>3. PICK a \in Int : a = (w * Multiplier(mttr, t)) \div 100 /\ 0 < a /\ a <= 200 * 1000
    BY <1>2, RewardBounded
  <2> QED BY <1>4, <2>2, <2>3, SMT
<1>5. CASE ~(mttr <= c.threshold)
  <2>1. mttr > c.threshold /\ mttr - t \in Nat /\ 0 < mttr - t /\ mttr - t <= MAX_MTTR
    BY <1>1, <1>3, <1>5, SMT
  <2>2. PICK d \in Nat : d = mttr - t
    BY <2>1
  <2>3. d * p \in Nat /\ 0 < d * p /\ d * p <= MAX_MTTR * 10000
    BY <1>2, <1>3, <2>1, <2>2, ProductBounded, SMT
  <2>4. Amount(mttr, c) = -(d * p)
    BY <1>1, <2>1, <2>2, SMT DEF Amount
  <2>5. PICK q \in Nat, most \in Nat : q = d * p /\ most = MAX_MTTR * 10000
    BY <1>3, <2>3, SMT
  <2>6. Amount(mttr, c) = -q /\ 0 < q /\ q <= most
    BY <2>3, <2>4, <2>5, SMT
  <2>7. -q \in Int /\ -q < 0 /\ -most <= -q
    BY <2>6, SMT
  <2> QED BY <1>5, <2>5, <2>6, <2>7, SMT
<1> QED BY <1>4, <1>5, SMT

LEMMA ConfigurationsTyped ==
  ASSUME NEW c \in Configurations
  PROVE  c.threshold \in Nat /\ c.penalty \in Int /\ c.reward \in Int
<1>1. CASE c \in ConfigInputs
  BY <1>1, ConfigAssumption
<1>2. CASE c \in { DefaultConfig[s] : s \in Canonical }
  <2>1. PICK s \in Canonical : c = DefaultConfig[s]
    BY <1>2
  <2>2. s \in {"critical", "high", "medium", "low"}
    BY CanonicalNames
  <2> QED BY <2>1, <2>2 DEF DefaultConfig
<1> QED BY <1>1, <1>2 DEF Configurations

\* Every severity calculate_sla can be asked about is configured within bounds.
Bounded == storageVersion = STORAGE_VERSION => \A s \in Canonical \cup DOMAIN custom : InBounds(LoadConfig(s))

InRange == TiersPriced /\ Registered

LEMMA InRangeBounded == InRange => Bounded
BY DEF InRange, TiersPriced, Registered, Bounded, LoadConfig

LEMMA InRangeBoundedNext == InRange' => Bounded'
BY InRangeBounded, PTL

LEMMA BoundedStays ==
  ASSUME Bounded, UNCHANGED << storageVersion, config, custom >>
  PROVE  Bounded'
BY DEF Bounded, LoadConfig

\* A configuration is written past its bounds or not at all.
LEMMA ConfigureKeepsBounds ==
  ASSUME Bounded, Known, storageVersion = STORAGE_VERSION, UNCHANGED storageVersion,
         NEW caller, NEW severity, NEW c, Configure(caller, severity, c)
  PROVE  Bounded'
<1>1. CASE UNCHANGED configVars
  BY <1>1, BoundedStays DEF configVars
<1>2. CASE Granted /\ severity \in Canonical /\ SetConfig(caller, severity, c) /\ StoreConfig(severity, c)
  <2>1. reply'.status = (AdminGate(caller) ?? AcceptsConfig(severity, c))
    BY <1>2 DEF SetConfig, Answer
  <2>2. (AdminGate(caller) ?? AcceptsConfig(severity, c)) = Ok
    BY <1>2, <2>1 DEF Granted
  <2>3. InBounds(c)
    BY <2>2, AcceptedIsBounded
  <2>4. config' = [config EXCEPT ![severity] = c] /\ custom' = custom
    BY <1>2 DEF StoreConfig
  <2>5. config \in [Canonical -> Configurations]
    BY DEF Known
  <2>6. \A s \in Canonical \cup DOMAIN custom' : InBounds(LoadConfig(s)')
    BY <1>2, <2>3, <2>4, <2>5 DEF Bounded, LoadConfig
  <2> QED BY <2>6 DEF Bounded, LoadConfig
<1>3. CASE Granted /\ SetCustomSeverity(caller, severity, c) /\ StoreCustomSeverity(severity, c)
  <2>1. reply'.status = (AdminGate(caller) ?? Require(severity \notin Canonical, "InvalidSeverity")
                           ?? ValidateGeneralBounds(c))
    BY <1>3 DEF SetCustomSeverity, Answer
  <2>2. (AdminGate(caller) ?? Require(severity \notin Canonical, "InvalidSeverity")
           ?? ValidateGeneralBounds(c)) = Ok
    BY <1>3, <2>1 DEF Granted
  <2>3. InBounds(c)
    BY <2>2, CustomIsBounded
  <2>4. custom' = With(custom, severity, c) /\ config' = config
    BY <1>3 DEF StoreCustomSeverity
  <2>5. \A s \in Canonical \cup DOMAIN custom' : InBounds(LoadConfig(s)')
    BY <2>3, <2>4 DEF Bounded, LoadConfig, With
  <2> QED BY <2>5 DEF Bounded, LoadConfig
<1>4. \/ UNCHANGED configVars
      \/ Granted /\ severity \in Canonical /\ SetConfig(caller, severity, c) /\ StoreConfig(severity, c)
      \/ Granted /\ SetCustomSeverity(caller, severity, c) /\ StoreCustomSeverity(severity, c)
  BY Zenon DEF Configure, SetConfig, SetCustomSeverity, ConfigRefused
<1> QED BY <1>1, <1>2, <1>3, <1>4

LEMMA OperateKeepsBounds ==
  ASSUME LifeInv, Bounded, Operate
  PROVE  Bounded'
<1>1. UNCHANGED storageVersion
  BY OperateTells DEF roleVars
<1>2. CASE UNCHANGED << config, custom >>
  BY <1>1, <1>2, BoundedStays
<1>3. CASE storageVersion # STORAGE_VERSION
  BY <1>1, <1>3 DEF Bounded
<1>4. CASE storageVersion = STORAGE_VERSION
  <2>1. Known
    BY <1>4 DEF LifeInv
  <2>2. ASSUME NEW caller, NEW severity, NEW c, Configure(caller, severity, c)
        PROVE  Bounded'
    BY <1>1, <1>4, <2>1, <2>2, ConfigureKeepsBounds
  <2>3. ASSUME NEW caller, NEW severity, Unregister(caller, severity)
        PROVE  Bounded'
    <3>1. CASE UNCHANGED configVars
      BY <1>2, <3>1 DEF configVars
    <3>2. CASE DropCustomSeverity(severity)
      BY <1>1, <3>2 DEF Bounded, DropCustomSeverity, LoadConfig
    <3> QED BY <2>3, <3>1, <3>2, Zenon DEF Unregister, RemoveCustomSeverity, ConfigRefused
  <2>4. ASSUME NEW caller, NEW outage, NEW severity, NEW mttr, CalculateSla(caller, outage, severity, mttr)
        PROVE  Bounded'
    BY <1>2, <2>4 DEF CalculateSla, configVars
  <2>5. ASSUME NEW caller, NEW n,
               PruneHistory(caller, n) \/ PruneHistoryByAge(caller, n) \/ SetRetentionLimit(caller, n)
        PROVE  Bounded'
    BY <1>2, <2>5 DEF PruneHistory, PruneHistoryByAge, SetRetentionLimit, KeepingRest, configVars
  <2>6. ASSUME NEW caller, NEW fits, Pause(caller, fits) \/ Unpause(caller)
        PROVE  Bounded'
    BY <1>2, <2>6 DEF Pause, Unpause, configVars
  <2>7. ASSUME NewLedger PROVE Bounded'
    BY <1>2, <2>7 DEF NewLedger, configVars
  <2> QED BY <2>2, <2>3, <2>4, <2>5, <2>6, <2>7, Zenon DEF Operate, Next
<1> QED BY <1>3, <1>4

LEMMA BoundedKept == LifeInv /\ Bounded /\ [LifeNext]_contractVars => Bounded'
<1> SUFFICES ASSUME LifeInv, Bounded, [LifeNext]_contractVars PROVE Bounded'
  OBVIOUS
<1>1. CASE UNCHANGED << storageVersion, config, custom >>
  BY <1>1, BoundedStays
<1>2. ASSUME NEW caller \in Addresses, NEW other \in Addresses, Initialize(caller, other) PROVE Bounded'
  <2>1. CASE InitializeStorage
    <3>1. TiersPriced' /\ Registered'
      BY <2>1, DefaultsPricedNext DEF InitializeStorage, Registered, NoCustom
    <3> QED BY <3>1, InRangeBoundedNext DEF InRange
  <2> QED BY <1>1, <1>2, <2>1, InitializeSays DEF roleVars, configVars
<1>3. ASSUME NEW caller \in Addresses, RenounceAdmin(caller) PROVE Bounded'
  BY <1>1, <1>3, RenounceSays DEF roleVars, configVars
<1>4. ASSUME NEW caller \in Addresses, Migrate(caller) PROVE Bounded'
  <2>1. CASE UNCHANGED << storageVersion, configVars >>
    BY <1>1, <2>1 DEF configVars
  <2>2. CASE /\ storageVersion # STORAGE_VERSION
             /\ admin # NoAddress
             /\ IF storageVersion = 0 THEN InitMissingStorageDefaults ELSE UNCHANGED config
             /\ UNCHANGED custom
    <3>1. Untouched
      BY <2>2 DEF LifeInv
    <3>2. TiersPriced' /\ Registered'
      BY <2>2, <3>1, MigrateKeepsPrices
    <3> QED BY <3>2, InRangeBoundedNext DEF InRange
  <2> QED BY <1>4, <2>1, <2>2, MigrateSays
<1>5. CASE Operate
  BY <1>5, OperateKeepsBounds
<1>6. CASE UNCHANGED contractVars
  BY <1>1, <1>6 DEF contractVars, vars, roleVars, configVars
<1> QED BY <1>2, <1>3, <1>4, <1>5, <1>6 DEF LifeNext

\* No amount of a configured severity is one calculate_sla refuses, or one an
\* i128 could not hold: neither the overflow arms of compute_result nor its
\* tests of the sign are ever taken.
AmountsSound ==
  storageVersion = STORAGE_VERSION =>
    \A severity \in Canonical \cup DOMAIN custom, mttr \in 0 .. MAX_MTTR : \A outage, hash, at :
      LET result == ComputeResult(outage, mttr, LoadConfig(severity), hash, at)
      IN  /\ RequireAmount(result) = Ok
          /\ -(MAX_MTTR * 10000) <= result.amount /\ result.amount <= 200 * 1000
          /\ result.met <=> result.amount > 0

LEMMA BoundsGiveAmounts == LifeInv /\ Bounded => AmountsSound
<1> SUFFICES ASSUME LifeInv, Bounded, storageVersion = STORAGE_VERSION,
                    NEW severity \in Canonical \cup DOMAIN custom, NEW mttr \in 0 .. MAX_MTTR,
                    NEW outage, NEW hash, NEW at
             PROVE  LET result == ComputeResult(outage, mttr, LoadConfig(severity), hash, at)
                    IN  /\ RequireAmount(result) = Ok
                        /\ -(MAX_MTTR * 10000) <= result.amount /\ result.amount <= 200 * 1000
                        /\ result.met <=> result.amount > 0
  BY DEF AmountsSound
<1> DEFINE result == ComputeResult(outage, mttr, LoadConfig(severity), hash, at)
<1>1. PICK c \in Configurations : c = LoadConfig(severity) /\ InBounds(c)
  BY DEF LifeInv, Known, LoadConfig, Bounded
<1>2. c.threshold \in Nat /\ c.penalty \in Int /\ c.reward \in Int
  BY ConfigurationsTyped
<1>3. result.met = (mttr <= c.threshold) /\ result.amount = Amount(mttr, c)
  BY <1>1 DEF ComputeResult
<1>4. mttr \in Nat /\ mttr <= MAX_MTTR /\ MAX_MTTR \in Nat
  BY CalculatorAssumption
<1> HIDE DEF result
<1>5. /\ result.amount \in Int
      /\ result.met => 0 < result.amount /\ result.amount <= 200 * 1000
      /\ ~result.met => result.amount < 0 /\ -(MAX_MTTR * 10000) <= result.amount
  <2> DEFINE a == Amount(mttr, c)
  <2>1. /\ a \in Int
        /\ mttr <= c.threshold => 0 < a /\ a <= 200 * 1000
        /\ ~(mttr <= c.threshold) => a < 0 /\ -(MAX_MTTR * 10000) <= a
    BY <1>1, <1>2, <1>4, AmountsBounded
  <2>2. result.amount = a
    BY <1>3
  <2>3. result.met => mttr <= c.threshold
    BY <1>3
  <2>4. ~result.met => ~(mttr <= c.threshold)
    BY <1>3
  <2> HIDE DEF a
  <2> QED BY <2>1, <2>2, <2>3, <2>4
<1>6. result.met \in BOOLEAN
  BY <1>3
<1>7. RequireAmount(result) = Ok
  BY <1>5, <1>6, SMT DEF RequireAmount, Require
<1>8. result.met <=> result.amount > 0
  BY <1>5, <1>6, SMT
<1>9. -(MAX_MTTR * 10000) <= result.amount /\ result.amount <= 200 * 1000
  <2>1. -(MAX_MTTR * 10000) <= 0 /\ -(MAX_MTTR * 10000) \in Int
    BY <1>4, SMT
  <2> QED BY <1>5, <1>6, <2>1, SMT
<1> QED BY <1>7, <1>8, <1>9 DEF result

\* In every life of a deployment, whatever was configured, re-initialised or
\* migrated: the two amount errors of calculate_sla and its views are never
\* met, and no amount is beyond what 365 days at the highest penalty cost or
\* twice the highest reward (lib.rs, compute_result and validate_config).
THEOREM AmountsAlwaysSound == LifeSpec => []AmountsSound
<1>1. LifeInit => Bounded
  <2> SUFFICES ASSUME LifeInit, storageVersion = STORAGE_VERSION PROVE FALSE
    BY DEF Bounded
  <2> QED BY DEF LifeInit, Deployed, Upgraded, ContractInit, STORAGE_VERSION
<1> QED BY <1>1, LifeInvAlways, BoundedKept, BoundsGiveAmounts, PTL DEF LifeSpec

-----------------------------------------------------------------------------
(* The lookup by outage *)

\* Where the history is exact, an outage's newest index entry is a decision of
\* that outage.
LEMMA ExactLookup == Store!StoreInv => LookupTellsOutage
<1> SUFFICES ASSUME Store!StoreInv, NEW outage \in OutageIds, Store!LatestForOutage(outage) # NoResult
             PROVE  Store!LatestForOutage(outage).outage_id = outage
  BY SameReads DEF LookupTellsOutage
<1>1. PICK x \in Seq(Nat) : x = outageIndex[outage]
  BY IndexListsPlaces
<1>2. x # << >> /\ Store!LatestForOutage(outage) = entries[x[Len(x)]]
  BY <1>1 DEF Store!LatestForOutage, Store!LastOf
<1>3. PICK l \in 1 .. Len(x) : l = Len(x)
  <2>1. Len(x) \in Nat /\ Len(x) # 0
    BY <1>2
  <2> QED BY <2>1
<1>4. x[l] - head + 1 \in Places(Window, outage) /\ Window[x[l] - head + 1] = entries[x[l]]
  BY <1>1, <1>3, IndexListsPlaces
<1> QED BY <1>2, <1>3, <1>4 DEF Places

\* What the comments of get_latest_by_outage and latest_for_outage say holds up
\* to a second initialize, through migrations, trims, prunes and renumbering:
\* the run SecondLife shows that it is lost there, this that it is lost nowhere
\* else (history.rs, latest_for_outage).
THEOREM FirstLifeLookupTells == LifeSpec => [](~SecondLife => LookupTellsOutage)
<1>1. LifeInv => (~SecondLife => LookupTellsOutage)
  BY ExactLookup DEF LifeInv, FirstShape
<1> QED BY <1>1, LifeInvAlways, PTL

=============================================================================
