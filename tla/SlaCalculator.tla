---------------------------- MODULE SlaCalculator ----------------------------
(***************************************************************************)
(* calculate_sla, and everything that runs beside it: the configuration it *)
(* prices an outage with, the history it deduplicates against, the         *)
(* cumulative statistics, the telemetry, and the admin calls that change   *)
(* any of them between two submissions.                                    *)
(*                                                                         *)
(* The components are HistoryStore, ConfigStore, Telemetry and             *)
(* ContractState, on one set of storage keys.  Each keeps its own keys     *)
(* consistent; that the keys of different components agree with each other *)
(* after any interleaving of calls is what this module asks.               *)
(***************************************************************************)
EXTENDS ConfigStore

CONSTANTS
  OutageIds,
  Severities,         \* the severities callers name
  Mttrs,              \* the mttr_minutes an operator submits
  MAX_MTTR,
  MAX_RECALCS_PER_OUTAGE,
  MAX_HISTORY_SIZE,
  Results, NoResult, MaxRecorded,    \* as in HistoryStore
  Lanes, WEEK, U32MAX, MaxDecisions, \* as in Telemetry
  COUNTER_MAX,        \* u64::MAX of the counters
  TOTAL_MAX,          \* i128::MAX of the totals
  MaxWrites           \* bound on the configuration writes, in Configured

ASSUME CalculatorAssumption ==
  /\ Mttrs \subseteq Nat
  /\ MAX_MTTR \in Nat
  /\ MAX_RECALCS_PER_OUTAGE \in Nat \ {0}
  /\ COUNTER_MAX \in Nat \ {0}
  /\ TOTAL_MAX \in Nat \ {0}
  /\ MaxWrites \in Nat
  /\ Lanes = Canonical \cup {"custom"}
  /\ WEEK \in Nat \ {0}
  /\ U32MAX \in Nat \ {0}
  /\ MaxDecisions \in Nat
  /\ MAX_HISTORY_SIZE \in Nat \ {0}
  /\ MaxRecorded \in Nat
  /\ \A r \in Results : r.outage_id \in OutageIds /\ r.recorded_at \in Nat
  /\ NoResult \notin Results

VARIABLES
  entries, outageIndex, head, tail, historyLen, retentionLimit, recorded,
  calculations, violations, lastCalculations, lastViolations, decided,
  stats,              \* STATS_KEY
  writes              \* granted configuration writes, for their bound

History   == INSTANCE HistoryStore
Counters  == INSTANCE Telemetry

historyVars   == << entries, outageIndex, head, tail, historyLen, retentionLimit, recorded >>
telemetryVars == << calculations, violations, lastCalculations, lastViolations, decided >>
settledVars   == << historyVars, telemetryVars, stats >>
vars == << roleVars, guardVars, reply, configVars, writes, settledVars, now >>

-----------------------------------------------------------------------------
(* compute_result *)

\* performance_ratio and the reward multiplier it selects.
Multiplier(mttr, threshold) ==
  LET ratio == (mttr * 100) \div threshold
  IN  IF ratio < 50 THEN 200 ELSE IF ratio < 75 THEN 150 ELSE 100

Amount(mttr, c) ==
  IF mttr > c.threshold THEN -((mttr - c.threshold) * c.penalty)
  ELSE (c.reward * Multiplier(mttr, c.threshold)) \div 100

\* The decision; payment_type follows from status, rating from the multiplier.
ComputeResult(outage, mttr, c, hash, at) ==
  [outage_id |-> outage, met |-> mttr <= c.threshold, mttr_minutes |-> mttr,
   threshold_minutes |-> c.threshold, amount |-> Amount(mttr, c),
   config_version_hash |-> hash, recorded_at |-> at]

\* What a severity can be configured to.
Configurations == ConfigInputs \cup { DefaultConfig[s] : s \in Canonical }

\* Every decision those can give is one of Results.
ASSUME DecisionAssumption ==
  \A outage \in OutageIds, mttr \in Mttrs, c \in Configurations, at \in 1 .. MaxLedger :
    ComputeResult(outage, mttr, c, ConfigHash(<< c >>), at) \in Results

\* The amount errors; validated configurations never meet them.
RequireAmount(result) ==
  IF result.met THEN Require(result.amount > 0, "InvalidRewardAmount")
                ELSE Require(result.amount < 0, "InvalidPenaltyAmount")

-----------------------------------------------------------------------------
(* Statistics *)

\* checked_add, capped at the bound when it fails.
Saturating(a, b, bound) == IF a + b > bound THEN bound ELSE a + b

\* Mutant: the penalty is added with the sign it has in the decision.
IncrementStatsSigned(result) ==
  stats' = [total_calculations |-> Saturating(stats.total_calculations, 1, COUNTER_MAX),
            total_violations |-> Saturating(stats.total_violations, IF result.met THEN 0 ELSE 1, COUNTER_MAX),
            total_rewards |-> Saturating(stats.total_rewards, IF result.met THEN result.amount ELSE 0, TOTAL_MAX),
            total_penalties |-> Saturating(stats.total_penalties, IF result.met THEN 0 ELSE result.amount, TOTAL_MAX)]

IncrementStats(result) ==
  stats' = [total_calculations |-> Saturating(stats.total_calculations, 1, COUNTER_MAX),
            total_violations |-> Saturating(stats.total_violations, IF result.met THEN 0 ELSE 1, COUNTER_MAX),
            total_rewards |-> Saturating(stats.total_rewards, IF result.met THEN result.amount ELSE 0, TOTAL_MAX),
            total_penalties |-> Saturating(stats.total_penalties, IF result.met THEN 0 ELSE -result.amount, TOTAL_MAX)]

-----------------------------------------------------------------------------
(* calculate_sla *)

LaneOf(severity) == IF severity \in Canonical THEN severity ELSE "custom"

\* Mutant: the generation is that of the whole configuration.
GenerationOfAll(severity) == ConfigVersionHash

\* The hash that tells one generation of decisions from the next.
Generation(severity) == SeverityConfigHash(severity)

\* Mutant: any earlier decision of the outage is a replay or a conflict only
\* when its inputs differ.
SameGenerationByInputs(prev, hash, mttr, c) ==
  /\ prev # NoResult
  /\ prev.config_version_hash = hash
  /\ prev.mttr_minutes = mttr
  /\ prev.threshold_minutes = c.threshold

\* The outage's newest retained decision was taken under this configuration.
SameGeneration(prev, hash, mttr, c) == prev # NoResult /\ prev.config_version_hash = hash

SameInputs(prev, mttr, c) == prev.mttr_minutes = mttr /\ prev.threshold_minutes = c.threshold

\* A decision that is certain to be stored: telemetry, history, statistics;
\* `recorded` is the sla_calc and set_int events it publishes.
Settle(severity, result) ==
  /\ Counters!Decide(LaneOf(severity), result.met)
  /\ History!Record(result)
  /\ IncrementStats(result)

\* Mutant: telemetry comes before the duplicate policy.
ReplayCounted(severity, prev) ==
  /\ Counters!RecordTelemetry(LaneOf(severity), prev.met)
  /\ UNCHANGED << historyVars, decided, stats >>

\* The stored decision is the answer; nothing is written.
Replay(severity, prev) == UNCHANGED settledVars

CalculateSla(caller, outage, severity, mttr) ==
  LET c      == LoadConfig(severity)
      hash   == Generation(severity)
      result == ComputeResult(outage, mttr, c, hash, now)
      prev   == History!LatestForOutage(outage)
      same   == SameGeneration(prev, hash, mttr, c)
  IN  /\ Answer("calculate_sla", caller,
           CheckVersion
             ?? Require(mttr <= MAX_MTTR, "InvalidInput")
             ?? RequireNotPaused
             ?? RequireOperator(caller)
             ?? RequireConfig(severity)
             ?? RequireAmount(result)
             ?? Require(same => SameInputs(prev, mttr, c), "DuplicateOutageInput")
             ?? Require(prev = NoResult \/ same \/ Len(outageIndex[outage]) < MAX_RECALCS_PER_OUTAGE,
                        "OutageRecalcLimit"))
      /\ \/ ~Granted /\ UNCHANGED settledVars
         \/ Granted /\ same /\ Replay(severity, prev)
         \/ Granted /\ ~same /\ Settle(severity, result)
      /\ UNCHANGED << roleVars, guardVars, configVars, writes >>

-----------------------------------------------------------------------------
(* The admin calls beside it *)

\* A call of ConfigStore, one of at most MaxWrites that change anything.
Configured ==
  /\ Granted => writes < MaxWrites
  /\ writes' = IF Granted THEN writes + 1 ELSE writes
  /\ UNCHANGED settledVars

\* Each severity by the call that is meant for it; ConfigAdmin has the other.
Configure(caller, severity, c) ==
  /\ IF severity \in Canonical THEN SetConfig(caller, severity, c) ELSE SetCustomSeverity(caller, severity, c)
  /\ Configured

Unregister(caller, severity) == RemoveCustomSeverity(caller, severity) /\ Configured

KeepingRest == UNCHANGED << roleVars, guardVars, configVars, writes, telemetryVars, stats >>

PruneHistory(caller, keepLatest) ==
  /\ Answer("prune_history", caller, CheckVersion ?? RequireAdmin(caller))
  /\ \/ ~Granted /\ UNCHANGED historyVars
     \/ Granted /\ History!PruneHistory(keepLatest)
  /\ KeepingRest

PruneHistoryByAge(caller, minAge) ==
  /\ Answer("prune_history_by_age", caller,
       CheckVersion ?? RequireAdmin(caller) ?? Require(minAge < now, "InvalidInput"))
  /\ \/ ~Granted /\ UNCHANGED historyVars
     \/ Granted /\ History!PruneHistoryByAge(minAge)
  /\ KeepingRest

SetRetentionLimit(caller, limit) ==
  /\ Answer("set_retention_limit", caller,
       AdminGate(caller) ?? Require(limit \in 1 .. MAX_HISTORY_SIZE, "RetentionLimitOutOfRange"))
  /\ \/ ~Granted /\ UNCHANGED historyVars
     \/ Granted /\ History!SetRetentionLimit(limit)
  /\ KeepingRest

Pause(caller, reasonFits) ==
  /\ Answer("pause", caller, CheckVersion ?? RequireAdmin(caller) ?? Require(reasonFits, "InvalidInput"))
  /\ \/ ~Granted /\ UNCHANGED << roleVars, guardVars >>
     \/ Granted /\ SetPaused
  /\ UNCHANGED << configVars, writes, settledVars >>

Unpause(caller) ==
  /\ Answer("unpause", caller, CheckVersion ?? RequireAdmin(caller))
  /\ \/ ~Granted /\ UNCHANGED << roleVars, guardVars >>
     \/ Granted /\ ClearPaused
  /\ UNCHANGED << configVars, writes, settledVars >>

NewLedger == CloseLedger /\ UNCHANGED << roleVars, guardVars, reply, configVars, writes, settledVars >>

ZeroStats == [total_calculations |-> 0, total_violations |-> 0, total_rewards |-> 0, total_penalties |-> 0]

Init ==
  /\ \E theAdmin, theOperator \in Addresses :
       theAdmin # theOperator /\ Initialized(theAdmin, theOperator)
  /\ ConfigInit
  /\ History!HistoryInit
  /\ retentionLimit = MAX_HISTORY_SIZE
  /\ recorded = << >>
  /\ Counters!TelemetryInit
  /\ decided = [lane \in Lanes |-> << >>]
  /\ stats = ZeroStats
  /\ writes = 0
  /\ now = 1

Next ==
  \/ \E caller \in Addresses :
       \/ \E outage \in OutageIds, severity \in Severities, mttr \in Mttrs :
            CalculateSla(caller, outage, severity, mttr)
       \/ \E severity \in Severities, c \in ConfigInputs : Configure(caller, severity, c)
       \/ \E severity \in Severities : Unregister(caller, severity)
       \/ \E keepLatest \in 0 .. MAX_HISTORY_SIZE : PruneHistory(caller, keepLatest)
       \/ \E minAge \in 0 .. MaxLedger - 1 : PruneHistoryByAge(caller, minAge)
       \/ \E limit \in 0 .. MAX_HISTORY_SIZE : SetRetentionLimit(caller, limit)
       \/ \E reasonFits \in BOOLEAN : Pause(caller, reasonFits)
       \/ Unpause(caller)
  \/ NewLedger

Spec == Init /\ [][Next]_vars

-----------------------------------------------------------------------------
(* Properties *)

Retained == head .. tail - 1

SumOf(s, F(_)) == SumUp([k \in 1 .. Len(s) |-> F(s[k])])

AtMost(n, bound) == IF n > bound THEN bound ELSE n

\* The cumulative statistics are what a consumer that adds up the sla_calc
\* events gets, saturated: replays, rejected calls and pruning change neither,
\* recalculations count in both.
StatsMatchStream ==
  stats =
    [total_calculations |-> AtMost(Len(recorded), COUNTER_MAX),
     total_violations |-> AtMost(SumOf(recorded, LAMBDA r : IF r.met THEN 0 ELSE 1), COUNTER_MAX),
     total_rewards |-> AtMost(SumOf(recorded, LAMBDA r : IF r.met THEN r.amount ELSE 0), TOTAL_MAX),
     total_penalties |-> AtMost(SumOf(recorded, LAMBDA r : IF r.met THEN 0 ELSE -r.amount), TOTAL_MAX)]

\* One configuration generation settles an outage once: no two retained
\* neighbours of an outage share their generation, and an outage never occupies
\* more of the history than the recalculation cap, whatever was pruned,
\* trimmed or renumbered between its submissions.
GenerationsAlternate ==
  \A outage \in OutageIds :
    LET slots == outageIndex[outage]
    IN  /\ Len(slots) <= MAX_RECALCS_PER_OUTAGE
        /\ \A k \in 1 .. Len(slots) - 1 :
             entries[slots[k]].config_version_hash # entries[slots[k + 1]].config_version_hash

LaneNames == Append(CanonicalSeverities, "custom")

AllLanes(counts) == SumUp([k \in 1 .. Len(LaneNames) |-> counts[LaneNames[k]]])

\* The telemetry counts nothing the statistics do not, lane by lane or in sum;
\* while no lane has been idle for a week, and no counter can be full, the two
\* agree exactly.
TelemetryWithinStats ==
  /\ AllLanes(violations) <= stats.total_violations \/ stats.total_violations = COUNTER_MAX
  /\ AllLanes(calculations) <= stats.total_calculations \/ stats.total_calculations = COUNTER_MAX
  /\ now <= WEEK /\ Len(recorded) <= U32MAX /\ Len(recorded) <= COUNTER_MAX =>
       AllLanes(calculations) = stats.total_calculations

\* A retained decision whose generation is a tier's present one is what that
\* tier's present configuration gives for the recorded input: a verifier that
\* recomputes it (calculate_sla_view) finds the settled amount.
StoredDecisionReproducible ==
  \A i \in Retained, severity \in Canonical \cup DOMAIN custom :
    entries[i].config_version_hash = Generation(severity) =>
      entries[i] = ComputeResult(entries[i].outage_id, entries[i].mttr_minutes, LoadConfig(severity),
                                 entries[i].config_version_hash, entries[i].recorded_at)

\* What the documentation of calculate_sla says of its duplicate policy: while
\* a decision is stored, its inputs are never restated under its generation.
NeverRestated ==
  \A i, j \in Retained :
    entries[i].outage_id = entries[j].outage_id
      /\ entries[i].config_version_hash = entries[j].config_version_hash =>
        entries[i].mttr_minutes = entries[j].mttr_minutes

=============================================================================
