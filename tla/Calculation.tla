----------------------------- MODULE Calculation -----------------------------
(***************************************************************************)
(* The delegated calculate_sla of calculation.rs: the settlement over a    *)
(* history that is one vector, scanned from its oldest element on every    *)
(* submission and trimmed one element at a time, as it was before the      *)
(* history was sharded.  The contract no longer calls it; it is the        *)
(* baseline the sharded one is held to (SecondCopies shows that every step *)
(* of the contract is a step of this module).                              *)
(*                                                                         *)
(* What else happens to its keys is left as open as the trim that all      *)
(* callers share leaves it: other calls may only take a prefix away.       *)
(***************************************************************************)
EXTENDS ConfigStore, ExecutableSpec

CONSTANTS
  OutageIds, Severities, Mttrs,
  MAX_MTTR, MAX_RECALCS_PER_OUTAGE, MAX_HISTORY_SIZE,
  Lanes, WEEK, U32MAX, MaxDecisions,
  COUNTER_MAX, TOTAL_MAX

VARIABLES
  history,            \* HISTORY_KEY: the retained decisions, oldest first
  historyLen,         \* HISTORY_LEN_KEY
  totalEntries,       \* TOTAL_ENTRIES_KEY
  retentionLimit,     \* RETENTION_LIMIT_KEY
  calculations, violations, lastCalculations, lastViolations, decided,
  stats               \* STATS_KEY

Counters == INSTANCE Telemetry

laneVars    == << calculations, violations, lastCalculations, lastViolations >>
historyVars == << history, historyLen, totalEntries >>
vars == << roleVars, guardVars, reply, configVars, historyVars, retentionLimit, laneVars, stats, now >>

-----------------------------------------------------------------------------
(* The pure computation *)

\* compute_result: the outcome of the executable specification, in the shape
\* it is stored in; payment type and rating follow from the rest.
ComputeResult(outage, mttr, c, hash, at) ==
  LET outcome == ExpectedComputeResult(mttr, c)
  IN  [outage_id |-> outage, met |-> outcome.status = "met", mttr_minutes |-> mttr,
       threshold_minutes |-> c.threshold, amount |-> outcome.amount,
       config_version_hash |-> hash, recorded_at |-> at]

-----------------------------------------------------------------------------
(* The steps of calculate_sla, as calculation_helpers.rs names them *)

StoredFor(outage) == Keep(history, { r \in Elements(history) : r.outage_id = outage })

\* check_duplicate_policy: what a scan of the whole history says of an outage.
DuplicatePolicy(outage, hash) ==
  LET stored == StoredFor(outage)
  IN  CASE stored = << >> -> "new"
        [] stored # << >> /\ LastOf(stored).config_version_hash = hash -> "same_config"
        [] OTHER -> "different_config"

ExceedsRecalcCap(outage) == Len(StoredFor(outage)) >= MAX_RECALCS_PER_OUTAGE

SubmittedAgain(outage, mttr, c) ==
  LET prev == LastOf(StoredFor(outage)) IN prev.mttr_minutes = mttr /\ prev.threshold_minutes = c.threshold

\* The retention trim: one element, however many the limit would ask for.
DropOldest(h) == IF Len(h) > retentionLimit THEN Tail(h) ELSE h

SaturatingAdd(a, b, bound) == IF a + b > bound THEN bound ELSE a + b

Add(field, by, bound) == stats'[field] = SaturatingAdd(stats[field], by, bound)

\* increment_stats.
IncrementStats(met, reward, penalty) ==
  /\ DOMAIN stats' = DOMAIN stats
  /\ Add("total_calculations", 1, COUNTER_MAX)
  /\ IF met
     THEN /\ Add("total_rewards", reward, TOTAL_MAX)
          /\ stats'.total_violations = stats.total_violations
          /\ stats'.total_penalties = stats.total_penalties
     ELSE /\ Add("total_violations", 1, COUNTER_MAX)
          /\ Add("total_penalties", penalty, TOTAL_MAX)
          /\ stats'.total_rewards = stats.total_rewards

LaneFor(severity) == IF severity \in Canonical THEN severity ELSE "custom"

\* Phases 3 and 4.
StoreDecision(severity, result) ==
  /\ history' = DropOldest(Append(history, result))
  /\ Counters!RecordTelemetry(LaneFor(severity), result.met)
  /\ historyLen' = Len(history')
  /\ totalEntries' = totalEntries + 1
  /\ IncrementStats(result.met, result.amount, -result.amount)

PreFlight(caller, severity, mttr) ==
  CheckVersion
    ?? Require(mttr <= MAX_MTTR, "InvalidInput")
    ?? RequireNotPaused
    ?? RequireOperator(caller)
    ?? RequireConfig(severity)

CalculateSla(caller, outage, severity, mttr) ==
  LET c      == LoadConfig(severity)
      hash   == SeverityConfigHash(severity)
      policy == DuplicatePolicy(outage, hash)
      fresh  == policy # "same_config"
  IN  /\ reply'.call = "calculate_sla" /\ reply'.caller = caller
      /\ UNCHANGED << roleVars, guardVars, configVars, retentionLimit >>
      /\ Answer("calculate_sla", caller,
           PreFlight(caller, severity, mttr)
             ?? ExpectedComputeResult(mttr, c).error
             ?? Require(fresh \/ SubmittedAgain(outage, mttr, c), "DuplicateOutageInput")
             ?? Require(policy = "different_config" => ~ExceedsRecalcCap(outage), "OutageRecalcLimit"))
      /\ \/ (~Granted \/ ~fresh) /\ UNCHANGED << historyVars, laneVars, stats >>
         \/ Granted /\ fresh /\ StoreDecision(severity, ComputeResult(outage, mttr, c, hash, now))

-----------------------------------------------------------------------------
(* The other calls *)

\* trim_history: the one way anything else removes decisions.
TrimHistory(kept) ==
  /\ history' = SubSeq(history, Len(history) - kept + 1, Len(history))
  /\ historyLen' = kept
  /\ UNCHANGED totalEntries

OtherCall ==
  /\ reply'.call # "calculate_sla"
  /\ \E kept \in 0 .. Len(history) : TrimHistory(kept)
  /\ now' = now
  /\ UNCHANGED << laneVars, stats >>

NewLedger ==
  /\ CloseLedger
  /\ UNCHANGED << roleVars, guardVars, reply, configVars, historyVars, retentionLimit, laneVars, stats >>

Init ==
  /\ history = << >>
  /\ historyLen = 0
  /\ totalEntries = 0
  /\ retentionLimit = MAX_HISTORY_SIZE
  /\ Counters!TelemetryInit
  /\ stats = [total_calculations |-> 0, total_violations |-> 0, total_rewards |-> 0, total_penalties |-> 0]

Next ==
  \/ OtherCall
  \/ NewLedger
  \/ \E caller \in Addresses, outage \in OutageIds, severity \in Severities, mttr \in Mttrs :
       CalculateSla(caller, outage, severity, mttr)

Spec == Init /\ [][Next]_vars

-----------------------------------------------------------------------------
(* The readers of calculation.rs, as they answer in a state *)

\* calculate_sla_view: the duplicate policy without the cap and without a
\* trace; neither the roles nor the pause are asked.
CalculateSlaView(outage, severity, mttr) ==
  LET c      == LoadConfig(severity)
      hash   == SeverityConfigHash(severity)
      policy == DuplicatePolicy(outage, hash)
      error  == CheckVersion
                  ?? Require(mttr <= MAX_MTTR, "InvalidInput")
                  ?? RequireConfig(severity)
                  ?? Require(policy = "same_config" => SubmittedAgain(outage, mttr, c), "DuplicateOutageInput")
                  ?? (IF policy = "same_config" THEN Ok ELSE ExpectedComputeResult(mttr, c).error)
  IN  [error  |-> error,
       result |-> CASE error # Ok -> << >>
                    [] error = Ok /\ policy = "same_config" -> LastOf(StoredFor(outage))
                    [] error = Ok /\ policy # "same_config" -> ComputeResult(outage, mttr, c, hash, now)]

GetStats == [error |-> CheckVersion, result |-> stats]

=============================================================================
