----------------------------- MODULE ConfigStore -----------------------------
(***************************************************************************)
(* The severity configuration: four canonical tiers whose penalties and    *)
(* thresholds form a ladder, custom severities beside them, the registry   *)
(* of snapshots by version hash, and the stamp of the last update.         *)
(*                                                                         *)
(* set_config replaces one tier at a time and compares it with its two     *)
(* neighbours only; what the whole ladder looks like is what any sequence  *)
(* of such updates leaves; ConfigAdmin asks, and the settlement of         *)
(* SlaCalculator depends on it.                                            *)
(***************************************************************************)
EXTENDS ContractState, Integers, Sequences, VecOps

CONSTANTS
  CustomOrder,        \* the custom severities, in the order a Map iterates
  ConfigInputs,       \* the configurations an admin submits
  ConfigHash(_),      \* of the sequence of configurations folded into it
  NoUpdate            \* Option::None of LAST_CFG_UPDATE_KEY

ASSUME ConfigAssumption ==
  /\ \A c \in ConfigInputs : c.threshold \in Nat /\ c.penalty \in Int /\ c.reward \in Int
  /\ NoUpdate \notin Nat

VARIABLES
  config,             \* CONFIG_KEY
  custom,             \* CUSTOM_CONFIG_KEY: its domain is what is registered
  lastUpdate,         \* LAST_CFG_UPDATE_KEY
  registry            \* CONFIG_REGISTRY_KEY: version hash -> snapshot

configVars == << config, custom, lastUpdate, registry >>

CanonicalSeverities == << "critical", "high", "medium", "low" >>
Canonical == Elements(CanonicalSeverities)
Custom    == Elements(CustomOrder)

\* The neighbours validate_cross_severity_* look at.
NextLower  == [critical |-> "high", high |-> "medium", medium |-> "low"]
NextHigher == [high |-> "critical", medium |-> "high", low |-> "medium"]

DefaultConfig ==
  [critical |-> [threshold |-> 15,  penalty |-> 100, reward |-> 750],
   high     |-> [threshold |-> 30,  penalty |-> 50,  reward |-> 750],
   medium   |-> [threshold |-> 60,  penalty |-> 25,  reward |-> 750],
   low      |-> [threshold |-> 120, penalty |-> 10,  reward |-> 600]]

-----------------------------------------------------------------------------
(* Validation *)

ValidateGeneralBounds(c) ==
  Require(0 < c.threshold /\ c.threshold <= 1440, "InvalidThreshold")
    ?? Require(0 < c.penalty /\ c.penalty <= 10000, "InvalidPenalty")
    ?? Require(0 < c.reward /\ c.reward <= 100000, "InvalidReward")

\* The severity-specific part of validate_config.
MaxThreshold == [critical |-> 60, high |-> 120, medium |-> 240, low |-> 1440]
MinPenalty   == [critical |-> 50, high |-> 25, medium |-> 10, low |-> 0]
MaxPenalty   == [critical |-> 10000, high |-> 10000, medium |-> 10000, low |-> 100]

\* Mutant: the ratio is looked at before the bounds of the tier.
ValidateConfigRatioFirst(severity, c) ==
  Require(severity \in Canonical, "InvalidSeverity")
    ?? ValidateGeneralBounds(c)
    ?? Require(c.penalty * 3 < c.reward * 2, "InvalidReward")
    ?? Require(c.threshold <= MaxThreshold[severity], "InvalidThreshold")
    ?? Require(MinPenalty[severity] <= c.penalty /\ c.penalty <= MaxPenalty[severity], "InvalidPenalty")

ValidateConfig(severity, c) ==
  Require(severity \in Canonical, "InvalidSeverity")
    ?? ValidateGeneralBounds(c)
    ?? Require(c.threshold <= MaxThreshold[severity], "InvalidThreshold")
    ?? Require(MinPenalty[severity] <= c.penalty /\ c.penalty <= MaxPenalty[severity], "InvalidPenalty")
    ?? Require(c.penalty * 3 < c.reward * 2, "InvalidReward")

\* low is not held below medium: its cap exceeds medium's floor by design.
ValidatePenaltyOrdering(severity, c) ==
  Require(severity # "low" => c.penalty >= config[NextLower[severity]].penalty, "InvalidPenalty")
    ?? Require(severity \in {"high", "medium"} => c.penalty <= config[NextHigher[severity]].penalty, "InvalidPenalty")

\* Mutant: only the next-lower tier is compared.
ValidateThresholdDownwards(severity, c) ==
  Require(severity # "low" => c.threshold <= config[NextLower[severity]].threshold, "InvalidThreshold")

ValidateThresholdOrdering(severity, c) ==
  Require(severity # "low" => c.threshold <= config[NextLower[severity]].threshold, "InvalidThreshold")
    ?? Require(severity # "critical" => c.threshold >= config[NextHigher[severity]].threshold, "InvalidThreshold")

AcceptsConfig(severity, c) ==
  ValidateConfig(severity, c) ?? ValidatePenaltyOrdering(severity, c) ?? ValidateThresholdOrdering(severity, c)

AdminGate(caller) == CheckVersion ?? RequireAdmin(caller) ?? RequireNotFrozen

-----------------------------------------------------------------------------
(* Lookup, hashes and the registry *)

RequireConfig(severity) == Require(severity \in Canonical \cup DOMAIN custom, "ConfigNotFound")

LoadConfig(severity) == IF severity \in Canonical THEN config[severity] ELSE custom[severity]

\* Mutant: the custom severities are not folded in.
ConfigVersionHashCanonical == ConfigHash([i \in 1 .. 4 |-> config[CanonicalSeverities[i]]])

\* Values only: no severity name enters either hash.
ConfigVersionHash ==
  LET registered == Keep(CustomOrder, DOMAIN custom)
  IN  ConfigHash([i \in 1 .. 4 |-> config[CanonicalSeverities[i]]]
                   \o [i \in 1 .. Len(registered) |-> custom[registered[i]]])

SeverityConfigHash(severity) == ConfigHash(<< LoadConfig(severity) >>)

With(f, key, value) == [k \in DOMAIN f \cup {key} |-> IF k = key THEN value ELSE f[k]]

\* Mutant: called before the new values are stored, which is what it then reads.
RecordUpdateFirst == lastUpdate' = now /\ registry' = With(registry, ConfigVersionHash, config)

\* Mutant: only the registry is written.
RecordUpdateUnstamped == registry' = With(registry, ConfigVersionHash', config') /\ UNCHANGED lastUpdate

\* record_config_update and record_config_registry: they read what the
\* handler has just written.  One ledger closes per unit of `now`, so `now`
\* stands for the ledger sequence as well as for its time.
RecordUpdate == lastUpdate' = now /\ registry' = With(registry, ConfigVersionHash', config')

StoreConfig(severity, c) == config' = [config EXCEPT ![severity] = c] /\ UNCHANGED custom /\ RecordUpdate

StoreCustomSeverity(severity, c) == custom' = With(custom, severity, c) /\ UNCHANGED config /\ RecordUpdate

\* Neither stamped nor registered, although the version hash moves.
DropCustomSeverity(severity) ==
  /\ custom' = [s \in DOMAIN custom \ {severity} |-> custom[s]]
  /\ UNCHANGED << config, lastUpdate, registry >>

-----------------------------------------------------------------------------
(* Entry points *)

ConfigRefused == ~Granted /\ UNCHANGED configVars

SetConfig(caller, severity, c) ==
  /\ Answer("set_config", caller, AdminGate(caller) ?? AcceptsConfig(severity, c))
  /\ ConfigRefused \/ (Granted /\ StoreConfig(severity, c))
  /\ UNCHANGED << roleVars, guardVars >>

SetCustomSeverity(caller, severity, c) ==
  /\ Answer("set_custom_severity", caller,
       AdminGate(caller) ?? Require(severity \notin Canonical, "InvalidSeverity") ?? ValidateGeneralBounds(c))
  /\ ConfigRefused \/ (Granted /\ StoreCustomSeverity(severity, c))
  /\ UNCHANGED << roleVars, guardVars >>

RemoveCustomSeverity(caller, severity) ==
  /\ Answer("remove_custom_severity", caller,
       AdminGate(caller) ?? Require(severity \in DOMAIN custom, "SeverityNotInSet"))
  /\ ConfigRefused \/ (Granted /\ DropCustomSeverity(severity))
  /\ UNCHANGED << roleVars, guardVars >>

NoCustom == [s \in {} |-> << >>]

\* What initialize leaves; it registers nothing and stamps nothing.
ConfigInit ==
  /\ config = DefaultConfig
  /\ custom = NoCustom
  /\ lastUpdate = NoUpdate
  /\ registry = [h \in {} |-> DefaultConfig]

SlaConfigOK(c) == c.threshold \in Nat /\ c.penalty \in Int /\ c.reward \in Int

=============================================================================
