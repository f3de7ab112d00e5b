----------------------------- MODULE ConfigViews -----------------------------
(***************************************************************************)
(* What is read of the configuration, and the second copy of its rules.    *)
(*                                                                         *)
(* Backends read the configuration in several shapes, each built apart:    *)
(* ordered snapshots, a raw map, a bundle with its hash, the snapshots the *)
(* registry keeps, the worst exposure.  config.rs holds the same readers   *)
(* and setters a second time, exported but called by no entry point.  Its  *)
(* setters leave the admin to their caller and write less: set_config does *)
(* not look at the neighbours' penalties, none registers a snapshot, and   *)
(* set_custom_severity does not stamp the update.  A view here is a        *)
(* definition of the state it is read in.                                  *)
(***************************************************************************)
EXTENDS ConfigStore, ExecutableSpec

CONSTANTS
  ProbedConfigs,      \* configurations at and beside every bound
  ProbedMttrs,        \* the repair times accepted configurations are tried with
  NoSnapshot          \* Option::None of get_config_snapshot_by_version

ASSUME ViewAssumption ==
  /\ ProbedMttrs \subseteq Nat
  /\ \A c \in ProbedConfigs : c.threshold \in Nat /\ c.penalty \in Int /\ c.reward \in Int
  /\ CustomOrder \in Seq(Custom)

Entry(severity, c) == [severity |-> severity, config |-> c]

-----------------------------------------------------------------------------
(* Readers of lib.rs, behind check_version *)

\* build_config_snapshot: the four tiers, most severe first.
BuildConfigSnapshot ==
  [i \in 1 .. 4 |-> Entry(CanonicalSeverities[i], config[CanonicalSeverities[i]])]

\* get_custom_config_snapshot: in the order of the map, never mixed with the
\* canonical one.
CustomConfigSnapshot ==
  LET registered == Keep(CustomOrder, DOMAIN custom)
  IN  [i \in DOMAIN registered |-> Entry(registered[i], custom[registered[i]])]

ListConfigs == config

GetCustomSeverity(severity) == Require(severity \in DOMAIN custom, "SeverityNotInSet")

GetConfigSnapshotByVersion(hash) == IF hash \in DOMAIN registry THEN registry[hash] ELSE NoSnapshot

GetLastConfigUpdate == lastUpdate

\* get_result_schema: fixed by the binary.
ResultSchema ==
  [version |-> "v1", status_met |-> "met", status_violated |-> "viol", payment_reward |-> "rew",
   payment_penalty |-> "pen", ratings |-> << "top", "excel", "good", "poor" >>]

\* get_config_bundle.
ConfigBundle ==
  [snapshot |-> BuildConfigSnapshot, schema |-> ResultSchema, config_version_hash |-> ConfigVersionHash]

\* get_economic_exposure: the top reward and the penalty rate of each tier, and
\* their totals; the overflow check of the totals cannot fail within the bounds.
SeverityExposure(severity) ==
  [severity |-> severity, max_reward |-> (config[severity].reward * 200) \div 100,
   penalty_per_minute |-> config[severity].penalty]

EconomicExposure ==
  LET breakdown == [i \in 1 .. 4 |-> SeverityExposure(CanonicalSeverities[i])]
      Total(F(_)) == F(breakdown[1]) + F(breakdown[2]) + F(breakdown[3]) + F(breakdown[4])
  IN  [total_max_reward |-> Total(LAMBDA e : e.max_reward),
       total_penalty_per_minute |-> Total(LAMBDA e : e.penalty_per_minute),
       breakdown |-> breakdown]

-----------------------------------------------------------------------------
(* The second copy, config.rs *)

\* set_config there: the thresholds of the neighbours, not their penalties.
CopyAcceptsConfig(severity, c) == ValidateConfig(severity, c) ?? ValidateThresholdOrdering(severity, c)

\* What a call answers and the four configuration variables it leaves.
Leaves(error, newConfig, newCustom, newUpdate) ==
  [error |-> error, registry |-> registry,
   config     |-> IF error = Ok THEN newConfig ELSE config,
   custom     |-> IF error = Ok THEN newCustom ELSE custom,
   lastUpdate |-> IF error = Ok THEN newUpdate ELSE lastUpdate]

CopySetConfig(severity, c) ==
  Leaves(CheckVersion ?? RequireNotFrozen ?? CopyAcceptsConfig(severity, c),
         [config EXCEPT ![severity] = c], custom, now)

CopySetCustomSeverity(severity, c) ==
  Leaves(CheckVersion ?? RequireNotFrozen ?? Require(severity \notin Canonical, "InvalidSeverity")
           ?? ValidateGeneralBounds(c),
         config, With(custom, severity, c), lastUpdate)

CopyRemoveCustomSeverity(severity) ==
  Leaves(CheckVersion ?? RequireNotFrozen ?? Require(severity \in DOMAIN custom, "SeverityNotInSet"),
         config, [s \in DOMAIN custom \ {severity} |-> custom[s]], lastUpdate)

\* Its get_config_snapshot loads each tier through the lookup custom
\* severities share, where the contract's reads the canonical map.
CopyGetConfigSnapshot ==
  [i \in 1 .. 4 |-> Entry(CanonicalSeverities[i], LoadConfig(CanonicalSeverities[i]))]

CopyGetCustomConfigSnapshot == CustomConfigSnapshot

-----------------------------------------------------------------------------
(* Properties *)

\* validate_config gives exactly the verdict of the executable specification,
\* the first broken rule included, and whatever it accepts computes for every
\* repair time.
ValidationMatchesSpec ==
  \A severity \in Canonical \cup Custom, c \in ProbedConfigs :
    /\ ValidateMatchesSpec(ValidateConfig(severity, c), severity, c)
    /\ \A mttr \in ProbedMttrs : ValidatedConfigComputes(severity, c, mttr)

\* Where the checks of the second copy differ from the contract's, they are more
\* lenient and only on the penalties of the neighbours: what the contract
\* accepts it accepts, what the contract refuses for another reason it refuses
\* for that reason.  Of its writes: the ladder, the custom severities and the
\* stamp of set_config are those the contract's writers leave.  It registers no
\* snapshot, and its set_custom_severity leaves the stamp of the last update
\* where it was although the version hash in force may have moved.
CopyFollows ==
  ~frozen =>
    \A severity \in Canonical \cup Custom, c \in ConfigInputs :
      LET verdict == AcceptsConfig(severity, c)
          set     == CopySetConfig(severity, c)
          add     == CopySetCustomSeverity(severity, c)
      IN  /\ verdict # "InvalidPenalty" => set.error = verdict
          /\ verdict = Ok => set.config = [config EXCEPT ![severity] = c] /\ set.lastUpdate = now
          /\ add.error = Ok => severity \in Custom /\ add.custom = With(custom, severity, c)
          /\ { set.registry, add.registry } = { registry }
          /\ add.lastUpdate = lastUpdate

\* What one reader says, every other implies, after any sequence of writes, a
\* removal of a custom severity included: a backend that folds the two
\* snapshots gets the hash of the bundle; the lookup by severity, by which
\* decisions are priced, sees what the ordered snapshot shows; and no tier pays
\* or charges by the minute more than the exposure says.
ViewsAgree ==
  /\ ValidationMatchesSpec
  /\ CopyFollows
  /\ LET read == BuildConfigSnapshot \o CustomConfigSnapshot
     IN  ConfigBundle.config_version_hash = ConfigHash([i \in DOMAIN read |-> read[i].config])
  /\ ConfigBundle.snapshot = CopyGetConfigSnapshot
  /\ \A i \in 1 .. 4, mttr \in ProbedMttrs :
       LET exposure == EconomicExposure.breakdown[i]
           c        == config[exposure.severity]
           amount   == ExpectedComputeResult(mttr, c).amount
       IN  /\ amount <= exposure.max_reward
           /\ exposure.max_reward <= EconomicExposure.total_max_reward
           /\ -amount <= SaturatingSub(mttr, c.threshold) * EconomicExposure.total_penalty_per_minute

=============================================================================
