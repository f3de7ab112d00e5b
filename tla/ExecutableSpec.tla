--------------------------- MODULE ExecutableSpec ---------------------------
(***************************************************************************)
(* spec.rs, the rules of the settlement restated apart from the contract,  *)
(* and the assertions fuzz_spec.rs makes with them: the oracle of the fuzz *)
(* targets and of the parity tests.  Nothing here keeps state.             *)
(*                                                                         *)
(* The rules of a configuration are a list; the first one that is broken   *)
(* gives the error.                                                        *)
(***************************************************************************)
EXTENDS Integers, Sequences

THRESHOLD_RANGE == 1 .. 1440
PENALTY_RANGE   == 1 .. 10000
REWARD_RANGE    == 1 .. 100000

TIER_TOP_RATIO_EXCLUSIVE   == 50
TIER_EXCEL_RATIO_EXCLUSIVE == 75

CANONICAL_SEVERITIES == << "critical", "high", "medium", "low" >>

IsCanonicalSeverity(severity) == \E i \in DOMAIN CANONICAL_SEVERITIES : severity = CANONICAL_SEVERITIES[i]

Rule(holds, error) == [holds |-> holds, error |-> error]

ConfigRules(severity, c) ==
  << Rule(IsCanonicalSeverity(severity), "InvalidSeverity"),
     Rule(c.threshold \in THRESHOLD_RANGE, "InvalidThreshold"),
     Rule(c.penalty \in PENALTY_RANGE, "InvalidPenalty"),
     Rule(c.reward \in REWARD_RANGE, "InvalidReward"),
     Rule(severity = "critical" => c.threshold <= 60, "InvalidThreshold"),
     Rule(severity = "critical" => c.penalty >= 50, "InvalidPenalty"),
     Rule(severity = "high" => c.threshold <= 120, "InvalidThreshold"),
     Rule(severity = "high" => c.penalty >= 25, "InvalidPenalty"),
     Rule(severity = "medium" => c.threshold <= 240, "InvalidThreshold"),
     Rule(severity = "medium" => c.penalty >= 10, "InvalidPenalty"),
     Rule(severity = "low" => c.penalty <= 100, "InvalidPenalty"),
     Rule(c.penalty * 3 < c.reward * 2, "InvalidReward") >>

\* expected_validate_config.
ExpectedValidateConfig(severity, c) ==
  LET rules  == ConfigRules(severity, c)
      broken == { i \in DOMAIN rules : ~rules[i].holds }
  IN  IF broken = {} THEN "Ok" ELSE rules[CHOOSE i \in broken : \A j \in broken : i <= j].error

\* The reward tier of a ratio in percent: its multiplier and its rating.
RewardTier(ratio) ==
  CASE ratio < TIER_TOP_RATIO_EXCLUSIVE -> [multiplier |-> 200, rating |-> "top"]
    [] ratio \in TIER_TOP_RATIO_EXCLUSIVE .. TIER_EXCEL_RATIO_EXCLUSIVE - 1 -> [multiplier |-> 150, rating |-> "excel"]
    [] OTHER -> [multiplier |-> 100, rating |-> "good"]

Outcome(status, payment, rating, amount, sound, error) ==
  [error |-> IF sound THEN "Ok" ELSE error, status |-> status, payment_type |-> payment, rating |-> rating,
   amount |-> amount]

\* expected_compute_result.  The products stay far from i128::MAX for every
\* input the bounds admit; their overflow checks are left out.
ExpectedComputeResult(mttr, c) ==
  IF mttr > c.threshold
  THEN LET amount == -((mttr - c.threshold) * c.penalty)
       IN  Outcome("viol", "pen", "poor", amount, amount < 0, "InvalidPenaltyAmount")
  ELSE LET tier   == RewardTier(IF c.threshold = 0 THEN 0 ELSE (mttr * 100) \div c.threshold)
           amount == (c.reward * tier.multiplier) \div 100
       IN  Outcome("met", "rew", tier.rating, amount, amount > 0, "InvalidRewardAmount")

-----------------------------------------------------------------------------
(* What the fuzz targets assert of an implementation under test *)

\* assert_validate_config_matches_spec: the acceptance and the exact error.
ValidateMatchesSpec(actual, severity, c) == actual = ExpectedValidateConfig(severity, c)

\* The signs and ratings settlement consumers rely on, apart from the tiers.
SettlementShaped(want, mttr, c) ==
  \/ /\ want.status = "met" /\ want.payment_type = "rew" /\ want.amount > 0
     /\ want.rating \in { "top", "excel", "good" } /\ mttr <= c.threshold
  \/ /\ want.status = "viol" /\ want.payment_type = "pen" /\ want.amount < 0
     /\ want.rating = "poor" /\ mttr > c.threshold

\* assert_compute_result_matches_spec: `result` with its `error` is what the
\* implementation gave for these inputs.
ComputeMatchesSpec(result, error, outage, mttr, c, hash, at) ==
  LET want == ExpectedComputeResult(mttr, c)
  IN  /\ error = want.error
      /\ want.error = "Ok" =>
           /\ SettlementShaped(want, mttr, c)
           /\ result.met = (want.status = "met")
           /\ result.amount = want.amount
           /\ result.outage_id = outage
           /\ result.mttr_minutes = mttr
           /\ result.threshold_minutes = c.threshold
           /\ result.config_version_hash = hash
           /\ result.recorded_at = at

\* assert_validated_config_computes.
ValidatedConfigComputes(severity, c, mttr) ==
  ExpectedValidateConfig(severity, c) = "Ok" =>
    LET want == ExpectedComputeResult(mttr, c) IN want.error = "Ok" /\ want.amount # 0

=============================================================================
