---------------------------- MODULE SecondCopies ----------------------------
(***************************************************************************)
(* The settlement is written three times: in lib.rs, which runs, in        *)
(* calculation.rs, which the tests take for the baseline, and in spec.rs,  *)
(* which the fuzz targets take for the oracle.  And it is asked in three   *)
(* ways: calculate_sla, which settles, and two views anyone may call       *)
(* before or after.  This module says that all of them tell the same.      *)
(***************************************************************************)
EXTENDS SlaCalculator, ExecutableSpec

\* The sharded history read from its head to its tail (HistoryStore shows that
\* no row is missing there) is the one vector of calculation.rs, and its events
\* are what its total counts.
OneVector == INSTANCE Calculation WITH
               history      <- [k \in 1 .. tail - head |-> entries[head + k - 1]],
               totalEntries <- Len(recorded)

-----------------------------------------------------------------------------
(* The views of lib.rs, as they answer in a state *)

\* Mutant: the view asks for the same inputs only, whatever the generation.
CalculateSlaViewAnyGeneration(outage, severity, mttr) ==
  LET c      == LoadConfig(severity)
      prev   == History!LatestForOutage(outage)
      fresh  == ComputeResult(outage, mttr, c, Generation(severity), now)
      stored == prev # NoResult
      error  == CheckVersion
                  ?? Require(mttr <= MAX_MTTR, "InvalidInput")
                  ?? RequireConfig(severity)
                  ?? Require(stored => SameInputs(prev, mttr, c), "DuplicateOutageInput")
                  ?? (IF stored THEN Ok ELSE RequireAmount(fresh))
  IN  [error |-> error, result |-> IF error # Ok THEN << >> ELSE IF stored THEN prev ELSE fresh]

\* calculate_sla_view: no role, no pause, and no recalculation cap.
CalculateSlaView(outage, severity, mttr) ==
  LET c      == LoadConfig(severity)
      prev   == History!LatestForOutage(outage)
      fresh  == ComputeResult(outage, mttr, c, Generation(severity), now)
      stored == SameGeneration(prev, Generation(severity), mttr, c)
      error  == CheckVersion
                  ?? Require(mttr <= MAX_MTTR, "InvalidInput")
                  ?? RequireConfig(severity)
                  ?? Require(stored => SameInputs(prev, mttr, c), "DuplicateOutageInput")
                  ?? (IF stored THEN Ok ELSE RequireAmount(fresh))
  IN  [error |-> error, result |-> IF error # Ok THEN << >> ELSE IF stored THEN prev ELSE fresh]

\* replay_calculate_sla: the history is not asked at all, and the caller names
\* the ledger the result is stamped with.
ReplayCalculateSla(outage, severity, mttr, recordedAtLedger) ==
  LET c     == LoadConfig(severity)
      fresh == ComputeResult(outage, mttr, c, Generation(severity), recordedAtLedger)
      error == CheckVersion
                 ?? Require(mttr <= MAX_MTTR, "InvalidInput")
                 ?? RequireConfig(severity)
                 ?? RequireAmount(fresh)
  IN  [error |-> error, result |-> IF error # Ok THEN << >> ELSE fresh]

-----------------------------------------------------------------------------
(* Properties *)

\* Every settlement, replay and rejection of the contract is the one the
\* baseline makes, with the same answer, statistics and telemetry: the index
\* lookup agrees with the scan, the trim of the shards with the trim of the
\* vector.  And no other call touches its keys but to drop the oldest rows.
ImplementsCalculation == OneVector!Spec

\* A decision asked of the views is the one calculate_sla would take: they
\* agree with the baseline's view; what is stored replays to itself under the
\* ledger it was recorded in; a live answer is what a replay at this ledger
\* says, and what the executable specification requires.
ViewsTellDecision ==
  \A outage \in OutageIds, severity \in Severities, mttr \in Mttrs :
    LET view   == CalculateSlaView(outage, severity, mttr)
        replay == ReplayCalculateSla(outage, severity, mttr,
                    IF view.error = Ok THEN view.result.recorded_at ELSE now)
    IN  /\ view = OneVector!CalculateSlaView(outage, severity, mttr)
        /\ view.error = Ok => view = replay
        /\ replay.error = Ok =>
             ComputeMatchesSpec(replay.result, Ok, outage, mttr, LoadConfig(severity), Generation(severity),
                                replay.result.recorded_at)

=============================================================================
