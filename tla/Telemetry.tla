------------------------------ MODULE Telemetry ------------------------------
(***************************************************************************)
(* The per-severity counters behind get_severity_telemetry.                *)
(*                                                                         *)
(* Each lane (the four canonical severities, and one that all custom ones  *)
(* share) packs two u32 counters and the u32 times at which each was last  *)
(* incremented.  A counter goes back to zero only on the next calculation  *)
(* of its lane, and only when a week has passed since its own time; 0      *)
(* stands for never.  What the counters then count is not said anywhere in *)
(* the code: BurstCounts says it.                                          *)
(***************************************************************************)
EXTENDS HostClock, Sequences, FiniteSets

CONSTANTS
  Lanes,
  WEEK,               \* week_seconds
  U32MAX,             \* of the counters and of the stored times
  MaxDecisions        \* bound on the decisions, in Decide's guard

ASSUME TelemetryAssumption ==
  /\ WEEK \in Nat \ {0}
  /\ U32MAX \in Nat \ {0}
  /\ MaxDecisions \in Nat

VARIABLES
  calculations, violations,           \* SEVERITY_CALC_COUNTS_KEY, SEVERITY_VIOL_COUNTS_KEY
  lastCalculations, lastViolations,   \* LAST_CALCULATION_TS_KEY, LAST_VIOLATION_TS_KEY
  decided             \* history variable: the decisions of each lane, in order

laneVars == << calculations, violations, lastCalculations, lastViolations >>
vars     == << laneVars, decided, now >>

Capped(n) == IF n > U32MAX THEN U32MAX ELSE n

\* Mutant: a week to the second is not yet stale.
StaleStrictly(last) == last # 0 /\ now - last > WEEK

Stale(last) == last # 0 /\ now - last >= WEEK

Bump(count, stale, by) == Capped((IF stale THEN 0 ELSE count) + by)

\* Mutant: only a violation looks whether the violations are stale.
RecordTelemetryStaleViolations(lane, met) ==
  /\ calculations' = [calculations EXCEPT ![lane] = Bump(@, Stale(lastCalculations[lane]), 1)]
  /\ violations' = IF met THEN violations
                   ELSE [violations EXCEPT ![lane] = Bump(@, Stale(lastViolations[lane]), 1)]
  /\ lastCalculations' = [lastCalculations EXCEPT ![lane] = Capped(now)]
  /\ lastViolations' = IF met THEN lastViolations ELSE [lastViolations EXCEPT ![lane] = Capped(now)]

\* record_severity_telemetry and, for the lane the custom severities share,
\* record_custom_severity_telemetry: the same steps on another key.
RecordTelemetry(lane, met) ==
  /\ calculations' = [calculations EXCEPT ![lane] = Bump(@, Stale(lastCalculations[lane]), 1)]
  /\ violations' = [violations EXCEPT ![lane] = Bump(@, Stale(lastViolations[lane]), IF met THEN 0 ELSE 1)]
  /\ lastCalculations' = [lastCalculations EXCEPT ![lane] = Capped(now)]
  /\ lastViolations' = IF met THEN lastViolations ELSE [lastViolations EXCEPT ![lane] = Capped(now)]

AllDecided == Cardinality(UNION { {lane} \X DOMAIN decided[lane] : lane \in Lanes })

\* A decision that is stored, as calculate_sla counts it.
Decide(lane, met) ==
  /\ AllDecided < MaxDecisions
  /\ RecordTelemetry(lane, met)
  /\ decided' = [decided EXCEPT ![lane] = Append(@, [at |-> now, met |-> met])]
  /\ UNCHANGED now

NewLedger == CloseLedger /\ UNCHANGED << laneVars, decided >>

NoCounts == [lane \in Lanes |-> 0]

TelemetryInit ==
  /\ calculations = NoCounts
  /\ violations = NoCounts
  /\ lastCalculations = NoCounts
  /\ lastViolations = NoCounts

\* No ledger closes at time 0, which the lanes could not tell from never.
Init ==
  /\ TelemetryInit
  /\ decided = [lane \in Lanes |-> << >>]
  /\ now = 1

Next ==
  \/ \E lane \in Lanes, met \in BOOLEAN : Decide(lane, met)
  \/ NewLedger

Spec == Init /\ [][Next]_vars

-----------------------------------------------------------------------------
(* Properties *)

Lane(f) == f \in [Lanes -> 0 .. U32MAX]

\* Counters and times fit their 32 bits, and no time is later than now.
TypeOK ==
  /\ Lane(calculations) /\ Lane(violations) /\ Lane(lastCalculations) /\ Lane(lastViolations)
  /\ \A lane \in Lanes :
       lastViolations[lane] <= lastCalculations[lane] /\ lastCalculations[lane] <= now
  /\ now \in Nat \ {0}

\* The min(100) of get_severity_telemetry never hides a rate above 100 %: the
\* two counters are reset on times of their own, yet the violations never
\* outlive the calculations they belong to, at saturation and past the last u32
\* time included.
RateAtMostOne == \A lane \in Lanes : violations[lane] <= calculations[lane]

Violating(s) == { i \in DOMAIN s : ~s[i].met }

\* How many of the picked decisions there are since the last one that came a
\* week or more after the picked one before it.
Burst(s, picked) ==
  Cardinality({ i \in picked :
    \A j \in picked : i < j => \E k \in picked : k < j /\ s[j].at - s[k].at < WEEK })

\* While times fit in 32 bits: the calculations are those of the last burst of
\* activity, decisions less than a week apart however long the burst lasts;
\* the violations are those of the last burst of violations, or none once a
\* decision has been taken a week after the last of them.
BurstCounts ==
  now <= U32MAX =>
    \A lane \in Lanes :
      LET all == decided[lane]
          bad == Violating(all)
      IN  /\ calculations[lane] = Capped(Burst(all, DOMAIN all))
          /\ violations[lane] =
               IF \E i \in bad : all[Len(all)].at - all[i].at < WEEK THEN Capped(Burst(all, bad)) ELSE 0

=============================================================================
