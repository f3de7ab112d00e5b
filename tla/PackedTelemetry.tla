---------------------------- MODULE PackedTelemetry ----------------------------
(***************************************************************************)
(* The lanes of Telemetry as they are stored: four words that each pack    *)
(* the canonical severities' counters (or times) side by side, and one     *)
(* word that packs the two counters and two times of all custom ones.      *)
(* Every step reads a word, cuts lanes out of it, and writes the word back *)
(* whole; nothing but the masks keeps a lane from its neighbours.          *)
(*                                                                         *)
(* The words take each decision together with the lanes of Telemetry,      *)
(* which are what they ought to hold.                                      *)
(***************************************************************************)
EXTENDS Telemetry, SequencesExt

CONSTANTS
  Canonical,          \* the canonical severities in the order of their lanes
  Percent             \* 100, scaled down with U32MAX

ASSUME PackingAssumption ==
  /\ Canonical \in Seq(Lanes \ {"custom"})
  /\ Len(Canonical) <= 4
  /\ \A i, k \in 1 .. Len(Canonical) : Canonical[i] = Canonical[k] => i = k
  /\ "custom" \in Lanes
  /\ Lanes \ {"custom"} \subseteq ToSet(Canonical)
  /\ Percent \in Nat \ {0}

VARIABLES calcWord, violWord, lastCalcWord, lastViolWord, customWord

words == << calcWord, violWord, lastCalcWord, lastViolWord, customWord >>
packedVars == << vars, words >>

-----------------------------------------------------------------------------
(* A word of u32 lanes, lane 0 the least significant *)

\* A u128 has room for four lanes.
Shift(index) == LET B == U32MAX + 1 IN << 1, B, B * B, B * B * B >>[index + 1]

\* count_lane: shifted down and masked.
CountLane(packed, index) == (packed \div Shift(index)) % (U32MAX + 1)

\* Mutant: the old value is not masked out.
SetCountLaneUnmasked(packed, index, value) == packed + value * Shift(index)

\* set_count_lane: the lane masked out, the value put in its place.
SetCountLane(packed, index, value) ==
  (packed - CountLane(packed, index) * Shift(index)) + value * Shift(index)

SaturatingBump(packed, index) ==
  SetCountLane(packed, index, IF CountLane(packed, index) = U32MAX THEN U32MAX ELSE CountLane(packed, index) + 1)

\* The reset of a stale lane, then the increment.
Count(packed, index, stale, counted) ==
  LET reset == IF stale THEN SetCountLane(packed, index, 0) ELSE packed
  IN  IF counted THEN SaturatingBump(reset, index) ELSE reset

CurrentTs == IF now > U32MAX THEN U32MAX ELSE now

WeekPassed(last) == last # 0 /\ now - last >= WEEK

IndexOf(severity) == (CHOOSE i \in 1 .. Len(Canonical) : Canonical[i] = severity) - 1

RecordSeverityTelemetry(severity, met) ==
  LET index == IndexOf(severity)
  IN  /\ calcWord' = Count(calcWord, index, WeekPassed(CountLane(lastCalcWord, index)), TRUE)
      /\ violWord' = Count(violWord, index, WeekPassed(CountLane(lastViolWord, index)), ~met)
      /\ lastCalcWord' = SetCountLane(lastCalcWord, index, CurrentTs)
      /\ lastViolWord' = IF met THEN lastViolWord ELSE SetCountLane(lastViolWord, index, CurrentTs)
      /\ UNCHANGED customWord

\* Mutant: the time of a violation is read where the calculation's is kept.
RecordCustomSeverityTelemetrySwapped(met) ==
  LET counted == Count(customWord, 0, WeekPassed(CountLane(customWord, 2)), TRUE)
      judged  == Count(counted, 1, WeekPassed(CountLane(customWord, 2)), ~met)
      timed   == SetCountLane(judged, 2, CurrentTs)
  IN  /\ customWord' = IF met THEN timed ELSE SetCountLane(timed, 3, CurrentTs)
      /\ UNCHANGED << calcWord, violWord, lastCalcWord, lastViolWord >>

\* Lane 0 counts calculations and lane 1 violations; 2 and 3 are their times.
RecordCustomSeverityTelemetry(met) ==
  LET counted == Count(customWord, 0, WeekPassed(CountLane(customWord, 2)), TRUE)
      judged  == Count(counted, 1, WeekPassed(CountLane(customWord, 3)), ~met)
      timed   == SetCountLane(judged, 2, CurrentTs)
  IN  /\ customWord' = IF met THEN timed ELSE SetCountLane(timed, 3, CurrentTs)
      /\ UNCHANGED << calcWord, violWord, lastCalcWord, lastViolWord >>

-----------------------------------------------------------------------------
(* get_severity_telemetry *)

\* saturating_mul, then the division, then min.
ViolationRate(count, violating) ==
  LET product == IF violating * Percent > U32MAX THEN U32MAX ELSE violating * Percent
      rate    == product \div count
  IN  IF count = 0 THEN 0 ELSE IF rate > Percent THEN Percent ELSE rate

\* Mutant: the violations are divided by what else was calculated.
RowAgainstMet(severity, count, violating) ==
  [severity |-> severity, calculations |-> count, violations |-> violating,
   violation_rate |-> ViolationRate(count - violating, violating)]

Row(severity, count, violating) ==
  [severity |-> severity, calculations |-> count, violations |-> violating,
   violation_rate |-> ViolationRate(count, violating)]

\* A row per canonical severity; the custom one only where there is something.
GetSeverityTelemetry(customRegistered) ==
  [i \in 1 .. Len(Canonical) |-> Row(Canonical[i], CountLane(calcWord, i - 1), CountLane(violWord, i - 1))]
    \o IF customRegistered \/ customWord # 0
       THEN << Row("custom", CountLane(customWord, 0), CountLane(customWord, 1)) >>
       ELSE << >>

-----------------------------------------------------------------------------

RecordWords(lane, met) ==
  IF lane = "custom" THEN RecordCustomSeverityTelemetry(met) ELSE RecordSeverityTelemetry(lane, met)

PackedInit ==
  /\ Init
  /\ calcWord = 0 /\ violWord = 0 /\ lastCalcWord = 0 /\ lastViolWord = 0 /\ customWord = 0

PackedNext ==
  \/ \E lane \in Lanes, met \in BOOLEAN : Decide(lane, met) /\ RecordWords(lane, met)
  \/ NewLedger /\ UNCHANGED words

PackedSpec == PackedInit /\ [][PackedNext]_packedVars

-----------------------------------------------------------------------------
(* Properties *)

\* The words hold the lanes: no read, reset, saturated increment or time of one
\* lane reaches into another, wherever its neighbours stand, at the top of their
\* 32 bits and past the last time that fits them.
WordsHoldLanes ==
  \A lane \in Lanes :
    << calculations[lane], violations[lane], lastCalculations[lane], lastViolations[lane] >> =
      IF lane = "custom"
      THEN [i \in 1 .. 4 |-> CountLane(customWord, i - 1)]
      ELSE LET index == IndexOf(lane)
           IN  << CountLane(calcWord, index), CountLane(violWord, index),
                  CountLane(lastCalcWord, index), CountLane(lastViolWord, index) >>

\* The rate a dashboard reads is never above the true one and never above 100 %;
\* it is the true one, rounded down, as long as the product fits 32 bits, and
\* a lane that has counted anything has a row, registered or not.
RateNeverOverstated ==
  \A customRegistered \in BOOLEAN :
    LET rows == GetSeverityTelemetry(customRegistered)
    IN  /\ \A i \in 1 .. Len(rows) :
             LET row == rows[i]
             IN  /\ row.violation_rate * row.calculations <= row.violations * Percent
                 /\ row.violation_rate <= Percent
                 /\ row.violations * Percent <= U32MAX =>
                      (row.violation_rate + 1) * row.calculations > row.violations * Percent \/ row.calculations = 0
        /\ \A lane \in Lanes : decided[lane] # << >> =>
             \E i \in 1 .. Len(rows) : rows[i].severity = lane /\ rows[i].calculations = calculations[lane]

=============================================================================
