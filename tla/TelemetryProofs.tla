--------------------------- MODULE TelemetryProofs ---------------------------
(***************************************************************************)
(* Proofs about Telemetry, for every set of lanes, week and counter width. *)
(*                                                                         *)
(* RateAtMostOne is not inductive: a calculation counter that is reset     *)
(* while the violations survive would break it.  What prevents that is     *)
(* that the last violation is never later than the last calculation, so    *)
(* its week is over first, unless there has been no violation, which the   *)
(* time 0 says; then there must be nothing to reset.                       *)
(*                                                                         *)
(* BurstCounts follows a lane through its decisions: Holds ties the four   *)
(* stored numbers to them, and BurstGrows says what one decision more does *)
(* to a burst, for all decisions and for the violations among them alike.  *)
(*                                                                         *)
(* The words of PackedTelemetry are numbers written in base U32MAX + 1:    *)
(* LanesOfWord says what count_lane reads from four digits, OneLaneSet what *)
(* set_count_lane leaves of them, and PackedInv that the digits are the lanes. *)
(***************************************************************************)
EXTENDS PackedTelemetry, FiniteSetTheorems, TLAPS

\* Without a recorded time of a violation, no violation is counted.
NeverMeansNone == \A lane \in Lanes : lastViolations[lane] = 0 => violations[lane] = 0

Inv == TypeOK /\ RateAtMostOne /\ NeverMeansNone

\* The invariant holds of the zeroed lanes initialize writes.
LEMMA InitInv == Init => Inv
BY TelemetryAssumption DEF Init, TelemetryInit, NoCounts, Inv, TypeOK, Lane, RateAtMostOne, NeverMeansNone

\* A decision counted in one lane keeps the invariant in all of them.
LEMMA RecordKeepsInv ==
  ASSUME Inv, NEW lane \in Lanes, NEW met \in BOOLEAN, RecordTelemetry(lane, met), UNCHANGED now
  PROVE  Inv'
<1> DEFINE by == IF met THEN 0 ELSE 1
<1>1. ASSUME NEW l \in Lanes
      PROVE  /\ calculations[l] \in 0 .. U32MAX /\ violations[l] \in 0 .. U32MAX
             /\ lastCalculations[l] \in 0 .. U32MAX /\ lastViolations[l] \in 0 .. U32MAX
             /\ violations[l] <= calculations[l] /\ lastViolations[l] <= lastCalculations[l]
             /\ lastCalculations[l] <= now /\ (lastViolations[l] = 0 => violations[l] = 0)
  BY DEF Inv, TypeOK, Lane, RateAtMostOne, NeverMeansNone
<1>2. now \in Nat \ {0}
  BY DEF Inv, TypeOK
<1>3. by \in {0, 1} /\ (by = 0 <=> met)
  OBVIOUS
<1>4. /\ Bump(calculations[lane], Stale(lastCalculations[lane]), 1) \in 0 .. U32MAX
      /\ Bump(violations[lane], Stale(lastViolations[lane]), by) \in 0 .. U32MAX
      /\ Bump(violations[lane], Stale(lastViolations[lane]), by)
           <= Bump(calculations[lane], Stale(lastCalculations[lane]), 1)
      /\ Capped(now) \in 1 .. U32MAX
      /\ Capped(now) <= now
      /\ lastViolations[lane] <= Capped(now)
      /\ by = 0 /\ lastViolations[lane] = 0 => Bump(violations[lane], Stale(lastViolations[lane]), by) = 0
  <2> DEFINE c == calculations[lane]
             v == violations[lane]
             lc == lastCalculations[lane]
             lv == lastViolations[lane]
  <2>1. /\ c \in 0 .. U32MAX /\ v \in 0 .. U32MAX /\ lc \in 0 .. U32MAX /\ lv \in 0 .. U32MAX
        /\ v <= c /\ lv <= lc /\ lc <= now /\ (lv = 0 => v = 0)
    BY <1>1
  <2> HIDE DEF by, c, v, lc, lv
  <2>2. /\ Bump(c, Stale(lc), 1) \in 0 .. U32MAX
        /\ Bump(v, Stale(lv), by) \in 0 .. U32MAX
        /\ Bump(v, Stale(lv), by) <= Bump(c, Stale(lc), 1)
        /\ Capped(now) \in 1 .. U32MAX
        /\ Capped(now) <= now
        /\ lv <= Capped(now)
        /\ (by = 0 /\ lv = 0 => Bump(v, Stale(lv), by) = 0)
    BY <1>2, <1>3, <2>1, TelemetryAssumption, SMTT(30) DEF Bump, Stale, Capped
  <2> USE DEF c, v, lc, lv
  <2> QED BY <2>2
<1>5. /\ calculations' = [calculations EXCEPT ![lane] = Bump(calculations[lane], Stale(lastCalculations[lane]), 1)]
      /\ violations' = [violations EXCEPT ![lane] = Bump(violations[lane], Stale(lastViolations[lane]), by)]
      /\ lastCalculations' = [lastCalculations EXCEPT ![lane] = Capped(now)]
      /\ lastViolations' = IF met THEN lastViolations ELSE [lastViolations EXCEPT ![lane] = Capped(now)]
      /\ now' = now
  BY DEF RecordTelemetry
<1>6. Lane(calculations) /\ Lane(violations) /\ Lane(lastCalculations) /\ Lane(lastViolations)
  BY DEF Inv, TypeOK
<1> HIDE DEF by
<1>7. Lane(calculations') /\ Lane(violations') /\ Lane(lastCalculations') /\ Lane(lastViolations')
  BY <1>4, <1>5, <1>6 DEF Lane
<1>8. ASSUME NEW l \in Lanes
      PROVE  /\ violations'[l] <= calculations'[l]
             /\ lastViolations'[l] <= lastCalculations'[l]
             /\ lastCalculations'[l] <= now'
             /\ lastViolations'[l] = 0 => violations'[l] = 0
  <2>1. CASE l # lane
    BY <2>1, <1>1, <1>5, <1>6 DEF Lane
  <2>2. CASE l = lane /\ met
    BY <2>2, <1>2, <1>3, <1>4, <1>5, <1>6 DEF Lane
  <2>3. CASE l = lane /\ ~met
    BY <2>3, <1>2, <1>3, <1>4, <1>5, <1>6 DEF Lane
  <2> QED BY <2>1, <2>2, <2>3
<1> QED BY <1>2, <1>5, <1>7, <1>8 DEF Inv, TypeOK, Lane, RateAtMostOne, NeverMeansNone

\* Every step of the telemetry keeps the invariant; time only makes stale.
LEMMA InvInductive == Inv /\ [Next]_vars => Inv'
<1> SUFFICES ASSUME Inv, [Next]_vars PROVE Inv'
  OBVIOUS
<1>1. ASSUME NEW lane \in Lanes, NEW met \in BOOLEAN, Decide(lane, met) PROVE Inv'
  BY <1>1, RecordKeepsInv DEF Decide
<1>2. CASE NewLedger
  BY <1>2 DEF NewLedger, CloseLedger, laneVars, Inv, TypeOK, Lane, RateAtMostOne, NeverMeansNone
<1>3. CASE UNCHANGED vars
  BY <1>3 DEF vars, laneVars, Inv, TypeOK, Lane, RateAtMostOne, NeverMeansNone
<1> QED BY <1>1, <1>2, <1>3 DEF Next

\* The inductive invariant holds in every reachable state.
THEOREM InvAlways == Spec => []Inv
BY InitInv, InvInductive, PTL DEF Spec

\* record_severity_telemetry: counters and times stay inside their 32 bits, and
\* no stored time is later than the ledger's.
THEOREM TypeCorrect == Spec => []TypeOK
BY InvAlways, PTL DEF Inv

\* get_severity_telemetry never reports more violations than calculations, for
\* any number of lanes and however the two independent resets fall.
THEOREM RateNeverExceedsOne == Spec => []RateAtMostOne
BY InvAlways, PTL DEF Inv

-----------------------------------------------------------------------------
(* What the counters count *)

Decisions == Seq([at : Nat, met : BOOLEAN])

InOrder(s) ==
  /\ \A i \in DOMAIN s : 0 < s[i].at /\ s[i].at <= now
  /\ \A i, j \in DOMAIN s : i <= j => s[i].at <= s[j].at

\* What a lane holds of the decisions s it has counted: its times are those of
\* the last decision and of the last violation, and BurstCounts for one lane.
Holds(s, calcs, viols, lastCalc, lastViol) ==
  /\ lastCalc = IF s = << >> THEN 0 ELSE s[Len(s)].at
  /\ \/ Violating(s) = {} /\ lastViol = 0
     \/ \E m \in Violating(s) : lastViol = s[m].at /\ \A i \in Violating(s) : i <= m
  /\ calcs = Capped(Burst(s, DOMAIN s))
  /\ viols = IF \E i \in Violating(s) : s[Len(s)].at - s[i].at < WEEK
             THEN Capped(Burst(s, Violating(s))) ELSE 0

BurstInv ==
  /\ now \in Nat \ {0}
  /\ \A lane \in Lanes : decided[lane] \in Decisions /\ InOrder(decided[lane])
  /\ DOMAIN decided = Lanes
  /\ Lane(calculations) /\ Lane(violations) /\ Lane(lastCalculations) /\ Lane(lastViolations)
  /\ now <= U32MAX =>
       \A lane \in Lanes :
         Holds(decided[lane], calculations[lane], violations[lane], lastCalculations[lane], lastViolations[lane])

Follows(s, picked, i) == \A j \in picked : i < j => \E k \in picked : k < j /\ s[j].at - s[k].at < WEEK

\* A burst is no longer than what it is picked from.
LEMMA BurstIsNat ==
  ASSUME NEW s \in Decisions, NEW picked \in SUBSET DOMAIN s
  PROVE  /\ Burst(s, picked) \in Nat
         /\ picked = {} => Burst(s, picked) = 0
         /\ IsFiniteSet({ i \in picked : Follows(s, picked, i) })
         /\ Burst(s, picked) = Cardinality({ i \in picked : Follows(s, picked, i) })
<1> DEFINE B == { i \in picked : Follows(s, picked, i) }
<1>1. DOMAIN s = 1 .. Len(s) /\ Len(s) \in Nat
  BY DEF Decisions
<1>2. IsFiniteSet(DOMAIN s)
  BY <1>1, FS_Interval
<1>3. B \in SUBSET DOMAIN s
  OBVIOUS
<1>4. IsFiniteSet(B)
  BY <1>2, <1>3, FS_Subset
<1>5. Cardinality(B) \in Nat
  BY <1>4, FS_CardinalityType
<1>6. Burst(s, picked) = Cardinality(B)
  BY DEF Burst, Follows
<1>7. picked = {} => B = {}
  OBVIOUS
<1> QED BY <1>4, <1>5, <1>6, <1>7, FS_EmptySet

\* A decision that is not picked leaves the burst as it is.
LEMMA BurstPassesOver ==
  ASSUME NEW s \in Decisions, NEW picked \in SUBSET DOMAIN s, NEW d \in [at : Nat, met : BOOLEAN]
  PROVE  Burst(Append(s, d), picked) = Burst(s, picked)
<1>1. \A i \in DOMAIN s : Append(s, d)[i] = s[i]
  BY DEF Decisions
<1>2. \A i \in picked : Follows(Append(s, d), picked, i) <=> Follows(s, picked, i)
  BY <1>1 DEF Follows
<1>3. { i \in picked : Follows(Append(s, d), picked, i) } = { i \in picked : Follows(s, picked, i) }
  BY <1>2
<1> QED BY <1>3 DEF Burst, Follows

\* A picked decision goes on with the burst, or starts one of its own.
LEMMA BurstGrows ==
  ASSUME NEW s \in Decisions, NEW picked \in SUBSET DOMAIN s, NEW d \in [at : Nat, met : BOOLEAN]
  PROVE  Burst(Append(s, d), picked \cup {Len(s) + 1}) =
           IF \E k \in picked : d.at - s[k].at < WEEK THEN Burst(s, picked) + 1 ELSE 1
<1> DEFINE n == Len(s) + 1
           t == Append(s, d)
           more == picked \cup {n}
           old == { i \in picked : Follows(s, picked, i) }
           new == { i \in more : Follows(t, more, i) }
<1>1. DOMAIN s = 1 .. Len(s) /\ Len(s) \in Nat
  BY DEF Decisions
<1>2. /\ \A i \in picked : t[i] = s[i] /\ i \in Nat /\ i < n
      /\ t[n] = d
      /\ n \in Nat
  BY <1>1 DEF Decisions
<1> HIDE DEF n, t
<1>3. Follows(t, more, n)
  BY <1>2 DEF Follows
<1>4. ASSUME NEW i \in picked
      PROVE  Follows(t, more, i) <=> Follows(s, picked, i) /\ \E k \in picked : d.at - s[k].at < WEEK
  <2>1. \A j, k \in picked : t[j].at - t[k].at = s[j].at - s[k].at
    BY <1>2
  <2>2. \A j \in picked :
          (\E k \in more : k < j /\ t[j].at - t[k].at < WEEK)
            <=> (\E k \in picked : k < j /\ s[j].at - s[k].at < WEEK)
    BY <1>2, <2>1
  <2>3. (\E k \in more : k < n /\ t[n].at - t[k].at < WEEK)
            <=> (\E k \in picked : d.at - s[k].at < WEEK)
    BY <1>2
  <2>4. i < n
    BY <1>2
  <2>5. Follows(t, more, i)
          <=> /\ \A j \in picked : i < j => \E k \in more : k < j /\ t[j].at - t[k].at < WEEK
              /\ \E k \in more : k < n /\ t[n].at - t[k].at < WEEK
    BY <2>4 DEF Follows
  <2>6. Follows(s, picked, i) <=> \A j \in picked : i < j => \E k \in more : k < j /\ t[j].at - t[k].at < WEEK
    BY <2>2 DEF Follows
  <2> QED BY <2>3, <2>5, <2>6
<1>5. IsFiniteSet(old) /\ Burst(s, picked) = Cardinality(old) /\ Cardinality(old) \in Nat
  BY BurstIsNat
<1>6. Burst(t, more) = Cardinality(new)
  BY DEF Burst, Follows
<1>7. CASE \E k \in picked : d.at - s[k].at < WEEK
  <2>1. new = old \cup {n}
    BY <1>3, <1>4, <1>7
  <2>2. n \notin old
    BY <1>2
  <2>3. Cardinality(new) = Cardinality(old) + 1
    BY <1>5, <2>1, <2>2, FS_AddElement
  <2> QED BY <1>5, <1>6, <1>7, <2>3 DEF n, t
<1>8. CASE ~ \E k \in picked : d.at - s[k].at < WEEK
  <2>1. new = {n}
    BY <1>3, <1>4, <1>8
  <2>2. Cardinality(new) = 1
    BY <2>1, FS_Singleton
  <2> QED BY <1>6, <1>8, <2>2 DEF n, t
<1> QED BY <1>7, <1>8

\* The elements of a sequence are in the set it is over.
LEMMA ElementOf == ASSUME NEW R, NEW q \in Seq(R) PROVE \A i \in DOMAIN q : q[i] \in R
OBVIOUS

\* One decision more, counted in its lane.
LEMMA RecordKeepsHolds ==
  ASSUME NEW s \in Decisions, InOrder(s), NEW met \in BOOLEAN,
         now \in Nat \ {0}, now <= U32MAX,
         NEW c \in 0 .. U32MAX, NEW v \in 0 .. U32MAX, NEW lc \in 0 .. U32MAX, NEW lv \in 0 .. U32MAX,
         Holds(s, c, v, lc, lv)
  PROVE  Holds(Append(s, [at |-> now, met |-> met]),
               Bump(c, Stale(lc), 1), Bump(v, Stale(lv), IF met THEN 0 ELSE 1),
               Capped(now), IF met THEN lv ELSE Capped(now))
<1> DEFINE d == [at |-> now, met |-> met]
           t == Append(s, d)
           n == Len(s) + 1
           bad == Violating(s)
<1>1. DOMAIN s = 1 .. Len(s) /\ Len(s) \in Nat /\ (s = << >> <=> Len(s) = 0)
  BY DEF Decisions
<1>2. /\ t \in Decisions /\ Len(t) = n /\ DOMAIN t = DOMAIN s \cup {n} /\ t # << >>
      /\ t[n] = d
      /\ \A i \in DOMAIN s : t[i] = s[i] /\ i < n /\ i \in Nat /\ i <= Len(s)
      /\ \A i \in DOMAIN s : s[i] \in [at : Nat, met : BOOLEAN]
  <2>1. d \in [at : Nat, met : BOOLEAN]
    OBVIOUS
  <2> HIDE DEF d
  <2>2. s \in Seq([at : Nat, met : BOOLEAN])
    BY DEF Decisions
  <2>3. t \in Decisions /\ Len(t) = n /\ t[n] = d /\ \A i \in DOMAIN s : t[i] = s[i]
    BY <1>1, <2>1, <2>2 DEF Decisions
  <2>4. DOMAIN t = 1 .. n
    BY <2>3 DEF Decisions
  <2>5. \A i \in DOMAIN s : i < n /\ i \in Nat /\ i <= Len(s)
    BY <1>1
  <2>6. 1 .. n = (1 .. Len(s)) \cup {n} /\ n # 0
    BY <1>1
  <2>7. \A i \in DOMAIN s : s[i] \in [at : Nat, met : BOOLEAN]
    BY <2>2, ElementOf
  <2>8. t # << >>
    BY <2>3, <2>6
  <2>9. DOMAIN t = DOMAIN s \cup {n}
    BY <1>1, <2>4, <2>6
  <2> QED BY <2>3, <2>5, <2>7, <2>8, <2>9
<1>3. d.at = now /\ d.met = met /\ d \in [at : Nat, met : BOOLEAN]
  OBVIOUS
<1>4. bad \in SUBSET DOMAIN s
  BY DEF Violating
<1>5. Violating(t) = IF met THEN bad ELSE bad \cup {n}
  BY <1>2, <1>3 DEF Violating
<1>6. Capped(now) = now
  BY TelemetryAssumption DEF Capped
<1>7. /\ Burst(s, DOMAIN s) \in Nat /\ Burst(s, bad) \in Nat
      /\ bad = {} => Burst(s, bad) = 0
      /\ s = << >> => Burst(s, DOMAIN s) = 0
  <2>1. Burst(s, DOMAIN s) \in Nat /\ (DOMAIN s = {} => Burst(s, DOMAIN s) = 0)
    BY BurstIsNat
  <2>2. Burst(s, bad) \in Nat /\ (bad = {} => Burst(s, bad) = 0)
    BY <1>4, BurstIsNat
  <2>3. s = << >> => DOMAIN s = {}
    BY <1>1
  <2> QED BY <2>1, <2>2, <2>3
<1>8. Burst(t, DOMAIN t) = IF \E k \in DOMAIN s : now - s[k].at < WEEK THEN Burst(s, DOMAIN s) + 1 ELSE 1
  BY <1>2, <1>3, BurstGrows, SMTT(30)
<1>9. /\ Burst(t, bad) = Burst(s, bad)
      /\ Burst(t, bad \cup {n}) = IF \E k \in bad : now - s[k].at < WEEK THEN Burst(s, bad) + 1 ELSE 1
  BY <1>3, <1>4, BurstGrows, BurstPassesOver
<1>10. \A i \in DOMAIN s : 0 < s[i].at /\ s[i].at <= now /\ s[i].at \in Nat
  BY <1>2 DEF InOrder
<1>11. \A i, j \in DOMAIN s : i <= j => s[i].at <= s[j].at
  BY DEF InOrder
<1> HIDE DEF d, t, n, bad
<1>12. WEEK \in Nat \ {0} /\ U32MAX \in Nat \ {0}
  BY TelemetryAssumption
<1>13. s # << >> => Len(s) \in DOMAIN s
  BY <1>1
<1>14. Bump(c, Stale(lc), 1) = Capped(Burst(t, DOMAIN t))
  <2>1. lc = (IF s = << >> THEN 0 ELSE s[Len(s)].at) /\ c = Capped(Burst(s, DOMAIN s))
    BY DEF Holds
  <2>2. CASE s = << >>
    <3>1. c = 0 /\ Burst(t, DOMAIN t) = 1
      BY <1>1, <1>7, <1>8, <1>12, <2>1, <2>2 DEF Capped
    <3> QED BY <1>12, <3>1 DEF Bump
  <2>3. CASE s # << >> /\ now - lc >= WEEK
    <3>1. \A k \in DOMAIN s : ~(now - s[k].at < WEEK)
      BY <1>2, <1>10, <1>11, <1>12, <1>13, <2>1, <2>3
    <3>2. Stale(lc)
      BY <1>10, <1>13, <2>1, <2>3 DEF Stale
    <3> QED BY <1>8, <3>1, <3>2 DEF Bump
  <2>4. CASE s # << >> /\ now - lc < WEEK
    <3>1. \E k \in DOMAIN s : now - s[k].at < WEEK
      BY <1>13, <2>1, <2>4
    <3>2. ~Stale(lc)
      BY <1>12, <2>4 DEF Stale
    <3>3. Burst(t, DOMAIN t) = Burst(s, DOMAIN s) + 1
      BY <1>8, <3>1
    <3> QED BY <1>7, <1>12, <2>1, <3>2, <3>3 DEF Bump, Capped
  <2> QED BY <1>12, <2>2, <2>3, <2>4
<1>15. PICK m : \/ bad = {} /\ lv = 0
                \/ m \in bad /\ lv = s[m].at /\ \A i \in bad : i <= m
  BY DEF Holds, bad
<1>16. v = IF \E i \in bad : s[Len(s)].at - s[i].at < WEEK THEN Capped(Burst(s, bad)) ELSE 0
  BY DEF Holds, bad
<1>17. CASE bad = {}
  <2>1. lv = 0 /\ v = 0
    BY <1>15, <1>16, <1>17
  <2>2. Bump(v, Stale(lv), 0) = 0 /\ Bump(v, Stale(lv), 1) = Capped(1)
    BY <1>12, <2>1 DEF Bump, Capped
  <2>3. CASE met
    BY <1>2, <1>3, <1>5, <1>6, <1>14, <1>17, <2>1, <2>2, <2>3 DEF Holds, d, t
  <2>4. CASE ~met
    <3>1. Violating(t) = {n} /\ Burst(t, Violating(t)) = 1
      BY <1>5, <1>9, <1>17, <2>4
    <3>2. t[Len(t)].at - t[n].at < WEEK
      BY <1>2, <1>3, <1>12
    <3> QED BY <1>2, <1>3, <1>6, <1>14, <2>2, <2>4, <3>1, <3>2 DEF Holds, d, t
  <2> QED BY <2>3, <2>4
<1>18. CASE bad # {}
  <2>1. m \in bad /\ lv = s[m].at /\ (\A i \in bad : i <= m) /\ m \in DOMAIN s
    BY <1>4, <1>15, <1>18
  <2>2. Stale(lv) <=> ~ \E i \in bad : now - s[i].at < WEEK
    <3>1. \A i \in bad : i \in DOMAIN s /\ s[i].at <= s[m].at
      BY <1>4, <1>11, <2>1
    <3>2. lv # 0
      BY <1>10, <2>1
    <3> QED BY <1>10, <1>12, <2>1, <3>1, <3>2 DEF Stale
  <2>3. (\E i \in bad : now - s[i].at < WEEK) => \E i \in bad : s[Len(s)].at - s[i].at < WEEK
    <3>1. s # << >>
      BY <1>1, <2>1
    <3> QED BY <1>4, <1>10, <1>12, <1>13, <3>1
  <2>4. ~Stale(lv) => v = Capped(Burst(s, bad))
    BY <1>16, <2>2, <2>3
  <2>5. /\ Bump(v, Stale(lv), 0) = IF Stale(lv) THEN 0 ELSE Capped(Burst(s, bad))
        /\ Bump(v, Stale(lv), 1) = IF Stale(lv) THEN Capped(1) ELSE Capped(Burst(s, bad) + 1)
    <3>1. Stale(lv) \in BOOLEAN
      BY DEF Stale
    <3> QED BY <1>7, <1>12, <2>4, <3>1 DEF Bump, Capped
  <2>6. CASE met
    <3>1. Violating(t) = bad /\ \A i \in bad : t[Len(t)].at - t[i].at = now - s[i].at
      BY <1>2, <1>3, <1>4, <1>5, <2>6
    <3>2. (\E i \in Violating(t) : t[Len(t)].at - t[i].at < WEEK) <=> ~Stale(lv)
      BY <2>2, <3>1
    <3>3. lv = t[m].at
      BY <1>2, <2>1
    <3>4. Bump(v, Stale(lv), 0) = IF \E i \in Violating(t) : t[Len(t)].at - t[i].at < WEEK
                                  THEN Capped(Burst(t, Violating(t))) ELSE 0
      BY <1>9, <2>5, <3>1, <3>2
    <3> QED BY <1>2, <1>3, <1>6, <1>14, <2>1, <2>6, <3>1, <3>3, <3>4 DEF Holds, d, t
  <2>7. CASE ~met
    <3>1. Violating(t) = bad \cup {n}
      BY <1>5, <2>7
    <3>2. Burst(t, Violating(t)) = IF ~Stale(lv) THEN Burst(s, bad) + 1 ELSE 1
      BY <1>9, <2>2, <3>1
    <3>3. n \in Violating(t) /\ t[Len(t)].at - t[n].at < WEEK /\ t[n].at = now
      BY <1>2, <1>3, <1>12, <3>1
    <3>4. \A i \in Violating(t) : i <= n
      BY <1>1, <1>2, <1>4, <3>1 DEF n
    <3>5. Bump(v, Stale(lv), 1) = IF \E i \in Violating(t) : t[Len(t)].at - t[i].at < WEEK
                                  THEN Capped(Burst(t, Violating(t))) ELSE 0
      BY <2>5, <3>2, <3>3
    <3> QED BY <1>2, <1>3, <1>6, <1>14, <2>7, <3>3, <3>4, <3>5 DEF Holds, d, t
  <2> QED BY <2>6, <2>7
<1> QED BY <1>17, <1>18

\* The zeroed lanes hold the decisions of an empty stream.
LEMMA BurstInit == Init => BurstInv
<1> SUFFICES ASSUME Init PROVE BurstInv
  OBVIOUS
<1>1. /\ calculations = [lane \in Lanes |-> 0] /\ violations = [lane \in Lanes |-> 0]
      /\ lastCalculations = [lane \in Lanes |-> 0] /\ lastViolations = [lane \in Lanes |-> 0]
      /\ decided = [lane \in Lanes |-> << >>] /\ now = 1
  BY DEF Init, TelemetryInit, NoCounts
<1>2. << >> \in Decisions /\ InOrder(<< >>) /\ Violating(<< >>) = {} /\ DOMAIN << >> = {}
  BY DEF Decisions, InOrder, Violating
<1>3. Burst(<< >>, DOMAIN << >>) = 0
  BY <1>2, BurstIsNat
<1>4. Capped(0) = 0
  BY TelemetryAssumption DEF Capped
<1>5. Holds(<< >>, 0, 0, 0, 0)
  BY <1>2, <1>3, <1>4 DEF Holds
<1> QED BY <1>1, <1>2, <1>5, TelemetryAssumption DEF BurstInv, Lane

\* A decision is dated.
LEMMA TimesAreNat == ASSUME NEW s \in Decisions PROVE \A i \in DOMAIN s : s[i].at \in Nat
<1>1. \A i \in DOMAIN s : s[i] \in [at : Nat, met : BOOLEAN]
  BY ElementOf DEF Decisions
<1> QED BY <1>1

\* A decision taken now comes after all others.
LEMMA AppendInOrder ==
  ASSUME NEW s \in Decisions, InOrder(s), NEW d \in [at : Nat, met : BOOLEAN], d.at = now, now \in Nat \ {0}
  PROVE  Append(s, d) \in Decisions /\ InOrder(Append(s, d))
<1> DEFINE t == Append(s, d)
<1>1. DOMAIN s = 1 .. Len(s) /\ Len(s) \in Nat
  BY DEF Decisions
<1>2. t \in Decisions /\ DOMAIN t = 1 .. Len(s) + 1
  BY DEF Decisions
<1>3. t[Len(s) + 1] = d /\ \A i \in DOMAIN s : t[i] = s[i]
  BY <1>1 DEF Decisions
<1>4. \A i \in DOMAIN t : i = Len(s) + 1 \/ (i \in DOMAIN s /\ i < Len(s) + 1)
  <2>1. \A i \in 1 .. Len(s) + 1 : i = Len(s) + 1 \/ (i \in 1 .. Len(s) /\ i < Len(s) + 1)
    BY <1>1
  <2> QED BY <1>1, <1>2, <2>1, Zenon
<1>5. \A i \in DOMAIN s : s[i].at \in Nat
  BY TimesAreNat
<1> HIDE DEF t
<1>6. \A i \in DOMAIN t : 0 < t[i].at /\ t[i].at <= now
  BY <1>3, <1>4, <1>5 DEF InOrder
<1>7. ASSUME NEW i \in DOMAIN t, NEW j \in DOMAIN t, i <= j
      PROVE  t[i].at <= t[j].at
  <2>1. CASE j = Len(s) + 1
    BY <1>3, <1>6, <2>1
  <2>2. CASE j \in DOMAIN s /\ j < Len(s) + 1
    <3>1. i \in DOMAIN s
      BY <1>1, <1>4, <1>7, <2>2
    <3> QED BY <1>3, <1>7, <2>2, <3>1 DEF InOrder
  <2> QED BY <1>4, <2>1, <2>2
<1> QED BY <1>2, <1>6, <1>7 DEF InOrder, t

\* A decision counts in its own lane; a ledger that closes leaves what was
\* counted, and takes no stored time out of its 32 bits.
LEMMA BurstKept == BurstInv /\ [Next]_vars => BurstInv'
<1> SUFFICES ASSUME BurstInv, [Next]_vars PROVE BurstInv'
  OBVIOUS
<1> USE DEF Lane
<1>1. ASSUME NEW lane \in Lanes, NEW met \in BOOLEAN, Decide(lane, met) PROVE BurstInv'
  <2> DEFINE d == [at |-> now, met |-> met]
             c == Bump(calculations[lane], Stale(lastCalculations[lane]), 1)
             v == Bump(violations[lane], Stale(lastViolations[lane]), IF met THEN 0 ELSE 1)
             lc == Capped(now)
             lv == IF met THEN lastViolations[lane] ELSE Capped(now)
  <2>1. /\ now \in Nat \ {0} /\ now' = now
        /\ DOMAIN decided = Lanes
        /\ calculations \in [Lanes -> 0 .. U32MAX] /\ violations \in [Lanes -> 0 .. U32MAX]
        /\ lastCalculations \in [Lanes -> 0 .. U32MAX] /\ lastViolations \in [Lanes -> 0 .. U32MAX]
    BY <1>1 DEF Decide, BurstInv
  <2>2. /\ calculations' = [calculations EXCEPT ![lane] = c]
        /\ violations' = [violations EXCEPT ![lane] = v]
        /\ lastCalculations' = [lastCalculations EXCEPT ![lane] = lc]
        /\ lastViolations' = [lastViolations EXCEPT ![lane] = lv]
        /\ decided' = [decided EXCEPT ![lane] = Append(decided[lane], d)]
    BY <1>1, <2>1 DEF Decide, RecordTelemetry
  <2>3. c \in 0 .. U32MAX /\ v \in 0 .. U32MAX /\ lc \in 0 .. U32MAX /\ lv \in 0 .. U32MAX
    <3>1. /\ calculations[lane] \in 0 .. U32MAX /\ violations[lane] \in 0 .. U32MAX
          /\ lastViolations[lane] \in 0 .. U32MAX
      BY <2>1
    <3>2. /\ \A n \in Nat : Capped(n) \in 0 .. U32MAX
          /\ U32MAX \in Nat
      BY TelemetryAssumption DEF Capped
    <3> QED BY <2>1, <3>1, <3>2 DEF Bump
  <2>4. decided[lane] \in Decisions /\ InOrder(decided[lane])
    BY DEF BurstInv
  <2>5. d \in [at : Nat, met : BOOLEAN] /\ d.at = now
    BY <2>1
  <2>6. Append(decided[lane], d) \in Decisions /\ InOrder(Append(decided[lane], d))
    BY <2>1, <2>4, <2>5, AppendInOrder
  <2>7. now <= U32MAX => Holds(Append(decided[lane], d), c, v, lc, lv)
    <3>1. SUFFICES ASSUME now <= U32MAX PROVE Holds(Append(decided[lane], d), c, v, lc, lv)
      OBVIOUS
    <3>2. Holds(decided[lane], calculations[lane], violations[lane], lastCalculations[lane], lastViolations[lane])
      BY <3>1 DEF BurstInv
    <3> QED BY <2>1, <2>4, <3>1, <3>2, RecordKeepsHolds
  <2> HIDE DEF d, c, v, lc, lv
  <2>8. ASSUME NEW l \in Lanes
        PROVE  /\ decided'[l] \in Decisions /\ InOrder(decided[l])'
               /\ now <= U32MAX => Holds(decided'[l], calculations'[l], violations'[l],
                                         lastCalculations'[l], lastViolations'[l])
    <3>1. CASE l = lane
      <4>1. decided'[l] = Append(decided[lane], d)
        BY <3>1, <2>1, <2>2
      <4>2. InOrder(decided[l])'
        BY <2>1, <2>6, <4>1 DEF InOrder
      <4>3. calculations'[l] = c /\ violations'[l] = v /\ lastCalculations'[l] = lc /\ lastViolations'[l] = lv
        BY <3>1, <2>1, <2>2
      <4> QED BY <2>6, <2>7, <4>1, <4>2, <4>3
    <3>2. CASE l # lane
      <4>1. /\ decided'[l] = decided[l] /\ calculations'[l] = calculations[l] /\ violations'[l] = violations[l]
            /\ lastCalculations'[l] = lastCalculations[l] /\ lastViolations'[l] = lastViolations[l]
        BY <3>2, <2>1, <2>2
      <4> QED BY <2>1, <4>1 DEF BurstInv, InOrder
    <3> QED BY <3>1, <3>2
  <2>9. /\ DOMAIN decided' = Lanes
         /\ calculations' \in [Lanes -> 0 .. U32MAX] /\ violations' \in [Lanes -> 0 .. U32MAX]
         /\ lastCalculations' \in [Lanes -> 0 .. U32MAX] /\ lastViolations' \in [Lanes -> 0 .. U32MAX]
    BY <2>1, <2>2, <2>3
  <2>10. (\A l \in Lanes : Holds(decided[l], calculations[l], violations[l], lastCalculations[l], lastViolations[l]))'
           <=> \A l \in Lanes : Holds(decided'[l], calculations'[l], violations'[l], lastCalculations'[l], lastViolations'[l])
    BY DEF Holds
  <2> QED BY <2>1, <2>8, <2>9, <2>10 DEF BurstInv
<1>2. CASE NewLedger
  <2>1. /\ now' = now + 1 /\ UNCHANGED << decided, calculations, violations, lastCalculations, lastViolations >>
        /\ now \in Nat
    BY <1>2 DEF NewLedger, CloseLedger, laneVars, BurstInv
  <2>2. ASSUME NEW s \in Decisions, InOrder(s) PROVE InOrder(s)'
    <3>1. \A i \in DOMAIN s : s[i].at \in Nat
      BY TimesAreNat
    <3> QED BY <2>1, <2>2, <3>1 DEF InOrder
  <2> QED BY <2>1, <2>2, TelemetryAssumption DEF BurstInv, Holds
<1>3. CASE UNCHANGED vars
  BY <1>3 DEF vars, laneVars, BurstInv, InOrder, Holds
<1> QED BY <1>1, <1>2, <1>3 DEF Next

\* record_severity_telemetry: while times fit in 32 bits, a lane counts the
\* decisions, and the violations, of its last burst, for any number of lanes,
\* decisions and ledgers and any length of the week.
THEOREM BurstAlwaysCounts == Spec => []BurstCounts
<1>1. BurstInv => BurstCounts
  BY DEF BurstInv, BurstCounts, Holds
<1> QED BY <1>1, BurstInit, BurstKept, PTL DEF Spec

-----------------------------------------------------------------------------
(* The words *)

U32 == 0 .. U32MAX

\* The word whose lanes are f.
WordOf(f) ==
  LET B == U32MAX + 1 IN f[0] + f[1] * B + f[2] * (B * B) + f[3] * (B * B * B)

IsWord(w) == \E f \in [0 .. 3 -> U32] : w = WordOf(f)

\* What a division cuts out of a number written in a base is its digits.
LEMMA Digits ==
  ASSUME NEW b \in Nat \ {0}, NEW q \in Nat, NEW r \in 0 .. b - 1
  PROVE  (q * b + r) \div b = q /\ (q * b + r) % b = r
OBVIOUS

\* A lane is shifted to a power of the size of a lane.
LEMMA Shifts ==
  LET B == U32MAX + 1
  IN  /\ Shift(0) = 1 /\ Shift(1) = B /\ Shift(2) = B * B /\ Shift(3) = B * B * B
      /\ B \in Nat \ {0, 1} /\ B * B \in Nat \ {0} /\ B * B * B \in Nat \ {0}
<1> DEFINE B == U32MAX + 1
<1>1. B \in Nat \ {0, 1}
  BY TelemetryAssumption
<1>2. << 1, B, B * B, B * B * B >>[1] = 1 /\ << 1, B, B * B, B * B * B >>[2] = B
      /\ << 1, B, B * B, B * B * B >>[3] = B * B /\ << 1, B, B * B, B * B * B >>[4] = B * B * B
  OBVIOUS
<1>3. Shift(0) = 1 /\ Shift(1) = B /\ Shift(2) = B * B /\ Shift(3) = B * B * B
  BY <1>2 DEF Shift
<1> HIDE DEF B
<1>4. B * B \in Nat \ {0}
  BY <1>1
<1>5. B * B * B \in Nat \ {0}
  BY <1>1, <1>4
<1> QED BY <1>1, <1>3, <1>4, <1>5 DEF B

\* count_lane reads each of the four lanes out of a word.
LEMMA LanesOfWord ==
  ASSUME NEW f \in [0 .. 3 -> U32]
  PROVE  /\ WordOf(f) \in Nat
         /\ \A i \in 0 .. 3 : CountLane(WordOf(f), i) = f[i]
<1>1. PICK B : B = U32MAX + 1
  OBVIOUS
<1>2. PICK a, b, c, d \in U32 : a = f[0] /\ b = f[1] /\ c = f[2] /\ d = f[3]
  OBVIOUS
<1>3. PICK w : w = WordOf(f)
  OBVIOUS
<1>4. /\ a \in Nat /\ b \in Nat /\ c \in Nat /\ d \in Nat
      /\ a \in 0 .. B - 1 /\ b \in 0 .. B - 1 /\ c \in 0 .. B - 1 /\ d \in 0 .. B - 1
      /\ B \in Nat \ {0, 1}
  BY <1>1, <1>2, TelemetryAssumption DEF U32
<1>5. w = a + b * B + c * (B * B) + d * (B * B * B)
  BY <1>1, <1>2, <1>3 DEF WordOf
<1>6. B * B \in Nat \ {0} /\ B * B * B \in Nat \ {0} /\ w \in Nat
  BY <1>1, <1>4, <1>5, Shifts
<1>7. CountLane(w, 0) = a
  <2>1. PICK q \in Nat : q = b + c * B + d * (B * B)
    BY <1>4
  <2>2. w = q * B + a
    BY <1>4, <1>5, <2>1
  <2>3. w % B = a
    BY <1>4, <2>2, Digits
  <2>4. w \div 1 = w
    BY <1>6
  <2> QED BY <1>1, <2>3, <2>4, Shifts DEF CountLane
<1>8. CountLane(w, 1) = b
  <2>1. PICK p \in Nat : p = c + d * B
    BY <1>4
  <2>2. PICK q \in Nat : q = p * B + b
    BY <1>4, <2>1
  <2>3. w = q * B + a
    BY <1>4, <1>5, <2>1, <2>2
  <2>4. w \div B = q
    BY <1>4, <2>3, Digits
  <2>5. q % B = b
    BY <1>4, <2>2, Digits
  <2> QED BY <1>1, <2>4, <2>5, Shifts DEF CountLane
<1>9. CountLane(w, 2) = c
  <2>1. PICK q \in Nat : q = d * B + c
    BY <1>4
  <2>2. PICK r \in Nat : r = b * B + a
    BY <1>4
  <2>3. w = q * (B * B) + r
    BY <1>4, <1>5, <2>1, <2>2
  <2>4. r \in 0 .. B * B - 1
    BY <1>4, <2>2
  <2>5. w \div (B * B) = q
    BY <1>6, <2>3, <2>4, Digits
  <2>6. q % B = c
    BY <1>4, <2>1, Digits
  <2> QED BY <1>1, <2>5, <2>6, Shifts DEF CountLane
<1>10. CountLane(w, 3) = d
  <2>1. PICK p \in Nat : p = c * B + b
    BY <1>4
  <2>2. PICK r \in Nat : r = p * B + a
    BY <1>4, <2>1
  <2>3. w = d * (B * B * B) + r
    BY <1>4, <1>5, <2>1, <2>2
  <2>4. p \in 0 .. B * B - 1
    BY <1>4, <2>1
  <2>5. r \in 0 .. B * B * B - 1
    BY <1>4, <1>6, <2>2, <2>4
  <2>6. w \div (B * B * B) = d
    <3>1. PICK cube \in Nat \ {0} : cube = B * B * B
      BY <1>6
    <3>2. w = d * cube + r /\ r \in 0 .. cube - 1
      BY <2>3, <2>5, <3>1
    <3>3. d \in Nat /\ cube \in Nat \ {0}
      BY <1>4, <3>1
    <3>4. w \div cube = d
      BY ONLY <3>2, <3>3, Digits
    <3> QED BY ONLY <3>1, <3>4
  <2>7. d % B = d
    BY <1>4
  <2> QED BY <1>1, <2>6, <2>7, Shifts DEF CountLane
<1> QED BY <1>2, <1>3, <1>6, <1>7, <1>8, <1>9, <1>10

\* set_count_lane changes the lane it names and no other.
LEMMA OneLaneSet ==
  ASSUME NEW w, IsWord(w), NEW i \in 0 .. 3, NEW v \in U32
  PROVE  /\ IsWord(SetCountLane(w, i, v))
         /\ \A k \in 0 .. 3 : CountLane(SetCountLane(w, i, v), k) = IF k = i THEN v ELSE CountLane(w, k)
<1>1. PICK f \in [0 .. 3 -> U32] : w = WordOf(f)
  BY DEF IsWord
<1>2. PICK g \in [0 .. 3 -> U32] : g = [f EXCEPT ![i] = v]
  OBVIOUS
<1>3. SetCountLane(w, i, v) = WordOf(g)
  <2>1. PICK B \in Nat : B = U32MAX + 1
    BY TelemetryAssumption
  <2>2. PICK a, b, c, d \in Nat : a = f[0] /\ b = f[1] /\ c = f[2] /\ d = f[3]
    BY TelemetryAssumption DEF U32
  <2>3. v \in Nat
    BY TelemetryAssumption DEF U32
  <2>4. PICK x, y, z, u \in Nat : x = b * B /\ y = c * (B * B) /\ z = d * (B * B * B) /\ u = B * B * B
    BY <2>1, <2>2
  <2>5. w = a + x + y + z
    BY <1>1, <2>1, <2>2, <2>4 DEF WordOf
  <2>6. CountLane(w, i) = f[i]
    BY <1>1, LanesOfWord
  <2>7. CASE i = 0
    <3>1. SetCountLane(w, i, v) = (w - a * 1) + v * 1
      BY <2>2, <2>6, <2>7, Shifts DEF SetCountLane
    <3>2. WordOf(g) = v + x + y + z
      BY <1>2, <2>1, <2>2, <2>4, <2>7 DEF WordOf
    <3> QED BY <2>2, <2>3, <2>4, <2>5, <3>1, <3>2
  <2>8. CASE i = 1
    <3>1. SetCountLane(w, i, v) = (w - x) + v * B
      BY <2>1, <2>2, <2>4, <2>6, <2>8, Shifts DEF SetCountLane
    <3>2. WordOf(g) = a + v * B + y + z
      BY <1>2, <2>1, <2>2, <2>4, <2>8 DEF WordOf
    <3> QED BY <2>1, <2>2, <2>3, <2>4, <2>5, <3>1, <3>2
  <2>9. CASE i = 2
    <3>1. SetCountLane(w, i, v) = (w - y) + v * (B * B)
      BY <2>1, <2>2, <2>4, <2>6, <2>9, Shifts DEF SetCountLane
    <3>2. WordOf(g) = a + x + v * (B * B) + z
      BY <1>2, <2>1, <2>2, <2>4, <2>9 DEF WordOf
    <3> QED BY <2>1, <2>2, <2>3, <2>4, <2>5, <3>1, <3>2
  <2>10. CASE i = 3
    <3>1. SetCountLane(w, i, v) = (w - z) + v * u
      BY <2>1, <2>2, <2>4, <2>6, <2>10, Shifts DEF SetCountLane
    <3>2. WordOf(g) = a + x + y + v * u
      BY <1>2, <2>1, <2>2, <2>4, <2>10 DEF WordOf
    <3> QED BY <2>2, <2>3, <2>4, <2>5, <3>1, <3>2
  <2> QED BY <2>7, <2>8, <2>9, <2>10
<1>4. \A k \in 0 .. 3 : CountLane(WordOf(g), k) = g[k] /\ CountLane(w, k) = f[k]
  BY <1>1, LanesOfWord
<1>5. \A k \in 0 .. 3 : g[k] = IF k = i THEN v ELSE f[k]
  BY <1>2
<1> QED BY <1>3, <1>4, <1>5 DEF IsWord

\* The word x is w but for its lane i, which holds v.
WithLane(x, w, i, v) ==
  /\ IsWord(x)
  /\ \A k \in 0 .. 3 : CountLane(x, k) = IF k = i THEN v ELSE CountLane(w, k)

LEMMA WithOneLane ==
  ASSUME NEW w, IsWord(w), NEW i \in 0 .. 3, NEW v \in U32
  PROVE  WithLane(SetCountLane(w, i, v), w, i, v)
<1>1. PICK x : x = SetCountLane(w, i, v)
  OBVIOUS
<1>2. IsWord(x) /\ \A k \in 0 .. 3 : CountLane(x, k) = IF k = i THEN v ELSE CountLane(w, k)
  BY <1>1, OneLaneSet
<1> QED BY <1>1, <1>2 DEF WithLane

\* The reset looks at the same time, and stores the same time, as the lane's own.
LEMMA SameTimes ==
  ASSUME now \in Nat
  PROVE  /\ CurrentTs = Capped(now) /\ Capped(now) \in U32
         /\ \A last : WeekPassed(last) = Stale(last) /\ Stale(last) \in BOOLEAN
BY TelemetryAssumption DEF CurrentTs, Capped, U32, WeekPassed, Stale

\* A lane whose time is `last` counts a decision, or only looks whether it is stale.
Counted(w, i, last) == Count(w, i, WeekPassed(last), TRUE)
Passed(w, i, last)  == Count(w, i, WeekPassed(last), FALSE)

\* The reset of a stale lane and the saturated increment are those of a lane
\* that is stored by itself.
LEMMA CountBumps ==
  ASSUME now \in Nat, NEW w, IsWord(w), NEW i, i \in 0 .. 3, NEW last
  PROVE  /\ IsWord(Counted(w, i, last)) /\ IsWord(Passed(w, i, last))
         /\ \A k \in 0 .. 3 :
              /\ CountLane(Counted(w, i, last), k) =
                   IF k = i THEN Bump(CountLane(w, i), Stale(last), 1) ELSE CountLane(w, k)
              /\ CountLane(Passed(w, i, last), k) =
                   IF k = i THEN Bump(CountLane(w, i), Stale(last), 0) ELSE CountLane(w, k)
<1>0. PICK stale \in BOOLEAN : stale = Stale(last) /\ stale = WeekPassed(last)
  BY SameTimes
<1>1. PICK reset : reset = IF stale THEN SetCountLane(w, i, 0) ELSE w
  OBVIOUS
<1>2. /\ Counted(w, i, last) = SaturatingBump(reset, i)
      /\ Passed(w, i, last) = reset
  BY <1>0, <1>1 DEF Count, Counted, Passed
<1>3. 0 \in U32 /\ U32MAX \in U32
  BY TelemetryAssumption DEF U32
<1>4. /\ IsWord(reset)
      /\ \A k \in 0 .. 3 : CountLane(reset, k) = IF k = i /\ stale THEN 0 ELSE CountLane(w, k)
  <2>0. PICK zero \in U32 : zero = 0
    BY <1>3
  <2>1. CASE stale
    <3>1. WithLane(SetCountLane(w, i, zero), w, i, zero)
      BY WithOneLane
    <3>2. WithLane(reset, w, i, zero)
      BY <1>1, <2>0, <2>1, <3>1
    <3> QED BY <2>0, <2>1, <3>2 DEF WithLane
  <2>2. CASE ~stale
    <3>1. reset = w
      BY <1>1, <2>2
    <3> QED BY <2>2, <3>1, Zenon
  <2> QED BY <2>1, <2>2, Zenon
<1>5. \A k \in 0 .. 3 : CountLane(reset, k) \in U32 /\ CountLane(w, k) \in U32
  BY <1>4, LanesOfWord DEF IsWord
<1>6. PICK c \in U32, n \in U32 : c = CountLane(w, i) /\ n = CountLane(reset, i)
  BY <1>5
<1>7. n = IF stale THEN 0 ELSE c
  BY <1>4, <1>6
<1>8. PICK m \in U32 : m = IF n = U32MAX THEN U32MAX ELSE n + 1
  BY <1>6, TelemetryAssumption DEF U32
<1>9. SaturatingBump(reset, i) = SetCountLane(reset, i, m)
  BY <1>6, <1>8 DEF SaturatingBump
<1>10. Bump(c, stale, 1) = m /\ Bump(c, stale, 0) = n
  BY <1>6, <1>7, <1>8, TelemetryAssumption DEF Bump, Capped, U32
<1>11. /\ IsWord(SaturatingBump(reset, i))
       /\ \A k \in 0 .. 3 : CountLane(SaturatingBump(reset, i), k) =
            IF k = i THEN Bump(c, stale, 1) ELSE CountLane(w, k)
  <2>1. WithLane(SetCountLane(reset, i, m), reset, i, m)
    BY <1>4, WithOneLane
  <2>2. WithLane(SaturatingBump(reset, i), reset, i, m)
    BY <1>9, <2>1
  <2> QED BY <1>4, <1>10, <2>2 DEF WithLane
<1>12. \A k \in 0 .. 3 : CountLane(reset, k) = IF k = i THEN Bump(c, stale, 0) ELSE CountLane(w, k)
  BY <1>4, <1>6, <1>10
<1> QED BY <1>0, <1>2, <1>4, <1>6, <1>11, <1>12

\* A severity's lane is its place among the canonical ones.
LEMMA Indices ==
  /\ \A lane \in Lanes \ {"custom"} :
       /\ IndexOf(lane) \in 0 .. 3
       /\ IndexOf(lane) + 1 \in 1 .. Len(Canonical)
       /\ Canonical[IndexOf(lane) + 1] = lane
  /\ \A i \in 1 .. Len(Canonical) :
       Canonical[i] \in Lanes \ {"custom"} /\ IndexOf(Canonical[i]) = i - 1
<1>1. Canonical \in Seq(Lanes \ {"custom"}) /\ Len(Canonical) \in 0 .. 4 /\ DOMAIN Canonical = 1 .. Len(Canonical)
  <2>1. Canonical \in Seq(Lanes \ {"custom"}) /\ Len(Canonical) <= 4
    BY PackingAssumption
  <2>2. Len(Canonical) \in Nat /\ DOMAIN Canonical = 1 .. Len(Canonical)
    BY <2>1
  <2> QED BY <2>1, <2>2
<1>2. ASSUME NEW lane \in Lanes \ {"custom"}
      PROVE  /\ IndexOf(lane) \in 0 .. 3
             /\ IndexOf(lane) + 1 \in 1 .. Len(Canonical)
             /\ Canonical[IndexOf(lane) + 1] = lane
  <2>1. \E i \in 1 .. Len(Canonical) : Canonical[i] = lane
    BY <1>1, PackingAssumption DEF ToSet
  <2>2. PICK p : p = CHOOSE i \in 1 .. Len(Canonical) : Canonical[i] = lane
    OBVIOUS
  <2>3. p \in 1 .. Len(Canonical) /\ Canonical[p] = lane
    BY <2>1, <2>2
  <2>4. IndexOf(lane) = p - 1
    BY <2>2 DEF IndexOf
  <2> QED BY <1>1, <2>3, <2>4
<1>3. ASSUME NEW i \in 1 .. Len(Canonical)
      PROVE  Canonical[i] \in Lanes \ {"custom"} /\ IndexOf(Canonical[i]) = i - 1
  <2>1. Canonical[i] \in Lanes \ {"custom"}
    BY <1>1
  <2>2. PICK p \in 1 .. Len(Canonical) : p = IndexOf(Canonical[i]) + 1 /\ Canonical[p] = Canonical[i]
    BY <1>2, <2>1
  <2>3. p = i
    BY <2>2, PackingAssumption
  <2>4. IndexOf(Canonical[i]) \in 0 .. 3
    BY <1>2, <2>1
  <2> QED BY <1>1, <2>1, <2>2, <2>3, <2>4
<1> QED BY <1>2, <1>3

AreWords ==
  IsWord(calcWord) /\ IsWord(violWord) /\ IsWord(lastCalcWord) /\ IsWord(lastViolWord) /\ IsWord(customWord)

\* WordsHoldLanes, lane by lane.
CanonicalHeld(lane) ==
  /\ calculations[lane] = CountLane(calcWord, IndexOf(lane))
  /\ violations[lane] = CountLane(violWord, IndexOf(lane))
  /\ lastCalculations[lane] = CountLane(lastCalcWord, IndexOf(lane))
  /\ lastViolations[lane] = CountLane(lastViolWord, IndexOf(lane))

CustomHeld ==
  /\ calculations["custom"] = CountLane(customWord, 0)
  /\ violations["custom"] = CountLane(customWord, 1)
  /\ lastCalculations["custom"] = CountLane(customWord, 2)
  /\ lastViolations["custom"] = CountLane(customWord, 3)

\* A lane that has counted a decision never shows none.
CountsShow == \A lane \in Lanes : decided[lane] # << >> => calculations[lane] # 0

PackedInv ==
  /\ Inv
  /\ AreWords
  /\ \A lane \in Lanes \ {"custom"} : CanonicalHeld(lane)
  /\ CustomHeld
  /\ DOMAIN decided = Lanes
  /\ CountsShow

\* What the lanes of RecordTelemetry become, the others staying as they are.
LEMMA LanesBecome ==
  ASSUME Inv, NEW lane \in Lanes, NEW met \in BOOLEAN, Decide(lane, met)
  PROVE  /\ now \in Nat \ {0} /\ now' = now
         /\ calculations'[lane] = Bump(calculations[lane], Stale(lastCalculations[lane]), 1)
         /\ violations'[lane] = Bump(violations[lane], Stale(lastViolations[lane]), IF met THEN 0 ELSE 1)
         /\ lastCalculations'[lane] = Capped(now)
         /\ lastViolations'[lane] = IF met THEN lastViolations[lane] ELSE Capped(now)
         /\ \A l \in Lanes : l # lane =>
              /\ calculations'[l] = calculations[l] /\ violations'[l] = violations[l]
              /\ lastCalculations'[l] = lastCalculations[l] /\ lastViolations'[l] = lastViolations[l]
<1>1. /\ now \in Nat \ {0} /\ now' = now
      /\ calculations \in [Lanes -> U32] /\ violations \in [Lanes -> U32]
      /\ lastCalculations \in [Lanes -> U32] /\ lastViolations \in [Lanes -> U32]
  BY DEF Inv, TypeOK, Lane, Decide, U32
<1> QED BY <1>1 DEF Decide, RecordTelemetry

\* record_severity_telemetry on the four packed words keeps the lanes.
LEMMA CanonicalWordsHold ==
  ASSUME PackedInv, NEW lane \in Lanes \ {"custom"}, NEW met \in BOOLEAN,
         Decide(lane, met), RecordSeverityTelemetry(lane, met)
  PROVE  AreWords' /\ CustomHeld' /\ \A l \in Lanes \ {"custom"} : CanonicalHeld(l)'
<1>1. PICK i \in 0 .. 3 : i = IndexOf(lane)
  BY Indices
<1>2. \A l \in Lanes \ {"custom"} : IndexOf(l) \in 0 .. 3 /\ (IndexOf(l) = i => l = lane)
  BY <1>1, Indices
<1>3. Inv /\ AreWords /\ CustomHeld /\ now \in Nat /\ "custom" \in Lanes
      /\ \A l \in Lanes \ {"custom"} : CanonicalHeld(l)
  BY PackingAssumption DEF PackedInv, Inv, TypeOK
<1>0. now \in Nat /\ i \in 0 .. 3
  BY <1>3
<1>4. PICK ts \in U32 : ts = CurrentTs /\ ts = Capped(now)
  BY <1>3, SameTimes
<1>5. PICK lc, lv : lc = lastCalculations[lane] /\ lv = lastViolations[lane]
  OBVIOUS
<1>6. CountLane(lastCalcWord, i) = lc /\ CountLane(lastViolWord, i) = lv
      /\ CountLane(calcWord, i) = calculations[lane] /\ CountLane(violWord, i) = violations[lane]
  BY <1>1, <1>3, <1>5 DEF CanonicalHeld
<1> DEFINE by == IF met THEN 0 ELSE 1
<1>7. /\ calcWord' = Counted(calcWord, i, lc)
      /\ violWord' = IF met THEN Passed(violWord, i, lv) ELSE Counted(violWord, i, lv)
      /\ lastCalcWord' = SetCountLane(lastCalcWord, i, ts)
      /\ lastViolWord' = IF met THEN lastViolWord ELSE SetCountLane(lastViolWord, i, ts)
      /\ customWord' = customWord
  BY <1>1, <1>4, <1>6 DEF RecordSeverityTelemetry, Counted, Passed
<1>8. /\ IsWord(calcWord')
      /\ \A k \in 0 .. 3 : CountLane(calcWord', k) =
           IF k = i THEN Bump(calculations[lane], Stale(lc), 1) ELSE CountLane(calcWord, k)
  <2>1. IsWord(calcWord)
    BY <1>3 DEF AreWords
  <2>2. PICK w : w = Counted(calcWord, i, lc)
    OBVIOUS
  <2>3. IsWord(w) /\ \A k \in 0 .. 3 : CountLane(w, k) =
          IF k = i THEN Bump(CountLane(calcWord, i), Stale(lc), 1) ELSE CountLane(calcWord, k)
    BY ONLY <1>0, <2>1, <2>2, CountBumps
  <2> QED BY <1>6, <1>7, <2>2, <2>3
<1>9. /\ IsWord(violWord')
      /\ \A k \in 0 .. 3 : CountLane(violWord', k) =
           IF k = i THEN Bump(violations[lane], Stale(lv), by) ELSE CountLane(violWord, k)
  <2>1. IsWord(violWord)
    BY <1>3 DEF AreWords
  <2>2. PICK w, x : w = Passed(violWord, i, lv) /\ x = Counted(violWord, i, lv)
    OBVIOUS
  <2>3. IsWord(w) /\ \A k \in 0 .. 3 : CountLane(w, k) =
          IF k = i THEN Bump(CountLane(violWord, i), Stale(lv), 0) ELSE CountLane(violWord, k)
    BY ONLY <1>0, <2>1, <2>2, CountBumps
  <2>4. IsWord(x) /\ \A k \in 0 .. 3 : CountLane(x, k) =
          IF k = i THEN Bump(CountLane(violWord, i), Stale(lv), 1) ELSE CountLane(violWord, k)
    BY ONLY <1>0, <2>1, <2>2, CountBumps
  <2> QED BY <1>6, <1>7, <2>2, <2>3, <2>4
<1>10. /\ IsWord(lastCalcWord')
       /\ \A k \in 0 .. 3 : CountLane(lastCalcWord', k) = IF k = i THEN ts ELSE CountLane(lastCalcWord, k)
  BY <1>3, <1>7, OneLaneSet DEF AreWords
<1>11. /\ IsWord(lastViolWord')
       /\ \A k \in 0 .. 3 : CountLane(lastViolWord', k) = IF k = i /\ ~met THEN ts ELSE CountLane(lastViolWord, k)
  BY <1>3, <1>7, OneLaneSet DEF AreWords
<1>12. /\ calculations'[lane] = Bump(calculations[lane], Stale(lc), 1)
       /\ violations'[lane] = Bump(violations[lane], Stale(lv), by)
       /\ lastCalculations'[lane] = ts
       /\ lastViolations'[lane] = IF met THEN lastViolations[lane] ELSE ts
       /\ \A l \in Lanes : l # lane =>
            /\ calculations'[l] = calculations[l] /\ violations'[l] = violations[l]
            /\ lastCalculations'[l] = lastCalculations[l] /\ lastViolations'[l] = lastViolations[l]
  BY <1>3, <1>4, <1>5, LanesBecome
<1>13. AreWords'
  BY <1>3, <1>7, <1>8, <1>9, <1>10, <1>11 DEF AreWords
<1>14. CustomHeld'
  <2>1. CountLane(customWord, 0)' = CountLane(customWord, 0) /\ CountLane(customWord, 1)' = CountLane(customWord, 1)
        /\ CountLane(customWord, 2)' = CountLane(customWord, 2) /\ CountLane(customWord, 3)' = CountLane(customWord, 3)
    BY <1>7 DEF CountLane
  <2> QED BY <1>3, <1>7, <1>12 DEF CustomHeld
<1>15. ASSUME NEW l \in Lanes \ {"custom"} PROVE CanonicalHeld(l)'
  <2>1. IndexOf(l)' = IndexOf(l)
    BY DEF IndexOf
  <2>2. CASE l = lane
    BY <1>1, <1>5, <1>6, <1>8, <1>9, <1>10, <1>11, <1>12, <2>1, <2>2 DEF CanonicalHeld
  <2>3. CASE l # lane
    <3>1. CanonicalHeld(l) /\ IndexOf(l) \in 0 .. 3 /\ IndexOf(l) # i
      BY <1>2, <1>3, <2>3
    <3> QED BY <1>8, <1>9, <1>10, <1>11, <1>12, <2>1, <2>3, <3>1 DEF CanonicalHeld
  <2> QED BY <2>2, <2>3
<1> QED BY <1>13, <1>14, <1>15

\* record_custom_severity_telemetry rewrites up to four lanes of one word, and
\* reads each before it is written.
LEMMA CustomWordHolds ==
  ASSUME PackedInv, NEW met \in BOOLEAN, Decide("custom", met), RecordCustomSeverityTelemetry(met)
  PROVE  AreWords' /\ CustomHeld' /\ \A l \in Lanes \ {"custom"} : CanonicalHeld(l)'
<1>1. Inv /\ AreWords /\ CustomHeld /\ now \in Nat /\ "custom" \in Lanes
      /\ \A l \in Lanes \ {"custom"} : CanonicalHeld(l)
  BY PackingAssumption DEF PackedInv, Inv, TypeOK
<1>2. PICK ts \in U32 : ts = CurrentTs /\ ts = Capped(now)
  BY <1>1, SameTimes
<1>3. PICK lc, lv : lc = lastCalculations["custom"] /\ lv = lastViolations["custom"]
  OBVIOUS
<1>4. CountLane(customWord, 2) = lc /\ CountLane(customWord, 3) = lv
  BY <1>1, <1>3 DEF CustomHeld
<1>5. PICK counted : counted = Counted(customWord, 0, lc)
  OBVIOUS
<1>6. /\ IsWord(counted)
      /\ \A k \in 0 .. 3 : CountLane(counted, k) =
           IF k = 0 THEN Bump(calculations["custom"], Stale(lc), 1) ELSE CountLane(customWord, k)
  BY <1>1, <1>5, CountBumps DEF AreWords, CustomHeld
<1> DEFINE by == IF met THEN 0 ELSE 1
<1>8. PICK judged : judged = IF met THEN Passed(counted, 1, lv) ELSE Counted(counted, 1, lv)
  OBVIOUS
<1>9. CountLane(counted, 1) = violations["custom"]
  BY <1>1, <1>6 DEF CustomHeld
<1>10. /\ IsWord(judged)
       /\ \A k \in 0 .. 3 : CountLane(judged, k) =
            IF k = 1 THEN Bump(violations["custom"], Stale(lv), by) ELSE CountLane(counted, k)
  <2>1. PICK w, x : w = Passed(counted, 1, lv) /\ x = Counted(counted, 1, lv)
    OBVIOUS
  <2>2. IsWord(w) /\ \A k \in 0 .. 3 : CountLane(w, k) =
          IF k = 1 THEN Bump(CountLane(counted, 1), Stale(lv), 0) ELSE CountLane(counted, k)
    BY <1>1, <1>6, <2>1, CountBumps
  <2>3. IsWord(x) /\ \A k \in 0 .. 3 : CountLane(x, k) =
          IF k = 1 THEN Bump(CountLane(counted, 1), Stale(lv), 1) ELSE CountLane(counted, k)
    BY <1>1, <1>6, <2>1, CountBumps
  <2> QED BY <1>8, <1>9, <2>1, <2>2, <2>3
<1>11. PICK timed : timed = SetCountLane(judged, 2, ts)
  OBVIOUS
<1>12. /\ IsWord(timed)
       /\ \A k \in 0 .. 3 : CountLane(timed, k) = IF k = 2 THEN ts ELSE CountLane(judged, k)
  BY <1>10, <1>11, OneLaneSet
<1>13. /\ customWord' = IF met THEN timed ELSE SetCountLane(timed, 3, ts)
       /\ UNCHANGED << calcWord, violWord, lastCalcWord, lastViolWord >>
  BY <1>2, <1>4, <1>5, <1>8, <1>11 DEF RecordCustomSeverityTelemetry, Counted, Passed
<1>14. /\ IsWord(customWord')
       /\ \A k \in 0 .. 3 : CountLane(customWord', k) = IF k = 3 /\ ~met THEN ts ELSE CountLane(timed, k)
  BY <1>2, <1>12, <1>13, OneLaneSet
<1>15. /\ calculations'["custom"] = Bump(calculations["custom"], Stale(lc), 1)
       /\ violations'["custom"] = Bump(violations["custom"], Stale(lv), by)
       /\ lastCalculations'["custom"] = ts
       /\ lastViolations'["custom"] = IF met THEN lastViolations["custom"] ELSE ts
       /\ \A l \in Lanes : l # "custom" =>
            /\ calculations'[l] = calculations[l] /\ violations'[l] = violations[l]
            /\ lastCalculations'[l] = lastCalculations[l] /\ lastViolations'[l] = lastViolations[l]
  BY <1>1, <1>2, <1>3, LanesBecome
<1>16. AreWords'
  BY <1>1, <1>13, <1>14 DEF AreWords
<1>17. CustomHeld'
  <2>1. CountLane(customWord', 0) = Bump(calculations["custom"], Stale(lc), 1)
    BY <1>6, <1>10, <1>12, <1>14
  <2>2. CountLane(customWord', 1) = Bump(violations["custom"], Stale(lv), by)
    BY <1>10, <1>12, <1>14
  <2>3. CountLane(customWord', 2) = ts
    BY <1>12, <1>14
  <2>4. CountLane(customWord', 3) = IF met THEN lastViolations["custom"] ELSE ts
    BY <1>1, <1>6, <1>10, <1>12, <1>14 DEF CustomHeld
  <2> QED BY <1>15, <2>1, <2>2, <2>3, <2>4 DEF CustomHeld
<1>18. ASSUME NEW l \in Lanes \ {"custom"} PROVE CanonicalHeld(l)'
  <2>1. IndexOf(l)' = IndexOf(l)
    BY DEF IndexOf
  <2> QED BY <1>1, <1>13, <1>15, <2>1 DEF CanonicalHeld
<1> QED BY <1>16, <1>17, <1>18

\* Where the lanes take a step of Telemetry, the words take theirs with them.
LEMMA PackedStep == [PackedNext]_packedVars => [Next]_vars
BY DEF PackedNext, packedVars, vars, Next

\* A counter that is bumped shows it: it is at least one.
LEMMA DecisionShows ==
  ASSUME Inv, DOMAIN decided = Lanes, CountsShow, NEW lane \in Lanes, NEW met \in BOOLEAN, Decide(lane, met)
  PROVE  DOMAIN decided' = Lanes /\ CountsShow'
<1>1. calculations[lane] \in U32 /\ U32MAX \in Nat \ {0}
  BY TelemetryAssumption DEF Inv, TypeOK, Lane, U32
<1>2. Bump(calculations[lane], Stale(lastCalculations[lane]), 1) # 0
  BY <1>1 DEF Bump, Capped, U32
<1>3. calculations'[lane] # 0 /\ \A l \in Lanes : l # lane => calculations'[l] = calculations[l]
  BY <1>2, LanesBecome
<1>4. DOMAIN decided' = Lanes /\ \A l \in Lanes : l # lane => decided'[l] = decided[l]
  BY DEF Decide
<1> QED BY <1>3, <1>4 DEF CountsShow

\* Zeroed words hold zeroed lanes.
LEMMA PackedStarts == PackedInit => PackedInv
<1> SUFFICES ASSUME PackedInit PROVE PackedInv
  OBVIOUS
<1>0. 0 \in U32
  BY TelemetryAssumption DEF U32
<1>1. PICK f \in [0 .. 3 -> U32] : f = [k \in 0 .. 3 |-> 0]
  BY <1>0
<1>2. WordOf(f) = 0
  <2>1. PICK B \in Nat : B = U32MAX + 1
    BY TelemetryAssumption
  <2>2. WordOf(f) = 0 + 0 * B + 0 * (B * B) + 0 * (B * B * B)
    BY <1>1, <2>1 DEF WordOf
  <2>3. B * B \in Nat /\ B * B * B \in Nat
    BY <2>1
  <2> QED BY <2>1, <2>2, <2>3
<1>3. IsWord(0) /\ \A k \in 0 .. 3 : CountLane(0, k) = 0
  BY <1>1, <1>2, LanesOfWord DEF IsWord
<1>4. /\ calcWord = 0 /\ violWord = 0 /\ lastCalcWord = 0 /\ lastViolWord = 0 /\ customWord = 0
      /\ decided = [lane \in Lanes |-> << >>]
      /\ \A lane \in Lanes : calculations[lane] = 0 /\ violations[lane] = 0
                             /\ lastCalculations[lane] = 0 /\ lastViolations[lane] = 0
  BY DEF PackedInit, Init, TelemetryInit, NoCounts
<1>5. Inv
  BY InitInv DEF PackedInit
<1>6. \A lane \in Lanes \ {"custom"} : IndexOf(lane) \in 0 .. 3
  BY Indices
<1>7. "custom" \in Lanes
  BY PackingAssumption
<1> QED BY <1>3, <1>4, <1>5, <1>6, <1>7 DEF PackedInv, AreWords, CanonicalHeld, CustomHeld, CountsShow

\* Every step of the words keeps them in line with the lanes.
LEMMA PackedKept == PackedInv /\ [PackedNext]_packedVars => PackedInv'
<1> SUFFICES ASSUME PackedInv, [PackedNext]_packedVars PROVE PackedInv'
  OBVIOUS
<1>1. Inv /\ Inv'
  BY PackedStep, InvInductive DEF PackedInv
<1>2. ASSUME NEW lane \in Lanes, NEW met \in BOOLEAN, Decide(lane, met), RecordWords(lane, met) PROVE PackedInv'
  <2>1. DOMAIN decided' = Lanes /\ CountsShow'
    BY <1>1, <1>2, DecisionShows DEF PackedInv
  <2>2. CASE lane = "custom"
    <3>1. Decide("custom", met) /\ RecordCustomSeverityTelemetry(met)
      BY <1>2, <2>2 DEF RecordWords
    <3>2. AreWords' /\ CustomHeld' /\ \A l \in Lanes \ {"custom"} : CanonicalHeld(l)'
      BY <3>1, CustomWordHolds
    <3> QED BY <1>1, <2>1, <3>2 DEF PackedInv
  <2>3. CASE lane # "custom"
    <3>1. lane \in Lanes \ {"custom"} /\ RecordSeverityTelemetry(lane, met)
      BY <1>2, <2>3 DEF RecordWords
    <3>2. AreWords' /\ CustomHeld' /\ \A l \in Lanes \ {"custom"} : CanonicalHeld(l)'
      BY <1>2, <3>1, CanonicalWordsHold
    <3> QED BY <1>1, <2>1, <3>2 DEF PackedInv
  <2> QED BY <2>2, <2>3
<1>3. ASSUME UNCHANGED << laneVars, decided, words >> PROVE PackedInv'
  BY <1>1, <1>3 DEF laneVars, words, PackedInv, AreWords, CanonicalHeld, CustomHeld, CountsShow, CountLane, Shift
<1>4. CASE NewLedger /\ UNCHANGED words
  BY <1>3, <1>4 DEF NewLedger
<1>5. CASE UNCHANGED packedVars
  BY <1>3, <1>5 DEF packedVars, vars
<1> QED BY <1>2, <1>4, <1>5 DEF PackedNext

LEMMA PackedAlways == PackedSpec => []PackedInv
BY PackedStarts, PackedKept, PTL DEF PackedSpec

\* The packed telemetry is the telemetry of the lanes: whatever a theorem says
\* of Spec it says of the words' specification too.
THEOREM WordsImplementLanes == PackedSpec => Spec
<1>1. PackedInit => Init
  BY DEF PackedInit
<1> QED BY <1>1, PackedStep, PTL DEF PackedSpec, Spec

\* count_lane and set_count_lane: for any width of the lanes and any word a
\* history of decisions can leave, reading, resetting, incrementing or timing
\* one lane leaves its neighbours as they were.
THEOREM WordsAlwaysHoldLanes == PackedSpec => []WordsHoldLanes
<1>1. ASSUME PackedInv PROVE WordsHoldLanes
  <2>1. CustomHeld /\ \A lane \in Lanes \ {"custom"} : CanonicalHeld(lane)
    BY <1>1 DEF PackedInv
  <2>2. [i \in 1 .. 4 |-> CountLane(customWord, i - 1)] =
          << CountLane(customWord, 0), CountLane(customWord, 1), CountLane(customWord, 2), CountLane(customWord, 3) >>
    OBVIOUS
  <2> QED BY <2>1, <2>2 DEF WordsHoldLanes, CustomHeld, CanonicalHeld
<1> QED BY <1>1, PackedAlways, PTL

-----------------------------------------------------------------------------
(* The rate *)

\* The saturated product, the division that rounds down and the minimum never
\* put the rate above the true one, and put it there where nothing saturates.
LEMMA RateBounds ==
  ASSUME NEW c \in U32, NEW v \in U32, v <= c
  PROVE  /\ ViolationRate(c, v) * c <= v * Percent
         /\ ViolationRate(c, v) <= Percent
         /\ v * Percent <= U32MAX => (ViolationRate(c, v) + 1) * c > v * Percent \/ c = 0
<1>1. c \in Nat /\ v \in Nat /\ Percent \in Nat \ {0} /\ U32MAX \in Nat
  BY TelemetryAssumption, PackingAssumption DEF U32
<1>2. PICK full \in Nat : full = v * Percent
  BY <1>1
<1>3. CASE c = 0
  <2>1. ViolationRate(c, v) = 0
    BY <1>3 DEF ViolationRate
  <2>2. 0 * c = 0 /\ 0 <= v * Percent
    BY <1>1, <1>2
  <2> QED BY <1>1, <1>3, <2>1, <2>2
<1>4. CASE c # 0
  <2>1. PICK product \in Nat : product = IF full > U32MAX THEN U32MAX ELSE full
    BY <1>1
  <2>2. PICK q \in Nat : q = product \div c
    BY <1>1, <1>4
  <2>3. q * c <= product /\ product < (q + 1) * c
    BY <1>1, <1>4, <2>2
  <2>4. PICK r \in Nat : r = IF q > Percent THEN Percent ELSE q
    BY <1>1
  <2>5. ViolationRate(c, v) = r
    BY <1>2, <1>4, <2>1, <2>2, <2>4 DEF ViolationRate
  <2>6. r * c <= q * c
    BY <1>1, <2>4
  <2>7. full <= U32MAX => (r + 1) * c > full
    <3>1. CASE q <= Percent
      BY <1>1, <2>1, <2>3, <2>4, <3>1
    <3>2. CASE q > Percent
      <4>1. r + 1 = Percent + 1
        BY <2>4, <3>2
      <4>2. v * Percent <= c * Percent
        BY <1>1
      <4>3. (Percent + 1) * c = c * Percent + c
        BY <1>1
      <4> QED BY <1>1, <1>2, <1>4, <4>1, <4>2, <4>3
    <3> QED BY <1>1, <3>1, <3>2
  <2>8. r * c \in Nat /\ q * c \in Nat
    BY <1>1
  <2> QED BY <1>1, <1>2, <2>1, <2>3, <2>4, <2>5, <2>6, <2>7, <2>8
<1> QED BY <1>3, <1>4

\* Two sequences put end to end.
LEMMA EndToEnd ==
  ASSUME NEW R, NEW s \in Seq(R), NEW t \in Seq(R)
  PROVE  /\ s \o t \in Seq(R)
         /\ Len(s \o t) = Len(s) + Len(t)
         /\ \A i \in 1 .. Len(s) : (s \o t)[i] = s[i]
         /\ \A i \in 1 .. Len(t) : (s \o t)[Len(s) + i] = t[i]
OBVIOUS

\* Each row is that of a lane, and each lane that has counted anything has one.
LEMMA RowsTellLanes ==
  ASSUME PackedInv, NEW customRegistered \in BOOLEAN,
         NEW rows, rows = GetSeverityTelemetry(customRegistered)
  PROVE  /\ \A i \in 1 .. Len(rows) :
              \E lane \in Lanes : rows[i] = Row(lane, calculations[lane], violations[lane])
         /\ \A lane \in Lanes : decided[lane] # << >> =>
              \E i \in 1 .. Len(rows) : rows[i] = Row(lane, calculations[lane], violations[lane])
<1>1. CustomHeld /\ CountsShow /\ "custom" \in Lanes /\ \A lane \in Lanes \ {"custom"} : CanonicalHeld(lane)
  BY PackingAssumption DEF PackedInv
<1>2. PICK n \in Nat : n = Len(Canonical)
  <2>1. Canonical \in Seq(Lanes \ {"custom"})
    BY PackingAssumption
  <2> QED BY <2>1
<1>3. PICK canonical :
        canonical = [i \in 1 .. n |-> Row(Canonical[i], CountLane(calcWord, i - 1), CountLane(violWord, i - 1))]
  OBVIOUS
<1>4. PICK R : R = { Row(lane, calculations[lane], violations[lane]) : lane \in Lanes }
  OBVIOUS
<1>5. \A i \in 1 .. n : canonical[i] = Row(Canonical[i], calculations[Canonical[i]], violations[Canonical[i]])
                        /\ Canonical[i] \in Lanes
  BY <1>1, <1>2, <1>3, Indices DEF CanonicalHeld
<1>6. canonical \in Seq(R) /\ Len(canonical) = n
  <2>1. \A i \in 1 .. n : canonical[i] \in R
    BY <1>4, <1>5
  <2>2. canonical \in [1 .. n -> R]
    BY <1>3, <2>1
  <2> QED BY <1>2, <2>2
<1>7. PICK last : last = Row("custom", CountLane(customWord, 0), CountLane(customWord, 1))
  OBVIOUS
<1>8. last = Row("custom", calculations["custom"], violations["custom"]) /\ last \in R
  BY <1>1, <1>4, <1>7 DEF CustomHeld
<1>9. PICK tail : tail = IF customRegistered \/ customWord # 0 THEN << last >> ELSE << >>
  OBVIOUS
<1>10. rows = canonical \o tail
  BY <1>2, <1>3, <1>7, <1>9 DEF GetSeverityTelemetry
<1>11. tail \in Seq(R) /\ (tail # << >> => tail = << last >> /\ Len(tail) = 1)
  BY <1>8, <1>9
<1>12. /\ Len(rows) = n + Len(tail)
       /\ \A i \in 1 .. n : rows[i] = canonical[i]
       /\ \A i \in 1 .. Len(tail) : rows[n + i] = tail[i]
       /\ rows \in Seq(R)
  <2>1. canonical \in Seq(R) /\ tail \in Seq(R)
    BY <1>6, <1>11
  <2>2. /\ rows \in Seq(R)
        /\ Len(rows) = Len(canonical) + Len(tail)
        /\ \A i \in 1 .. Len(canonical) : rows[i] = canonical[i]
        /\ \A i \in 1 .. Len(tail) : rows[Len(canonical) + i] = tail[i]
    BY ONLY <2>1, <1>10, EndToEnd
  <2> QED BY <1>6, <2>2
<1>13. ASSUME NEW i \in 1 .. Len(rows)
       PROVE  \E lane \in Lanes : rows[i] = Row(lane, calculations[lane], violations[lane])
  <2>1. rows[i] \in R
    BY <1>12
  <2> QED BY <1>4, <2>1
<1>14. ASSUME NEW lane \in Lanes, decided[lane] # << >>
       PROVE  \E i \in 1 .. Len(rows) : rows[i] = Row(lane, calculations[lane], violations[lane])
  <2>1. CASE lane # "custom"
    <3>1. PICK i \in 1 .. n : Canonical[i] = lane
      BY <1>2, <2>1, Indices
    <3>2. rows[i] = Row(lane, calculations[lane], violations[lane])
      BY <1>5, <1>12, <3>1
    <3>3. Len(tail) \in Nat
      BY <1>11
    <3>4. i \in 1 .. Len(rows)
      BY <1>2, <1>12, <3>3
    <3> QED BY <3>2, <3>4
  <2>2. CASE lane = "custom"
    <3>1. CountLane(customWord, 0) # 0
      BY <1>1, <1>14, <2>2 DEF CountsShow, CustomHeld
    <3>2. CountLane(0, 0) = 0
      <4>1. (0 \div 1) % (U32MAX + 1) = 0
        BY TelemetryAssumption
      <4> QED BY <4>1, Shifts DEF CountLane
    <3>3. tail = << last >> /\ Len(tail) = 1 /\ tail[1] = last
      BY <1>9, <3>1, <3>2
    <3>4. rows[n + 1] = last /\ n + 1 \in 1 .. Len(rows)
      BY <1>2, <1>12, <3>3
    <3> QED BY <1>8, <2>2, <3>4
  <2> QED BY <2>1, <2>2
<1> QED BY <1>13, <1>14

\* get_severity_telemetry: for any canonical lanes, any counters they can hold
\* and any width at which the product saturates, no row overstates its rate or
\* hides a lane that has counted.
THEOREM RateIsNeverOverstated == PackedSpec => []RateNeverOverstated
<1>1. ASSUME PackedInv PROVE RateNeverOverstated
  <2>1. ASSUME NEW lane \in Lanes
        PROVE  calculations[lane] \in U32 /\ violations[lane] \in U32 /\ violations[lane] <= calculations[lane]
    BY <1>1 DEF PackedInv, Inv, TypeOK, Lane, RateAtMostOne, U32
  <2>2. ASSUME NEW customRegistered \in BOOLEAN, NEW rows, rows = GetSeverityTelemetry(customRegistered)
        PROVE  /\ \A i \in 1 .. Len(rows) :
                    /\ rows[i].violation_rate * rows[i].calculations <= rows[i].violations * Percent
                    /\ rows[i].violation_rate <= Percent
                    /\ rows[i].violations * Percent <= U32MAX =>
                         \/ (rows[i].violation_rate + 1) * rows[i].calculations > rows[i].violations * Percent
                         \/ rows[i].calculations = 0
               /\ \A lane \in Lanes : decided[lane] # << >> =>
                    \E i \in 1 .. Len(rows) : rows[i].severity = lane /\ rows[i].calculations = calculations[lane]
    <3>1. /\ \A i \in 1 .. Len(rows) :
               \E lane \in Lanes : rows[i] = Row(lane, calculations[lane], violations[lane])
          /\ \A lane \in Lanes : decided[lane] # << >> =>
               \E i \in 1 .. Len(rows) : rows[i] = Row(lane, calculations[lane], violations[lane])
      BY <1>1, <2>2, RowsTellLanes
    <3>2. ASSUME NEW i \in 1 .. Len(rows)
          PROVE  /\ rows[i].violation_rate * rows[i].calculations <= rows[i].violations * Percent
                 /\ rows[i].violation_rate <= Percent
                 /\ rows[i].violations * Percent <= U32MAX =>
                      \/ (rows[i].violation_rate + 1) * rows[i].calculations > rows[i].violations * Percent
                      \/ rows[i].calculations = 0
      <4>1. PICK lane \in Lanes : rows[i] = Row(lane, calculations[lane], violations[lane])
        BY <3>1
      <4>2. PICK c \in U32, v \in U32 : c = calculations[lane] /\ v = violations[lane] /\ v <= c
        BY <2>1
      <4>3. rows[i].calculations = c /\ rows[i].violations = v /\ rows[i].violation_rate = ViolationRate(c, v)
        BY <4>1, <4>2 DEF Row
      <4> QED BY <4>2, <4>3, RateBounds
    <3>3. \A lane \in Lanes : Row(lane, calculations[lane], violations[lane]).severity = lane
            /\ Row(lane, calculations[lane], violations[lane]).calculations = calculations[lane]
      BY DEF Row
    <3> QED BY <3>1, <3>2, <3>3
  <2> QED BY <2>2 DEF RateNeverOverstated
<1> QED BY <1>1, PackedAlways, PTL

=============================================================================
