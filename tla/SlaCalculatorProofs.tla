------------------------ MODULE SlaCalculatorProofs ------------------------
(***************************************************************************)
(* Proofs about the composition: calculate_sla over a history that is      *)
(* trimmed, pruned and renumbered by other calls and a configuration that  *)
(* is changed by others still.                                             *)
(*                                                                         *)
(* Every step of SlaCalculator is a step of HistoryStore, or leaves it     *)
(* alone (StoreStep); so the history implements RetainedLog here too, and  *)
(* what is retained only ever loses its oldest part or gains a decision    *)
(* just made (WindowMoves).  What is said of the retained decisions is     *)
(* therefore said of a sequence: it has to survive a suffix and an append. *)
(***************************************************************************)
EXTENDS SecondCopies, Contract, VecOpsProofs, FiniteSetTheorems

Store == INSTANCE HistoryStoreProofs

\* The retained decisions, oldest first.
Window == Store!Window

-----------------------------------------------------------------------------
(* Sequences of decisions *)

\* v is the end of w.
Ends(v, w) == Store!Ends(v, w)

\* A decision some configuration gives, under the hash of that configuration.
Priced(r) ==
  /\ Signed(r)
  /\ \E c \in Configurations :
       r = ComputeResult(r.outage_id, r.mttr_minutes, c, ConfigHash(<< c >>), r.recorded_at)

AllPriced(w) == \A k \in 1 .. Len(w) : Priced(w[k])

\* Two decisions on an outage with none between them.
Neighbours(w, i, j) ==
  /\ i < j
  /\ w[i].outage_id = w[j].outage_id
  /\ \A k \in i + 1 .. j - 1 : w[k].outage_id # w[i].outage_id

Alternates(w) ==
  \A i, j \in 1 .. Len(w) : Neighbours(w, i, j) => w[i].config_version_hash # w[j].config_version_hash

\* Where the decisions on an outage are.
Places(w, outage) == { k \in 1 .. Len(w) : w[k].outage_id = outage }

Capped(w) == \A outage \in OutageIds : Cardinality(Places(w, outage)) <= MAX_RECALCS_PER_OUTAGE

LEMMA PlacesFinite ==
  ASSUME NEW w, Len(w) \in Nat, NEW outage
  PROVE  IsFiniteSet(Places(w, outage)) /\ Cardinality(Places(w, outage)) \in Nat
<1>1. IsFiniteSet(1 .. Len(w))
  BY FS_Interval
<1>2. Places(w, outage) \subseteq 1 .. Len(w)
  BY DEF Places
<1>3. IsFiniteSet(Places(w, outage))
  BY <1>1, <1>2, FS_Subset
<1> QED BY <1>3, FS_CardinalityType

LEMMA PricedEnd ==
  ASSUME NEW w, NEW v, Ends(v, w), AllPriced(w)
  PROVE  AllPriced(v)
<1> SUFFICES ASSUME NEW k \in 1 .. Len(v)
             PROVE  Priced(v[k])
  BY DEF AllPriced
<1>1. k + (Len(w) - Len(v)) \in 1 .. Len(w)
  BY DEF Ends, Store!Ends
<1>2. Priced(w[k + (Len(w) - Len(v))])
  BY <1>1 DEF AllPriced
<1> QED BY <1>2 DEF Ends, Store!Ends

LEMMA AlternatesEnd ==
  ASSUME NEW w, NEW v, Ends(v, w), Alternates(w)
  PROVE  Alternates(v)
<1>0. PICK d \in Nat : d = Len(w) - Len(v)
  <2>1. Len(w) - Len(v) \in Nat
    BY DEF Ends, Store!Ends
  <2> QED BY <2>1
<1>1. Len(v) \in Nat /\ \A k \in 1 .. Len(v) : k + d \in 1 .. Len(w) /\ v[k] = w[k + d]
  BY <1>0 DEF Ends, Store!Ends
<1> SUFFICES ASSUME NEW i \in 1 .. Len(v), NEW j \in 1 .. Len(v), Neighbours(v, i, j)
             PROVE  v[i].config_version_hash # v[j].config_version_hash
  BY DEF Alternates
<1>2. PICK a, b : a = i + d /\ b = j + d
  OBVIOUS
<1>3. Neighbours(w, a, b)
  <2>1. a < b /\ w[a].outage_id = w[b].outage_id
    <3>1. i < j /\ v[i].outage_id = v[j].outage_id
      BY Zenon DEF Neighbours
    <3>2. a < b
      BY <1>1, <1>2, <3>1
    <3>3. v[i] = w[a] /\ v[j] = w[b]
      BY <1>1, <1>2
    <3> QED BY <3>1, <3>2, <3>3
  <2>2. ASSUME NEW k \in a + 1 .. b - 1
        PROVE  w[k].outage_id # w[a].outage_id
    <3>1. k - d \in i + 1 .. j - 1 /\ k - d \in 1 .. Len(v) /\ (k - d) + d = k
      BY <1>0, <1>1, <1>2
    <3>2. v[k - d].outage_id # v[i].outage_id
      BY <3>1 DEF Neighbours
    <3>3. v[k - d] = w[k] /\ v[i] = w[a]
      BY <1>1, <1>2, <3>1
    <3> QED BY <3>2, <3>3
  <2> QED BY <2>1, <2>2, Zenon DEF Neighbours
<1>4. a \in 1 .. Len(w) /\ b \in 1 .. Len(w) /\ v[i] = w[a] /\ v[j] = w[b]
  BY <1>1, <1>2
<1>5. w[a].config_version_hash # w[b].config_version_hash
  BY <1>3, <1>4, Zenon DEF Alternates
<1> QED BY <1>4, <1>5

LEMMA CappedEnd ==
  ASSUME NEW w, NEW v, Ends(v, w), Capped(w)
  PROVE  Capped(v)
<1> DEFINE d == Len(w) - Len(v)
<1>0. Len(v) \in Nat /\ Len(w) \in Nat /\ d \in Nat
  BY DEF Ends, Store!Ends
<1>1. \A k \in 1 .. Len(v) : k + d \in 1 .. Len(w) /\ v[k] = w[k + d]
  BY DEF Ends, Store!Ends
<1> HIDE DEF d
<1> SUFFICES ASSUME NEW outage \in OutageIds
             PROVE  Cardinality(Places(v, outage)) <= MAX_RECALCS_PER_OUTAGE
  BY DEF Capped
<1> DEFINE f == [k \in Places(v, outage) |-> k + d]
<1>2. f \in Injection(Places(v, outage), Places(w, outage))
  <2>1. \A k \in Places(v, outage) : k + d \in Places(w, outage) /\ k \in Nat
    BY <1>1 DEF Places
  <2>2. f \in [Places(v, outage) -> Places(w, outage)]
    BY <2>1
  <2>3. \A i, j \in Places(v, outage) : f[i] = f[j] => i = j
    BY <1>0, <2>1
  <2> QED BY <2>2, <2>3 DEF Injection, IsInjective
<1>3. Cardinality(Places(v, outage)) <= Cardinality(Places(w, outage))
  BY <1>0, <1>2, PlacesFinite, FS_Injection
<1>4. Cardinality(Places(w, outage)) <= MAX_RECALCS_PER_OUTAGE
  BY DEF Capped
<1> QED BY <1>0, <1>3, <1>4, PlacesFinite, CalculatorAssumption

\* No decision on r's outage is newer than one under r's hash.
NewGeneration(w, r) ==
  \A k \in 1 .. Len(w) :
    /\ w[k].outage_id = r.outage_id
    /\ \A q \in k + 1 .. Len(w) : w[q].outage_id # r.outage_id
    => w[k].config_version_hash # r.config_version_hash

LEMMA Appended ==
  ASSUME NEW w \in Seq(Results), NEW r \in Results
  PROVE  /\ Append(w, r) \in Seq(Results)
         /\ Len(w) \in Nat /\ Len(Append(w, r)) = Len(w) + 1
         /\ \A k \in 1 .. Len(w) : Append(w, r)[k] = w[k]
         /\ Append(w, r)[Len(w) + 1] = r
OBVIOUS

LEMMA PricedAppend ==
  ASSUME NEW w \in Seq(Results), NEW r \in Results, AllPriced(w), Priced(r)
  PROVE  AllPriced(Append(w, r))
<1> DEFINE a == Append(w, r)
<1>1. Len(w) \in Nat /\ Len(a) = Len(w) + 1 /\ (\A k \in 1 .. Len(w) : a[k] = w[k]) /\ a[Len(w) + 1] = r
  BY Appended
<1> HIDE DEF a
<1> SUFFICES ASSUME NEW k \in 1 .. Len(a)
             PROVE  Priced(a[k])
  BY DEF AllPriced, a
<1>2. k \in 1 .. Len(w) \/ k = Len(w) + 1
  BY <1>1
<1>3. CASE k \in 1 .. Len(w)
  BY <1>1, <1>3 DEF AllPriced
<1>4. CASE k = Len(w) + 1
  BY <1>1, <1>4
<1> QED BY <1>2, <1>3, <1>4

LEMMA AlternatesAppend ==
  ASSUME NEW w \in Seq(Results), NEW r \in Results, Alternates(w), NewGeneration(w, r)
  PROVE  Alternates(Append(w, r))
<1> DEFINE a == Append(w, r)
<1>1. Len(w) \in Nat /\ Len(a) = Len(w) + 1 /\ (\A k \in 1 .. Len(w) : a[k] = w[k]) /\ a[Len(w) + 1] = r
  BY Appended
<1> HIDE DEF a
<1> SUFFICES ASSUME NEW i \in 1 .. Len(a), NEW j \in 1 .. Len(a), Neighbours(a, i, j)
             PROVE  a[i].config_version_hash # a[j].config_version_hash
  BY DEF Alternates, a
<1>2. i < j /\ a[i].outage_id = a[j].outage_id /\ \A k \in i + 1 .. j - 1 : a[k].outage_id # a[i].outage_id
  BY DEF Neighbours
<1>3. i \in 1 .. Len(w) /\ a[i] = w[i]
  BY <1>1, <1>2
<1>4. CASE j \in 1 .. Len(w)
  <2>1. \A k \in i + 1 .. j - 1 : k \in 1 .. Len(w)
    BY <1>1, <1>4
  <2>2. a[j] = w[j] /\ \A k \in i + 1 .. j - 1 : a[k] = w[k]
    BY <1>1, <1>4, <2>1
  <2>3. \A k \in i + 1 .. j - 1 : w[k].outage_id # w[i].outage_id
    BY <1>2, <1>3, <2>2, Zenon
  <2>4. Neighbours(w, i, j)
    BY <1>2, <1>3, <2>2, <2>3, Zenon DEF Neighbours
  <2>5. w[i].config_version_hash # w[j].config_version_hash
    BY <1>3, <1>4, <2>4, Zenon DEF Alternates
  <2> QED BY <1>3, <2>2, <2>5, Zenon
<1>5. CASE j = Len(w) + 1
  <2>1. a[j] = r /\ w[i].outage_id = r.outage_id
    BY <1>1, <1>2, <1>3, <1>5
  <2>2. \A q \in i + 1 .. Len(w) : w[q].outage_id # r.outage_id
    <3> TAKE q \in i + 1 .. Len(w)
    <3>1. q \in i + 1 .. j - 1 /\ q \in 1 .. Len(w)
      BY <1>1, <1>5
    <3>2. a[q].outage_id # a[i].outage_id /\ a[q] = w[q]
      BY <1>1, <1>2, <3>1
    <3> QED BY <1>3, <2>1, <3>2
  <2>3. w[i].config_version_hash # r.config_version_hash
    BY <1>3, <2>1, <2>2, Zenon DEF NewGeneration
  <2> QED BY <1>3, <2>1, <2>3
<1>6. j \in 1 .. Len(w) \/ j = Len(w) + 1
  BY <1>1
<1> QED BY <1>4, <1>5, <1>6

LEMMA CappedAppend ==
  ASSUME NEW w \in Seq(Results), NEW r \in Results, Capped(w),
         Cardinality(Places(w, r.outage_id)) < MAX_RECALCS_PER_OUTAGE
  PROVE  Capped(Append(w, r))
<1> DEFINE a == Append(w, r)
<1>1. Len(w) \in Nat /\ Len(a) = Len(w) + 1 /\ (\A k \in 1 .. Len(w) : a[k] = w[k]) /\ a[Len(w) + 1] = r
  BY Appended
<1> HIDE DEF a
<1> SUFFICES ASSUME NEW outage \in OutageIds
             PROVE  Cardinality(Places(a, outage)) <= MAX_RECALCS_PER_OUTAGE
  BY DEF Capped, a
<1>2. /\ IsFiniteSet(Places(w, outage)) /\ Cardinality(Places(w, outage)) \in Nat
      /\ IsFiniteSet(Places(a, outage)) /\ Cardinality(Places(a, outage)) \in Nat
  BY <1>1, PlacesFinite
<1>3. MAX_RECALCS_PER_OUTAGE \in Nat
  BY CalculatorAssumption
<1>4. \A k \in Places(a, outage) : k \in Places(w, outage) \/ (k = Len(w) + 1 /\ outage = r.outage_id)
  <2> TAKE k \in Places(a, outage)
  <2>1. k \in 1 .. Len(a) /\ a[k].outage_id = outage
    BY DEF Places
  <2>2. k \in 1 .. Len(w) \/ k = Len(w) + 1
    BY <1>1, <2>1
  <2> QED BY <1>1, <2>1, <2>2 DEF Places
<1>5. CASE outage = r.outage_id
  <2> DEFINE P == Places(w, outage) \cup {Len(w) + 1}
  <2>1. IsFiniteSet(P) /\ Cardinality(P) \in Nat /\ Cardinality(P) <= Cardinality(Places(w, outage)) + 1
    <3>1. IsFiniteSet(P) /\ Cardinality(P) = IF Len(w) + 1 \in Places(w, outage)
            THEN Cardinality(Places(w, outage)) ELSE Cardinality(Places(w, outage)) + 1
      BY <1>2, FS_AddElement
    <3> HIDE DEF P
    <3> QED BY <1>2, <3>1
  <2>2. Places(a, outage) \subseteq P
    BY <1>4
  <2>3. Cardinality(Places(a, outage)) <= Cardinality(P)
    <3> HIDE DEF P
    <3> QED BY <2>1, <2>2, FS_Subset
  <2> HIDE DEF P
  <2> QED BY <1>2, <1>3, <1>5, <2>1, <2>3
<1>6. CASE outage # r.outage_id
  <2>1. Places(a, outage) \subseteq Places(w, outage)
    BY <1>4, <1>6
  <2>2. Cardinality(Places(a, outage)) <= Cardinality(Places(w, outage))
    BY <1>2, <2>1, FS_Subset
  <2>3. Cardinality(Places(w, outage)) <= MAX_RECALCS_PER_OUTAGE
    BY DEF Capped
  <2> QED BY <1>2, <1>3, <2>2, <2>3
<1> QED BY <1>5, <1>6

-----------------------------------------------------------------------------
(* The steps, as steps of the history *)

LEMMA StoreAssumptions == Store!HistoryAssumption /\ Store!MaxLedgerAssumption
BY CalculatorAssumption, MaxLedgerAssumption DEF Store!HistoryAssumption, Store!MaxLedgerAssumption

\* The operators of the history, by either of its names.
LEMMA SameVectors ==
  /\ \A s, S : History!Keep(s, S) = Store!Keep(s, S)
  /\ \A a, b : History!SaturatingSub(a, b) = Store!SaturatingSub(a, b)
  /\ \A a, b : History!Run(a, b) = Store!Run(a, b)
  /\ \A s : History!LastOf(s) = Store!LastOf(s)
BY DEF History!Keep, History!KeepLoop, Store!Keep, Store!KeepLoop, History!SaturatingSub, Store!SaturatingSub,
       History!Run, Store!Run, History!LastOf, Store!LastOf

LEMMA SameReads ==
  /\ \A outage : History!LatestForOutage(outage) = Store!LatestForOutage(outage)
  /\ History!ReadAllEntries = Store!ReadAllEntries
BY SameVectors DEF History!LatestForOutage, Store!LatestForOutage, History!ReadAllEntries, Store!ReadAllEntries,
                   History!ReadRange, Store!ReadRange, History!ReadSlots, Store!ReadSlots

LEMMA SameWrites ==
  /\ \A r : History!Record(r) => Store!Record(r)
  /\ \A keepCount : History!PruneOldest(keepCount) => Store!PruneOldest(keepCount)
  /\ \A survivors : History!RebuildHistory(survivors) => Store!RebuildHistory(survivors)
<1>1. \A r : History!Record(r) => Store!Record(r)
  BY SameVectors DEF History!Record, Store!Record, History!AppendEntry, Store!AppendEntry, History!Without, Store!Without
<1>2. \A keepCount : History!PruneOldest(keepCount) => Store!PruneOldest(keepCount)
  BY SameVectors DEF History!PruneOldest, Store!PruneOldest, History!Without, Store!Without,
                     History!historyVars, Store!historyVars
<1>3. \A survivors : History!RebuildHistory(survivors) => Store!RebuildHistory(survivors)
  BY SameVectors DEF History!RebuildHistory, Store!RebuildHistory
<1> QED BY <1>1, <1>2, <1>3

LEMMA SameOperations ==
  /\ \A keepLatest : History!PruneHistory(keepLatest) => Store!PruneHistory(keepLatest)
  /\ \A minAge : History!PruneHistoryByAge(minAge) => Store!PruneHistoryByAge(minAge)
  /\ \A limit : History!SetRetentionLimit(limit) => Store!SetRetentionLimit(limit)
<1>1. \A keepLatest : History!PruneHistory(keepLatest) => Store!PruneHistory(keepLatest)
  BY SameWrites DEF History!PruneHistory, Store!PruneHistory
<1>2. \A minAge : History!PruneHistoryByAge(minAge) => Store!PruneHistoryByAge(minAge)
  BY SameWrites, SameReads, SameVectors
     DEF History!PruneHistoryByAge, Store!PruneHistoryByAge, History!historyVars, Store!historyVars
<1>3. \A limit : History!SetRetentionLimit(limit) => Store!SetRetentionLimit(limit)
  BY SameWrites DEF History!SetRetentionLimit, Store!SetRetentionLimit
<1> QED BY <1>1, <1>2, <1>3

\* What the decisions of a state are made from: configurations an admin can
\* submit and calculate_sla can divide by.
Known ==
  /\ config \in [Canonical -> Configurations]
  /\ \A s \in DOMAIN custom : custom[s] \in Configurations
  /\ \A s \in Canonical \cup DOMAIN custom : 0 < LoadConfig(s).threshold
  /\ now \in 1 .. MaxLedger

\* A decision is stored, on an outage whose newest retained decision is of
\* another generation and whose decisions are not at the cap, or that has none.
Settled(outage, severity, mttr, r) ==
  /\ severity \in Canonical \cup DOMAIN custom
  /\ r = ComputeResult(outage, mttr, LoadConfig(severity), ConfigHash(<< LoadConfig(severity) >>), now)
  /\ RequireAmount(r) = Ok
  /\ Store!Record(r)
  /\ \/ Store!LatestForOutage(outage) = NoResult
     \/ /\ Store!LatestForOutage(outage).config_version_hash # r.config_version_hash
        /\ Len(outageIndex[outage]) < MAX_RECALCS_PER_OUTAGE

\* Decisions are dropped by an admin's call, or the clock advances.
Dropped ==
  \/ \E keepLatest \in 0 .. MAX_HISTORY_SIZE : Store!PruneHistory(keepLatest)
  \/ \E minAge \in 0 .. MaxLedger : Store!PruneHistoryByAge(minAge)
  \/ \E limit \in 0 .. MAX_HISTORY_SIZE + 1 : Store!SetRetentionLimit(limit)
  \/ Store!NewLedger

\* A chain of checks answers Ok exactly when each of them does.
LEMMA ChainOk == \A a, b : (a ?? b = Ok) <=> (a = Ok /\ b = Ok)
BY DEF ??

LEMMA Checked ==
  ASSUME NEW condition, NEW error, error # Ok, Require(condition, error) = Ok
  PROVE  condition
BY DEF Require

\* A decision is only stored when every check of calculate_sla has passed.
LEMMA ChecksPassed ==
  ASSUME NEW caller, NEW outage, NEW severity, NEW mttr, CalculateSla(caller, outage, severity, mttr), Granted,
         NEW c, c = LoadConfig(severity),
         NEW r, r = ComputeResult(outage, mttr, c, Generation(severity), now),
         NEW prev, prev = History!LatestForOutage(outage),
         NEW same, same = SameGeneration(prev, Generation(severity), mttr, c)
  PROVE  /\ severity \in Canonical \cup DOMAIN custom
         /\ RequireAmount(r) = Ok
         /\ prev = NoResult \/ same \/ Len(outageIndex[outage]) < MAX_RECALCS_PER_OUTAGE
<1> DEFINE first  == CheckVersion ?? Require(mttr <= MAX_MTTR, "InvalidInput") ?? RequireNotPaused
                       ?? RequireOperator(caller)
           inputs == Require(same => SameInputs(prev, mttr, c), "DuplicateOutageInput")
           amount == RequireAmount(r)
           limit  == Require(prev = NoResult \/ same \/ Len(outageIndex[outage]) < MAX_RECALCS_PER_OUTAGE,
                             "OutageRecalcLimit")
<1>1. (first ?? RequireConfig(severity) ?? amount ?? inputs ?? limit) = Ok
  BY DEF CalculateSla, Answer, Granted
<1> HIDE DEF first, inputs, amount, limit
<1>2. (first ?? RequireConfig(severity) ?? amount ?? inputs) = Ok /\ limit = Ok
  BY <1>1, ChainOk, Zenon
<1>3. (first ?? RequireConfig(severity) ?? amount) = Ok
  BY <1>2, ChainOk, Zenon
<1>4. (first ?? RequireConfig(severity)) = Ok /\ amount = Ok
  BY <1>3, ChainOk, Zenon
<1>5. RequireConfig(severity) = Ok
  BY <1>4, ChainOk, Zenon
<1>6. severity \in Canonical \cup DOMAIN custom
  BY <1>5, Zenon DEF RequireConfig, Require, Ok
<1>7. prev = NoResult \/ same \/ Len(outageIndex[outage]) < MAX_RECALCS_PER_OUTAGE
  BY <1>2, Checked DEF limit, Ok
<1> QED BY <1>4, <1>6, <1>7 DEF amount

LEMMA SettledOrReplayed ==
  ASSUME NEW caller, NEW outage, NEW severity, NEW mttr, CalculateSla(caller, outage, severity, mttr)
  PROVE  (\E r : Settled(outage, severity, mttr, r)) \/ UNCHANGED Store!vars
<1> DEFINE c      == LoadConfig(severity)
           hash   == Generation(severity)
           result == ComputeResult(outage, mttr, c, hash, now)
           prev   == History!LatestForOutage(outage)
           same   == SameGeneration(prev, hash, mttr, c)
<1>1. /\ now' = now
      /\ \/ ~Granted /\ UNCHANGED settledVars
         \/ Granted /\ same /\ Replay(severity, prev)
         \/ Granted /\ ~same /\ Settle(severity, result)
  BY DEF CalculateSla, Answer
<1>2. CASE UNCHANGED settledVars
  BY <1>1, <1>2 DEF settledVars, historyVars, Store!vars, Store!storeVars, Store!historyVars
<1>3. CASE Granted /\ ~same /\ Settle(severity, result)
  <2>1. /\ severity \in Canonical \cup DOMAIN custom
        /\ RequireAmount(result) = Ok
        /\ prev = NoResult \/ same \/ Len(outageIndex[outage]) < MAX_RECALCS_PER_OUTAGE
    <3>1. \A k, r, p, q : k = c /\ r = result /\ p = prev /\ q = same =>
            severity \in Canonical \cup DOMAIN custom /\ RequireAmount(r) = Ok
              /\ (p = NoResult \/ q \/ Len(outageIndex[outage]) < MAX_RECALCS_PER_OUTAGE)
      BY <1>3, ChecksPassed
    <3> QED BY <3>1
  <2> HIDE DEF result, prev, same, c, hash
  <2>2. prev = NoResult \/ prev.config_version_hash # hash
    BY <1>3 DEF same, SameGeneration
  <2>3. prev = Store!LatestForOutage(outage)
    BY SameReads DEF prev
  <2>4. Store!Record(result)
    BY <1>3, SameWrites DEF Settle
  <2>5. result = ComputeResult(outage, mttr, LoadConfig(severity), ConfigHash(<< LoadConfig(severity) >>), now)
    BY DEF result, c, hash, Generation, SeverityConfigHash
  <2>6. result.config_version_hash = hash
    BY DEF result, ComputeResult
  <2>7. Settled(outage, severity, mttr, result)
    BY <1>3, <2>1, <2>2, <2>3, <2>4, <2>5, <2>6 DEF Settled
  <2> QED BY <2>7
<1> QED BY <1>1, <1>2, <1>3 DEF Replay

LEMMA StepKinds ==
  ASSUME Next
  PROVE  \/ \E outage \in OutageIds, mttr \in Mttrs : \E severity, r : Settled(outage, severity, mttr, r)
         \/ Dropped
         \/ UNCHANGED Store!vars
<1> USE DEF settledVars, historyVars, Store!vars, Store!storeVars, Store!historyVars
<1>1. ASSUME NEW caller, NEW outage \in OutageIds, NEW severity, NEW mttr \in Mttrs,
             CalculateSla(caller, outage, severity, mttr)
      PROVE  (\E r : Settled(outage, severity, mttr, r)) \/ UNCHANGED Store!vars
  BY <1>1, SettledOrReplayed
<1>2. ASSUME NEW caller, NEW severity, NEW c, Configure(caller, severity, c)
      PROVE  UNCHANGED Store!vars
  BY <1>2 DEF Configure, SetConfig, SetCustomSeverity, Answer, Configured
<1>3. ASSUME NEW caller, NEW severity, Unregister(caller, severity)
      PROVE  UNCHANGED Store!vars
  BY <1>3 DEF Unregister, RemoveCustomSeverity, Answer, Configured
<1>4. ASSUME NEW caller, NEW keepLatest \in 0 .. MAX_HISTORY_SIZE, PruneHistory(caller, keepLatest)
      PROVE  Dropped \/ UNCHANGED Store!vars
  <2>1. now' = now /\ (UNCHANGED historyVars \/ Store!PruneHistory(keepLatest))
    BY <1>4, SameOperations DEF PruneHistory, Answer
  <2> QED BY <2>1 DEF Dropped
<1>5. ASSUME NEW caller, NEW minAge \in 0 .. MaxLedger - 1, PruneHistoryByAge(caller, minAge)
      PROVE  Dropped \/ UNCHANGED Store!vars
  <2>1. now' = now /\ (UNCHANGED historyVars \/ Store!PruneHistoryByAge(minAge))
    BY <1>5, SameOperations DEF PruneHistoryByAge, Answer
  <2>2. minAge \in 0 .. MaxLedger
    BY MaxLedgerAssumption
  <2> QED BY <2>1, <2>2 DEF Dropped
<1>6. ASSUME NEW caller, NEW limit \in 0 .. MAX_HISTORY_SIZE, SetRetentionLimit(caller, limit)
      PROVE  Dropped \/ UNCHANGED Store!vars
  <2>1. now' = now /\ (UNCHANGED historyVars \/ Store!SetRetentionLimit(limit))
    BY <1>6, SameOperations DEF SetRetentionLimit, Answer
  <2>2. limit \in 0 .. MAX_HISTORY_SIZE + 1
    BY CalculatorAssumption
  <2> QED BY <2>1, <2>2 DEF Dropped
<1>7. ASSUME NEW caller, NEW fits, Pause(caller, fits) \/ Unpause(caller)
      PROVE  UNCHANGED Store!vars
  BY <1>7 DEF Pause, Unpause, Answer
<1>8. ASSUME NewLedger
      PROVE  Dropped
  BY <1>8 DEF NewLedger, Dropped, Store!NewLedger, CloseLedger, Store!CloseLedger
<1> HIDE DEF Store!vars
<1>9. ASSUME NEW caller,
             \/ \E outage \in OutageIds, severity \in Severities, mttr \in Mttrs :
                  CalculateSla(caller, outage, severity, mttr)
             \/ \E severity \in Severities, c \in ConfigInputs : Configure(caller, severity, c)
             \/ \E severity \in Severities : Unregister(caller, severity)
             \/ \E keepLatest \in 0 .. MAX_HISTORY_SIZE : PruneHistory(caller, keepLatest)
             \/ \E minAge \in 0 .. MaxLedger - 1 : PruneHistoryByAge(caller, minAge)
             \/ \E limit \in 0 .. MAX_HISTORY_SIZE : SetRetentionLimit(caller, limit)
             \/ \E reasonFits \in BOOLEAN : Pause(caller, reasonFits)
             \/ Unpause(caller)
      PROVE  \/ \E outage \in OutageIds, mttr \in Mttrs : \E severity, r : Settled(outage, severity, mttr, r)
             \/ Dropped
             \/ UNCHANGED Store!vars
  BY <1>1, <1>2, <1>3, <1>4, <1>5, <1>6, <1>7, <1>9, Zenon
<1> QED BY <1>8, <1>9, Zenon DEF Next

-----------------------------------------------------------------------------
(* The retained decisions *)

LEMMA WindowIs ==
  ASSUME Store!StoreInv
  PROVE  /\ Store!ReadAllEntries = Window /\ Window \in Seq(Results)
         /\ head \in Nat /\ tail \in Nat /\ Len(Window) = tail - head /\ head <= tail
         /\ \A k \in 1 .. tail - head : Window[k] = entries[head + k - 1]
<1>1. Store!ReadAllEntries = Window /\ Window \in Seq(Results) /\ Len(Window) = tail - head
  BY StoreAssumptions, Store!ReadAllIsWindow, Zenon DEF Window
<1>2. head \in Nat /\ tail \in Nat /\ head <= tail
  BY StoreAssumptions, Store!StoreNumbers, Zenon
<1> QED BY <1>1, <1>2 DEF Window, Store!Window

\* What is retained loses its oldest part, after the decision just made, if
\* there is one, has joined it.
Moves ==
  \/ UNCHANGED recorded /\ Ends(Window', Window)
  \/ \E r \in Results : recorded' = Append(recorded, r) /\ Ends(Window', Append(Window, r))

LEMMA WindowMoves ==
  ASSUME Store!StoreInv, Store!StoreInv', [Store!Next]_(Store!vars)
  PROVE  Moves
<1>1. Store!Moves
  BY StoreAssumptions, Store!WindowMoves, Zenon
<1> QED BY <1>1 DEF Store!Moves, Moves, Window, Ends

\* An outage's index lists the places of its decisions, in order.
LEMMA IndexListsPlaces ==
  ASSUME Store!StoreInv, NEW outage \in OutageIds
  PROVE  /\ outageIndex[outage] \in Seq(Nat)
         /\ \A k \in 1 .. Len(outageIndex[outage]) :
              /\ outageIndex[outage][k] \in head .. tail - 1
              /\ outageIndex[outage][k] - head + 1 \in Places(Window, outage)
              /\ Window[outageIndex[outage][k] - head + 1] = entries[outageIndex[outage][k]]
         /\ \A k, l \in 1 .. Len(outageIndex[outage]) : k < l => outageIndex[outage][k] < outageIndex[outage][l]
         /\ \A p \in Places(Window, outage) :
              \E k \in 1 .. Len(outageIndex[outage]) : outageIndex[outage][k] = head + p - 1
<1> DEFINE x == outageIndex[outage]
<1>1. /\ x \in Seq(Nat)
      /\ \A k, l \in 1 .. Len(x) : k < l => x[k] < x[l]
      /\ { x[k] : k \in 1 .. Len(x) } = { i \in head .. tail - 1 : entries[i].outage_id = outage }
  BY DEF Store!StoreInv, Store!StoreTypeOK, Store!IndexExact, Store!StrictlyIncreasing, Store!Elements
<1>2. /\ head \in Nat /\ tail \in Nat /\ head <= tail /\ Len(Window) = tail - head
      /\ \A k \in 1 .. tail - head : Window[k] = entries[head + k - 1]
  BY WindowIs
<1> HIDE DEF x
<1>3. ASSUME NEW k \in 1 .. Len(x)
      PROVE  /\ x[k] \in head .. tail - 1
             /\ x[k] - head + 1 \in Places(Window, outage)
             /\ Window[x[k] - head + 1] = entries[x[k]]
  <2>1. x[k] \in { i \in head .. tail - 1 : entries[i].outage_id = outage }
    BY <1>1
  <2>2. x[k] - head + 1 \in 1 .. tail - head /\ head + (x[k] - head + 1) - 1 = x[k]
    BY <1>2, <2>1
  <2>3. Window[x[k] - head + 1] = entries[x[k]]
    BY <1>2, <2>2
  <2> QED BY <1>2, <2>1, <2>2, <2>3 DEF Places
<1>4. ASSUME NEW p \in Places(Window, outage)
      PROVE  \E k \in 1 .. Len(x) : x[k] = head + p - 1
  <2>1. p \in 1 .. tail - head /\ Window[p].outage_id = outage
    BY <1>2 DEF Places
  <2>2. head + p - 1 \in head .. tail - 1 /\ entries[head + p - 1].outage_id = outage
    BY <1>2, <2>1
  <2>3. head + p - 1 \in { x[k] : k \in 1 .. Len(x) }
    BY <1>1, <2>2
  <2> QED BY <2>3
<1> QED BY <1>1, <1>3, <1>4 DEF x

LEMMA IndexCountsPlaces ==
  ASSUME Store!StoreInv, NEW outage \in OutageIds
  PROVE  Cardinality(Places(Window, outage)) = Len(outageIndex[outage])
<1> DEFINE x == outageIndex[outage]
           f == [k \in 1 .. Len(x) |-> x[k] - head + 1]
<1>1. /\ x \in Seq(Nat) /\ Len(x) \in Nat
      /\ \A k \in 1 .. Len(x) : x[k] \in head .. tail - 1 /\ x[k] - head + 1 \in Places(Window, outage)
      /\ \A k, l \in 1 .. Len(x) : k < l => x[k] < x[l]
      /\ \A p \in Places(Window, outage) : \E k \in 1 .. Len(x) : x[k] = head + p - 1
  BY IndexListsPlaces
<1>2. head \in Nat /\ tail \in Nat
  BY WindowIs
<1> HIDE DEF x
<1>3. f \in [1 .. Len(x) -> Places(Window, outage)]
  BY <1>1
<1>4. \A k, l \in 1 .. Len(x) : f[k] = f[l] => k = l
  <2> SUFFICES ASSUME NEW k \in 1 .. Len(x), NEW l \in 1 .. Len(x), f[k] = f[l]
               PROVE  k = l
    OBVIOUS
  <2>0. PICK a \in Nat, b \in Nat, h \in Nat : a = x[k] /\ b = x[l] /\ h = head
    BY <1>1, <1>2
  <2>1. a - h + 1 = b - h + 1
    BY <2>0
  <2>2. x[k] = x[l] /\ x[k] \in Nat
    BY <2>0, <2>1, SMTT(30)
  <2>3. k < l \/ l < k \/ k = l
    BY <1>1
  <2> QED BY <1>1, <2>2, <2>3
<1>5. \A p \in Places(Window, outage) : \E k \in 1 .. Len(x) : f[k] = p
  <2> TAKE p \in Places(Window, outage)
  <2>1. PICK k \in 1 .. Len(x) : x[k] = head + p - 1
    BY <1>1
  <2>2. p \in Nat
    BY DEF Places
  <2>3. f[k] = p
    BY <1>2, <2>1, <2>2
  <2> QED BY <2>3
<1> HIDE DEF f
<1>6. f \in Bijection(1 .. Len(x), Places(Window, outage))
  BY <1>3, <1>4, <1>5 DEF Bijection, Injection, Surjection, IsInjective
<1>7. ExistsBijection(1 .. Len(x), Places(Window, outage))
  BY <1>6 DEF ExistsBijection
<1> QED BY <1>1, <1>7, FS_CountingElements DEF x

\* What calculate_sla decides by is the newest decision on the outage that is
\* retained, when one is.
LEMMA LatestTells ==
  ASSUME Store!StoreInv, NEW outage \in OutageIds
  PROVE  /\ Store!LatestForOutage(outage) = NoResult => outageIndex[outage] = << >>
         /\ \A k \in 1 .. Len(Window) :
              /\ Window[k].outage_id = outage
              /\ \A q \in k + 1 .. Len(Window) : Window[q].outage_id # outage
              => Window[k] = Store!LatestForOutage(outage)
<1> DEFINE x == outageIndex[outage]
<1>1. /\ x \in Seq(Nat) /\ Len(x) \in Nat
      /\ \A k \in 1 .. Len(x) :
           /\ x[k] \in head .. tail - 1
           /\ x[k] - head + 1 \in Places(Window, outage)
           /\ Window[x[k] - head + 1] = entries[x[k]]
      /\ \A k, l \in 1 .. Len(x) : k < l => x[k] < x[l]
      /\ \A p \in Places(Window, outage) : \E k \in 1 .. Len(x) : x[k] = head + p - 1
  BY IndexListsPlaces
<1>2. head \in Nat /\ tail \in Nat /\ Len(Window) = tail - head /\ head <= tail
  BY WindowIs
<1>3. DOMAIN entries = head .. tail - 1 /\ \A i \in DOMAIN entries : entries[i] \in Results
  BY DEF Store!StoreInv, Store!NoOrphanEntries, Store!StoreTypeOK
<1>4. Store!LatestForOutage(outage) =
        IF x # << >> /\ x[Len(x)] \in DOMAIN entries THEN entries[x[Len(x)]] ELSE NoResult
  BY DEF Store!LatestForOutage, Store!LastOf
<1> HIDE DEF x
<1>5. CASE x = << >>
  <2>1. Len(x) = 0
    BY <1>5
  <2>2. Places(Window, outage) = {}
    BY <1>1, <2>1
  <2>3. \A k \in 1 .. Len(Window) : Window[k].outage_id # outage
    BY <2>2 DEF Places
  <2> QED BY <1>5, <2>3 DEF x
<1>6. CASE x # << >>
  <2>1. Len(x) \in 1 .. Len(x)
    <3>1. Len(x) # 0
      BY <1>1, <1>6
    <3> QED BY <1>1, <3>1
  <2>2. PICK z \in Nat : z = x[Len(x)]
    BY <1>1, <2>1
  <2>3. /\ z \in head .. tail - 1 /\ z - head + 1 \in Places(Window, outage)
        /\ Window[z - head + 1] = entries[z]
    BY <1>1, <2>1, <2>2
  <2>4. Store!LatestForOutage(outage) = entries[z] /\ entries[z] \in Results
    BY <1>3, <1>4, <1>6, <2>2, <2>3
  <2>5. Store!LatestForOutage(outage) # NoResult
    BY <2>4, CalculatorAssumption
  <2>6. ASSUME NEW k \in 1 .. Len(Window), Window[k].outage_id = outage,
               \A q \in k + 1 .. Len(Window) : Window[q].outage_id # outage
        PROVE  Window[k] = entries[z]
    <3>1. k \in Places(Window, outage)
      BY <2>6 DEF Places
    <3>2. PICK l \in 1 .. Len(x) : x[l] = head + k - 1
      BY <1>1, <3>1
    <3>3. l < Len(x) \/ l = Len(x)
      BY <1>1
    <3>4. CASE l = Len(x)
      <4>1. z - head + 1 = k
        BY <1>2, <2>2, <3>2, <3>4
      <4> QED BY <2>3, <4>1
    <3>5. CASE l < Len(x)
      <4>1. x[l] < z
        BY <1>1, <2>1, <2>2, <3>5
      <4>2. z - head + 1 \in k + 1 .. Len(Window)
        BY <1>2, <2>3, <3>2, <4>1
      <4>3. Window[z - head + 1].outage_id = outage
        BY <2>3 DEF Places
      <4> QED BY <2>6, <4>2, <4>3
    <3> QED BY <3>3, <3>4, <3>5
  <2> QED BY <2>4, <2>5, <2>6
<1> QED BY <1>5, <1>6

-----------------------------------------------------------------------------
(* The invariant *)

Inv ==
  /\ Known
  /\ Store!Inv
  /\ AllPriced(Window)
  /\ Alternates(Window)
  /\ Capped(Window)

LEMMA CanonicalNames == Canonical = {"critical", "high", "medium", "low"}
<1>1. Len(CanonicalSeverities) = 4
  BY DEF CanonicalSeverities
<1>2. Elements(CanonicalSeverities) = { CanonicalSeverities[i] : i \in {1, 2, 3, 4} }
  <2>1. 1 .. 4 = {1, 2, 3, 4}
    OBVIOUS
  <2> QED BY <1>1, <2>1 DEF Elements
<1>3. /\ CanonicalSeverities[1] = "critical" /\ CanonicalSeverities[2] = "high"
      /\ CanonicalSeverities[3] = "medium" /\ CanonicalSeverities[4] = "low"
  BY DEF CanonicalSeverities
<1> QED BY <1>2, <1>3 DEF Canonical

LEMMA DefaultsKnown == DefaultConfig \in [Canonical -> Configurations]
<1>1. DefaultConfig = [s \in {"critical", "high", "medium", "low"} |-> DefaultConfig[s]]
  BY DEF DefaultConfig
<1>2. \A s \in Canonical : DefaultConfig[s] \in Configurations
  BY DEF Configurations
<1> QED BY <1>1, <1>2, CanonicalNames

LEMMA InvInit == Init => Inv
<1> SUFFICES ASSUME Init PROVE Inv
  OBVIOUS
<1>1. Known
  <2>1. config = DefaultConfig /\ DOMAIN custom = {} /\ now = 1
    BY DEF Init, ConfigInit, NoCustom
  <2>2. \A s \in Canonical : 0 < DefaultConfig[s].threshold
    BY CanonicalNames DEF DefaultConfig
  <2> QED BY <2>1, <2>2, DefaultsKnown, MaxLedgerAssumption DEF Known, LoadConfig
<1>2. /\ Store!HistoryInit /\ retentionLimit = MAX_HISTORY_SIZE /\ recorded = << >> /\ now = 1
  BY DEF Init, History!HistoryInit, Store!HistoryInit
<1> USE <1>2, CalculatorAssumption DEF Store!HistoryInit
<1>3. DOMAIN entries = {} /\ head .. tail - 1 = {}
  OBVIOUS
<1>4. Store!StoreTypeOK
  BY <1>3 DEF Store!StoreTypeOK
<1>5. Store!NoOrphanEntries /\ Store!CachedLengthWithinLimit
  BY <1>3 DEF Store!NoOrphanEntries, Store!CachedLengthWithinLimit
<1>6. \A outage \in OutageIds : Len(outageIndex[outage]) = 0
  OBVIOUS
<1>7. Store!IndexExact /\ Store!Chronological
  BY <1>3, <1>6 DEF Store!IndexExact, Store!Chronological, Store!StrictlyIncreasing, Store!Elements
<1>8. Store!Inv
  BY <1>4, <1>5, <1>7 DEF Store!Inv, Store!StoreInv
<1>9. Len(Window) = 0
  BY <1>8, WindowIs DEF Store!Inv
<1>10. AllPriced(Window) /\ Alternates(Window)
  BY <1>9 DEF AllPriced, Alternates
<1>11. \A outage : Places(Window, outage) = {}
  BY <1>9 DEF Places
<1>12. Capped(Window)
  <2>1. Cardinality({}) = 0 /\ 0 <= MAX_RECALCS_PER_OUTAGE
    BY FS_EmptySet, CalculatorAssumption
  <2> QED BY <1>11, <2>1, Zenon DEF Capped
<1> QED BY <1>1, <1>8, <1>10, <1>12 DEF Inv

\* What any configuration is held to, a custom severity's included.
InBounds(c) ==
  /\ 0 < c.threshold /\ c.threshold <= 1440
  /\ 0 < c.penalty /\ c.penalty <= 10000
  /\ 0 < c.reward /\ c.reward <= 100000

\* What is granted has passed the general bounds.
LEMMA BoundsChecked ==
  ASSUME NEW c, ValidateGeneralBounds(c) = Ok
  PROVE  InBounds(c)
<1> DEFINE p == Require(0 < c.penalty /\ c.penalty <= 10000, "InvalidPenalty")
           w == Require(0 < c.reward /\ c.reward <= 100000, "InvalidReward")
           t == Require(0 < c.threshold /\ c.threshold <= 1440, "InvalidThreshold")
<1>1. (t ?? p ?? w) = Ok
  BY DEF ValidateGeneralBounds
<1> HIDE DEF p, w, t
<1>2. (t ?? p) = Ok /\ w = Ok
  BY <1>1, ChainOk, Zenon
<1>3. t = Ok /\ p = Ok
  BY <1>2, ChainOk, Zenon
<1>4. 0 < c.threshold /\ c.threshold <= 1440
  BY <1>3 DEF t, Require, Ok
<1>5. 0 < c.penalty /\ c.penalty <= 10000
  BY <1>3 DEF p, Require, Ok
<1>6. 0 < c.reward /\ c.reward <= 100000
  BY <1>2 DEF w, Require, Ok
<1> QED BY <1>4, <1>5, <1>6 DEF InBounds

LEMMA ValidatedIsBounded ==
  ASSUME NEW severity, NEW c, ValidateConfig(severity, c) = Ok
  PROVE  InBounds(c)
<1> DEFINE known == Require(severity \in Canonical, "InvalidSeverity")
           bounds == ValidateGeneralBounds(c)
           t == Require(c.threshold <= MaxThreshold[severity], "InvalidThreshold")
           p == Require(MinPenalty[severity] <= c.penalty /\ c.penalty <= MaxPenalty[severity], "InvalidPenalty")
           w == Require(c.penalty * 3 < c.reward * 2, "InvalidReward")
<1>1. (known ?? bounds ?? t ?? p ?? w) = Ok
  BY DEF ValidateConfig
<1> HIDE DEF known, bounds, t, p, w
<1>2. (known ?? bounds ?? t ?? p) = Ok
  BY <1>1, ChainOk, Zenon
<1>3. (known ?? bounds ?? t) = Ok
  BY <1>2, ChainOk, Zenon
<1>4. (known ?? bounds) = Ok
  BY <1>3, ChainOk, Zenon
<1>5. bounds = Ok
  BY <1>4, ChainOk
<1> QED BY <1>5, BoundsChecked DEF bounds

LEMMA AcceptedIsBounded ==
  ASSUME NEW caller, NEW severity, NEW c, (AdminGate(caller) ?? AcceptsConfig(severity, c)) = Ok
  PROVE  InBounds(c)
<1>1. AcceptsConfig(severity, c) = Ok
  BY ChainOk, Zenon
<1>2. (ValidateConfig(severity, c) ?? ValidatePenaltyOrdering(severity, c)) = Ok
  BY <1>1, ChainOk, Zenon DEF AcceptsConfig
<1>3. ValidateConfig(severity, c) = Ok
  BY <1>2, ChainOk, Zenon
<1> QED BY <1>3, ValidatedIsBounded

LEMMA CustomIsBounded ==
  ASSUME NEW caller, NEW severity, NEW c,
         (AdminGate(caller) ?? Require(severity \notin Canonical, "InvalidSeverity") ?? ValidateGeneralBounds(c)) = Ok
  PROVE  InBounds(c)
<1>1. ValidateGeneralBounds(c) = Ok
  BY ChainOk, Zenon
<1> QED BY <1>1, BoundsChecked

\* No call takes a configuration outside what an admin can submit.
LEMMA KnownKept ==
  ASSUME Known, Next
  PROVE  Known'
<1>1. CASE UNCHANGED << config, custom, now >>
  BY <1>1 DEF Known, Configurations, LoadConfig
<1>2. ASSUME NEW caller, NEW severity, NEW c \in ConfigInputs, Configure(caller, severity, c)
      PROVE  Known'
  <2>1. now' = now
    BY <1>2 DEF Configure, SetConfig, SetCustomSeverity, Answer
  <2>2. c \in Configurations
    BY DEF Configurations
  <2>3. CASE UNCHANGED configVars
    BY <1>1, <2>1, <2>3 DEF configVars
  <2>4. CASE StoreConfig(severity, c) /\ severity \in Canonical /\ 0 < c.threshold
    BY <2>1, <2>2, <2>4 DEF Known, StoreConfig, LoadConfig
  <2>5. CASE StoreCustomSeverity(severity, c) /\ 0 < c.threshold
    BY <2>1, <2>2, <2>5 DEF Known, StoreCustomSeverity, With, LoadConfig
  <2>6. \/ UNCHANGED configVars
        \/ Granted /\ severity \in Canonical /\ SetConfig(caller, severity, c) /\ StoreConfig(severity, c)
        \/ Granted /\ SetCustomSeverity(caller, severity, c) /\ StoreCustomSeverity(severity, c)
    BY <1>2, Zenon DEF Configure, SetConfig, SetCustomSeverity, ConfigRefused
  <2>7. ASSUME Granted, SetConfig(caller, severity, c)
        PROVE  0 < c.threshold
    <3>1. reply'.status = (AdminGate(caller) ?? AcceptsConfig(severity, c))
      BY <2>7 DEF SetConfig, Answer
    <3>2. (AdminGate(caller) ?? AcceptsConfig(severity, c)) = Ok
      BY <2>7, <3>1 DEF Granted
    <3> QED BY <3>2, AcceptedIsBounded DEF InBounds
  <2>8. ASSUME Granted, SetCustomSeverity(caller, severity, c)
        PROVE  0 < c.threshold
    <3>1. reply'.status = (AdminGate(caller) ?? Require(severity \notin Canonical, "InvalidSeverity")
                             ?? ValidateGeneralBounds(c))
      BY <2>8 DEF SetCustomSeverity, Answer
    <3>2. (AdminGate(caller) ?? Require(severity \notin Canonical, "InvalidSeverity")
             ?? ValidateGeneralBounds(c)) = Ok
      BY <2>8, <3>1 DEF Granted
    <3> QED BY <3>2, CustomIsBounded DEF InBounds
  <2> QED BY <2>3, <2>4, <2>5, <2>6, <2>7, <2>8
<1>3. ASSUME NEW caller, NEW severity, Unregister(caller, severity)
      PROVE  Known'
  <2>1. now' = now
    BY <1>3 DEF Unregister, RemoveCustomSeverity, Answer
  <2>2. CASE UNCHANGED configVars
    BY <1>1, <2>1, <2>2 DEF configVars
  <2>3. CASE DropCustomSeverity(severity)
    BY <2>1, <2>3 DEF Known, DropCustomSeverity, LoadConfig
  <2>4. UNCHANGED configVars \/ DropCustomSeverity(severity)
    BY <1>3, Zenon DEF Unregister, RemoveCustomSeverity, ConfigRefused
  <2> QED BY <2>2, <2>3, <2>4
<1>4. ASSUME NewLedger
      PROVE  Known'
  BY <1>4, MaxLedgerAssumption DEF Known, NewLedger, CloseLedger, configVars, LoadConfig
<1>5. ASSUME NEW caller, NEW outage, NEW severity, NEW mttr, CalculateSla(caller, outage, severity, mttr)
      PROVE  UNCHANGED << config, custom, now >>
  BY <1>5 DEF CalculateSla, Answer, configVars
<1>6. ASSUME NEW caller, NEW n,
             PruneHistory(caller, n) \/ PruneHistoryByAge(caller, n) \/ SetRetentionLimit(caller, n)
      PROVE  UNCHANGED << config, custom, now >>
  BY <1>6 DEF PruneHistory, PruneHistoryByAge, SetRetentionLimit, Answer, KeepingRest, configVars
<1>7. ASSUME NEW caller, NEW fits, Pause(caller, fits) \/ Unpause(caller)
      PROVE  UNCHANGED << config, custom, now >>
  BY <1>7 DEF Pause, Unpause, Answer, configVars
<1> QED BY <1>1, <1>2, <1>3, <1>4, <1>5, <1>6, <1>7, Zenon DEF Next

\* Whatever a severity is configured to, an amount is an integer.
LEMMA AmountIsInt ==
  ASSUME NEW c \in Configurations, NEW mttr \in Mttrs
  PROVE  c.threshold \in Nat /\ c.penalty \in Int /\ c.reward \in Int /\ Amount(mttr, c) \in Int
<1>1. c.threshold \in Nat /\ c.penalty \in Int /\ c.reward \in Int
  <2>1. CASE c \in ConfigInputs
    BY <2>1, ConfigAssumption
  <2>2. CASE c \in { DefaultConfig[s] : s \in Canonical }
    <3>1. PICK s \in Canonical : c = DefaultConfig[s]
      BY <2>2
    <3>2. s \in {"critical", "high", "medium", "low"}
      BY CanonicalNames
    <3> QED BY <3>1, <3>2 DEF DefaultConfig
  <2> QED BY <2>1, <2>2 DEF Configurations
<1>2. PICK t \in Nat, p \in Int, w \in Int : t = c.threshold /\ p = c.penalty /\ w = c.reward
  BY <1>1
<1>3. mttr \in Nat
  BY CalculatorAssumption
<1>4. PICK m \in Nat : m = Multiplier(mttr, c.threshold)
  BY DEF Multiplier
<1>5. PICK d \in Int : d = w * m
  OBVIOUS
<1>6. -((mttr - t) * p) \in Int /\ d \div 100 \in Int
  BY <1>3
<1>7. Amount(mttr, c) = IF mttr > t THEN -((mttr - t) * p) ELSE d \div 100
  BY <1>2, <1>4, <1>5 DEF Amount
<1> QED BY <1>1, <1>6, <1>7

\* The amount checks of calculate_sla.
LEMMA AmountsSigned ==
  ASSUME NEW c \in Configurations, NEW mttr \in Mttrs, NEW outage, NEW hash, NEW at,
         NEW r, r = ComputeResult(outage, mttr, c, hash, at), RequireAmount(r) = Ok
  PROVE  Signed(r)
<1>1. r.amount \in Int /\ r.met \in BOOLEAN
  BY AmountIsInt DEF ComputeResult
<1>2. IF r.met THEN r.amount > 0 ELSE r.amount < 0
  BY <1>1 DEF RequireAmount, Require, Ok
<1> QED BY <1>1, <1>2 DEF Signed

\* A decision that is stored is one a configuration gives.
LEMMA SettledIsPriced ==
  ASSUME Known, NEW outage \in OutageIds, NEW mttr \in Mttrs, NEW severity, NEW r,
         Settled(outage, severity, mttr, r)
  PROVE  r \in Results /\ Priced(r) /\ r.outage_id = outage /\ recorded' = Append(recorded, r)
<1>1. LoadConfig(severity) \in Configurations
  BY DEF Known, Settled, LoadConfig
<1>2. PICK c \in Configurations : c = LoadConfig(severity)
  BY <1>1
<1>3. r = ComputeResult(outage, mttr, c, ConfigHash(<< c >>), now) /\ now \in 1 .. MaxLedger
  BY <1>2 DEF Settled, Known
<1>4. r \in Results
  BY <1>3, DecisionAssumption
<1>5. r.outage_id = outage /\ r.mttr_minutes = mttr /\ r.recorded_at = now
  BY <1>3 DEF ComputeResult
<1>6. Priced(r)
  <2>1. Signed(r)
    BY <1>3, AmountsSigned DEF Settled
  <2> QED BY <1>3, <1>5, <2>1, Zenon DEF Priced
<1>7. recorded' = Append(recorded, r)
  BY DEF Settled, Store!Record
<1> QED BY <1>4, <1>5, <1>6, <1>7

\* A decision that is stored is a new generation of its outage, within its cap.
LEMMA SettledIsNew ==
  ASSUME Inv, NEW outage \in OutageIds, NEW mttr \in Mttrs, NEW severity, NEW r,
         Settled(outage, severity, mttr, r)
  PROVE  /\ r \in Results /\ Priced(r) /\ recorded' = Append(recorded, r)
         /\ NewGeneration(Window, r)
         /\ Cardinality(Places(Window, r.outage_id)) < MAX_RECALCS_PER_OUTAGE
<1>4. r \in Results /\ Priced(r) /\ r.outage_id = outage /\ recorded' = Append(recorded, r)
  BY SettledIsPriced DEF Inv
<1>8. Store!StoreInv
  BY DEF Inv, Store!Inv
<1>9. NewGeneration(Window, r)
  <2> SUFFICES ASSUME NEW k \in 1 .. Len(Window), Window[k].outage_id = outage,
                      \A q \in k + 1 .. Len(Window) : Window[q].outage_id # outage
               PROVE  Window[k].config_version_hash # r.config_version_hash
    BY <1>4, Zenon DEF NewGeneration
  <2>1. Window[k] = Store!LatestForOutage(outage)
    BY <1>8, LatestTells
  <2>2. Window[k] \in Results
    BY <1>8, WindowIs
  <2>3. Store!LatestForOutage(outage) # NoResult
    BY <2>1, <2>2, CalculatorAssumption
  <2> QED BY <2>1, <2>3 DEF Settled
<1>10. Cardinality(Places(Window, outage)) < MAX_RECALCS_PER_OUTAGE
  <2>1. Cardinality(Places(Window, outage)) = Len(outageIndex[outage])
    BY <1>8, IndexCountsPlaces
  <2>2. CASE Store!LatestForOutage(outage) = NoResult
    <3>1. outageIndex[outage] = << >>
      BY <1>8, <2>2, LatestTells
    <3> QED BY <2>1, <3>1, CalculatorAssumption
  <2> QED BY <2>1, <2>2 DEF Settled
<1> QED BY <1>4, <1>9, <1>10

\* Every call is one of the history's, or leaves it alone.
LEMMA StoreStep ==
  ASSUME Known, [Next]_vars
  PROVE  [Store!Next]_(Store!vars)
<1>1. CASE UNCHANGED vars
  BY <1>1 DEF vars, settledVars, historyVars, Store!vars, Store!storeVars, Store!historyVars
<1>2. ASSUME NEW outage \in OutageIds, NEW mttr \in Mttrs, NEW severity, NEW r,
             Settled(outage, severity, mttr, r)
      PROVE  Store!Next
  <2>1. r \in Results
    BY <1>2, SettledIsPriced
  <2>2. Store!Record(r)
    BY <1>2 DEF Settled
  <2> QED BY <2>1, <2>2 DEF Store!Next
<1>3. CASE Dropped
  BY <1>3, Zenon DEF Dropped, Store!Next
<1>4. CASE Next
  BY <1>2, <1>3, <1>4, StepKinds, Zenon
<1> QED BY <1>1, <1>4

LEMMA InvKept == Inv /\ [Next]_vars => Inv'
<1> SUFFICES ASSUME Inv, [Next]_vars PROVE Inv'
  OBVIOUS
<1>1. Known'
  <2>1. CASE UNCHANGED vars
    BY <2>1 DEF Inv, Known, Configurations, vars, configVars, LoadConfig
  <2> QED BY <2>1, KnownKept DEF Inv
<1>2. [Store!Next]_(Store!vars)
  BY StoreStep DEF Inv
<1>3. Store!Inv'
  BY <1>2, StoreAssumptions, Store!InvInductive, Zenon DEF Inv
<1>4. Store!StoreInv /\ Store!StoreInv'
  BY <1>3 DEF Inv, Store!Inv
<1>5. Moves
  BY <1>2, <1>4, WindowMoves
<1>6. Window \in Seq(Results) /\ AllPriced(Window) /\ Alternates(Window) /\ Capped(Window)
  BY <1>4, WindowIs DEF Inv
<1>7. CASE UNCHANGED recorded /\ Ends(Window', Window)
  <2>1. AllPriced(Window') /\ Alternates(Window') /\ Capped(Window')
    BY <1>6, <1>7, PricedEnd, AlternatesEnd, CappedEnd
  <2> QED BY <1>1, <1>3, <2>1 DEF Inv, AllPriced, Alternates, Capped
<1>8. ASSUME NEW r \in Results, recorded' = Append(recorded, r), Ends(Window', Append(Window, r))
      PROVE  Inv'
  <2>1. recorded \in Seq(Results) /\ recorded' # recorded
    <3>1. recorded \in Seq(Results)
      BY DEF Inv, Store!Inv
    <3>2. Len(Append(recorded, r)) = Len(recorded) + 1 /\ Len(recorded) \in Nat
      BY <3>1
    <3> QED BY <1>8, <3>1, <3>2
  <2>2. PICK outage \in OutageIds, mttr \in Mttrs : \E severity, s : Settled(outage, severity, mttr, s)
    <3>1. recorded' # recorded => ~UNCHANGED vars
      BY DEF vars, settledVars, historyVars
    <3>2. recorded' # recorded => ~Dropped /\ ~UNCHANGED Store!vars
      BY DEF Dropped, Store!PruneHistory, Store!PruneHistoryByAge, Store!SetRetentionLimit, Store!NewLedger,
             Store!vars, Store!storeVars
    <3> QED BY <2>1, <3>1, <3>2, StepKinds, Zenon
  <2>3. PICK severity, s : Settled(outage, severity, mttr, s)
    BY <2>2
  <2>4. /\ s \in Results /\ Priced(s) /\ recorded' = Append(recorded, s)
        /\ NewGeneration(Window, s) /\ Cardinality(Places(Window, s.outage_id)) < MAX_RECALCS_PER_OUTAGE
    BY <2>3, SettledIsNew, Zenon
  <2>5. s = r
    <3>1. Append(recorded, r)[Len(recorded) + 1] = r /\ Append(recorded, s)[Len(recorded) + 1] = s
      BY <1>8, <2>1, <2>4, Appended
    <3>2. Append(recorded, r) = Append(recorded, s)
      BY <1>8, <2>4
    <3> QED BY <3>1, <3>2, Zenon
  <2>6. AllPriced(Append(Window, r)) /\ Alternates(Append(Window, r)) /\ Capped(Append(Window, r))
    BY <1>6, <2>4, <2>5, PricedAppend, AlternatesAppend, CappedAppend
  <2>7. AllPriced(Window') /\ Alternates(Window') /\ Capped(Window')
    BY <1>8, <2>6, PricedEnd, AlternatesEnd, CappedEnd
  <2> QED BY <1>1, <1>3, <2>7 DEF Inv, AllPriced, Alternates, Capped
<1> QED BY <1>5, <1>7, <1>8 DEF Moves

LEMMA InvAlways == Spec => []Inv
BY InvInit, InvKept, PTL DEF Spec

-----------------------------------------------------------------------------
(* What the decisions keep *)

LEMMA InvAlternates == Inv => GenerationsAlternate
<1> SUFFICES ASSUME Inv, NEW outage \in OutageIds
             PROVE  /\ Len(outageIndex[outage]) <= MAX_RECALCS_PER_OUTAGE
                    /\ \A k \in 1 .. Len(outageIndex[outage]) - 1 :
                         entries[outageIndex[outage][k]].config_version_hash
                           # entries[outageIndex[outage][k + 1]].config_version_hash
  BY DEF GenerationsAlternate
<1>1. Store!StoreInv
  BY DEF Inv, Store!Inv
<1>2. Len(outageIndex[outage]) <= MAX_RECALCS_PER_OUTAGE
  BY <1>1, IndexCountsPlaces DEF Inv, Capped
<1> DEFINE x == outageIndex[outage]
<1>3. /\ x \in Seq(Nat) /\ Len(x) \in Nat
      /\ \A k \in 1 .. Len(x) :
           /\ x[k] \in head .. tail - 1
           /\ x[k] - head + 1 \in Places(Window, outage)
           /\ Window[x[k] - head + 1] = entries[x[k]]
      /\ \A k, l \in 1 .. Len(x) : k < l => x[k] < x[l]
      /\ \A p \in Places(Window, outage) : \E k \in 1 .. Len(x) : x[k] = head + p - 1
  BY <1>1, IndexListsPlaces
<1>4. head \in Nat /\ tail \in Nat /\ Len(Window) = tail - head
  BY <1>1, WindowIs
<1> HIDE DEF x
<1>5. ASSUME NEW k \in 1 .. Len(x) - 1
      PROVE  entries[x[k]].config_version_hash # entries[x[k + 1]].config_version_hash
  <2>1. PICK l \in 1 .. Len(x) : l = k + 1
    BY <1>3
  <2>2. k \in 1 .. Len(x)
    BY <1>3
  <2>3. PICK u \in Nat, v \in Nat, h \in Nat : u = x[k] /\ v = x[l] /\ h = head
    BY <1>3, <1>4, <2>2, SMTT(30)
  <2>4. u \in h .. tail - 1 /\ v \in h .. tail - 1 /\ u < v
    <3>1. x[k] \in head .. tail - 1 /\ x[l] \in head .. tail - 1
      BY <1>3, <2>2
    <3>2. k < l
      BY <2>1
    <3>3. x[k] < x[l]
      BY <1>3, <2>2, <3>2
    <3> QED BY <2>3, <3>1, <3>3
  <2>5. PICK a \in Nat, b \in Nat : a = u - h + 1 /\ b = v - h + 1
    BY <1>4, <2>4
  <2>6. /\ a \in Places(Window, outage) /\ b \in Places(Window, outage)
        /\ Window[a] = entries[x[k]] /\ Window[b] = entries[x[l]]
    BY <1>3, <2>2, <2>3, <2>5
  <2>7. a < b
    BY <2>4, <2>5
  <2>8. ASSUME NEW p \in a + 1 .. b - 1
        PROVE  Window[p].outage_id # outage
    <3> SUFFICES ASSUME Window[p].outage_id = outage
                 PROVE  FALSE
      OBVIOUS
    <3>1. p \in Places(Window, outage)
      BY <1>4, <2>6 DEF Places
    <3>2. PICK m \in 1 .. Len(x) : x[m] = head + p - 1
      BY <1>3, <3>1
    <3>3. PICK y \in Nat : y = x[m]
      BY <1>3
    <3>4. u < y /\ y < v
      <4>1. y = h + p - 1
        BY <2>3, <3>2, <3>3
      <4> QED BY <2>5, <4>1
    <3>5. m < k \/ m = k \/ m = l \/ l < m
      BY <1>3, <2>1
    <3>6. m < k => y < u
      BY <1>3, <2>2, <2>3, <3>3
    <3>7. l < m => v < y
      BY <1>3, <2>3, <3>3
    <3> QED BY <2>3, <3>3, <3>4, <3>5, <3>6, <3>7
  <2>9. Neighbours(Window, a, b) /\ a \in 1 .. Len(Window) /\ b \in 1 .. Len(Window)
    <3>1. Window[a].outage_id = outage /\ Window[b].outage_id = outage
          /\ a \in 1 .. Len(Window) /\ b \in 1 .. Len(Window)
      BY <2>6 DEF Places
    <3> QED BY <2>7, <2>8, <3>1, Zenon DEF Neighbours
  <2>10. Window[a].config_version_hash # Window[b].config_version_hash
    BY <2>9, Zenon DEF Inv, Alternates
  <2> QED BY <2>1, <2>6, <2>10
<1> QED BY <1>2, <1>5 DEF x

(***************************************************************************)
(* One configuration generation settles an outage once, and an outage      *)
(* stays within its cap: calculate_sla compares with the newest retained   *)
(* decision and the length of the index only, and what trims and prunes    *)
(* leave never brings two decisions of one generation together.            *)
(***************************************************************************)
THEOREM GenerationsAlwaysAlternate == Spec => []GenerationsAlternate
BY InvAlways, InvAlternates, PTL

\* Two configurations never share their hash: what a verifier that looks a
\* configuration up by its hash relies on, and 64 bits cannot promise.
NoCollisions ==
  \A c, d \in Configurations : ConfigHash(<< c >>) = ConfigHash(<< d >>) => c = d

LEMMA InvReproducible == NoCollisions /\ Inv => StoredDecisionReproducible
<1> SUFFICES ASSUME NoCollisions, Inv, NEW i \in Retained, NEW severity \in Canonical \cup DOMAIN custom,
                    entries[i].config_version_hash = Generation(severity)
             PROVE  entries[i] = ComputeResult(entries[i].outage_id, entries[i].mttr_minutes,
                                   LoadConfig(severity), entries[i].config_version_hash,
                                   entries[i].recorded_at)
  BY DEF StoredDecisionReproducible
<1>1. /\ head \in Nat /\ tail \in Nat /\ Len(Window) = tail - head
      /\ \A k \in 1 .. tail - head : Window[k] = entries[head + k - 1]
  BY WindowIs DEF Inv, Store!Inv
<1>2. i - head + 1 \in 1 .. tail - head /\ head + (i - head + 1) - 1 = i
  BY <1>1 DEF Retained
<1>3. Window[i - head + 1] = entries[i]
  BY <1>1, <1>2
<1>4. Priced(entries[i])
  BY <1>1, <1>2, <1>3 DEF Inv, AllPriced
<1>5. PICK c \in Configurations :
        entries[i] = ComputeResult(entries[i].outage_id, entries[i].mttr_minutes, c, ConfigHash(<< c >>),
                                   entries[i].recorded_at)
  BY <1>4 DEF Priced
<1>6. entries[i].config_version_hash = ConfigHash(<< c >>)
  BY <1>5 DEF ComputeResult
<1>7. LoadConfig(severity) \in Configurations
  BY DEF Inv, Known, LoadConfig
<1>8. c = LoadConfig(severity)
  BY <1>6, <1>7 DEF Generation, SeverityConfigHash, NoCollisions
<1> QED BY <1>5, <1>6, <1>8

(***************************************************************************)
(* While hashes tell configurations apart, a retained decision under a     *)
(* tier's present hash is what that tier's present configuration gives:    *)
(* recomputing it finds the settled amount.                                *)
(***************************************************************************)
THEOREM DecisionsAlwaysReproducible ==
  ASSUME NoCollisions
  PROVE  Spec => []StoredDecisionReproducible
<1>1. Inv => StoredDecisionReproducible
  BY InvReproducible
<1> QED BY <1>1, InvAlways, PTL

-----------------------------------------------------------------------------
(* The cumulative statistics *)

\* What each event of a stream adds to the totals of a consumer.
ViolationsIn(s) == [k \in 1 .. Len(s) |-> IF s[k].met THEN 0 ELSE 1]
RewardsIn(s)    == [k \in 1 .. Len(s) |-> IF s[k].met THEN s[k].amount ELSE 0]
PenaltiesIn(s)  == [k \in 1 .. Len(s) |-> IF s[k].met THEN 0 ELSE -s[k].amount]

Counted == (\A k \in 1 .. Len(recorded) : Signed(recorded[k])) /\ StatsMatchStream

\* A decision that is not stored leaves no trace; a stored one is signed.
LEMMA SlaCounts ==
  ASSUME Known, NEW caller, NEW outage \in OutageIds, NEW severity, NEW mttr \in Mttrs,
         CalculateSla(caller, outage, severity, mttr)
  PROVE  /\ now' = now
         /\ (\E r \in Results : Settle(severity, r) /\ Signed(r)) \/ UNCHANGED settledVars
<1> DEFINE result == ComputeResult(outage, mttr, LoadConfig(severity), Generation(severity), now)
<1>1. now' = now /\ (UNCHANGED settledVars \/ (Granted /\ Settle(severity, result)))
  BY DEF CalculateSla, Answer, Replay
<1>2. CASE Granted /\ Settle(severity, result)
  <2>1. severity \in Canonical \cup DOMAIN custom /\ RequireAmount(result) = Ok
    BY <1>2, ChecksPassed
  <2>2. LoadConfig(severity) \in Configurations /\ now \in 1 .. MaxLedger
    BY <2>1 DEF Known, LoadConfig
  <2>3. result \in Results
    BY <2>2, DecisionAssumption DEF Generation, SeverityConfigHash
  <2>4. Signed(result)
    BY <2>1, <2>2, AmountsSigned
  <2> QED BY <1>1, <1>2, <2>3, <2>4
<1> QED BY <1>1, <1>2

\* Every step stores one decision and counts it everywhere, or counts nothing.
LEMMA StepCounts ==
  ASSUME Known, Next
  PROVE  \/ \E severity : \E r \in Results : Settle(severity, r) /\ Signed(r)
         \/ UNCHANGED << telemetryVars, stats, recorded >> /\ (now' = now \/ CloseLedger)
<1> DEFINE Quiet == UNCHANGED << telemetryVars, stats, recorded >> /\ (now' = now \/ CloseLedger)
<1>1. ASSUME NEW caller, NEW outage \in OutageIds, NEW severity, NEW mttr \in Mttrs,
             CalculateSla(caller, outage, severity, mttr)
      PROVE  (\E r \in Results : Settle(severity, r) /\ Signed(r)) \/ Quiet
  <2>1. now' = now /\ ((\E r \in Results : Settle(severity, r) /\ Signed(r)) \/ UNCHANGED settledVars)
    BY <1>1, SlaCounts
  <2> QED BY <2>1 DEF settledVars, historyVars
<1>2. ASSUME NEW caller, NEW severity, NEW c, Configure(caller, severity, c)
      PROVE  Quiet
  BY <1>2 DEF Configure, SetConfig, SetCustomSeverity, Answer, Configured, settledVars, historyVars
<1>3. ASSUME NEW caller, NEW severity, Unregister(caller, severity)
      PROVE  Quiet
  BY <1>3 DEF Unregister, RemoveCustomSeverity, Answer, Configured, settledVars, historyVars
<1>4. ASSUME NEW caller, NEW n, PruneHistory(caller, n) \/ PruneHistoryByAge(caller, n) \/ SetRetentionLimit(caller, n)
      PROVE  Quiet
  BY <1>4 DEF PruneHistory, PruneHistoryByAge, SetRetentionLimit, Answer, KeepingRest, historyVars,
              History!PruneHistory, History!PruneHistoryByAge, History!SetRetentionLimit
<1>5. ASSUME NEW caller, NEW fits, Pause(caller, fits) \/ Unpause(caller)
      PROVE  Quiet
  BY <1>5 DEF Pause, Unpause, Answer, settledVars, historyVars
<1>6. ASSUME NewLedger
      PROVE  Quiet
  BY <1>6 DEF NewLedger, settledVars, historyVars
<1> HIDE DEF Quiet
<1>7. (\E severity : \E r \in Results : Settle(severity, r) /\ Signed(r)) \/ Quiet
  BY <1>1, <1>2, <1>3, <1>4, <1>5, <1>6, Zenon DEF Next
<1> QED BY <1>7, Zenon DEF Quiet

\* A sum that saturates is the saturated sum.
LEMMA SaturatedSum ==
  ASSUME NEW a \in Nat, NEW x \in Nat, NEW bound \in Nat
  PROVE  Saturating(AtMost(a, bound), x, bound) = AtMost(a + x, bound)
BY DEF Saturating, AtMost

LEMMA ColumnGrows ==
  ASSUME NEW a, NEW b, NEW n \in Nat, NEW x \in Nat,
         Len(a) = n, Len(b) = n + 1, \A k \in 1 .. n : a[k] \in Nat /\ b[k] = a[k], b[n + 1] = x
  PROVE  SumUp(a) \in Nat /\ SumUp(b) = SumUp(a) + x
<1>1. SumUp(a) \in Nat
  BY SumOfNaturals
<1>2. SumUp(b) = SumUp(a) + b[Len(b)]
  BY SumGrows
<1> QED BY <1>1, <1>2

\* One decision more, in each of the three columns.
LEMMA ColumnsGrow ==
  ASSUME NEW s \in Seq(Results), NEW r \in Results, Signed(r), \A k \in 1 .. Len(s) : Signed(s[k]),
         NEW t, t = Append(s, r)
  PROVE  /\ SumUp(ViolationsIn(s)) \in Nat
         /\ SumUp(ViolationsIn(t)) = SumUp(ViolationsIn(s)) + (IF r.met THEN 0 ELSE 1)
         /\ SumUp(RewardsIn(s)) \in Nat
         /\ SumUp(RewardsIn(t)) = SumUp(RewardsIn(s)) + (IF r.met THEN r.amount ELSE 0)
         /\ SumUp(PenaltiesIn(s)) \in Nat
         /\ SumUp(PenaltiesIn(t)) = SumUp(PenaltiesIn(s)) + (IF r.met THEN 0 ELSE -r.amount)
<1>1. PICK n \in Nat : n = Len(s)
  OBVIOUS
<1>2. Len(t) = n + 1 /\ (\A k \in 1 .. n : t[k] = s[k]) /\ t[n + 1] = r
  BY <1>1, Appended
<1>3. \A k \in 1 .. n : Signed(s[k])
  BY <1>1
<1>4. /\ SumUp(ViolationsIn(s)) \in Nat
      /\ SumUp(ViolationsIn(t)) = SumUp(ViolationsIn(s)) + (IF r.met THEN 0 ELSE 1)
  <2>1. PICK a, b : a = ViolationsIn(s) /\ b = ViolationsIn(t)
    OBVIOUS
  <2>2. PICK x \in Nat : x = (IF r.met THEN 0 ELSE 1)
    BY DEF Signed
  <2>3. Len(a) = n /\ Len(b) = n + 1 /\ b[n + 1] = x
    BY <1>1, <1>2, <2>1, <2>2 DEF ViolationsIn
  <2>4. \A k \in 1 .. n : a[k] \in Nat /\ b[k] = a[k]
    BY <1>1, <1>2, <1>3, <2>1 DEF ViolationsIn, Signed
  <2>5. SumUp(a) \in Nat /\ SumUp(b) = SumUp(a) + x
    BY <2>3, <2>4, ColumnGrows, SMTT(30)
  <2> QED BY <2>1, <2>2, <2>5
<1>5. /\ SumUp(RewardsIn(s)) \in Nat
      /\ SumUp(RewardsIn(t)) = SumUp(RewardsIn(s)) + (IF r.met THEN r.amount ELSE 0)
  <2>1. PICK a, b : a = RewardsIn(s) /\ b = RewardsIn(t)
    OBVIOUS
  <2>2. PICK x \in Nat : x = (IF r.met THEN r.amount ELSE 0)
    BY DEF Signed
  <2>3. Len(a) = n /\ Len(b) = n + 1 /\ b[n + 1] = x
    BY <1>1, <1>2, <2>1, <2>2 DEF RewardsIn
  <2>4. \A k \in 1 .. n : a[k] \in Nat /\ b[k] = a[k]
    BY <1>1, <1>2, <1>3, <2>1 DEF RewardsIn, Signed
  <2>5. SumUp(a) \in Nat /\ SumUp(b) = SumUp(a) + x
    BY <2>3, <2>4, ColumnGrows, SMTT(30)
  <2> QED BY <2>1, <2>2, <2>5
<1>6. /\ SumUp(PenaltiesIn(s)) \in Nat
      /\ SumUp(PenaltiesIn(t)) = SumUp(PenaltiesIn(s)) + (IF r.met THEN 0 ELSE -r.amount)
  <2>1. PICK a, b : a = PenaltiesIn(s) /\ b = PenaltiesIn(t)
    OBVIOUS
  <2>2. PICK x \in Nat : x = (IF r.met THEN 0 ELSE -r.amount)
    BY DEF Signed
  <2>3. Len(a) = n /\ Len(b) = n + 1 /\ b[n + 1] = x
    BY <1>1, <1>2, <2>1, <2>2 DEF PenaltiesIn
  <2>4. \A k \in 1 .. n : a[k] \in Nat /\ b[k] = a[k]
    BY <1>1, <1>2, <1>3, <2>1 DEF PenaltiesIn, Signed
  <2>5. SumUp(a) \in Nat /\ SumUp(b) = SumUp(a) + x
    BY <2>3, <2>4, ColumnGrows, SMTT(30)
  <2> QED BY <2>1, <2>2, <2>5
<1> QED BY <1>4, <1>5, <1>6

\* StatsMatchStream, column by column.
LEMMA StatsAre ==
  StatsMatchStream <=>
    stats = [total_calculations |-> AtMost(Len(recorded), COUNTER_MAX),
             total_violations   |-> AtMost(SumUp(ViolationsIn(recorded)), COUNTER_MAX),
             total_rewards      |-> AtMost(SumUp(RewardsIn(recorded)), TOTAL_MAX),
             total_penalties    |-> AtMost(SumUp(PenaltiesIn(recorded)), TOTAL_MAX)]
BY DEF StatsMatchStream, SumOf, ViolationsIn, RewardsIn, PenaltiesIn

\* The same of the state a step leads to.
LEMMA StatsAreNext ==
  StatsMatchStream' <=>
    stats' = [total_calculations |-> AtMost(Len(recorded'), COUNTER_MAX),
              total_violations   |-> AtMost(SumUp(ViolationsIn(recorded')), COUNTER_MAX),
              total_rewards      |-> AtMost(SumUp(RewardsIn(recorded')), TOTAL_MAX),
              total_penalties    |-> AtMost(SumUp(PenaltiesIn(recorded')), TOTAL_MAX)]
BY DEF StatsMatchStream, SumOf, ViolationsIn, RewardsIn, PenaltiesIn

LEMMA CountedInit == Init => Counted
<1> SUFFICES ASSUME Init PROVE Counted
  OBVIOUS
<1>1. recorded = << >> /\ stats = ZeroStats
  BY DEF Init
<1>2. Len(recorded) = 0
  BY <1>1
<1>3. Len(ViolationsIn(recorded)) = 0 /\ Len(RewardsIn(recorded)) = 0 /\ Len(PenaltiesIn(recorded)) = 0
  BY <1>2 DEF ViolationsIn, RewardsIn, PenaltiesIn
<1>4. /\ SumUp(ViolationsIn(recorded)) = 0 /\ SumUp(RewardsIn(recorded)) = 0
      /\ SumUp(PenaltiesIn(recorded)) = 0
  BY <1>3, SumOfNone
<1>5. AtMost(0, COUNTER_MAX) = 0 /\ AtMost(0, TOTAL_MAX) = 0
  BY CalculatorAssumption DEF AtMost
<1>6. StatsMatchStream
  BY <1>1, <1>2, <1>4, <1>5, StatsAre DEF ZeroStats
<1>7. \A k \in 1 .. Len(recorded) : Signed(recorded[k])
  BY <1>2
<1> QED BY <1>6, <1>7 DEF Counted

LEMMA CountedKept == Inv /\ Counted /\ [Next]_vars => Counted'
<1> SUFFICES ASSUME Inv, Counted, [Next]_vars PROVE Counted'
  OBVIOUS
<1>1. CASE UNCHANGED << stats, recorded >>
  BY <1>1 DEF Counted, StatsMatchStream, SumOf
<1>2. CASE UNCHANGED vars
  BY <1>1, <1>2 DEF vars, settledVars, historyVars
<1>3. ASSUME NEW severity, NEW r \in Results, Settle(severity, r), Signed(r)
      PROVE  Counted'
  <2>1. recorded \in Seq(Results) /\ \A k \in 1 .. Len(recorded) : Signed(recorded[k])
    BY DEF Inv, Store!Inv, Counted
  <2>2. PICK t : t = Append(recorded, r) /\ recorded' = t
    BY <1>3 DEF Settle, History!Record
  <2>3. /\ Len(recorded) \in Nat /\ Len(t) = Len(recorded) + 1
        /\ (\A k \in 1 .. Len(recorded) : t[k] = recorded[k]) /\ t[Len(recorded) + 1] = r
    BY <2>1, <2>2, Appended
  <2>4. \A k \in 1 .. Len(t) : Signed(t[k])
    <3> TAKE k \in 1 .. Len(t)
    <3>1. k \in 1 .. Len(recorded) \/ k = Len(recorded) + 1
      BY <2>3
    <3> QED BY <1>3, <2>1, <2>3, <3>1
  <2>5. PICK n \in Nat, v \in Nat, w \in Nat, p \in Nat :
          /\ n = Len(recorded) /\ v = SumUp(ViolationsIn(recorded))
          /\ w = SumUp(RewardsIn(recorded)) /\ p = SumUp(PenaltiesIn(recorded))
    BY <1>3, <2>1, <2>2, <2>3, ColumnsGrow
  <2>6. PICK dv \in Nat, dw \in Nat, dp \in Nat :
          /\ dv = (IF r.met THEN 0 ELSE 1) /\ dw = (IF r.met THEN r.amount ELSE 0)
          /\ dp = (IF r.met THEN 0 ELSE -r.amount)
    BY <1>3 DEF Signed
  <2>7. /\ Len(t) = n + 1 /\ SumUp(ViolationsIn(t)) = v + dv
        /\ SumUp(RewardsIn(t)) = w + dw /\ SumUp(PenaltiesIn(t)) = p + dp
    BY <1>3, <2>1, <2>2, <2>3, <2>5, <2>6, ColumnsGrow
  <2>8. stats = [total_calculations |-> AtMost(n, COUNTER_MAX), total_violations |-> AtMost(v, COUNTER_MAX),
                 total_rewards |-> AtMost(w, TOTAL_MAX), total_penalties |-> AtMost(p, TOTAL_MAX)]
    BY <2>5, StatsAre DEF Counted
  <2>9. stats' = [total_calculations |-> Saturating(stats.total_calculations, 1, COUNTER_MAX),
                  total_violations |-> Saturating(stats.total_violations, dv, COUNTER_MAX),
                  total_rewards |-> Saturating(stats.total_rewards, dw, TOTAL_MAX),
                  total_penalties |-> Saturating(stats.total_penalties, dp, TOTAL_MAX)]
    BY <1>3, <2>6, Zenon DEF Settle, IncrementStats
  <2>10. /\ Saturating(AtMost(n, COUNTER_MAX), 1, COUNTER_MAX) = AtMost(n + 1, COUNTER_MAX)
         /\ Saturating(AtMost(v, COUNTER_MAX), dv, COUNTER_MAX) = AtMost(v + dv, COUNTER_MAX)
         /\ Saturating(AtMost(w, TOTAL_MAX), dw, TOTAL_MAX) = AtMost(w + dw, TOTAL_MAX)
         /\ Saturating(AtMost(p, TOTAL_MAX), dp, TOTAL_MAX) = AtMost(p + dp, TOTAL_MAX)
    <3>1. COUNTER_MAX \in Nat /\ TOTAL_MAX \in Nat
      BY CalculatorAssumption
    <3>2. Saturating(AtMost(n, COUNTER_MAX), 1, COUNTER_MAX) = AtMost(n + 1, COUNTER_MAX)
      BY <3>1, SaturatedSum
    <3>3. Saturating(AtMost(v, COUNTER_MAX), dv, COUNTER_MAX) = AtMost(v + dv, COUNTER_MAX)
      BY <3>1, SaturatedSum
    <3>4. Saturating(AtMost(w, TOTAL_MAX), dw, TOTAL_MAX) = AtMost(w + dw, TOTAL_MAX)
      BY <3>1, SaturatedSum
    <3>5. Saturating(AtMost(p, TOTAL_MAX), dp, TOTAL_MAX) = AtMost(p + dp, TOTAL_MAX)
      BY <3>1, SaturatedSum
    <3> QED BY <3>2, <3>3, <3>4, <3>5
  <2>11. stats' = [total_calculations |-> AtMost(n + 1, COUNTER_MAX), total_violations |-> AtMost(v + dv, COUNTER_MAX),
                   total_rewards |-> AtMost(w + dw, TOTAL_MAX), total_penalties |-> AtMost(p + dp, TOTAL_MAX)]
    BY <2>8, <2>9, <2>10
  <2>12. StatsMatchStream'
    BY <2>2, <2>7, <2>11, StatsAreNext
  <2> QED BY <2>2, <2>4, <2>12 DEF Counted
<1> QED BY <1>1, <1>2, <1>3, StepCounts DEF Inv

LEMMA CountedAlways == Spec => [](Inv /\ Counted)
<1>1. Init => Inv /\ Counted
  BY InvInit, CountedInit
<1>2. Inv /\ Counted /\ [Next]_vars => (Inv /\ Counted)'
  BY InvKept, CountedKept
<1> QED BY <1>1, <1>2, PTL DEF Spec

(***************************************************************************)
(* The statistics are what a consumer that adds up the sla_calc events     *)
(* gets, saturated: calculate_sla counts a decision exactly when it stores *)
(* it, and replays, refusals, trims and prunes touch neither.              *)
(***************************************************************************)
THEOREM StatsAlwaysMatchStream == Spec => []StatsMatchStream
BY CountedAlways, PTL DEF Counted

-----------------------------------------------------------------------------
(* The telemetry beside the statistics *)

\* The lanes are followed here, not the words they are packed in: zeros stand for
\* those, and nothing that is cited of Tele is about them.
Tele == INSTANCE TelemetryProofs WITH
          Canonical <- CanonicalSeverities, Percent <- 100,
          calcWord <- 0, violWord <- 0, lastCalcWord <- 0, lastViolWord <- 0, customWord <- 0

\* No lane counts more than the stream holds, nor do all of them together;
\* before a week is over, and before a counter can be full, nothing is missing.
Within ==
  /\ Tele!Inv
  /\ AllLanes(violations) <= SumUp(ViolationsIn(recorded))
  /\ AllLanes(calculations) <= Len(recorded)
  /\ now <= WEEK /\ Len(recorded) <= U32MAX => AllLanes(calculations) = Len(recorded)

LEMMA TelemetryAssumptions == Tele!TelemetryAssumption /\ Tele!MaxLedgerAssumption /\ Tele!PackingAssumption
<1>1. Tele!TelemetryAssumption /\ Tele!MaxLedgerAssumption
  BY CalculatorAssumption, MaxLedgerAssumption DEF Tele!TelemetryAssumption, Tele!MaxLedgerAssumption
<1>2. PICK s : s = CanonicalSeverities
  OBVIOUS
<1>3. /\ Len(s) = 4 /\ DOMAIN s = 1 .. 4 /\ s \in Seq({"critical", "high", "medium", "low"})
      /\ s[1] = "critical" /\ s[2] = "high" /\ s[3] = "medium" /\ s[4] = "low"
  BY <1>2 DEF CanonicalSeverities
<1>4. "custom" \in Lanes /\ Lanes \ {"custom"} = {"critical", "high", "medium", "low"}
  BY CalculatorAssumption, CanonicalNames
<1>5. \A i, k \in 1 .. Len(s) : s[i] = s[k] => i = k
  <2>1. 1 .. Len(s) = {1, 2, 3, 4}
    BY <1>3
  <2> QED BY <1>3, <2>1
<1>6. Lanes \ {"custom"} \subseteq Tele!ToSet(s)
  <2>1. 1 \in DOMAIN s /\ 2 \in DOMAIN s /\ 3 \in DOMAIN s /\ 4 \in DOMAIN s
    BY <1>3
  <2> QED BY <1>3, <1>4, <2>1 DEF Tele!ToSet
<1>7. Len(s) <= 4 /\ 100 \in Nat \ {0}
  BY <1>3
<1>8. Tele!PackingAssumption
  BY <1>2, <1>3, <1>4, <1>5, <1>6, <1>7 DEF Tele!PackingAssumption
<1> QED BY <1>1, <1>8

LEMMA LaneNamesAre ==
  /\ Len(LaneNames) = 5
  /\ \A k \in 1 .. 5 : LaneNames[k] \in Lanes
  /\ \A lane \in Lanes : \E k \in 1 .. 5 : LaneNames[k] = lane
  /\ \A i, k \in 1 .. 5 : LaneNames[i] = LaneNames[k] => i = k
<1>1. /\ Len(LaneNames) = 5
      /\ LaneNames[1] = "critical" /\ LaneNames[2] = "high" /\ LaneNames[3] = "medium"
      /\ LaneNames[4] = "low" /\ LaneNames[5] = "custom"
  BY DEF LaneNames, CanonicalSeverities
<1>2. Lanes = {"critical", "high", "medium", "low", "custom"}
  BY CalculatorAssumption, CanonicalNames
<1>3. 1 .. 5 = {1, 2, 3, 4, 5}
  OBVIOUS
<1> QED BY <1>1, <1>2, <1>3

\* What one lane changes by, the sum over all lanes changes by.
LEMMA LaneReplaced ==
  ASSUME NEW f \in [Lanes -> 0 .. U32MAX], NEW lane \in Lanes, NEW v \in Nat
  PROVE  /\ AllLanes(f) \in Nat
         /\ AllLanes([f EXCEPT ![lane] = v]) = AllLanes(f) + (v - f[lane])
<1>0. U32MAX \in Nat
  BY CalculatorAssumption
<1>1. PICK p \in 1 .. 5 : LaneNames[p] = lane
  BY LaneNamesAre
<1> DEFINE g == [f EXCEPT ![lane] = v]
           s == [k \in 1 .. 5 |-> f[LaneNames[k]]]
           t == [k \in 1 .. 5 |-> g[LaneNames[k]]]
<1>2. AllLanes(f) = SumUp(s) /\ AllLanes(g) = SumUp(t)
  BY LaneNamesAre DEF AllLanes
<1>3. Len(s) = 5 /\ Len(t) = 5
  OBVIOUS
<1>4. \A k \in 1 .. 5 : s[k] \in Nat /\ t[k] \in Nat
  BY <1>0, LaneNamesAre
<1>5. \A k \in 1 .. 5 : k # p => t[k] = s[k]
  BY <1>1, LaneNamesAre
<1>6. s[p] = f[lane] /\ t[p] = v
  BY <1>1
<1> HIDE DEF s, t, g
<1>7. SumUp(s) \in Nat
  <2>1. Len(s) \in Nat /\ \A k \in 1 .. Len(s) : s[k] \in Nat
    BY <1>3, <1>4
  <2> QED BY <2>1, SumOfNaturals
<1>8. SumUp(t) = SumUp(s) + (t[p] - s[p])
  <2>1. Len(s) \in Nat /\ Len(t) = Len(s) /\ p \in 1 .. Len(s)
    BY <1>3
  <2>2. \A k \in 1 .. Len(s) : s[k] \in Int /\ t[k] \in Int
    BY <1>3, <1>4
  <2>3. \A k \in 1 .. Len(s) : k # p => t[k] = s[k]
    BY <1>3, <1>5
  <2> QED BY <2>1, <2>2, <2>3, SumReplaces
<1> QED BY <1>2, <1>6, <1>7, <1>8 DEF g

\* No lane exceeds the sum.
LEMMA LaneWithinSum ==
  ASSUME NEW f \in [Lanes -> 0 .. U32MAX], NEW lane \in Lanes
  PROVE  f[lane] <= AllLanes(f)
<1>1. U32MAX \in Nat
  BY CalculatorAssumption
<1>2. [f EXCEPT ![lane] = 0] \in [Lanes -> 0 .. U32MAX]
  BY <1>1
<1>3. AllLanes([f EXCEPT ![lane] = 0]) \in Nat
  BY <1>2, LaneReplaced
<1>4. AllLanes(f) \in Nat /\ AllLanes([f EXCEPT ![lane] = 0]) = AllLanes(f) + (0 - f[lane])
  BY LaneReplaced
<1>5. f[lane] \in Nat
  BY <1>1
<1> QED BY <1>3, <1>4, <1>5

LEMMA AllLanesZero == AllLanes([lane \in Lanes |-> 0]) = 0
<1> DEFINE s == [k \in 1 .. 5 |-> [lane \in Lanes |-> 0][LaneNames[k]]]
<1>1. AllLanes([lane \in Lanes |-> 0]) = SumUp(s)
  BY LaneNamesAre DEF AllLanes
<1>2. Len(s) = 5 /\ \A k \in 1 .. 5 : s[k] = 0
  BY LaneNamesAre
<1> HIDE DEF s
<1>3. /\ SumLoop(s)[0] = 0
      /\ \A i \in 1 .. 5 : SumLoop(s)[i] = SumLoop(s)[i - 1] + s[i]
  BY <1>2, SumLoopStep
<1>4. /\ SumLoop(s)[1] = SumLoop(s)[0] + s[1] /\ SumLoop(s)[2] = SumLoop(s)[1] + s[2]
      /\ SumLoop(s)[3] = SumLoop(s)[2] + s[3] /\ SumLoop(s)[4] = SumLoop(s)[3] + s[4]
      /\ SumLoop(s)[5] = SumLoop(s)[4] + s[5]
  <2>1. 1 - 1 = 0 /\ 2 - 1 = 1 /\ 3 - 1 = 2 /\ 4 - 1 = 3 /\ 5 - 1 = 4
    OBVIOUS
  <2> QED BY <1>3, <2>1
<1> QED BY <1>1, <1>2, <1>3, <1>4 DEF SumUp

\* The operators of the telemetry, by either of its names.
LEMMA SameCounters ==
  /\ \A n : Counters!Capped(n) = Tele!Capped(n)
  /\ \A last : Counters!Stale(last) = Tele!Stale(last)
  /\ \A count, stale, by : Counters!Bump(count, stale, by) = Tele!Bump(count, stale, by)
  /\ Counters!AllDecided = Tele!AllDecided
<1>1. \A n : Counters!Capped(n) = Tele!Capped(n)
  BY DEF Counters!Capped, Tele!Capped
<1>2. \A last : Counters!Stale(last) = Tele!Stale(last)
  BY DEF Counters!Stale, Tele!Stale
<1>3. \A count, stale, by : Counters!Bump(count, stale, by) = Tele!Bump(count, stale, by)
  BY <1>1, Zenon DEF Counters!Bump, Tele!Bump
<1>4. Counters!AllDecided = Tele!AllDecided
  BY Zenon DEF Counters!AllDecided, Tele!AllDecided, Counters!Cardinality, Tele!Cardinality
<1> QED BY <1>1, <1>2, <1>3, <1>4

LEMMA SameDecide == \A lane, met : Counters!Decide(lane, met) => Tele!Decide(lane, met)
<1>1. \A lane, met : Counters!RecordTelemetry(lane, met) => Tele!RecordTelemetry(lane, met)
  BY SameCounters, Zenon DEF Counters!RecordTelemetry, Tele!RecordTelemetry
<1> QED BY <1>1, SameCounters, Zenon DEF Counters!Decide, Tele!Decide

\* Every call is one of the telemetry's, or leaves it alone.
LEMMA TelemetryStep ==
  ASSUME Inv, [Next]_vars
  PROVE  [Tele!Next]_(Tele!vars)
<1>1. CASE UNCHANGED << telemetryVars, now >>
  BY <1>1 DEF telemetryVars, Tele!vars, Tele!laneVars
<1>2. CASE UNCHANGED vars
  BY <1>1, <1>2 DEF vars, settledVars
<1>3. CASE UNCHANGED telemetryVars /\ CloseLedger
  BY <1>3 DEF telemetryVars, Tele!Next, Tele!NewLedger, CloseLedger, Tele!CloseLedger, Tele!laneVars
<1>4. ASSUME NEW severity, NEW r \in Results, Settle(severity, r), Signed(r)
      PROVE  Tele!Next
  <2>1. LaneOf(severity) \in Lanes /\ r.met \in BOOLEAN
    BY <1>4, CalculatorAssumption DEF LaneOf, Signed
  <2>2. Tele!Decide(LaneOf(severity), r.met)
    BY <1>4, SameDecide, Zenon DEF Settle
  <2> QED BY <2>1, <2>2 DEF Tele!Next
<1> QED BY <1>1, <1>2, <1>3, <1>4, StepCounts DEF Inv

LEMMA WithinInit == Init => Within
<1> SUFFICES ASSUME Init PROVE Within
  OBVIOUS
<1>1. Tele!Inv
  <2>1. Tele!Init
    BY DEF Init, Counters!TelemetryInit, Counters!NoCounts, Tele!Init, Tele!TelemetryInit, Tele!NoCounts
  <2> QED BY <2>1, TelemetryAssumptions, Tele!InitInv, Zenon
<1>2. calculations = [lane \in Lanes |-> 0] /\ violations = [lane \in Lanes |-> 0] /\ recorded = << >>
  BY DEF Init, Counters!TelemetryInit, Counters!NoCounts
<1>3. AllLanes(calculations) = 0 /\ AllLanes(violations) = 0
  BY <1>2, AllLanesZero
<1>4. Len(recorded) = 0 /\ Len(ViolationsIn(recorded)) = 0
  BY <1>2 DEF ViolationsIn
<1>5. SumUp(ViolationsIn(recorded)) = 0
  BY <1>4, SumOfNone
<1> QED BY <1>1, <1>3, <1>4, <1>5 DEF Within

LEMMA BumpWithin ==
  ASSUME NEW c \in 0 .. U32MAX, NEW stale \in BOOLEAN, NEW by \in {0, 1}
  PROVE  /\ Tele!Bump(c, stale, by) \in Nat
         /\ Tele!Bump(c, stale, by) <= c + by
         /\ ~stale /\ c + by <= U32MAX => Tele!Bump(c, stale, by) = c + by
BY CalculatorAssumption DEF Tele!Bump, Tele!Capped

LEMMA WithinKept == Inv /\ Counted /\ Within /\ [Next]_vars => Within'
<1> SUFFICES ASSUME Inv, Counted, Within, [Next]_vars PROVE Within'
  OBVIOUS
<1>1. Tele!Inv'
  BY TelemetryStep, TelemetryAssumptions, Tele!InvInductive, Zenon DEF Within
<1>2. now \in Nat /\ recorded \in Seq(Results)
  BY DEF Inv, Known, Store!Inv
<1>3. CASE UNCHANGED << telemetryVars, recorded >> /\ (now' = now \/ CloseLedger)
  <2>1. now' <= WEEK => now <= WEEK
    BY <1>2, <1>3, CalculatorAssumption DEF CloseLedger
  <2>2. calculations' = calculations /\ violations' = violations /\ recorded' = recorded
    BY <1>3 DEF telemetryVars
  <2> QED BY <1>1, <2>1, <2>2 DEF Within, AllLanes, ViolationsIn
<1>4. CASE UNCHANGED vars
  BY <1>3, <1>4 DEF vars, settledVars, historyVars
<1>5. ASSUME NEW severity, NEW r \in Results, Settle(severity, r), Signed(r)
      PROVE  Within'
  <2>1. PICK lane \in Lanes : lane = LaneOf(severity)
    BY CalculatorAssumption DEF LaneOf
  <2>2. PICK by \in {0, 1} : by = (IF r.met THEN 0 ELSE 1)
    BY <1>5 DEF Signed
  <2>3. PICK c \in 0 .. U32MAX, v \in 0 .. U32MAX, lc \in Nat, lv \in Nat :
          c = calculations[lane] /\ v = violations[lane] /\ lc = lastCalculations[lane] /\ lv = lastViolations[lane]
    BY CalculatorAssumption DEF Within, Tele!Inv, Tele!TypeOK, Tele!Lane
  <2>4. calculations \in [Lanes -> 0 .. U32MAX] /\ violations \in [Lanes -> 0 .. U32MAX]
    BY DEF Within, Tele!Inv, Tele!TypeOK, Tele!Lane
  <2>5. PICK sc \in BOOLEAN, sv \in BOOLEAN : sc = Tele!Stale(lc) /\ sv = Tele!Stale(lv)
    BY DEF Tele!Stale
  <2>6. PICK c1, v1 : c1 = Tele!Bump(c, sc, 1) /\ v1 = Tele!Bump(v, sv, by)
    OBVIOUS
  <2>7. /\ calculations' = [calculations EXCEPT ![lane] = c1]
        /\ violations' = [violations EXCEPT ![lane] = v1]
        /\ now' = now
    BY <1>5, <2>1, <2>2, <2>3, <2>5, <2>6
       DEF Settle, Counters!Decide, Counters!RecordTelemetry, Counters!Bump, Tele!Bump, Counters!Stale, Tele!Stale,
           Counters!Capped, Tele!Capped
  <2>8. c1 \in Nat /\ c1 <= c + 1 /\ (~sc /\ c + 1 <= U32MAX => c1 = c + 1)
    BY <2>6, BumpWithin
  <2>9. v1 \in Nat /\ v1 <= v + by
    BY <2>6, BumpWithin
  <2>10. /\ AllLanes(calculations) \in Nat /\ AllLanes(calculations') = AllLanes(calculations) + (c1 - c)
         /\ c <= AllLanes(calculations)
    BY <2>3, <2>4, <2>7, <2>8, LaneReplaced, LaneWithinSum
  <2>11. AllLanes(violations) \in Nat /\ AllLanes(violations') = AllLanes(violations) + (v1 - v)
    BY <2>3, <2>4, <2>7, <2>9, LaneReplaced
  <2>12. PICK t : t = Append(recorded, r) /\ recorded' = t
    BY <1>5 DEF Settle, History!Record
  <2>13. /\ Len(recorded) \in Nat /\ Len(t) = Len(recorded) + 1
         /\ SumUp(ViolationsIn(recorded)) \in Nat
         /\ SumUp(ViolationsIn(t)) = SumUp(ViolationsIn(recorded)) + by
    BY <1>2, <1>5, <2>2, <2>12, Appended, ColumnsGrow DEF Counted
  <2>14. AllLanes(violations') <= SumUp(ViolationsIn(recorded'))
    BY <2>9, <2>11, <2>12, <2>13 DEF Within
  <2>15. AllLanes(calculations') <= Len(recorded')
    BY <2>8, <2>10, <2>12, <2>13 DEF Within
  <2>16. ASSUME now' <= WEEK, Len(recorded') <= U32MAX
         PROVE  AllLanes(calculations') = Len(recorded')
    <3>1. now <= WEEK /\ Len(recorded) + 1 <= U32MAX
      BY <2>7, <2>12, <2>13, <2>16
    <3>2. AllLanes(calculations) = Len(recorded)
      BY <2>13, <3>1, CalculatorAssumption DEF Within
    <3>3. ~sc
      <4>1. sc => lc # 0 /\ now - lc >= WEEK
        BY <2>5 DEF Tele!Stale
      <4>2. ~(lc # 0 /\ now - lc >= WEEK)
        BY <1>2, <3>1, CalculatorAssumption
      <4> QED BY <4>1, <4>2
    <3>4. c + 1 <= U32MAX
      BY <2>3, <2>10, <2>13, <3>1, <3>2, CalculatorAssumption
    <3>5. c1 = c + 1
      BY <2>8, <3>3, <3>4
    <3>6. PICK x, y : x \in Nat /\ x = AllLanes(calculations) /\ y = AllLanes(calculations')
      BY <2>10
    <3>7. y = x + (c1 - c)
      BY <2>10, <3>6, Zenon
    <3>8. y = x + 1
      BY <2>3, <3>5, <3>7
    <3>9. Len(recorded') = x + 1
      BY <2>12, <2>13, <3>2, <3>6
    <3> QED BY <3>6, <3>8, <3>9
  <2>17. /\ AllLanes(violations)' = AllLanes(violations') /\ AllLanes(calculations)' = AllLanes(calculations')
         /\ SumUp(ViolationsIn(recorded))' = SumUp(ViolationsIn(recorded'))
    BY DEF AllLanes, ViolationsIn
  <2> QED BY <1>1, <2>14, <2>15, <2>16, <2>17 DEF Within
<1> QED BY <1>3, <1>4, <1>5, StepCounts DEF Inv

\* What the sums say of the saturated statistics.
LEMMA WithinSaturated == Inv /\ Counted /\ Within => TelemetryWithinStats
<1> SUFFICES ASSUME Inv, Counted, Within PROVE TelemetryWithinStats
  OBVIOUS
<1>1. PICK n \in Nat, v \in Nat : n = Len(recorded) /\ v = SumUp(ViolationsIn(recorded))
  <2>1. Len(recorded) \in Nat
    BY DEF Inv, Store!Inv
  <2>2. Len(ViolationsIn(recorded)) = Len(recorded) /\ \A k \in 1 .. Len(recorded) : ViolationsIn(recorded)[k] \in Nat
    BY <2>1 DEF ViolationsIn
  <2>3. SumUp(ViolationsIn(recorded)) \in Nat
    BY <2>1, <2>2, SumOfNaturals
  <2> QED BY <2>1, <2>3
<1>2. stats.total_calculations = AtMost(n, COUNTER_MAX) /\ stats.total_violations = AtMost(v, COUNTER_MAX)
  BY <1>1, StatsAre DEF Counted
<1>3. AllLanes(calculations) \in Nat /\ AllLanes(violations) \in Nat
  <2>1. \E lane \in Lanes : TRUE
    BY CalculatorAssumption
  <2> QED BY <2>1, LaneReplaced DEF Within, Tele!Inv, Tele!TypeOK, Tele!Lane
<1> QED BY <1>1, <1>2, <1>3, CalculatorAssumption DEF Within, TelemetryWithinStats, AtMost

LEMMA WithinAlways == Spec => [](Inv /\ Counted /\ Within)
<1>1. Init => Inv /\ Counted /\ Within
  BY InvInit, CountedInit, WithinInit
<1>2. Inv /\ Counted /\ Within /\ [Next]_vars => (Inv /\ Counted /\ Within)'
  BY InvKept, CountedKept, WithinKept
<1> QED BY <1>1, <1>2, PTL DEF Spec

(***************************************************************************)
(* The telemetry never counts what the statistics do not: both are written *)
(* by the same submissions, whatever the resets of the lanes, the          *)
(* saturation of the counters and the calls in between; before any lane    *)
(* can have been idle for a week the two totals are equal.                 *)
(***************************************************************************)
THEOREM TelemetryAlwaysWithinStats == Spec => []TelemetryWithinStats
BY WithinAlways, WithinSaturated, PTL

-----------------------------------------------------------------------------
(* The baseline of calculation.rs *)

\* The vector it scans and trims is the window of the shards.
LEMMA VectorIsWindow ==
  ASSUME Store!StoreInv, NEW outage \in OutageIds
  PROVE  OneVector!StoredFor(outage) = Store!EntriesForOutage(outage)
<1>1. Window \in Seq(Results)
  BY WindowIs
<1>2. PICK w \in Seq(Results) : w = Window
  BY <1>1
<1> DEFINE S == { r \in Elements(w) : r.outage_id = outage }
           T == { r \in Results : r.outage_id = outage }
<1>3. \A i \in 1 .. Len(w) : w[i] \in S <=> w[i] \in T
  BY DEF Elements
<1>4. Keep(w, S) = Keep(w, T)
  <2> HIDE DEF S, T
  <2> QED BY <1>3, KeepSame
<1>5. OneVector!StoredFor(outage) = Keep(w, S)
  BY <1>2 DEF OneVector!StoredFor, OneVector!Keep, OneVector!KeepLoop, Keep, KeepLoop, OneVector!Elements, Elements,
              Window, Store!Window
<1>6. Store!Keep(w, T) = Keep(w, T)
  BY DEF Store!Keep, Store!KeepLoop, Keep, KeepLoop
<1>7. Store!EntriesForOutage(outage) = Store!Keep(w, T)
  <2>1. Store!EntriesForOutage(outage) = Store!Keep(Store!Window, T)
    BY StoreAssumptions, Store!IndexIsFilter, Zenon
  <2> QED BY <1>2, <2>1 DEF Window
<1> QED BY <1>4, <1>5, <1>6, <1>7

\* What a scan of it finds is what the index lookup answers.
LEMMA ScanTells ==
  ASSUME Store!StoreInv, NEW outage \in OutageIds,
         NEW stored, stored = OneVector!StoredFor(outage),
         NEW prev, prev = Store!LatestForOutage(outage)
  PROVE  /\ Len(stored) = Len(outageIndex[outage])
         /\ stored = << >> <=> prev = NoResult
         /\ prev # NoResult => prev \in Results /\ stored[Len(stored)] = prev
<1>1. PICK x \in Seq(Nat) : x = outageIndex[outage]
  BY IndexListsPlaces
<1>2. stored = [k \in 1 .. Len(x) |-> entries[x[k]]]
  <2>1. Store!EntriesForOutage(outage) = [k \in 1 .. Len(outageIndex[outage]) |-> entries[outageIndex[outage][k]]]
    BY StoreAssumptions, Store!IndexIsFilter, Zenon
  <2> QED BY <1>1, <2>1, VectorIsWindow
<1>3. \A k \in 1 .. Len(x) : x[k] \in DOMAIN entries /\ entries[x[k]] \in Results
  <2>1. \A k \in 1 .. Len(x) : x[k] \in head .. tail - 1
    BY <1>1, IndexListsPlaces
  <2>2. DOMAIN entries = head .. tail - 1 /\ \A i \in DOMAIN entries : entries[i] \in Results
    BY DEF Store!StoreInv, Store!NoOrphanEntries, Store!StoreTypeOK
  <2> QED BY <2>1, <2>2
<1>4. prev = IF x # << >> /\ x[Len(x)] \in DOMAIN entries THEN entries[x[Len(x)]] ELSE NoResult
  BY <1>1 DEF Store!LatestForOutage, Store!LastOf
<1>5. Len(stored) = Len(x) /\ Len(x) \in Nat
  BY <1>2
<1>6. CASE x = << >>
  <2>1. stored = << >>
    BY <1>2, <1>6
  <2> QED BY <1>1, <1>4, <1>5, <1>6, <2>1
<1>7. CASE x # << >>
  <2>1. Len(x) \in 1 .. Len(x)
    <3>1. Len(x) # 0
      BY <1>7
    <3> QED BY <1>5, <3>1
  <2>2. prev = entries[x[Len(x)]] /\ prev \in Results
    BY <1>3, <1>4, <1>7, <2>1
  <2>3. prev # NoResult
    BY <2>2, CalculatorAssumption
  <2>4. stored # << >>
    BY <1>5, <2>1
  <2>5. stored[Len(stored)] = prev
    BY <1>2, <1>5, <2>1, <2>2
  <2> QED BY <1>1, <1>5, <2>2, <2>3, <2>4, <2>5
<1> QED BY <1>6, <1>7

\* So it comes to the same policy.
LEMMA PolicyAgrees ==
  ASSUME Store!StoreInv, NEW outage \in OutageIds, NEW hash, NEW mttr, NEW c,
         NEW prev, prev = Store!LatestForOutage(outage),
         NEW same, same = SameGeneration(prev, hash, mttr, c),
         NEW policy, policy = OneVector!DuplicatePolicy(outage, hash)
  PROVE  /\ same \in BOOLEAN
         /\ policy = "same_config" <=> same
         /\ policy = "different_config" <=> prev # NoResult /\ ~same
         /\ same => prev \in Results /\ OneVector!LastOf(OneVector!StoredFor(outage)) = prev
         /\ same => (OneVector!SubmittedAgain(outage, mttr, c) <=> SameInputs(prev, mttr, c))
         /\ OneVector!ExceedsRecalcCap(outage) <=> ~(Len(outageIndex[outage]) < MAX_RECALCS_PER_OUTAGE)
<1>1. PICK stored : stored = OneVector!StoredFor(outage)
  OBVIOUS
<1>2. /\ Len(stored) = Len(outageIndex[outage])
      /\ stored = << >> <=> prev = NoResult
      /\ prev # NoResult => prev \in Results /\ stored[Len(stored)] = prev
  BY <1>1, ScanTells
<1>3. same <=> prev # NoResult /\ prev.config_version_hash = hash
  BY DEF SameGeneration
<1>4. same \in BOOLEAN
  BY DEF SameGeneration
<1>5. prev # NoResult => OneVector!LastOf(stored) = prev
  BY <1>2 DEF OneVector!LastOf
<1>6. policy = IF stored = << >> THEN "new"
               ELSE IF OneVector!LastOf(stored).config_version_hash = hash THEN "same_config"
               ELSE "different_config"
  BY <1>1 DEF OneVector!DuplicatePolicy
<1>7. (policy = "same_config" <=> same) /\ (policy = "different_config" <=> prev # NoResult /\ ~same)
  <2>1. CASE prev = NoResult
    <3>1. policy = "new" /\ ~same
      BY <1>2, <1>3, <1>6, <2>1
    <3> QED BY <2>1, <3>1
  <2>2. CASE prev # NoResult /\ prev.config_version_hash = hash
    <3>1. policy = "same_config" /\ same
      BY <1>2, <1>3, <1>5, <1>6, <2>2
    <3> QED BY <2>2, <3>1
  <2>3. CASE prev # NoResult /\ prev.config_version_hash # hash
    <3>1. policy = "different_config" /\ ~same
      BY <1>2, <1>3, <1>5, <1>6, <2>3
    <3> QED BY <2>3, <3>1
  <2> QED BY <2>1, <2>2, <2>3
<1>8. same => (OneVector!SubmittedAgain(outage, mttr, c) <=> SameInputs(prev, mttr, c))
  BY <1>1, <1>3, <1>5 DEF OneVector!SubmittedAgain, SameInputs
<1>9. OneVector!ExceedsRecalcCap(outage) <=> ~(Len(outageIndex[outage]) < MAX_RECALCS_PER_OUTAGE)
  <2>1. Len(outageIndex[outage]) \in Nat /\ MAX_RECALCS_PER_OUTAGE \in Nat
    BY IndexListsPlaces, CalculatorAssumption
  <2>2. OneVector!ExceedsRecalcCap(outage) <=> Len(outageIndex[outage]) >= MAX_RECALCS_PER_OUTAGE
    BY <1>1, <1>2 DEF OneVector!ExceedsRecalcCap
  <2> QED BY <2>1, <2>2
<1> QED BY <1>1, <1>2, <1>3, <1>4, <1>5, <1>7, <1>8, <1>9

\* The two computations, and the checks of their amounts, agree wherever the
\* contract can divide by the threshold.
LEMMA ComputeAgrees ==
  ASSUME NEW c \in Configurations, 0 < c.threshold, NEW mttr \in Mttrs, NEW outage, NEW hash, NEW at
  PROVE  /\ OneVector!ComputeResult(outage, mttr, c, hash, at) = ComputeResult(outage, mttr, c, hash, at)
         /\ OneVector!ExpectedComputeResult(mttr, c) = ExpectedComputeResult(mttr, c)
         /\ RequireAmount(ComputeResult(outage, mttr, c, hash, at)) = ExpectedComputeResult(mttr, c).error
         /\ ExpectedComputeResult(mttr, c).amount = Amount(mttr, c)
         /\ ExpectedComputeResult(mttr, c).status = IF mttr <= c.threshold THEN "met" ELSE "viol"
         /\ mttr <= c.threshold =>
              /\ ExpectedComputeResult(mttr, c).payment_type = "rew"
              /\ ExpectedComputeResult(mttr, c).rating \in { "top", "excel", "good" }
         /\ mttr > c.threshold =>
              /\ ExpectedComputeResult(mttr, c).payment_type = "pen"
              /\ ExpectedComputeResult(mttr, c).rating = "poor"
<1>1. c.threshold \in Nat /\ c.penalty \in Int /\ c.reward \in Int /\ Amount(mttr, c) \in Int /\ mttr \in Nat
  BY AmountIsInt, CalculatorAssumption
<1>2. PICK t \in Nat \ {0}, p \in Int, w \in Int, a \in Int :
        t = c.threshold /\ p = c.penalty /\ w = c.reward /\ a = Amount(mttr, c)
  BY <1>1
<1>3. PICK q \in Nat : q = (mttr * 100) \div t
  <2>1. (mttr * 100) \in Nat /\ t > 0
    BY <1>1
  <2> QED BY <2>1
<1>4. PICK m \in Nat, rating \in { "top", "excel", "good" } :
        RewardTier(q) = [multiplier |-> m, rating |-> rating] /\ m = Multiplier(mttr, t)
  <2>1. TIER_TOP_RATIO_EXCLUSIVE .. TIER_EXCEL_RATIO_EXCLUSIVE - 1 = 50 .. 74
    BY DEF TIER_TOP_RATIO_EXCLUSIVE, TIER_EXCEL_RATIO_EXCLUSIVE
  <2>2. Multiplier(mttr, t) = IF q < 50 THEN 200 ELSE IF q < 75 THEN 150 ELSE 100
    BY <1>3 DEF Multiplier
  <2>3. CASE q < 50
    <3>1. RewardTier(q) = [multiplier |-> 200, rating |-> "top"]
      BY <2>3 DEF RewardTier, TIER_TOP_RATIO_EXCLUSIVE
    <3> QED BY <2>2, <2>3, <3>1
  <2>4. CASE ~(q < 50) /\ q < 75
    <3>1. RewardTier(q) = [multiplier |-> 150, rating |-> "excel"]
      BY <2>1, <2>4 DEF RewardTier, TIER_TOP_RATIO_EXCLUSIVE
    <3> QED BY <2>2, <2>4, <3>1
  <2>5. CASE ~(q < 50) /\ ~(q < 75)
    <3>1. RewardTier(q) = [multiplier |-> 100, rating |-> "good"]
      BY <2>1, <2>5 DEF RewardTier, TIER_TOP_RATIO_EXCLUSIVE
    <3> QED BY <2>2, <2>5, <3>1
  <2> QED BY <2>3, <2>4, <2>5
<1>5. a = IF mttr > t THEN -((mttr - t) * p) ELSE (w * m) \div 100
  BY <1>2, <1>4 DEF Amount
<1>6. ExpectedComputeResult(mttr, c) =
        IF mttr > t THEN Outcome("viol", "pen", "poor", a, a < 0, "InvalidPenaltyAmount")
                    ELSE Outcome("met", "rew", rating, a, a > 0, "InvalidRewardAmount")
  <2>1. CASE mttr > t
    <3>1. a = -((mttr - t) * p)
      BY <1>5, <2>1
    <3> HIDE DEF Outcome
    <3> QED BY <1>2, <2>1, <3>1 DEF ExpectedComputeResult
  <2>2. CASE ~(mttr > t)
    <3>1. a = (w * m) \div 100
      BY <1>5, <2>2
    <3>2. RewardTier(IF t = 0 THEN 0 ELSE (mttr * 100) \div t) = [multiplier |-> m, rating |-> rating]
      BY <1>3, <1>4
    <3> QED BY <1>2, <2>2, <3>1, <3>2 DEF ExpectedComputeResult
  <2> QED BY <2>1, <2>2
<1>7. OneVector!ExpectedComputeResult(mttr, c) = ExpectedComputeResult(mttr, c)
  BY DEF OneVector!ExpectedComputeResult, ExpectedComputeResult, OneVector!Outcome, Outcome, OneVector!RewardTier,
         RewardTier, OneVector!TIER_TOP_RATIO_EXCLUSIVE, TIER_TOP_RATIO_EXCLUSIVE,
         OneVector!TIER_EXCEL_RATIO_EXCLUSIVE, TIER_EXCEL_RATIO_EXCLUSIVE
<1>8. PICK e : e = ExpectedComputeResult(mttr, c)
  OBVIOUS
<1>9. /\ e.amount = a /\ e.status = (IF mttr <= t THEN "met" ELSE "viol")
      /\ mttr <= t => e.payment_type = "rew" /\ e.rating = rating /\ e.error = IF a > 0 THEN Ok ELSE "InvalidRewardAmount"
      /\ mttr > t => e.payment_type = "pen" /\ e.rating = "poor" /\ e.error = IF a < 0 THEN Ok ELSE "InvalidPenaltyAmount"
  BY <1>1, <1>6, <1>8 DEF Outcome, Ok
<1>10. OneVector!ComputeResult(outage, mttr, c, hash, at) = ComputeResult(outage, mttr, c, hash, at)
  <2>1. (e.status = "met") = (mttr <= t)
    BY <1>9
  <2>2. OneVector!ComputeResult(outage, mttr, c, hash, at) =
          [outage_id |-> outage, met |-> e.status = "met", mttr_minutes |-> mttr,
           threshold_minutes |-> c.threshold, amount |-> e.amount,
           config_version_hash |-> hash, recorded_at |-> at]
    BY <1>7, <1>8 DEF OneVector!ComputeResult
  <2> QED BY <1>2, <1>9, <2>1, <2>2 DEF ComputeResult
<1>11. RequireAmount(ComputeResult(outage, mttr, c, hash, at)) = e.error
  <2>1. PICK r : r = ComputeResult(outage, mttr, c, hash, at)
    OBVIOUS
  <2>2. r.met = (mttr <= t) /\ r.amount = a
    BY <1>2, <2>1 DEF ComputeResult
  <2>3. CASE mttr <= t
    <3>1. r.met
      BY <2>2, <2>3
    <3>2. RequireAmount(r) = IF a > 0 THEN Ok ELSE "InvalidRewardAmount"
      BY <2>2, <3>1 DEF RequireAmount, Require
    <3> QED BY <1>9, <2>1, <2>3, <3>2
  <2>4. CASE mttr > t
    <3>1. ~r.met
      <4>1. ~(mttr <= t)
        BY <1>1, <2>4
      <4> QED BY <2>2, <4>1, Zenon
    <3>2. RequireAmount(r) = IF a < 0 THEN Ok ELSE "InvalidPenaltyAmount"
      BY <2>2, <3>1 DEF RequireAmount, Require
    <3> QED BY <1>9, <2>1, <2>4, <3>2
  <2> QED BY <1>1, <2>3, <2>4
<1> QED BY <1>1, <1>2, <1>4, <1>7, <1>8, <1>9, <1>10, <1>11

-----------------------------------------------------------------------------
(* Its checks *)

LEMMA SameChecks ==
  ASSUME NEW caller, NEW severity, NEW mttr
  PROVE  OneVector!PreFlight(caller, severity, mttr) =
           (CheckVersion ?? Require(mttr <= MAX_MTTR, "InvalidInput") ?? RequireNotPaused ?? RequireOperator(caller)
              ?? RequireConfig(severity))
BY DEF OneVector!PreFlight, OneVector!CheckVersion, CheckVersion, OneVector!??, ??, OneVector!Require, Require,
       OneVector!RequireNotPaused, RequireNotPaused, OneVector!RequireOperator, RequireOperator,
       OneVector!RequireConfig, RequireConfig, OneVector!Ok, Ok, OneVector!STORAGE_VERSION, STORAGE_VERSION,
       OneVector!Canonical, Canonical, OneVector!CanonicalSeverities, CanonicalSeverities, OneVector!Elements, Elements

LEMMA SameNames ==
  /\ OneVector!Ok = Ok /\ OneVector!Granted = Granted
  /\ \A condition, error : OneVector!Require(condition, error) = Require(condition, error)
  /\ \A severity : OneVector!LoadConfig(severity) = LoadConfig(severity)
  /\ \A severity : OneVector!SeverityConfigHash(severity) = Generation(severity)
  /\ \A severity : OneVector!LaneFor(severity) = LaneOf(severity)
  /\ \A call, caller, status : OneVector!Answer(call, caller, status) <=> Answer(call, caller, status)
BY DEF OneVector!Ok, Ok, OneVector!Granted, Granted, OneVector!Require, Require, OneVector!LoadConfig, LoadConfig,
       OneVector!SeverityConfigHash, Generation, SeverityConfigHash, OneVector!LaneFor, LaneOf, OneVector!Answer, Answer,
       OneVector!Canonical, Canonical, OneVector!CanonicalSeverities, CanonicalSeverities, OneVector!Elements, Elements

LEMMA ChainStops == \A a, b : a # Ok => (a ?? b) = a
BY DEF ??

\* The two chains of checks answer alike.
LEMMA SameAnswer ==
  ASSUME Inv, NEW caller, NEW outage \in OutageIds, NEW severity, NEW mttr \in Mttrs,
         NEW first, first = OneVector!PreFlight(caller, severity, mttr),
         NEW c, c = LoadConfig(severity),
         NEW hash, hash = Generation(severity),
         NEW prev, prev = Store!LatestForOutage(outage),
         NEW same, same = SameGeneration(prev, hash, mttr, c),
         NEW policy, policy = OneVector!DuplicatePolicy(outage, hash)
  PROVE  (first
            ?? RequireAmount(ComputeResult(outage, mttr, c, hash, now))
            ?? Require(same => SameInputs(prev, mttr, c), "DuplicateOutageInput")
            ?? Require(prev = NoResult \/ same \/ Len(outageIndex[outage]) < MAX_RECALCS_PER_OUTAGE,
                       "OutageRecalcLimit"))
         = (first
              ?? OneVector!ExpectedComputeResult(mttr, c).error
              ?? Require(policy # "same_config" \/ OneVector!SubmittedAgain(outage, mttr, c), "DuplicateOutageInput")
              ?? Require(policy = "different_config" => ~OneVector!ExceedsRecalcCap(outage), "OutageRecalcLimit"))
<1> DEFINE amount == RequireAmount(ComputeResult(outage, mttr, c, hash, now))
           inputs == Require(same => SameInputs(prev, mttr, c), "DuplicateOutageInput")
           limit  == Require(prev = NoResult \/ same \/ Len(outageIndex[outage]) < MAX_RECALCS_PER_OUTAGE,
                             "OutageRecalcLimit")
           amount2 == OneVector!ExpectedComputeResult(mttr, c).error
           inputs2 == Require(policy # "same_config" \/ OneVector!SubmittedAgain(outage, mttr, c),
                              "DuplicateOutageInput")
           limit2  == Require(policy = "different_config" => ~OneVector!ExceedsRecalcCap(outage), "OutageRecalcLimit")
<1>1. CASE first # Ok
  <2> HIDE DEF amount, inputs, limit, amount2, inputs2, limit2
  <2>1. (first ?? amount ?? inputs ?? limit) = first
    BY <1>1, ChainStops
  <2>2. (first ?? amount2 ?? inputs2 ?? limit2) = first
    BY <1>1, ChainStops
  <2> QED BY <2>1, <2>2 DEF amount, inputs, limit, amount2, inputs2, limit2
<1>2. CASE first = Ok
  <2>1. severity \in Canonical \cup DOMAIN custom
    <3>1. (CheckVersion ?? Require(mttr <= MAX_MTTR, "InvalidInput") ?? RequireNotPaused ?? RequireOperator(caller)
             ?? RequireConfig(severity)) = Ok
      BY <1>2, SameChecks
    <3>2. RequireConfig(severity) = Ok
      BY <3>1, ChainOk, Zenon
    <3> QED BY <3>2, Zenon DEF RequireConfig, Require, Ok
  <2>2. c \in Configurations /\ 0 < c.threshold
    BY <2>1 DEF Inv, Known, LoadConfig
  <2>3. amount = amount2
    BY <2>2, ComputeAgrees
  <2>4. /\ policy = "same_config" <=> same
        /\ policy = "different_config" <=> prev # NoResult /\ ~same
        /\ same => (OneVector!SubmittedAgain(outage, mttr, c) <=> SameInputs(prev, mttr, c))
        /\ OneVector!ExceedsRecalcCap(outage) <=> ~(Len(outageIndex[outage]) < MAX_RECALCS_PER_OUTAGE)
    BY PolicyAgrees DEF Inv, Store!Inv
  <2>5. inputs = inputs2
    <3>1. (same => SameInputs(prev, mttr, c)) <=> (policy # "same_config" \/ OneVector!SubmittedAgain(outage, mttr, c))
      BY <2>4, Zenon
    <3> QED BY <3>1, Zenon DEF Require
  <2>6. limit = limit2
    <3>1. (prev = NoResult \/ same \/ Len(outageIndex[outage]) < MAX_RECALCS_PER_OUTAGE)
            <=> (policy = "different_config" => ~OneVector!ExceedsRecalcCap(outage))
      BY <2>4, Zenon
    <3> QED BY <3>1, Zenon DEF Require
  <2> HIDE DEF amount, inputs, limit, amount2, inputs2, limit2
  <2>7. (first ?? amount ?? inputs ?? limit) = (first ?? amount2 ?? inputs2 ?? limit2)
    BY <2>3, <2>5, <2>6
  <2> QED BY <2>7 DEF amount, inputs, limit, amount2, inputs2, limit2
<1> QED BY <1>1, <1>2

-----------------------------------------------------------------------------
(* Its trims *)

\* Whatever is dropped, it is what a trim of the vector drops.
LEMMA EndIsTrim ==
  ASSUME NEW X, NEW w \in Seq(X), NEW v \in Seq(X), Ends(v, w)
  PROVE  /\ Len(v) \in 0 .. Len(w)
         /\ v = SubSeq(w, Len(w) - Len(v) + 1, Len(w))
         /\ Len(v) = Len(w) => v = w
         /\ Len(v) + 1 = Len(w) => v = Tail(w)
<1>1. PICK n \in Nat, m \in Nat : n = Len(w) /\ m = Len(v)
  OBVIOUS
<1>2. m <= n /\ \A k \in 1 .. m : v[k] = w[k + (n - m)]
  BY <1>1 DEF Ends, Store!Ends
<1>3. Len(v) \in 0 .. Len(w)
  BY <1>1, <1>2
<1>4. v = SubSeq(w, n - m + 1, n)
  <2>1. PICK a \in 1 .. n + 1 : a = n - m + 1
    BY <1>2
  <2>2. \A i \in a .. n : w[i] \in X
    BY <1>1, <2>1
  <2>3. /\ SubSeq(w, a, n) \in Seq(X) /\ Len(SubSeq(w, a, n)) = m
        /\ \A k \in 1 .. m : SubSeq(w, a, n)[k] = w[a + k - 1]
    BY <1>1, <1>2, <2>1, <2>2
  <2>4. \A k \in 1 .. m : a + k - 1 = k + (n - m)
    BY <1>2, <2>1
  <2>5. \A k \in 1 .. m : SubSeq(w, a, n)[k] = v[k]
    BY <1>2, <2>3, <2>4
  <2>6. v = SubSeq(w, a, n)
    BY <1>1, <2>3, <2>5, SMTT(30)
  <2> QED BY <2>1, <2>6
<1>5. Len(v) = Len(w) => v = w
  <2> SUFFICES ASSUME m = n PROVE v = w
    BY <1>1
  <2>1. \A k \in 1 .. n : v[k] = w[k]
    BY <1>2
  <2> QED BY <1>1, <2>1
<1>6. Len(v) + 1 = Len(w) => v = Tail(w)
  <2> SUFFICES ASSUME m + 1 = n PROVE v = Tail(w)
    BY <1>1
  <2>1. Tail(w) \in Seq(X) /\ Len(Tail(w)) = m /\ \A k \in 1 .. m : Tail(w)[k] = w[k + 1]
    <3>1. w # << >>
      BY <1>1
    <3> QED BY <1>1, <3>1
  <2>2. \A k \in 1 .. m : v[k] = w[k + 1]
    BY <1>2
  <2>3. \A k \in 1 .. m : v[k] = Tail(w)[k]
    BY <2>1, <2>2
  <2> QED BY <1>1, <2>1, <2>3
<1> QED BY <1>1, <1>3, <1>4, <1>5, <1>6

LEMMA WindowNext ==
  ASSUME Store!StoreInv'
  PROVE  Window' \in Seq(Results) /\ head' \in Nat /\ tail' \in Nat /\ head' <= tail' /\ Len(Window') = tail' - head'
<1>1. Store!Answered'
  BY StoreAssumptions, Store!StoreAnsweredNext, Zenon
<1>2. Store!Spans(Window', entries', head', tail')
  BY <1>1, Zenon DEF Store!Answered, Window
<1>3. \A w, e, h, t : Store!Spans(w, e, h, t) =>
        w \in Seq(Results) /\ h \in Nat /\ t \in Nat /\ h <= t /\ Len(w) = t - h
  BY DEF Store!Spans
<1> QED BY <1>2, <1>3, Zenon

\* An append drops at most one decision, and only above the limit.
LEMMA AppendTrims ==
  ASSUME Store!StoreInv, Store!StoreInv', recorded \in Seq(Results), NEW r \in Results, Store!Record(r), Moves
  PROVE  /\ Append(Window, r) \in Seq(Results)
         /\ Window' = IF Len(Append(Window, r)) > retentionLimit THEN Tail(Append(Window, r)) ELSE Append(Window, r)
<1>1. Window \in Seq(Results) /\ Len(Window) = tail - head /\ head \in Nat /\ tail \in Nat /\ head <= tail
  BY WindowIs
<1>2. PICK w \in Seq(Results) : w = Append(Window, r) /\ Len(w) = tail + 1 - head
  <2>1. Append(Window, r) \in Seq(Results) /\ Len(Append(Window, r)) = Len(Window) + 1
    BY <1>1, Appended
  <2>2. Len(Append(Window, r)) = tail + 1 - head
    BY <1>1, <2>1
  <2> QED BY <2>1, <2>2, Zenon
<1>3. recorded' = Append(recorded, r)
  BY DEF Store!Record
<1>4. Ends(Window', w)
  <2>1. Len(recorded) \in Nat /\ Append(recorded, r) # recorded
    <3>1. Len(Append(recorded, r)) = Len(recorded) + 1 /\ Len(recorded) \in Nat
      BY Appended
    <3> QED BY <3>1
  <2>2. PICK s \in Results : recorded' = Append(recorded, s) /\ Ends(Window', Append(Window, s))
    BY <1>3, <2>1 DEF Moves
  <2>3. s = r
    <3>1. Append(recorded, r)[Len(recorded) + 1] = r /\ Append(recorded, s)[Len(recorded) + 1] = s
      BY Appended
    <3> QED BY <1>3, <2>2, <3>1
  <2> QED BY <1>2, <2>2, <2>3
<1>5. Window' \in Seq(Results) /\ Len(Window') = tail' - head'
  BY WindowNext, Zenon
<1>6. PICK v \in Seq(Results) : v = Window' /\ Len(v) = tail' - head'
  BY <1>5
<1>7. retentionLimit \in Nat
  <2>1. retentionLimit \in 1 .. MAX_HISTORY_SIZE
    BY Zenon DEF Store!StoreInv, Store!StoreTypeOK
  <2> QED BY <2>1, CalculatorAssumption
<1>8. /\ tail' = tail + 1
      /\ \/ tail + 1 - head <= retentionLimit /\ head' = head
         \/ tail + 1 - head > retentionLimit /\ head' = head + 1
  <2>1. Store!SaturatingSub(tail + 1, head) = tail + 1 - head
    BY <1>1 DEF Store!SaturatingSub
  <2>2. tail' = tail + 1
    BY DEF Store!Record, Store!AppendEntry
  <2>3. \/ Store!SaturatingSub(tail + 1, head) <= retentionLimit /\ head' = head
        \/ Store!SaturatingSub(tail + 1, head) > retentionLimit /\ head' = head + 1
    BY DEF Store!Record, Store!AppendEntry
  <2> QED BY <2>1, <2>2, <2>3
<1>9. v = IF Len(w) > retentionLimit THEN Tail(w) ELSE w
  <2>1. /\ Len(v) = Len(w) => v = w
        /\ Len(v) + 1 = Len(w) => v = Tail(w)
    BY <1>4, <1>6, EndIsTrim
  <2>2. CASE tail + 1 - head <= retentionLimit /\ head' = head
    <3>1. Len(v) = Len(w) /\ ~(Len(w) > retentionLimit)
      BY <1>1, <1>2, <1>6, <1>7, <1>8, <2>2
    <3> QED BY <2>1, <3>1
  <2>3. CASE tail + 1 - head > retentionLimit /\ head' = head + 1
    <3>1. Len(v) + 1 = Len(w) /\ Len(w) > retentionLimit
      BY <1>1, <1>2, <1>6, <1>7, <1>8, <2>3
    <3> QED BY <2>1, <3>1
  <2> QED BY <1>8, <2>2, <2>3
<1> QED BY <1>2, <1>6, <1>9

-----------------------------------------------------------------------------
(* Every step is one of its steps *)

\* A decision that is stored is counted by both copies alike.
LEMMA StatsCounted ==
  ASSUME NEW a \in Nat, NEW b \in Nat, NEW d \in Nat, NEW e \in Nat,
         NEW r, Signed(r), IncrementStats(r),
         a <= COUNTER_MAX, b <= COUNTER_MAX, d <= TOTAL_MAX, e <= TOTAL_MAX,
         stats = [total_calculations |-> a, total_violations |-> b, total_rewards |-> d, total_penalties |-> e]
  PROVE  OneVector!IncrementStats(r.met, r.amount, -r.amount)
<1>1. COUNTER_MAX \in Nat /\ TOTAL_MAX \in Nat
  BY CalculatorAssumption
<1>2. \A x, y, bound : OneVector!SaturatingAdd(x, y, bound) = Saturating(x, y, bound)
  BY DEF OneVector!SaturatingAdd, Saturating
<1>3. /\ stats.total_calculations = a /\ stats.total_violations = b
      /\ stats.total_rewards = d /\ stats.total_penalties = e
  OBVIOUS
<1>4. Saturating(b, 0, COUNTER_MAX) = b /\ Saturating(d, 0, TOTAL_MAX) = d /\ Saturating(e, 0, TOTAL_MAX) = e
  BY <1>1 DEF Saturating
<1>5. DOMAIN stats' = DOMAIN stats
  BY DEF IncrementStats
<1>6. CASE r.met
  <2>1. /\ stats'.total_calculations = Saturating(a, 1, COUNTER_MAX)
        /\ stats'.total_violations = Saturating(b, 0, COUNTER_MAX)
        /\ stats'.total_rewards = Saturating(d, r.amount, TOTAL_MAX)
        /\ stats'.total_penalties = Saturating(e, 0, TOTAL_MAX)
    BY <1>3, <1>6 DEF IncrementStats
  <2> QED BY <1>2, <1>3, <1>4, <1>5, <1>6, <2>1 DEF OneVector!IncrementStats, OneVector!Add
<1>7. CASE ~r.met
  <2>1. /\ stats'.total_calculations = Saturating(a, 1, COUNTER_MAX)
        /\ stats'.total_violations = Saturating(b, 1, COUNTER_MAX)
        /\ stats'.total_rewards = Saturating(d, 0, TOTAL_MAX)
        /\ stats'.total_penalties = Saturating(e, -r.amount, TOTAL_MAX)
    BY <1>3, <1>7 DEF IncrementStats
  <2> QED BY <1>2, <1>3, <1>4, <1>5, <1>7, <2>1 DEF OneVector!IncrementStats, OneVector!Add
<1> QED BY <1>6, <1>7

LEMMA SameRecord ==
  \A lane, met : Counters!RecordTelemetry(lane, met) => OneVector!Counters!RecordTelemetry(lane, met)
BY DEF Counters!RecordTelemetry, OneVector!Counters!RecordTelemetry, Counters!Bump, OneVector!Counters!Bump,
       Counters!Stale, OneVector!Counters!Stale, Counters!Capped, OneVector!Counters!Capped

LEMMA VectorStored ==
  ASSUME Inv, Inv', Counted, Moves, NEW severity, NEW r \in Results, Settle(severity, r), Signed(r)
  PROVE  OneVector!StoreDecision(severity, r) /\ UNCHANGED retentionLimit
<1>1. Store!StoreInv /\ Store!StoreInv' /\ recorded \in Seq(Results)
  BY DEF Inv, Store!Inv
<1>2. Store!Record(r)
  BY SameWrites, Zenon DEF Settle
<1>3. PICK w \in Seq(Results) : w = Append(Window, r)
                                  /\ Window' = IF Len(w) > retentionLimit THEN Tail(w) ELSE w
  BY <1>1, <1>2, AppendTrims
<1>4. [k \in 1 .. tail - head |-> entries[head + k - 1]]' = OneVector!DropOldest(Append(Window, r))
  BY <1>3 DEF OneVector!DropOldest, Window, Store!Window
<1>5. OneVector!Counters!RecordTelemetry(OneVector!LaneFor(severity), r.met)
  <2>1. Counters!RecordTelemetry(LaneOf(severity), r.met)
    BY Zenon DEF Settle, Counters!Decide
  <2> QED BY <2>1, SameRecord, SameNames, Zenon
<1>6. historyLen' = Len([k \in 1 .. tail - head |-> entries[head + k - 1]]')
  <2>1. Len(Window') = tail' - head'
    BY <1>1, WindowNext, Zenon
  <2>2. historyLen' = tail' - head'
    BY <1>1 DEF Store!StoreInv, Store!CachedLengthWithinLimit
  <2> QED BY <2>1, <2>2 DEF Window, Store!Window
<1>7. Len(recorded)' = Len(recorded) + 1
  <2>1. recorded' = Append(recorded, r)
    BY <1>2 DEF Store!Record
  <2> QED BY <1>1, <2>1, Appended
<1>8. OneVector!IncrementStats(r.met, r.amount, -r.amount)
  <2>1. PICK a \in Nat, b \in Nat, d \in Nat, e \in Nat :
          /\ a <= COUNTER_MAX /\ b <= COUNTER_MAX /\ d <= TOTAL_MAX /\ e <= TOTAL_MAX
          /\ stats = [total_calculations |-> a, total_violations |-> b, total_rewards |-> d, total_penalties |-> e]
    <3>1. PICK n \in Nat, v \in Nat, x \in Nat, y \in Nat :
            n = Len(recorded) /\ v = SumUp(ViolationsIn(recorded)) /\ x = SumUp(RewardsIn(recorded))
              /\ y = SumUp(PenaltiesIn(recorded))
      <4>1. PICK t : t = Append(recorded, r)
        OBVIOUS
      <4> QED BY <1>1, <4>1, ColumnsGrow, SMTT(30) DEF Counted
    <3>2. \A z \in Nat, bound \in Nat : AtMost(z, bound) \in Nat /\ AtMost(z, bound) <= bound
      BY DEF AtMost
    <3>3. COUNTER_MAX \in Nat /\ TOTAL_MAX \in Nat
      BY CalculatorAssumption
    <3>4. stats = [total_calculations |-> AtMost(n, COUNTER_MAX), total_violations |-> AtMost(v, COUNTER_MAX),
                   total_rewards |-> AtMost(x, TOTAL_MAX), total_penalties |-> AtMost(y, TOTAL_MAX)]
      BY <3>1, StatsAre DEF Counted
    <3> QED BY <3>2, <3>3, <3>4
  <2>2. IncrementStats(r)
    BY DEF Settle
  <2> QED BY <2>1, <2>2, StatsCounted
<1>9. UNCHANGED retentionLimit
  BY <1>2 DEF Store!Record
<1>10. [k \in 1 .. tail - head |-> entries[head + k - 1]] = Window
  BY DEF Window, Store!Window
<1> QED BY <1>4, <1>5, <1>6, <1>7, <1>8, <1>9, <1>10 DEF OneVector!StoreDecision

LEMMA CalculateImplements ==
  ASSUME Inv, Inv', Counted, Moves,
         NEW caller, NEW outage \in OutageIds, NEW severity, NEW mttr \in Mttrs,
         CalculateSla(caller, outage, severity, mttr)
  PROVE  OneVector!CalculateSla(caller, outage, severity, mttr)
<1>1. PICK c, hash, prev : c = LoadConfig(severity) /\ hash = Generation(severity)
                             /\ prev = Store!LatestForOutage(outage)
  OBVIOUS
<1>2. PICK same, result : same = SameGeneration(prev, hash, mttr, c)
                            /\ result = ComputeResult(outage, mttr, c, hash, now)
  OBVIOUS
<1>3. PICK policy, first : policy = OneVector!DuplicatePolicy(outage, hash)
                             /\ first = OneVector!PreFlight(caller, severity, mttr)
  OBVIOUS
<1>4. first = (CheckVersion ?? Require(mttr <= MAX_MTTR, "InvalidInput") ?? RequireNotPaused
                 ?? RequireOperator(caller) ?? RequireConfig(severity))
  BY <1>3, SameChecks
<1> DEFINE amount == RequireAmount(result)
           inputs == Require(same => SameInputs(prev, mttr, c), "DuplicateOutageInput")
           limit  == Require(prev = NoResult \/ same \/ Len(outageIndex[outage]) < MAX_RECALCS_PER_OUTAGE,
                             "OutageRecalcLimit")
           amount2 == OneVector!ExpectedComputeResult(mttr, c).error
           inputs2 == Require(policy # "same_config" \/ OneVector!SubmittedAgain(outage, mttr, c),
                              "DuplicateOutageInput")
           limit2  == Require(policy = "different_config" => ~OneVector!ExceedsRecalcCap(outage), "OutageRecalcLimit")
<1>5. /\ Answer("calculate_sla", caller, first ?? amount ?? inputs ?? limit)
      /\ \/ ~Granted /\ UNCHANGED settledVars
         \/ Granted /\ same /\ Replay(severity, prev)
         \/ Granted /\ ~same /\ Settle(severity, result)
      /\ UNCHANGED << roleVars, guardVars, configVars, writes >>
  BY <1>1, <1>2, <1>4, SameReads DEF CalculateSla
<1>6. (first ?? amount ?? inputs ?? limit) = (first ?? amount2 ?? inputs2 ?? limit2)
  BY <1>1, <1>2, <1>3, SameAnswer
<1>7. /\ reply'.call = "calculate_sla" /\ reply'.caller = caller /\ now' = now
      /\ UNCHANGED << roleVars, guardVars, configVars >>
  BY <1>5 DEF Answer
<1>8. reply' = [call |-> "calculate_sla", caller |-> caller, status |-> first ?? amount2 ?? inputs2 ?? limit2]
  BY <1>5, <1>6 DEF Answer
<1>9. policy = "same_config" <=> same
  BY <1>1, <1>2, <1>3, PolicyAgrees DEF Inv, Store!Inv
<1> HIDE DEF amount, inputs, limit
<1>10. /\ UNCHANGED retentionLimit
       /\ \/ (~Granted \/ policy = "same_config") /\ UNCHANGED << OneVector!historyVars, OneVector!laneVars, stats >>
          \/ /\ Granted /\ policy # "same_config"
             /\ OneVector!StoreDecision(severity, result) /\ OneVector!ComputeResult(outage, mttr, c, hash, now) = result
  <2>1. CASE UNCHANGED settledVars /\ (~Granted \/ same)
    BY <1>9, <2>1 DEF settledVars, historyVars, telemetryVars, OneVector!historyVars, OneVector!laneVars
  <2>2. CASE Granted /\ ~same /\ Settle(severity, result)
    <3>0. /\ prev = History!LatestForOutage(outage) /\ same = SameGeneration(prev, Generation(severity), mttr, c)
          /\ result = ComputeResult(outage, mttr, c, Generation(severity), now)
      BY <1>1, <1>2, SameReads, Zenon
    <3>1. severity \in Canonical \cup DOMAIN custom /\ RequireAmount(result) = Ok
      BY <1>1, <2>2, <3>0, ChecksPassed, Zenon
    <3>2. c \in Configurations /\ 0 < c.threshold /\ now \in 1 .. MaxLedger
      BY <1>1, <3>1 DEF Inv, Known, LoadConfig
    <3>3. result \in Results
      <4>1. hash = ConfigHash(<< c >>)
        BY <1>1 DEF Generation, SeverityConfigHash
      <4> QED BY <1>2, <3>2, <4>1, DecisionAssumption
    <3>4. Signed(result)
      BY <1>2, <3>1, <3>2, AmountsSigned
    <3>5. OneVector!StoreDecision(severity, result) /\ UNCHANGED retentionLimit
      BY <2>2, <3>3, <3>4, VectorStored
    <3>6. OneVector!ComputeResult(outage, mttr, c, hash, now) = result
      BY <1>2, <3>2, ComputeAgrees
    <3>7. policy # "same_config"
      BY <1>9, <2>2
    <3> QED BY <2>2, <3>5, <3>6, <3>7, Zenon
  <2> QED BY <1>5, <2>1, <2>2 DEF Replay
<1>11. OneVector!LoadConfig(severity) = c /\ OneVector!SeverityConfigHash(severity) = hash
  BY <1>1, SameNames
<1>12. OneVector!Granted <=> Granted
  BY SameNames
<1> QED
  <2>1. /\ inputs2 = OneVector!Require(policy # "same_config" \/ OneVector!SubmittedAgain(outage, mttr, c),
                                      "DuplicateOutageInput")
        /\ limit2 = OneVector!Require(policy = "different_config" => ~OneVector!ExceedsRecalcCap(outage),
                                     "OutageRecalcLimit")
    BY SameNames, Zenon
  <2> HIDE DEF amount2, inputs2, limit2
  <2>2. UNCHANGED << OneVector!roleVars, OneVector!guardVars, OneVector!configVars, retentionLimit >>
    BY <1>7, <1>10 DEF OneVector!roleVars, OneVector!guardVars, OneVector!configVars, roleVars, guardVars, configVars
  <2> DEFINE k == OneVector!LoadConfig(severity)
             h == OneVector!SeverityConfigHash(severity)
             p == OneVector!DuplicatePolicy(outage, h)
             d == OneVector!ComputeResult(outage, mttr, k, h, now)
  <2>3. p = policy
    BY <1>3, <1>11
  <2>4. OneVector!StoreDecision(severity, result) /\ OneVector!ComputeResult(outage, mttr, c, hash, now) = result
          => OneVector!StoreDecision(severity, d)
    <3>1. OneVector!ComputeResult(outage, mttr, c, hash, now) = d
      BY <1>11
    <3> HIDE DEF d
    <3> QED BY <3>1 DEF OneVector!StoreDecision, OneVector!Counters!RecordTelemetry, OneVector!IncrementStats,
                        OneVector!Add
  <2>5. \/ (~OneVector!Granted \/ ~(p # "same_config"))
             /\ UNCHANGED << OneVector!historyVars, OneVector!laneVars, stats >>
        \/ OneVector!Granted /\ p # "same_config" /\ OneVector!StoreDecision(severity, d)
    <3> HIDE DEF p, d
    <3> QED BY <1>10, <1>12, <2>3, <2>4, Zenon
  <2>6. OneVector!Answer("calculate_sla", caller, first ?? amount2 ?? inputs2 ?? limit2)
    BY <1>7, <1>8 DEF OneVector!Answer
  <2> QED BY <1>3, <1>7, <1>11, <2>1, <2>2, <2>3, <2>5, <2>6
          DEF OneVector!CalculateSla, OneVector!Answer, OneVector!??, ??, OneVector!Ok, Ok, amount2

LEMMA OtherImplements ==
  ASSUME Inv, Inv', Moves, reply'.call # "calculate_sla", now' = now,
         UNCHANGED << telemetryVars, stats, recorded >>
  PROVE  OneVector!OtherCall
<1>1. /\ Store!StoreInv /\ Store!StoreInv' /\ recorded \in Seq(Results)
      /\ Window \in Seq(Results) /\ Window' \in Seq(Results) /\ Len(Window') = tail' - head'
  BY WindowIs, WindowNext, Zenon DEF Inv, Store!Inv
<1>2. Ends(Window', Window)
  <2>1. ASSUME NEW r \in Results
        PROVE  Append(recorded, r) # recorded
    <3>1. Len(Append(recorded, r)) = Len(recorded) + 1 /\ Len(recorded) \in Nat
      BY <1>1, Appended
    <3> QED BY <3>1
  <2> QED BY <2>1 DEF Moves
<1>3. PICK w \in Seq(Results), v \in Seq(Results) : w = Window /\ v = Window'
  BY <1>1
<1>4. Len(v) \in 0 .. Len(w) /\ v = SubSeq(w, Len(w) - Len(v) + 1, Len(w))
  BY <1>2, <1>3, EndIsTrim
<1>5. historyLen' = Len(v)
  BY <1>1, <1>3 DEF Store!StoreInv, Store!CachedLengthWithinLimit
<1>6. /\ [k \in 1 .. tail - head |-> entries[head + k - 1]] = w
      /\ [k \in 1 .. tail - head |-> entries[head + k - 1]]' = v
  BY <1>3 DEF Window, Store!Window
<1>7. OneVector!TrimHistory(Len(v))
  BY <1>4, <1>5, <1>6 DEF OneVector!TrimHistory
<1> QED BY <1>4, <1>6, <1>7 DEF OneVector!OtherCall, OneVector!laneVars, telemetryVars

\* Every other call answers under its own name and decides nothing.
LEMMA OtherCalls ==
  ASSUME Next
  PROVE  \/ \E caller \in Addresses, outage \in OutageIds, severity \in Severities, mttr \in Mttrs :
              CalculateSla(caller, outage, severity, mttr)
         \/ reply'.call # "calculate_sla" /\ now' = now /\ UNCHANGED << telemetryVars, stats, recorded >>
         \/ NewLedger
<1> DEFINE Other == reply'.call # "calculate_sla" /\ now' = now /\ UNCHANGED << telemetryVars, stats, recorded >>
<1>1. ASSUME NEW caller, NEW severity, NEW c, Configure(caller, severity, c)
      PROVE  Other
  BY <1>1 DEF Configure, SetConfig, SetCustomSeverity, Answer, Configured, settledVars, historyVars
<1>2. ASSUME NEW caller, NEW severity, Unregister(caller, severity)
      PROVE  Other
  BY <1>2 DEF Unregister, RemoveCustomSeverity, Answer, Configured, settledVars, historyVars
<1>3. ASSUME NEW caller, NEW n, PruneHistory(caller, n) \/ PruneHistoryByAge(caller, n) \/ SetRetentionLimit(caller, n)
      PROVE  Other
  BY <1>3 DEF PruneHistory, PruneHistoryByAge, SetRetentionLimit, Answer, KeepingRest, historyVars,
              History!PruneHistory, History!PruneHistoryByAge, History!SetRetentionLimit
<1>4. ASSUME NEW caller, NEW fits, Pause(caller, fits) \/ Unpause(caller)
      PROVE  Other
  BY <1>4 DEF Pause, Unpause, Answer, settledVars, historyVars
<1> HIDE DEF Other
<1>5. \/ \E caller \in Addresses, outage \in OutageIds, severity \in Severities, mttr \in Mttrs :
           CalculateSla(caller, outage, severity, mttr)
      \/ Other
      \/ NewLedger
  BY <1>1, <1>2, <1>3, <1>4, Zenon DEF Next
<1> QED BY <1>5, Zenon DEF Other

LEMMA StepIsBaseline ==
  ASSUME Inv, Inv', Counted, [Next]_vars
  PROVE  [OneVector!Next]_(OneVector!vars)
<1>1. Moves
  BY StoreStep, WindowMoves DEF Inv, Store!Inv
<1>2. CASE UNCHANGED vars
  BY <1>2 DEF vars, settledVars, historyVars, telemetryVars, roleVars, guardVars, configVars, OneVector!vars,
              OneVector!roleVars, OneVector!guardVars, OneVector!configVars, OneVector!historyVars, OneVector!laneVars
<1>3. ASSUME NEW caller \in Addresses, NEW outage \in OutageIds, NEW severity \in Severities, NEW mttr \in Mttrs,
             CalculateSla(caller, outage, severity, mttr)
      PROVE  OneVector!Next
  <2>1. OneVector!CalculateSla(caller, outage, severity, mttr)
    BY <1>1, <1>3, CalculateImplements
  <2> QED BY <2>1, Zenon DEF OneVector!Next
<1>4. CASE reply'.call # "calculate_sla" /\ now' = now /\ UNCHANGED << telemetryVars, stats, recorded >>
  BY <1>1, <1>4, OtherImplements DEF OneVector!Next
<1>5. CASE NewLedger
  <2>1. OneVector!NewLedger
    BY <1>5 DEF NewLedger, CloseLedger, settledVars, historyVars, telemetryVars, roleVars, guardVars, configVars,
                OneVector!NewLedger, OneVector!CloseLedger, OneVector!roleVars, OneVector!guardVars,
                OneVector!configVars, OneVector!historyVars, OneVector!laneVars
  <2> QED BY <2>1 DEF OneVector!Next
<1> QED BY <1>2, <1>3, <1>4, <1>5, OtherCalls, Zenon

LEMMA InitIsBaseline == Init => OneVector!Init
<1> SUFFICES ASSUME Init PROVE OneVector!Init
  OBVIOUS
<1>1. head = 0 /\ tail = 0 /\ historyLen = 0 /\ recorded = << >> /\ retentionLimit = MAX_HISTORY_SIZE /\ stats = ZeroStats
  BY DEF Init, History!HistoryInit
<1>2. [k \in 1 .. tail - head |-> entries[head + k - 1]] = << >>
  BY <1>1
<1>3. Len(recorded) = 0
  BY <1>1
<1>4. OneVector!Counters!TelemetryInit
  BY DEF Init, Counters!TelemetryInit, OneVector!Counters!TelemetryInit, Counters!NoCounts, OneVector!Counters!NoCounts
<1> QED BY <1>1, <1>2, <1>3, <1>4 DEF OneVector!Init, ZeroStats

(***************************************************************************)
(* The sharded settlement implements the delegated one it replaced: every  *)
(* calculate_sla of lib.rs is a calculate_sla of calculation.rs, with the  *)
(* same answer, statistics and telemetry, over the one vector the shards   *)
(* stand for, and no other call does more to it than drop its oldest rows. *)
(***************************************************************************)
THEOREM ContractImplementsCalculation == Spec => ImplementsCalculation
<1>1. (Inv /\ Counted) /\ (Inv /\ Counted)' /\ [Next]_vars => [OneVector!Next]_(OneVector!vars)
  BY StepIsBaseline
<1> QED BY <1>1, InitIsBaseline, CountedAlways, PTL DEF Spec, ImplementsCalculation, OneVector!Spec

-----------------------------------------------------------------------------
(* The views *)

LEMMA LatestIsRetained ==
  ASSUME Inv, NEW outage \in OutageIds, Store!LatestForOutage(outage) # NoResult
  PROVE  \E i \in Retained :
           /\ Store!LatestForOutage(outage) = entries[i]
           /\ entries[i].outage_id = outage
           /\ Priced(entries[i])
<1>1. Store!StoreInv /\ AllPriced(Window)
  BY DEF Inv, Store!Inv
<1>2. PICK x \in Seq(Nat) : x = outageIndex[outage]
  BY <1>1, IndexListsPlaces
<1>3. x # << >> /\ Store!LatestForOutage(outage) = entries[x[Len(x)]]
  BY <1>2 DEF Store!LatestForOutage, Store!LastOf
<1>4. PICK l \in 1 .. Len(x) : l = Len(x)
  <2>1. Len(x) \in Nat /\ Len(x) # 0
    BY <1>3
  <2> QED BY <2>1
<1>5. PICK i \in Nat : i = x[l]
  OBVIOUS
<1>6. i \in head .. tail - 1 /\ i - head + 1 \in Places(Window, outage) /\ Window[i - head + 1] = entries[i]
  BY <1>1, <1>2, <1>4, <1>5, IndexListsPlaces
<1>7. entries[i].outage_id = outage /\ Priced(entries[i])
  BY <1>1, <1>6 DEF Places, AllPriced
<1> QED BY <1>3, <1>4, <1>5, <1>6, <1>7 DEF Retained

\* The amount check of a signed decision passes.
LEMMA SignedPasses ==
  ASSUME NEW r, Signed(r)
  PROVE  RequireAmount(r) = Ok
<1>1. CASE r.met
  BY <1>1 DEF Signed, RequireAmount, Require
<1>2. CASE ~r.met
  BY <1>2 DEF Signed, RequireAmount, Require
<1> QED BY <1>1, <1>2 DEF Signed

\* What a view or a replay computes is what the executable specification wants.
LEMMA ComputedMatches ==
  ASSUME NEW c \in Configurations, 0 < c.threshold, NEW mttr \in Mttrs, NEW outage, NEW hash, NEW at,
         NEW r, r = ComputeResult(outage, mttr, c, hash, at), RequireAmount(r) = Ok
  PROVE  ComputeMatchesSpec(r, Ok, outage, mttr, c, hash, r.recorded_at)
<1>1. PICK e : e = ExpectedComputeResult(mttr, c)
  OBVIOUS
<1>2. /\ e.error = Ok /\ e.amount = Amount(mttr, c)
      /\ e.status = IF mttr <= c.threshold THEN "met" ELSE "viol"
      /\ mttr <= c.threshold => e.payment_type = "rew" /\ e.rating \in { "top", "excel", "good" }
      /\ mttr > c.threshold => e.payment_type = "pen" /\ e.rating = "poor"
  BY <1>1, ComputeAgrees
<1>3. /\ r.met = (mttr <= c.threshold) /\ r.amount = Amount(mttr, c) /\ r.outage_id = outage
      /\ r.mttr_minutes = mttr /\ r.threshold_minutes = c.threshold /\ r.config_version_hash = hash
  BY DEF ComputeResult
<1>4. Signed(r)
  BY AmountsSigned
<1>5. mttr \in Nat /\ c.threshold \in Nat
  BY AmountIsInt, CalculatorAssumption
<1>6. CASE mttr <= c.threshold
  <2>1. r.met /\ e.amount > 0 /\ e.status = "met"
    <3>1. r.met
      BY <1>3, <1>6, Zenon
    <3> QED BY <1>2, <1>3, <1>4, <1>6, <3>1 DEF Signed
  <2>2. SettlementShaped(e, mttr, c)
    BY <1>2, <1>6, <2>1 DEF SettlementShaped
  <2>3. r.met = (e.status = "met")
    BY <1>3, <1>6, <2>1
  <2> QED BY <1>1, <1>2, <1>3, <2>2, <2>3 DEF ComputeMatchesSpec, Ok
<1>7. CASE mttr > c.threshold
  <2>0. ~(mttr <= c.threshold)
    BY <1>5, <1>7
  <2>1. ~r.met /\ e.amount < 0 /\ e.status = "viol"
    <3>1. ~r.met
      BY <1>3, <2>0, Zenon
    <3> QED BY <1>2, <1>3, <1>4, <2>0, <3>1 DEF Signed
  <2>2. SettlementShaped(e, mttr, c)
    BY <1>2, <1>7, <2>1 DEF SettlementShaped
  <2>3. r.met = (e.status = "met")
    <3>1. e.status # "met"
      BY <2>1
    <3>2. \A x, y : x \in BOOLEAN /\ ~x /\ ~y /\ y \in BOOLEAN => x = y
      OBVIOUS
    <3>3. r.met \in BOOLEAN /\ ~r.met
      BY <1>4, <2>1 DEF Signed
    <3>4. (e.status = "met") \in BOOLEAN /\ ~(e.status = "met")
      BY <3>1, Zenon
    <3> QED BY <3>2, <3>3, <3>4, Zenon
  <2> QED BY <1>1, <1>2, <1>3, <2>2, <2>3 DEF ComputeMatchesSpec, Ok
<1> QED BY <1>5, <1>6, <1>7

\* The view of lib.rs and the one of calculation.rs.
LEMMA SameView ==
  ASSUME Inv, NEW outage \in OutageIds, NEW severity, NEW mttr \in Mttrs
  PROVE  CalculateSlaView(outage, severity, mttr) = OneVector!CalculateSlaView(outage, severity, mttr)
<1>1. PICK c, hash, prev : c = LoadConfig(severity) /\ hash = Generation(severity)
                             /\ prev = Store!LatestForOutage(outage)
  OBVIOUS
<1>2. PICK same, result, policy :
        /\ same = SameGeneration(prev, hash, mttr, c) /\ result = ComputeResult(outage, mttr, c, hash, now)
        /\ policy = OneVector!DuplicatePolicy(outage, hash)
  OBVIOUS
<1>3. PICK first : first = (CheckVersion ?? Require(mttr <= MAX_MTTR, "InvalidInput") ?? RequireConfig(severity))
  OBVIOUS
<1> DEFINE inputs  == Require(same => SameInputs(prev, mttr, c), "DuplicateOutageInput")
           inputs2 == Require(policy = "same_config" => OneVector!SubmittedAgain(outage, mttr, c),
                              "DuplicateOutageInput")
           amount  == IF same THEN Ok ELSE RequireAmount(result)
           amount2 == IF policy = "same_config" THEN Ok ELSE OneVector!ExpectedComputeResult(mttr, c).error
           error   == first ?? inputs ?? amount
           error2  == first ?? inputs2 ?? amount2
           stored  == OneVector!LastOf(OneVector!StoredFor(outage))
           fresh2  == OneVector!ComputeResult(outage, mttr, c, hash, now)
<1>4. CalculateSlaView(outage, severity, mttr) =
        [error |-> error, result |-> IF error # Ok THEN << >> ELSE IF same THEN prev ELSE result]
  BY <1>1, <1>2, <1>3, SameReads DEF CalculateSlaView
<1>5. OneVector!CalculateSlaView(outage, severity, mttr) =
        [error |-> error2, result |-> IF error2 # Ok THEN << >>
                                      ELSE IF policy = "same_config" THEN stored ELSE fresh2]
  <2>1. first = OneVector!??(OneVector!??(OneVector!CheckVersion, OneVector!Require(mttr <= MAX_MTTR, "InvalidInput")),
                             OneVector!RequireConfig(severity))
    BY <1>3 DEF OneVector!CheckVersion, CheckVersion, OneVector!??, ??, OneVector!Require, Require,
                OneVector!RequireConfig, RequireConfig, OneVector!Ok, Ok, OneVector!STORAGE_VERSION, STORAGE_VERSION,
                OneVector!Canonical, Canonical, OneVector!CanonicalSeverities, CanonicalSeverities,
                OneVector!Elements, Elements
  <2>2. OneVector!LoadConfig(severity) = c /\ OneVector!SeverityConfigHash(severity) = hash
    BY <1>1, SameNames
  <2>3. inputs2 = OneVector!Require(policy = "same_config" => OneVector!SubmittedAgain(outage, mttr, c),
                                    "DuplicateOutageInput")
    BY SameNames, Zenon
  <2>4. amount2 = IF policy = "same_config" THEN OneVector!Ok ELSE OneVector!ExpectedComputeResult(mttr, c).error
    BY SameNames
  <2>5. OneVector!??(OneVector!??(first, inputs2), amount2) = error2
    BY DEF OneVector!??, ??, OneVector!Ok, Ok
  <2> HIDE DEF inputs2, amount2, stored, fresh2, error2
  <2>6. OneVector!CalculateSlaView(outage, severity, mttr) =
          [error |-> error2, result |-> CASE error2 # Ok -> << >>
                                          [] error2 = Ok /\ policy = "same_config" -> stored
                                          [] error2 = Ok /\ policy # "same_config" -> fresh2]
    BY <1>2, <2>1, <2>2, <2>3, <2>4, <2>5, SameNames DEF OneVector!CalculateSlaView, stored, fresh2
  <2> QED BY <2>6
<1>6. /\ same \in BOOLEAN
      /\ policy = "same_config" <=> same
      /\ same => stored = prev
      /\ same => (OneVector!SubmittedAgain(outage, mttr, c) <=> SameInputs(prev, mttr, c))
  BY <1>1, <1>2, PolicyAgrees DEF Inv, Store!Inv
<1>7. inputs = inputs2
  <2>1. (same => SameInputs(prev, mttr, c)) <=> (policy = "same_config" => OneVector!SubmittedAgain(outage, mttr, c))
    BY <1>6, Zenon
  <2> QED BY <2>1, Zenon DEF Require
<1>8. CASE first # Ok
  <2> HIDE DEF inputs, inputs2, amount, amount2
  <2>1. error = first /\ error2 = first
    BY <1>8, ChainStops
  <2> HIDE DEF error, error2
  <2> QED BY <1>4, <1>5, <1>8, <2>1
<1>9. CASE first = Ok
  <2>1. severity \in Canonical \cup DOMAIN custom
    <3>1. (CheckVersion ?? Require(mttr <= MAX_MTTR, "InvalidInput") ?? RequireConfig(severity)) = Ok
      BY <1>3, <1>9
    <3>2. RequireConfig(severity) = Ok
      BY <3>1, ChainOk, Zenon
    <3> QED BY <3>2, Zenon DEF RequireConfig, Require, Ok
  <2>2. c \in Configurations /\ 0 < c.threshold
    BY <1>1, <2>1 DEF Inv, Known, LoadConfig
  <2>3. RequireAmount(result) = OneVector!ExpectedComputeResult(mttr, c).error /\ fresh2 = result
    BY <1>2, <2>2, ComputeAgrees
  <2>4. amount = amount2
    <3>1. CASE same
      BY <1>6, <3>1
    <3>2. CASE ~same
      BY <1>6, <2>3, <3>2
    <3> QED BY <3>1, <3>2
  <2> HIDE DEF inputs, inputs2, amount, amount2, stored, fresh2
  <2>5. error = error2
    BY <1>7, <2>4
  <2> HIDE DEF error, error2
  <2>6. (IF same THEN prev ELSE result) = (IF policy = "same_config" THEN stored ELSE fresh2)
    <3>1. CASE same
      BY <1>6, <3>1
    <3>2. CASE ~same
      BY <1>6, <2>3, <3>2
    <3> QED BY <3>1, <3>2
  <2> QED BY <1>4, <1>5, <2>5, <2>6
<1> QED BY <1>8, <1>9

\* One decision as the two views tell it.
LEMMA ViewTells ==
  ASSUME NoCollisions, Inv, NEW outage \in OutageIds, NEW severity \in Severities, NEW mttr \in Mttrs,
         NEW shown, shown = CalculateSlaView(outage, severity, mttr),
         NEW at, at = (IF shown.error = Ok THEN shown.result.recorded_at ELSE now),
         NEW replay, replay = ReplayCalculateSla(outage, severity, mttr, at)
  PROVE  /\ shown = OneVector!CalculateSlaView(outage, severity, mttr)
         /\ shown.error = Ok => shown = replay
         /\ replay.error = Ok =>
              ComputeMatchesSpec(replay.result, Ok, outage, mttr, LoadConfig(severity),
                                 Generation(severity), replay.result.recorded_at)
<1>1. PICK c, hash, prev : c = LoadConfig(severity) /\ hash = Generation(severity)
                             /\ prev = Store!LatestForOutage(outage)
  OBVIOUS
<1>2. PICK same, result, fresh :
        /\ same = SameGeneration(prev, hash, mttr, c) /\ result = ComputeResult(outage, mttr, c, hash, now)
        /\ fresh = ComputeResult(outage, mttr, c, hash, at)
  OBVIOUS
<1>3. PICK first : first = (CheckVersion ?? Require(mttr <= MAX_MTTR, "InvalidInput") ?? RequireConfig(severity))
  OBVIOUS
<1> DEFINE inputs == Require(same => SameInputs(prev, mttr, c), "DuplicateOutageInput")
           amount == IF same THEN Ok ELSE RequireAmount(result)
           error  == first ?? inputs ?? amount
           checked == first ?? RequireAmount(fresh)
<1>4. shown = [error |-> error, result |-> IF error # Ok THEN << >> ELSE IF same THEN prev ELSE result]
  BY <1>1, <1>2, <1>3, SameReads DEF CalculateSlaView
<1>5. replay = [error |-> checked, result |-> IF checked # Ok THEN << >> ELSE fresh]
  BY <1>1, <1>2, <1>3 DEF ReplayCalculateSla
<1>6. ASSUME first = Ok
      PROVE  severity \in Canonical \cup DOMAIN custom /\ c \in Configurations /\ 0 < c.threshold
  <2>1. (CheckVersion ?? Require(mttr <= MAX_MTTR, "InvalidInput") ?? RequireConfig(severity)) = Ok
    BY <1>3, <1>6
  <2>2. RequireConfig(severity) = Ok
    BY <2>1, ChainOk, Zenon
  <2>3. severity \in Canonical \cup DOMAIN custom
    BY <2>2, Zenon DEF RequireConfig, Require, Ok
  <2> QED BY <1>1, <2>3 DEF Inv, Known, LoadConfig
<1>7. ASSUME shown.error = Ok
      PROVE  shown = replay
  <2> HIDE DEF inputs, amount
  <2>1. error = Ok
    BY <1>4, <1>7
  <2>2. (first ?? inputs) = Ok /\ amount = Ok
    BY <2>1, ChainOk, Zenon
  <2>3. first = Ok /\ inputs = Ok
    BY <2>2, ChainOk, Zenon
  <2> HIDE DEF error
  <2>4. CASE same
    <3>1. shown.result = prev
      BY <1>4, <2>1, <2>4
    <3>2. prev # NoResult /\ prev.config_version_hash = hash
      BY <1>2, <2>4 DEF SameGeneration
    <3>3. PICK i \in Retained : prev = entries[i] /\ prev.outage_id = outage /\ Priced(prev)
      BY <1>1, <3>2, LatestIsRetained
    <3>4. same => SameInputs(prev, mttr, c)
      BY <2>3, Checked DEF inputs, Ok
    <3>5. prev.mttr_minutes = mttr
      BY <2>4, <3>4 DEF SameInputs
    <3>6. at = prev.recorded_at
      BY <1>7, <3>1
    <3>7. prev = fresh
      <4>1. entries[i] = ComputeResult(entries[i].outage_id, entries[i].mttr_minutes, LoadConfig(severity),
                                       entries[i].config_version_hash, entries[i].recorded_at)
        BY <1>1, <1>6, <2>3, <3>2, <3>3, InvReproducible DEF StoredDecisionReproducible
      <4> QED BY <1>1, <1>2, <3>2, <3>3, <3>5, <3>6, <4>1
    <3>8. RequireAmount(fresh) = Ok
      BY <3>3, <3>7, SignedPasses DEF Priced
    <3>9. checked = Ok
      BY <2>3, <3>8, ChainOk
    <3> HIDE DEF checked
    <3> QED BY <1>4, <1>5, <2>1, <2>4, <3>7, <3>9
  <2>5. CASE ~same
    <3>1. shown.result = result
      BY <1>4, <2>1, <2>5
    <3>2. at = now
      BY <1>2, <1>7, <3>1 DEF ComputeResult
    <3>3. fresh = result
      BY <1>2, <3>2
    <3>4. RequireAmount(fresh) = Ok
      BY <2>2, <2>5, <3>3 DEF amount
    <3>5. checked = Ok
      BY <2>3, <3>4, ChainOk
    <3> HIDE DEF checked
    <3> QED BY <1>4, <1>5, <2>1, <2>5, <3>3, <3>5
  <2> QED BY <2>4, <2>5
<1>8. ASSUME replay.error = Ok
      PROVE  ComputeMatchesSpec(replay.result, Ok, outage, mttr, LoadConfig(severity), Generation(severity),
                                replay.result.recorded_at)
  <2>1. checked = Ok
    BY <1>5, <1>8
  <2>2. first = Ok /\ RequireAmount(fresh) = Ok
    BY <2>1, ChainOk, Zenon
  <2> HIDE DEF checked
  <2>3. replay.result = fresh
    BY <1>5, <2>1
  <2>4. ComputeMatchesSpec(fresh, Ok, outage, mttr, c, hash, fresh.recorded_at)
    BY <1>2, <1>6, <2>2, ComputedMatches
  <2> QED BY <1>1, <2>3, <2>4
<1>9. shown = OneVector!CalculateSlaView(outage, severity, mttr)
  BY SameView
<1> QED BY <1>7, <1>8, <1>9

LEMMA InvViews == NoCollisions /\ Inv => ViewsTellDecision
<1> SUFFICES ASSUME NoCollisions, Inv, NEW outage \in OutageIds, NEW severity \in Severities, NEW mttr \in Mttrs
             PROVE  LET shown   == CalculateSlaView(outage, severity, mttr)
                        replay == ReplayCalculateSla(outage, severity, mttr,
                                    IF shown.error = Ok THEN shown.result.recorded_at ELSE now)
                    IN  /\ shown = OneVector!CalculateSlaView(outage, severity, mttr)
                        /\ shown.error = Ok => shown = replay
                        /\ replay.error = Ok =>
                             ComputeMatchesSpec(replay.result, Ok, outage, mttr, LoadConfig(severity),
                                                Generation(severity), replay.result.recorded_at)
  BY DEF ViewsTellDecision
<1>1. PICK shown : shown = CalculateSlaView(outage, severity, mttr)
  OBVIOUS
<1>2. PICK at : at = (IF shown.error = Ok THEN shown.result.recorded_at ELSE now)
  OBVIOUS
<1>3. PICK replay : replay = ReplayCalculateSla(outage, severity, mttr, at)
  OBVIOUS
<1>4. /\ shown = OneVector!CalculateSlaView(outage, severity, mttr)
      /\ shown.error = Ok => shown = replay
      /\ replay.error = Ok =>
           ComputeMatchesSpec(replay.result, Ok, outage, mttr, LoadConfig(severity),
                              Generation(severity), replay.result.recorded_at)
  BY <1>1, <1>2, <1>3, ViewTells
<1> QED BY <1>1, <1>2, <1>3, <1>4

(***************************************************************************)
(* What the two views say of a decision is what calculate_sla settles, and *)
(* what spec.rs expects: the view of lib.rs and the one of calculation.rs  *)
(* answer alike, the replay of a decision at the time it was recorded      *)
(* gives it back, and what a replay computes is what the executable        *)
(* specification wants.                                                    *)
(***************************************************************************)
THEOREM ViewsAlwaysTellDecision ==
  ASSUME NoCollisions
  PROVE  Spec => []ViewsTellDecision
<1>1. Inv => ViewsTellDecision
  BY InvViews
<1> QED BY <1>1, InvAlways, PTL
=============================================================================
