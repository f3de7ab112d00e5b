----------------------------- MODULE HistoryStore -----------------------------
(***************************************************************************)
(* The sharded (storage v3) decision history: history.rs and the bodies of *)
(* its callers in lib.rs.                                                  *)
(*                                                                         *)
(* Each decision has a key of its own, (HIST_ENTRY_KEY, index); each       *)
(* outage has a vector of the indices of its entries, (HIST_INDEX_KEY,     *)
(* outage_id); HIST_HEAD_KEY and HIST_TAIL_KEY delimit the retained range  *)
(* [head, tail) and HISTORY_LEN_KEY caches its length.  Four operations    *)
(* write these five pieces of storage and each must keep them consistent   *)
(* by hand: nothing but their code ties them together.                     *)
(*                                                                         *)
(* The module is a storage layer, as history.rs is: who may call what is   *)
(* the business of the modules that extend it.  Here the callers are       *)
(* unconstrained, so what holds here holds however the contract is used.   *)
(***************************************************************************)
EXTENDS HostClock, Sequences, VecOps

CONSTANTS
  OutageIds,
  Results,            \* records with (at least) fields outage_id, recorded_at
  NoResult,           \* Option::None of a lookup
  MAX_HISTORY_SIZE,
  MaxRecorded         \* bound on the number of decisions, in Record's guard

ASSUME HistoryAssumption ==
  /\ MAX_HISTORY_SIZE \in Nat \ {0}
  /\ MaxRecorded \in Nat
  /\ \A r \in Results : r.outage_id \in OutageIds /\ r.recorded_at \in Nat
  /\ NoResult \notin Results

VARIABLES
  entries,            \* index -> decision; its domain is the set of live keys
  outageIndex,        \* outage -> Vec of indices; an absent key reads as empty
  head, tail,
  historyLen,         \* the cached HISTORY_LEN_KEY
  retentionLimit,     \* RETENTION_LIMIT_KEY, MAX_HISTORY_SIZE until it is set
  recorded            \* history variable: every decision ever appended, which
                      \* is what the sla_calc / set_int event stream shows

historyVars == << entries, outageIndex, head, tail, historyLen >>
storeVars   == << historyVars, retentionLimit, recorded >>

-----------------------------------------------------------------------------
(* Reads *)

\* Mutant: the entries come back newest first.
ReadSlotsNewestFirst(slots) ==
  LET present == Keep(slots, DOMAIN entries)
  IN  [k \in 1 .. Len(present) |-> entries[present[Len(present) + 1 - k]]]

\* Entries stored at the indices of `slots`; a missing slot is skipped.
ReadSlots(slots) ==
  LET present == Keep(slots, DOMAIN entries)
  IN  [k \in 1 .. Len(present) |-> entries[present[k]]]

ReadRange(start, count) == ReadSlots(Run(start, count))

ReadAllEntries == ReadRange(head, SaturatingSub(tail, head))

EntriesForOutage(o) == ReadSlots(outageIndex[o])

\* Mutant: the first index of the outage is read, not the last.
OldestForOutage(o) ==
  IF outageIndex[o] # << >> /\ outageIndex[o][1] \in DOMAIN entries
  THEN entries[outageIndex[o][1]]
  ELSE NoResult

LatestForOutage(o) ==
  IF outageIndex[o] # << >> /\ LastOf(outageIndex[o]) \in DOMAIN entries
  THEN entries[LastOf(outageIndex[o])]
  ELSE NoResult

-----------------------------------------------------------------------------
(* Writes *)

Without(f, gone) == [i \in DOMAIN f \ gone |-> f[i]]

\* Mutant: the dropped entry's sub-key is not removed.
AppendEntryLeaksSubKey(entry, limit, indices) ==
  LET indexed == [outageIndex EXCEPT ![entry.outage_id] = Append(indices, tail)]
      full    == SaturatingSub(tail + 1, head) > limit
  IN  /\ entries' = [i \in DOMAIN entries \cup {tail} |-> IF i = tail THEN entry ELSE entries[i]]
      /\ outageIndex' = IF full THEN [indexed EXCEPT ![entries'[head].outage_id] = Keep(@, Nat \ {head})]
                                ELSE indexed
      /\ tail' = tail + 1
      /\ head' = IF full THEN head + 1 ELSE head
      /\ historyLen' = SaturatingSub(tail', head')

\* append_entry.  `indices` is the index vector the caller read beforehand.
AppendEntry(entry, limit, indices) ==
  LET written == [i \in DOMAIN entries \cup {tail} |-> IF i = tail THEN entry ELSE entries[i]]
      indexed == [outageIndex EXCEPT ![entry.outage_id] = Append(indices, tail)]
  IN  /\ tail' = tail + 1
      /\ \/ /\ SaturatingSub(tail + 1, head) <= limit
            /\ entries' = written
            /\ outageIndex' = indexed
            /\ head' = head
         \/ /\ SaturatingSub(tail + 1, head) > limit
            /\ entries' = Without(written, {head})
            /\ outageIndex' = IF head \in DOMAIN written
                              THEN [indexed EXCEPT ![written[head].outage_id] = Keep(@, Nat \ {head})]
                              ELSE indexed
            /\ head' = head + 1
      /\ historyLen' = SaturatingSub(tail', head')

\* Mutant: an index at keptFrom itself is dropped (v > kept_from).
PruneOldestOffByOne(keepCount) ==
  /\ keepCount < SaturatingSub(tail, head)
  /\ LET keptFrom == SaturatingSub(tail, keepCount)
     IN  /\ entries' = Without(entries, head .. keptFrom - 1)
         /\ outageIndex' = [o \in OutageIds |-> Keep(outageIndex[o], { i \in Nat : i > keptFrom })]
         /\ head' = keptFrom
  /\ historyLen' = keepCount
  /\ UNCHANGED tail

\* prune_oldest.  Only outages that lose an entry have their index rewritten.
PruneOldest(keepCount) ==
  LET keptFrom == SaturatingSub(tail, keepCount)
      dropped  == head .. keptFrom - 1
      touched  == { entries[i].outage_id : i \in dropped \cap DOMAIN entries }
  IN  \/ /\ keepCount >= SaturatingSub(tail, head)
         /\ UNCHANGED historyVars
      \/ /\ keepCount < SaturatingSub(tail, head)
         /\ entries' = Without(entries, dropped)
         /\ outageIndex' = [o \in OutageIds |->
              IF o \in touched THEN Keep(outageIndex[o], { i \in Nat : i >= keptFrom })
                               ELSE outageIndex[o]]
         /\ head' = keptFrom
         /\ historyLen' = keepCount
         /\ UNCHANGED tail

\* rebuild_history.  Survivors are renumbered from head: tail goes back.
RebuildHistory(survivors) ==
  LET newTail == head + Len(survivors)
      slots   == head .. newTail - 1
      rebuilt == [i \in (DOMAIN entries \ (head .. tail - 1)) \cup slots |->
                    IF i \in slots THEN survivors[i - head + 1] ELSE entries[i]]
      seen    == { entries[i].outage_id : i \in (head .. tail - 1) \cap DOMAIN entries }
      slotsOf(o) == { i \in slots : rebuilt[i].outage_id = o }
  IN  /\ entries' = rebuilt
      /\ outageIndex' = [o \in OutageIds |->
           IF slotsOf(o) # {} \/ o \in seen
           THEN Keep(Run(head, Len(survivors)), slotsOf(o))
           ELSE outageIndex[o]]
      /\ tail' = newTail
      /\ historyLen' = Len(survivors)
      /\ UNCHANGED head

-----------------------------------------------------------------------------
(* The callers in lib.rs, from their input checks on *)

Record(r) ==
  /\ Len(recorded) < MaxRecorded
  /\ r.recorded_at = now
  /\ AppendEntry(r, retentionLimit, outageIndex[r.outage_id])
  /\ recorded' = Append(recorded, r)
  /\ UNCHANGED << retentionLimit, now >>

PruneHistory(keepLatest) ==
  /\ PruneOldest(keepLatest)
  /\ UNCHANGED << retentionLimit, recorded, now >>

\* Mutant: the age test is inverted, so the recent decisions go.
PruneHistoryByAgeInverted(minAge) ==
  /\ minAge < now
  /\ LET survivors == Keep(ReadAllEntries, { r \in Results : r.recorded_at < now - minAge })
     IN  /\ Len(survivors) < Len(ReadAllEntries)
         /\ RebuildHistory(survivors)
  /\ UNCHANGED << retentionLimit, recorded, now >>

PruneHistoryByAge(minAge) ==
  /\ minAge < now
  /\ LET survivors == Keep(ReadAllEntries, { r \in Results : r.recorded_at >= now - minAge })
     IN  \/ /\ Len(survivors) < Len(ReadAllEntries)
            /\ RebuildHistory(survivors)
         \/ /\ Len(survivors) = Len(ReadAllEntries)
            /\ UNCHANGED historyVars
  /\ UNCHANGED << retentionLimit, recorded, now >>

\* Mutant: the bounds check is missing.
SetRetentionLimitUnchecked(limit) ==
  /\ retentionLimit' = limit
  /\ PruneOldest(limit)
  /\ UNCHANGED << recorded, now >>

\* Mutant: a lowered limit waits for the next append to trim.
SetRetentionLimitLazily(limit) ==
  /\ limit \in 1 .. MAX_HISTORY_SIZE
  /\ retentionLimit' = limit
  /\ UNCHANGED << historyVars, recorded, now >>

SetRetentionLimit(limit) ==
  /\ limit \in 1 .. MAX_HISTORY_SIZE
  /\ retentionLimit' = limit
  /\ PruneOldest(limit)
  /\ UNCHANGED << recorded, now >>

NewLedger == CloseLedger /\ UNCHANGED storeVars

HistoryInit ==
  /\ entries = [i \in {} |-> NoResult]
  /\ outageIndex = [o \in OutageIds |-> << >>]
  /\ head = 0
  /\ tail = 0
  /\ historyLen = 0

Init ==
  /\ HistoryInit
  /\ retentionLimit = MAX_HISTORY_SIZE
  /\ recorded = << >>
  /\ now = 0

Next ==
  \/ \E r \in Results : Record(r)
  \/ \E keepLatest \in 0 .. MAX_HISTORY_SIZE : PruneHistory(keepLatest)
  \/ \E minAge \in 0 .. MaxLedger : PruneHistoryByAge(minAge)
  \/ \E limit \in 0 .. MAX_HISTORY_SIZE + 1 : SetRetentionLimit(limit)
  \/ NewLedger

vars == << storeVars, now >>

Spec == Init /\ [][Next]_vars

-----------------------------------------------------------------------------
(* Properties *)

StoreTypeOK ==
  /\ head \in Nat
  /\ tail \in Nat
  /\ historyLen \in Nat
  /\ retentionLimit \in 1 .. MAX_HISTORY_SIZE
  /\ DOMAIN entries \subseteq Nat
  /\ entries \in [DOMAIN entries -> Results]
  /\ outageIndex \in [OutageIds -> Seq(Nat)]

\* Every storage key holds a value of its type and the limit is in the range
\* set_retention_limit allows.
TypeOK ==
  /\ StoreTypeOK
  /\ recorded \in Seq(Results)
  /\ now \in Nat

\* The live entry keys are exactly the retained range: no pruned decision
\* leaves its sub-key behind, no retained index reads back nothing.
NoOrphanEntries ==
  /\ head <= tail
  /\ DOMAIN entries = head .. tail - 1

\* The cached length get_full_audit_state reports is the real one, and no
\* sequence of appends, prunes and limit changes leaves the history longer
\* than the limit in force (append_entry drops at most one entry, so a limit
\* lowered without an immediate trim would break this).
CachedLengthWithinLimit ==
  /\ historyLen = tail - head
  /\ historyLen <= retentionLimit

\* The three counters and the entry keys describe one history, within the
\* limit, after any sequence of appends, prunes and limit changes.
CountersTellEntries == NoOrphanEntries /\ CachedLengthWithinLimit

\* The per-outage index is exactly the outage's retained entries, oldest
\* first, with no index twice: reading it equals scanning the history.
IndexExact ==
  \A o \in OutageIds :
    /\ StrictlyIncreasing(outageIndex[o])
    /\ Elements(outageIndex[o]) = { i \in head .. tail - 1 : entries[i].outage_id = o }

\* Retained decisions are in the order of their ledger timestamps, none later
\* than the current ledger, across prunes by age and the renumbering they do.
Chronological ==
  /\ \A i, j \in head .. tail - 1 : i < j => entries[i].recorded_at <= entries[j].recorded_at
  /\ \A i \in head .. tail - 1 : entries[i].recorded_at <= now

\* The store keeps every promise of RetainedLog: an age prune, whose filter
\* is free to drop any entry, drops only a prefix; the index answers as a
\* scan would; the newest decision survives its own append.
Abstract == INSTANCE RetainedLog WITH
              log         <- recorded,
              retained    <- ReadAllEntries,
              byOutage    <- [o \in OutageIds |-> EntriesForOutage(o)],
              latest      <- [o \in OutageIds |-> LatestForOutage(o)],
              MaxRetained <- MAX_HISTORY_SIZE

ImplementsRetainedLog == Abstract!Spec

=============================================================================
