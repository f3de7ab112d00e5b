--------------------------- MODULE HistoryStoreProofs -------------------------
(***************************************************************************)
(* The sharded history stays consistent, for every set of outages, every   *)
(* retention limit and every number of decisions.                          *)
(*                                                                         *)
(* None of the properties of HistoryStore is inductive alone: an append    *)
(* keeps the index exact only because no entry lives at `tail`, a trim     *)
(* keeps the cached length right only because head <= tail, an age prune   *)
(* keeps the order only because what it reads back is in order.  StoreInv  *)
(* is their conjunction, and that is inductive.                            *)
(*                                                                         *)
(* Under it the store implements RetainedLog: the second half.             *)
(***************************************************************************)
EXTENDS HistoryStore, VecOpsProofs, SequenceTheorems

StoreInv ==
  /\ StoreTypeOK
  /\ NoOrphanEntries
  /\ CachedLengthWithinLimit
  /\ IndexExact
  /\ Chronological
  /\ now \in Nat

Inv == StoreInv /\ recorded \in Seq(Results)

-----------------------------------------------------------------------------
(* Vectors of indices *)

\* What append_entry and prune_oldest do to one outage's index: they keep, in
\* order, the indices that are still retained.
LEMMA KeepIndices ==
  ASSUME NEW s \in Seq(Nat), StrictlyIncreasing(s), NEW S
  PROVE  /\ Keep(s, S) \in Seq(Nat)
         /\ Len(Keep(s, S)) <= Len(s)
         /\ Elements(Keep(s, S)) = Elements(s) \cap S
         /\ StrictlyIncreasing(Keep(s, S))
<1> DEFINE R == { p \in Nat \X Nat : p[1] < p[2] }
           k == Keep(s, S)
<1>1. OrderedBy(s, R)
  BY DEF OrderedBy, StrictlyIncreasing
<1>2. /\ k \in Seq(Nat)
      /\ Len(k) <= Len(s)
      /\ Elements(k) = Elements(s) \cap S
      /\ OrderedBy(k, R)
  <2> HIDE DEF R
  <2> QED BY <1>1, KeepProperties
<1> HIDE DEF k
<1>3. StrictlyIncreasing(k)
  BY <1>2 DEF OrderedBy, StrictlyIncreasing
<1> QED BY <1>2, <1>3 DEF k

\* What append_entry adds to one outage's index: an index above all of its own.
LEMMA AppendIndex ==
  ASSUME NEW s \in Seq(Nat), StrictlyIncreasing(s), NEW n \in Nat,
         \A i \in Elements(s) : i < n
  PROVE  /\ Append(s, n) \in Seq(Nat)
         /\ Elements(Append(s, n)) = Elements(s) \cup {n}
         /\ StrictlyIncreasing(Append(s, n))
<1> DEFINE a == Append(s, n)
<1>1. /\ a \in Seq(Nat)
      /\ Len(s) \in Nat
      /\ Len(a) = Len(s) + 1
      /\ \A i \in 1 .. Len(s) : a[i] = s[i]
      /\ a[Len(s) + 1] = n
  OBVIOUS
<1> HIDE DEF a
<1>2. Elements(a) = Elements(s) \cup {n}
  <2>1. \A i : i \in 1 .. Len(a) <=> i \in 1 .. Len(s) \/ i = Len(s) + 1
    BY <1>1
  <2> QED BY <1>1, <2>1, Zenon DEF Elements
<1>3. StrictlyIncreasing(a)
  <2> SUFFICES ASSUME NEW i \in 1 .. Len(a), NEW j \in 1 .. Len(a), i < j
               PROVE  a[i] < a[j]
    BY DEF StrictlyIncreasing
  <2>1. i \in 1 .. Len(s)
    BY <1>1
  <2>2. s[i] \in Elements(s)
    BY <2>1 DEF Elements
  <2>3. CASE j \in 1 .. Len(s)
    BY <1>1, <2>1, <2>3 DEF StrictlyIncreasing
  <2>4. CASE j = Len(s) + 1
    BY <1>1, <2>1, <2>2, <2>4
  <2>5. j \in 1 .. Len(s) \/ j = Len(s) + 1
    <3>1. j \in 1 .. Len(s) + 1 /\ Len(s) \in Nat
      BY <1>1
    <3> QED BY <3>1
  <2> QED BY <2>3, <2>4, <2>5
<1> QED BY <1>1, <1>2, <1>3 DEF a

\* The indices a rebuild hands out: consecutive from h.
LEMMA Consecutive ==
  ASSUME NEW h \in Nat, NEW n \in Nat
  PROVE  /\ Run(h, n) \in Seq(Nat)
         /\ Len(Run(h, n)) = n
         /\ StrictlyIncreasing(Run(h, n))
         /\ Elements(Run(h, n)) = h .. h + n - 1
<1> DEFINE c == Run(h, n)
<1>1. c \in Seq(Nat) /\ Len(c) = n /\ \A k \in 1 .. n : c[k] = h + k - 1
  BY DEF Run
<1> HIDE DEF c
<1>2. StrictlyIncreasing(c)
  BY <1>1 DEF StrictlyIncreasing
<1>3. Elements(c) = h .. h + n - 1
  <2>1. ASSUME NEW i \in h .. h + n - 1 PROVE i \in Elements(c)
    <3>1. i - h + 1 \in 1 .. n /\ c[i - h + 1] = i
      BY <1>1
    <3> QED BY <1>1, <3>1 DEF Elements
  <2>2. ASSUME NEW i \in Elements(c) PROVE i \in h .. h + n - 1
    BY <1>1 DEF Elements
  <2> QED BY <2>1, <2>2
<1> QED BY <1>1, <1>2, <1>3 DEF c

-----------------------------------------------------------------------------
(* What a read returns *)

Older == { p \in Results \X Results : p[1].recorded_at <= p[2].recorded_at }

\* Reading live slots in order gives decisions in the order of their times.
LEMMA ReadSlotsInOrder ==
  ASSUME StoreInv, NEW slots \in Seq(Nat), StrictlyIncreasing(slots)
  PROVE  /\ ReadSlots(slots) \in Seq(Results)
         /\ Len(ReadSlots(slots)) <= Len(slots)
         /\ OrderedBy(ReadSlots(slots), Older)
         /\ \A k \in 1 .. Len(ReadSlots(slots)) : ReadSlots(slots)[k].recorded_at <= now
<1> DEFINE present == Keep(slots, DOMAIN entries)
           read    == ReadSlots(slots)
<1>1. /\ present \in Seq(Nat)
      /\ Len(present) <= Len(slots)
      /\ Elements(present) = Elements(slots) \cap DOMAIN entries
      /\ StrictlyIncreasing(present)
  BY KeepIndices
<1>2. /\ read = [k \in 1 .. Len(present) |-> entries[present[k]]]
      /\ Len(present) \in Nat
  BY <1>1 DEF ReadSlots
<1> HIDE DEF present, read
<1>3. ASSUME NEW k \in 1 .. Len(present)
      PROVE  /\ present[k] \in head .. tail - 1
             /\ entries[present[k]] \in Results
             /\ entries[present[k]].recorded_at <= now
  <2>1. present[k] \in DOMAIN entries
    BY <1>1 DEF Elements
  <2> QED BY <2>1 DEF StoreInv, StoreTypeOK, NoOrphanEntries, Chronological
<1>4. /\ read \in Seq(Results)
      /\ Len(read) = Len(present)
  BY <1>2, <1>3
<1>5. OrderedBy(read, Older)
  <2> SUFFICES ASSUME NEW i \in 1 .. Len(present), NEW j \in 1 .. Len(present), i < j
               PROVE  << entries[present[i]], entries[present[j]] >> \in Older
    BY <1>2, <1>4 DEF OrderedBy
  <2>1. present[i] < present[j]
    BY <1>1 DEF StrictlyIncreasing
  <2>2. entries[present[i]].recorded_at <= entries[present[j]].recorded_at
    BY <1>3, <2>1 DEF StoreInv, Chronological
  <2> QED BY <1>3, <2>2 DEF Older
<1> QED BY <1>1, <1>2, <1>3, <1>4, <1>5 DEF read

\* read_all_entries gives the retained decisions, oldest first.
LEMMA ReadAllInOrder ==
  ASSUME StoreInv
  PROVE  /\ ReadAllEntries \in Seq(Results)
         /\ Len(ReadAllEntries) <= tail - head
         /\ OrderedBy(ReadAllEntries, Older)
         /\ \A k \in 1 .. Len(ReadAllEntries) : ReadAllEntries[k].recorded_at <= now
<1> DEFINE n == SaturatingSub(tail, head)
           slots == Run(head, n)
<1>1. head \in Nat /\ n \in Nat /\ n = tail - head
  BY DEF StoreInv, StoreTypeOK, NoOrphanEntries, SaturatingSub
<1> HIDE DEF n
<1>2. slots \in Seq(Nat) /\ Len(slots) = n /\ StrictlyIncreasing(slots)
  BY <1>1, Consecutive
<1>3. ReadAllEntries = ReadSlots(slots)
  BY DEF ReadAllEntries, ReadRange, n
<1> HIDE DEF slots
<1> QED BY <1>1, <1>2, <1>3, ReadSlotsInOrder

-----------------------------------------------------------------------------
(* Each write keeps the layout consistent *)

\* What StoreInv says of the numbers, in the form the steps below use.
LEMMA StoreNumbers ==
  ASSUME StoreInv
  PROVE  /\ head \in Nat /\ tail \in Nat /\ head <= tail /\ now \in Nat
         /\ SaturatingSub(tail, head) = tail - head
         /\ tail - head <= retentionLimit
         /\ retentionLimit \in Nat /\ retentionLimit >= 1
         /\ retentionLimit \in 1 .. MAX_HISTORY_SIZE
         /\ \A i : i \in DOMAIN entries <=> i \in head .. tail - 1
BY HistoryAssumption
   DEF StoreInv, StoreTypeOK, NoOrphanEntries, CachedLengthWithinLimit, SaturatingSub

\* A layout given entry by entry and outage by outage: how each of the three
\* lemmas below concludes.
LEMMA LayoutKept ==
  ASSUME now \in Nat, now' = now,
         head' \in Nat, tail' \in Nat, head' <= tail',
         retentionLimit' \in 1 .. MAX_HISTORY_SIZE,
         historyLen' = tail' - head', tail' - head' <= retentionLimit',
         DOMAIN entries' = head' .. tail' - 1,
         entries' = [i \in DOMAIN entries' |-> entries'[i]],
         \A i \in head' .. tail' - 1 : entries'[i] \in Results /\ entries'[i].recorded_at <= now,
         \A i, j \in head' .. tail' - 1 : i < j => entries'[i].recorded_at <= entries'[j].recorded_at,
         outageIndex' = [o \in OutageIds |-> outageIndex'[o]],
         \A o \in OutageIds :
           /\ outageIndex'[o] \in Seq(Nat)
           /\ StrictlyIncreasing(outageIndex'[o])
           /\ Elements(outageIndex'[o]) = { i \in head' .. tail' - 1 : entries'[i].outage_id = o }
  PROVE  StoreInv'
<1>1. DOMAIN entries' \subseteq Nat
  OBVIOUS
<1>2. entries' \in [DOMAIN entries' -> Results]
  OBVIOUS
<1>3. outageIndex' \in [OutageIds -> Seq(Nat)]
  OBVIOUS
<1>4. historyLen' \in Nat
  OBVIOUS
<1>5. StoreTypeOK'
  BY <1>1, <1>2, <1>3, <1>4 DEF StoreTypeOK
<1>6. NoOrphanEntries' /\ CachedLengthWithinLimit'
  BY DEF NoOrphanEntries, CachedLengthWithinLimit
<1>7. IndexExact' /\ Chronological'
  BY DEF IndexExact, Chronological
<1> QED BY <1>5, <1>6, <1>7 DEF StoreInv

\* append_entry: the new entry is indexed once, the dropped one nowhere.
LEMMA AppendKeepsStore ==
  ASSUME StoreInv, NEW r \in Results, r.recorded_at = now,
         AppendEntry(r, retentionLimit, outageIndex[r.outage_id]),
         UNCHANGED << retentionLimit, now >>
  PROVE  StoreInv'
<1> DEFINE written == [i \in DOMAIN entries \cup {tail} |-> IF i = tail THEN r ELSE entries[i]]
           indexed == [outageIndex EXCEPT ![r.outage_id] = Append(outageIndex[r.outage_id], tail)]
<1> USE StoreNumbers
<1>1. /\ DOMAIN written = head .. tail
      /\ \A i \in head .. tail : written[i] \in Results /\ written[i].recorded_at \in Nat
      /\ written[tail] = r
      /\ \A i \in head .. tail - 1 : written[i] = entries[i]
  <2>1. DOMAIN written = head .. tail
    <3>1. \A i : i \in DOMAIN entries \cup {tail} <=> i \in head .. tail
      OBVIOUS
    <3> QED BY <3>1, Zenon
  <2>2. \A i \in head .. tail - 1 : written[i] = entries[i] /\ entries[i] \in Results
    BY DEF StoreInv, StoreTypeOK
  <2>3. written[tail] = r
    OBVIOUS
  <2> QED BY <2>1, <2>2, <2>3, HistoryAssumption
<1>2. \A i, j \in head .. tail : i < j => written[i].recorded_at <= written[j].recorded_at
  BY <1>1 DEF StoreInv, Chronological
<1>3. \A i \in head .. tail : written[i].recorded_at <= now
  BY <1>1 DEF StoreInv, Chronological
<1>4. /\ r.outage_id \in OutageIds
      /\ \A o \in OutageIds : outageIndex[o] \in Seq(Nat)
  BY HistoryAssumption DEF StoreInv, StoreTypeOK
<1>5. /\ indexed \in [OutageIds -> Seq(Nat)]
      /\ \A o \in OutageIds :
           /\ StrictlyIncreasing(indexed[o])
           /\ Elements(indexed[o]) = { i \in head .. tail : written[i].outage_id = o }
  <2> SUFFICES ASSUME NEW o \in OutageIds
               PROVE  /\ indexed[o] \in Seq(Nat)
                      /\ StrictlyIncreasing(indexed[o])
                      /\ Elements(indexed[o]) = { i \in head .. tail : written[i].outage_id = o }
    <3>1. DOMAIN indexed = OutageIds /\ indexed = [o \in OutageIds |-> indexed[o]]
      BY DEF StoreInv, StoreTypeOK
    <3> HIDE DEF indexed, written
    <3> QED BY <3>1
  <2>1. /\ StrictlyIncreasing(outageIndex[o])
        /\ Elements(outageIndex[o]) = { i \in head .. tail - 1 : entries[i].outage_id = o }
    BY DEF StoreInv, IndexExact
  <2>2. CASE o # r.outage_id
    <3>1. indexed[o] = outageIndex[o]
      BY <1>4, <2>2 DEF StoreInv, StoreTypeOK
    <3>2. { i \in head .. tail : written[i].outage_id = o }
            = { i \in head .. tail - 1 : entries[i].outage_id = o }
      BY <1>1, <2>2
    <3> HIDE DEF indexed, written
    <3> QED BY <1>4, <2>1, <3>1, <3>2
  <2>3. CASE o = r.outage_id
    <3>1. indexed[o] = Append(outageIndex[o], tail)
      BY <1>4, <2>3 DEF StoreInv, StoreTypeOK
    <3>2. { i \in head .. tail : written[i].outage_id = o }
            = { i \in head .. tail - 1 : entries[i].outage_id = o } \cup {tail}
      BY <1>1, <2>3
    <3>3. \A i \in Elements(outageIndex[o]) : i < tail
      BY <2>1
    <3>4. /\ Append(outageIndex[o], tail) \in Seq(Nat)
          /\ Elements(Append(outageIndex[o], tail)) = Elements(outageIndex[o]) \cup {tail}
          /\ StrictlyIncreasing(Append(outageIndex[o], tail))
      BY <1>4, <2>1, <3>3, AppendIndex
    <3> HIDE DEF indexed, written
    <3> QED BY <2>1, <3>1, <3>2, <3>4
  <2> QED BY <2>2, <2>3
<1>6. /\ tail' = tail + 1
      /\ retentionLimit' = retentionLimit
      /\ now' = now
      /\ historyLen' = SaturatingSub(tail', head')
      /\ \/ /\ SaturatingSub(tail + 1, head) <= retentionLimit
            /\ entries' = written
            /\ outageIndex' = indexed
            /\ head' = head
         \/ /\ SaturatingSub(tail + 1, head) > retentionLimit
            /\ entries' = Without(written, {head})
            /\ outageIndex' = IF head \in DOMAIN written
                              THEN [indexed EXCEPT ![written[head].outage_id] = Keep(@, Nat \ {head})]
                              ELSE indexed
            /\ head' = head + 1
  BY Zenon DEF AppendEntry
<1>6a. written = [i \in DOMAIN written |-> written[i]]
  OBVIOUS
<1> SaturatingSub(tail + 1, head) = tail + 1 - head
  BY DEF SaturatingSub
<1> HIDE DEF written, indexed
<1>7. CASE SaturatingSub(tail + 1, head) <= retentionLimit
  <2>1. entries' = written /\ outageIndex' = indexed /\ head' = head
    BY <1>6, <1>7
  <2>2. tail' - head' <= retentionLimit
    BY <1>6, <1>7, <2>1 DEF SaturatingSub
  <2>3. historyLen' = tail' - head' /\ head' <= tail' /\ tail' - 1 = tail
    BY <1>6, <2>1 DEF SaturatingSub
  <2>4. head' .. tail' - 1 = head .. tail
    BY <2>1, <2>3
  <2>5. outageIndex' = [o \in OutageIds |-> outageIndex'[o]]
    BY <1>5, <2>1
  <2> QED BY <1>1, <1>2, <1>3, <1>5, <1>6, <1>6a, <2>1, <2>2, <2>3, <2>4, <2>5, LayoutKept
<1>8. CASE SaturatingSub(tail + 1, head) > retentionLimit
  <2>1. head < tail /\ tail + 1 - head > retentionLimit
    BY <1>8 DEF SaturatingSub
  <2>2. /\ entries' = Without(written, {head})
        /\ outageIndex' = [indexed EXCEPT ![written[head].outage_id] = Keep(@, Nat \ {head})]
        /\ head' = head + 1
    BY <1>1, <1>6, <1>8, <2>1
  <2>3. historyLen' = tail' - head' /\ head' <= tail' /\ tail' - 1 = tail
    BY <1>6, <2>1, <2>2 DEF SaturatingSub
  <2>4. /\ DOMAIN entries' = head' .. tail' - 1
        /\ \A i \in head' .. tail' - 1 : entries'[i] = written[i] /\ i \in head .. tail
    <3>1. entries' = [i \in (head .. tail) \ {head} |-> written[i]]
      BY <1>1, <2>2 DEF Without
    <3>2. \A i : i \in (head .. tail) \ {head} <=> i \in head' .. tail' - 1
      BY <1>6, <2>2
    <3>3. (head .. tail) \ {head} = head' .. tail' - 1
      BY <3>2, Zenon
    <3> QED BY <3>1, <3>3
  <2>5. \A o \in OutageIds :
          /\ outageIndex'[o] \in Seq(Nat)
          /\ StrictlyIncreasing(outageIndex'[o])
          /\ Elements(outageIndex'[o]) = { i \in head .. tail : written[i].outage_id = o } \ {head}
    <3> SUFFICES ASSUME NEW o \in OutageIds
                 PROVE  /\ outageIndex'[o] \in Seq(Nat)
                        /\ StrictlyIncreasing(outageIndex'[o])
                        /\ Elements(outageIndex'[o])
                             = { i \in head .. tail : written[i].outage_id = o } \ {head}
      OBVIOUS
    <3>1. CASE o = written[head].outage_id
      <4>1. outageIndex'[o] = Keep(indexed[o], Nat \ {head})
        BY <1>5, <2>2, <3>1
      <4>2. /\ Keep(indexed[o], Nat \ {head}) \in Seq(Nat)
            /\ Elements(Keep(indexed[o], Nat \ {head})) = Elements(indexed[o]) \cap (Nat \ {head})
            /\ StrictlyIncreasing(Keep(indexed[o], Nat \ {head}))
        BY <1>5, KeepIndices
      <4>3. Elements(indexed[o]) \cap (Nat \ {head})
              = { i \in head .. tail : written[i].outage_id = o } \ {head}
        BY <1>5
      <4> QED BY <4>1, <4>2, <4>3
    <3>2. CASE o # written[head].outage_id
      <4>1. outageIndex'[o] = indexed[o]
        BY <1>5, <2>2, <3>2
      <4>2. { i \in head .. tail : written[i].outage_id = o }
              = { i \in head .. tail : written[i].outage_id = o } \ {head}
        BY <3>2
      <4> QED BY <1>5, <4>1, <4>2
    <3> QED BY <3>1, <3>2
  <2>6. /\ outageIndex' = [o \in OutageIds |-> outageIndex'[o]]
        /\ entries' = [i \in DOMAIN entries' |-> entries'[i]]
    BY <1>5, <2>2 DEF Without
  <2>7. \A o \in OutageIds : { i \in head' .. tail' - 1 : entries'[i].outage_id = o }
                             = { i \in head .. tail : written[i].outage_id = o } \ {head}
    <3>1. \A i : i \in head' .. tail' - 1 <=> i \in head .. tail /\ i # head
      BY <1>6, <2>2
    <3> QED BY <2>4, <3>1, Zenon
  <2>8. head' \in Nat /\ tail' \in Nat /\ tail' - head' <= retentionLimit'
    BY <1>6, <2>2
  <2>9. /\ \A i \in head' .. tail' - 1 : entries'[i] \in Results /\ entries'[i].recorded_at <= now
        /\ \A i, j \in head' .. tail' - 1 : i < j => entries'[i].recorded_at <= entries'[j].recorded_at
    BY <1>1, <1>2, <1>3, <2>4
  <2>10. \A o \in OutageIds :
           /\ outageIndex'[o] \in Seq(Nat)
           /\ StrictlyIncreasing(outageIndex'[o])
           /\ Elements(outageIndex'[o]) = { i \in head' .. tail' - 1 : entries'[i].outage_id = o }
    BY <2>5, <2>7
  <2> QED BY <1>6, <2>3, <2>4, <2>6, <2>8, <2>9, <2>10, LayoutKept
<1> QED BY <1>7, <1>8

\* prune_oldest: survivors keep their indices, the others are gone everywhere.
LEMMA PruneOldestKeepsStore ==
  ASSUME StoreInv, NEW keepCount \in Nat, PruneOldest(keepCount),
         retentionLimit' \in 1 .. MAX_HISTORY_SIZE,
         retentionLimit' = retentionLimit \/ retentionLimit' = keepCount,
         now' = now
  PROVE  StoreInv'
<1> USE StoreNumbers
<1> DEFINE keptFrom == SaturatingSub(tail, keepCount)
           dropped  == head .. keptFrom - 1
           touched  == { entries[i].outage_id : i \in dropped \cap DOMAIN entries }
<1>0. \/ /\ keepCount >= SaturatingSub(tail, head)
         /\ UNCHANGED historyVars
      \/ /\ keepCount < SaturatingSub(tail, head)
         /\ entries' = Without(entries, dropped)
         /\ outageIndex' = [o \in OutageIds |->
              IF o \in touched THEN Keep(outageIndex[o], { i \in Nat : i >= keptFrom })
                               ELSE outageIndex[o]]
         /\ head' = keptFrom
         /\ historyLen' = keepCount
         /\ UNCHANGED tail
  BY Zenon DEF PruneOldest
<1>1. \A o \in OutageIds :
        /\ outageIndex[o] \in Seq(Nat)
        /\ StrictlyIncreasing(outageIndex[o])
        /\ Elements(outageIndex[o]) = { i \in head .. tail - 1 : entries[i].outage_id = o }
  BY DEF StoreInv, StoreTypeOK, IndexExact
<1>2. /\ \A i \in head .. tail - 1 : entries[i] \in Results /\ entries[i].recorded_at <= now
      /\ \A i, j \in head .. tail - 1 : i < j => entries[i].recorded_at <= entries[j].recorded_at
      /\ outageIndex = [o \in OutageIds |-> outageIndex[o]]
      /\ entries = [i \in DOMAIN entries |-> entries[i]]
      /\ DOMAIN entries = head .. tail - 1
      /\ historyLen = tail - head
  BY DEF StoreInv, StoreTypeOK, Chronological, NoOrphanEntries, CachedLengthWithinLimit
<1>3. CASE keepCount >= tail - head
  <2>1. UNCHANGED historyVars
    BY <1>0, <1>3
  <2>2. tail' - head' <= retentionLimit'
    BY <1>3, <2>1 DEF historyVars
  <2> QED BY <1>1, <1>2, <2>1, <2>2, LayoutKept DEF historyVars
<1>4. CASE keepCount < tail - head
  <2>1. /\ entries' = Without(entries, dropped)
        /\ outageIndex' = [o \in OutageIds |->
             IF o \in touched THEN Keep(outageIndex[o], { i \in Nat : i >= keptFrom })
                              ELSE outageIndex[o]]
        /\ head' = keptFrom
        /\ historyLen' = keepCount
        /\ tail' = tail
    <3>1. ~ (keepCount >= SaturatingSub(tail, head))
      BY <1>4
    <3> QED BY <1>0, <3>1, Zenon
  <2>2. keptFrom \in Nat /\ keptFrom = tail - keepCount /\ head < keptFrom /\ keptFrom <= tail
    BY <1>4 DEF SaturatingSub
  <2> HIDE DEF keptFrom
  <2>3. /\ DOMAIN entries' = head' .. tail' - 1
        /\ entries' = [i \in DOMAIN entries' |-> entries'[i]]
        /\ \A i \in head' .. tail' - 1 : entries'[i] = entries[i] /\ i \in head .. tail - 1
    <3>1. \A i : i \in (head .. tail - 1) \ dropped <=> i \in head' .. tail' - 1
      BY <2>1, <2>2
    <3>2. (head .. tail - 1) \ dropped = head' .. tail' - 1
      BY <3>1, Zenon
    <3>3. entries' = [i \in head' .. tail' - 1 |-> entries[i]]
      BY <1>2, <2>1, <3>2 DEF Without
    <3>4. \A i \in head' .. tail' - 1 : i \in head .. tail - 1
      BY <3>1
    <3> QED BY <3>3, <3>4
  <2>4. \A o \in OutageIds :
          { i \in head' .. tail' - 1 : entries'[i].outage_id = o }
            = { i \in head .. tail - 1 : entries[i].outage_id = o } \cap { i \in Nat : i >= keptFrom }
    <3>1. \A i : i \in head' .. tail' - 1 <=> i \in head .. tail - 1 /\ i \in { k \in Nat : k >= keptFrom }
      BY <2>1, <2>2
    <3> QED BY <2>3, <3>1, Zenon
  <2>5. ASSUME NEW o \in OutageIds
        PROVE  /\ outageIndex'[o] \in Seq(Nat)
               /\ StrictlyIncreasing(outageIndex'[o])
               /\ Elements(outageIndex'[o]) = { i \in head' .. tail' - 1 : entries'[i].outage_id = o }
    <3>1. CASE o \in touched
      <4>1. outageIndex'[o] = Keep(outageIndex[o], { i \in Nat : i >= keptFrom })
        BY <2>1, <3>1
      <4> QED BY <1>1, <2>4, <4>1, KeepIndices
    <3>2. CASE o \notin touched
      <4>1. outageIndex'[o] = outageIndex[o]
        BY <2>1, <3>2
      <4>2. \A i \in head .. tail - 1 : entries[i].outage_id = o => i >= keptFrom /\ i \in Nat
        BY <2>2, <3>2
      <4>3. { i \in head .. tail - 1 : entries[i].outage_id = o } \cap { i \in Nat : i >= keptFrom }
              = { i \in head .. tail - 1 : entries[i].outage_id = o }
        BY <4>2
      <4> QED BY <1>1, <2>4, <4>1, <4>3
    <3> QED BY <3>1, <3>2
  <2>6. /\ \A i \in head' .. tail' - 1 : entries'[i] \in Results /\ entries'[i].recorded_at <= now
        /\ \A i, j \in head' .. tail' - 1 : i < j => entries'[i].recorded_at <= entries'[j].recorded_at
    BY <1>2, <2>3
  <2>7. outageIndex' = [o \in OutageIds |-> outageIndex'[o]]
    <3> HIDE DEF touched
    <3> QED BY <2>1
  <2>8. /\ head' \in Nat /\ tail' \in Nat /\ head' <= tail'
        /\ historyLen' = tail' - head'
        /\ tail' - head' <= retentionLimit'
    BY <1>4, <2>1, <2>2
  <2> QED BY <2>3, <2>5, <2>6, <2>7, <2>8, LayoutKept
<1> QED BY <1>3, <1>4

\* rebuild_history: every index it touches is the renumbered survivors'.
LEMMA RebuildKeepsStore ==
  ASSUME StoreInv, NEW survivors \in Seq(Results),
         Len(survivors) <= retentionLimit,
         OrderedBy(survivors, Older),
         \A k \in 1 .. Len(survivors) : survivors[k].recorded_at <= now,
         RebuildHistory(survivors), UNCHANGED << retentionLimit, now >>
  PROVE  StoreInv'
<1> USE StoreNumbers
<1> DEFINE n == Len(survivors)
           newTail == head + n
           slots == head .. newTail - 1
           rebuilt == [i \in (DOMAIN entries \ (head .. tail - 1)) \cup slots |->
                         IF i \in slots THEN survivors[i - head + 1] ELSE entries[i]]
           seen == { entries[i].outage_id : i \in (head .. tail - 1) \cap DOMAIN entries }
           slotsOf(o) == { i \in slots : rebuilt[i].outage_id = o }
           fresh == Run(head, n)
<1>1. /\ entries' = rebuilt
      /\ outageIndex' = [o \in OutageIds |->
           IF slotsOf(o) # {} \/ o \in seen THEN Keep(fresh, slotsOf(o)) ELSE outageIndex[o]]
      /\ tail' = newTail
      /\ historyLen' = n
      /\ head' = head
      /\ retentionLimit' = retentionLimit
      /\ now' = now
  BY Zenon DEF RebuildHistory
<1>2. n \in Nat /\ newTail \in Nat /\ head <= newTail /\ newTail - head = n
  OBVIOUS
<1>3. head' .. tail' - 1 = slots
  BY <1>1, Zenon
<1>4. /\ rebuilt = [i \in DOMAIN rebuilt |-> rebuilt[i]]
      /\ DOMAIN rebuilt = slots
      /\ \A i \in slots : rebuilt[i] = survivors[i - head + 1] /\ i - head + 1 \in 1 .. n
  <2>1. DOMAIN entries \ (head .. tail - 1) = {}
    OBVIOUS
  <2>2. rebuilt = [i \in slots |-> IF i \in slots THEN survivors[i - head + 1] ELSE entries[i]]
    BY <2>1, Zenon
  <2>3. \A i \in slots : i - head + 1 \in 1 .. n
    BY <1>2
  <2> QED BY <2>2, <2>3
<1>5. /\ fresh \in Seq(Nat)
      /\ StrictlyIncreasing(fresh)
      /\ Elements(fresh) = slots
  <2>1. head \in Nat /\ n \in Nat
    BY <1>2
  <2>2. slots = head .. head + n - 1
    OBVIOUS
  <2> HIDE DEF n, slots
  <2> QED BY <2>1, <2>2, Consecutive
<1> HIDE DEF rebuilt, fresh, newTail, n
<1>6. \A i \in slots : rebuilt[i] \in Results /\ rebuilt[i].recorded_at <= now
  BY <1>2, <1>4 DEF n
<1>7. \A i, j \in slots : i < j => rebuilt[i].recorded_at <= rebuilt[j].recorded_at
  <2> SUFFICES ASSUME NEW i \in slots, NEW j \in slots, i < j
               PROVE  rebuilt[i].recorded_at <= rebuilt[j].recorded_at
    OBVIOUS
  <2>1. i - head + 1 < j - head + 1 /\ i - head + 1 \in 1 .. n /\ j - head + 1 \in 1 .. n
    BY <1>2, <1>4, SMTT(30)
  <2>2. << survivors[i - head + 1], survivors[j - head + 1] >> \in Older
    BY <2>1 DEF OrderedBy, n
  <2> QED BY <1>4, <2>2 DEF Older
<1>8. ASSUME NEW o \in OutageIds
      PROVE  /\ outageIndex'[o] \in Seq(Nat)
             /\ StrictlyIncreasing(outageIndex'[o])
             /\ Elements(outageIndex'[o]) = slotsOf(o)
  <2>1. CASE slotsOf(o) # {} \/ o \in seen
    <3>1. outageIndex'[o] = Keep(fresh, slotsOf(o))
      BY <1>1, <2>1
    <3>2. slots \cap slotsOf(o) = slotsOf(o)
      OBVIOUS
    <3> QED BY <1>5, <3>1, <3>2, KeepIndices
  <2>2. CASE ~ (slotsOf(o) # {} \/ o \in seen)
    <3>1. outageIndex'[o] = outageIndex[o]
      BY <1>1, <2>2
    <3>2. /\ outageIndex[o] \in Seq(Nat)
          /\ StrictlyIncreasing(outageIndex[o])
          /\ Elements(outageIndex[o]) = { i \in head .. tail - 1 : entries[i].outage_id = o }
      BY DEF StoreInv, StoreTypeOK, IndexExact
    <3>3. \A i \in head .. tail - 1 : entries[i].outage_id # o
      BY <2>2
    <3>4. { i \in head .. tail - 1 : entries[i].outage_id = o } = slotsOf(o)
      BY <2>2, <3>3
    <3> QED BY <3>1, <3>2, <3>4
  <2> QED BY <2>1, <2>2
<1>9. outageIndex' = [o \in OutageIds |-> outageIndex'[o]]
  <2> HIDE DEF slots, seen
  <2> QED BY <1>1
<1>10. tail' - head' <= retentionLimit'
  BY <1>1, <1>2 DEF n
<1> QED BY <1>1, <1>2, <1>3, <1>4, <1>6, <1>7, <1>8, <1>9, <1>10, LayoutKept

-----------------------------------------------------------------------------
(* The specification *)

\* The layout initialize writes is consistent.
LEMMA InitInv == Init => Inv
<1> SUFFICES ASSUME Init PROVE Inv
  OBVIOUS
<1> USE HistoryAssumption DEF Init, HistoryInit
<1>1. DOMAIN entries = {} /\ head .. tail - 1 = {}
  OBVIOUS
<1>2. StoreTypeOK
  BY <1>1 DEF StoreTypeOK
<1>3. NoOrphanEntries /\ CachedLengthWithinLimit
  BY <1>1 DEF NoOrphanEntries, CachedLengthWithinLimit
<1>4. \A o \in OutageIds : Len(outageIndex[o]) = 0
  OBVIOUS
<1>5. IndexExact /\ Chronological
  BY <1>1, <1>4 DEF IndexExact, Chronological, StrictlyIncreasing, Elements
<1> QED BY <1>2, <1>3, <1>5 DEF Inv, StoreInv

\* Every operation keeps the layout consistent and the decisions in order.
LEMMA InvInductive == Inv /\ [Next]_vars => Inv'
<1> SUFFICES ASSUME Inv, [Next]_vars PROVE Inv'
  OBVIOUS
<1>0. StoreInv /\ recorded \in Seq(Results) /\ now \in Nat
  BY DEF Inv, StoreInv
<1>1. ASSUME NEW r \in Results, Record(r) PROVE Inv'
  <2>1. StoreInv'
    BY <1>0, <1>1, AppendKeepsStore DEF Record
  <2>2. recorded' \in Seq(Results)
    BY <1>0, <1>1 DEF Record
  <2> QED BY <2>1, <2>2 DEF Inv
<1>2. ASSUME NEW keepLatest \in 0 .. MAX_HISTORY_SIZE, PruneHistory(keepLatest) PROVE Inv'
  <2>1. /\ keepLatest \in Nat
        /\ retentionLimit' = retentionLimit
        /\ retentionLimit \in 1 .. MAX_HISTORY_SIZE
        /\ now' = now
        /\ recorded' = recorded
    BY <1>0, <1>2, StoreNumbers DEF PruneHistory
  <2> QED BY <1>0, <1>2, <2>1, PruneOldestKeepsStore DEF PruneHistory, Inv
<1>3. ASSUME NEW minAge \in 0 .. MaxLedger, PruneHistoryByAge(minAge) PROVE Inv'
  <2> DEFINE recent == { r \in Results : r.recorded_at >= now - minAge }
             survivors == Keep(ReadAllEntries, recent)
  <2>1. /\ \/ Len(survivors) < Len(ReadAllEntries) /\ RebuildHistory(survivors)
           \/ UNCHANGED historyVars
        /\ UNCHANGED << retentionLimit, recorded, now >>
    BY <1>3, Zenon DEF PruneHistoryByAge
  <2>2. /\ ReadAllEntries \in Seq(Results)
        /\ Len(ReadAllEntries) <= tail - head
        /\ OrderedBy(ReadAllEntries, Older)
        /\ \A k \in 1 .. Len(ReadAllEntries) : ReadAllEntries[k].recorded_at <= now
    BY <1>0, ReadAllInOrder
  <2>3. /\ survivors \in Seq(Results)
        /\ Len(survivors) <= Len(ReadAllEntries)
        /\ Elements(survivors) = Elements(ReadAllEntries) \cap recent
        /\ OrderedBy(survivors, Older)
    BY <2>2, KeepProperties
  <2> HIDE DEF survivors, recent
  <2>4. \A k \in 1 .. Len(survivors) : survivors[k].recorded_at <= now
    BY <2>2, <2>3 DEF Elements
  <2>5. Len(survivors) <= retentionLimit
    BY <1>0, <2>2, <2>3, StoreNumbers
  <2>6. CASE RebuildHistory(survivors)
    BY <1>0, <2>1, <2>3, <2>4, <2>5, <2>6, RebuildKeepsStore DEF Inv
  <2>7. CASE UNCHANGED historyVars
    <3>1. UNCHANGED << entries, outageIndex, head, tail, historyLen, retentionLimit, recorded, now >>
      BY <2>1, <2>7 DEF historyVars
    <3> QED BY <1>0, <3>1
            DEF Inv, StoreInv, StoreTypeOK, NoOrphanEntries, CachedLengthWithinLimit, IndexExact, Chronological
  <2> QED BY <2>1, <2>6, <2>7
<1>4. ASSUME NEW limit \in 0 .. MAX_HISTORY_SIZE + 1, SetRetentionLimit(limit) PROVE Inv'
  <2>1. /\ limit \in Nat
        /\ retentionLimit' = limit
        /\ retentionLimit' \in 1 .. MAX_HISTORY_SIZE
        /\ now' = now
        /\ recorded' = recorded
    BY <1>4 DEF SetRetentionLimit
  <2> QED BY <1>0, <1>4, <2>1, PruneOldestKeepsStore DEF SetRetentionLimit, Inv
<1>5. CASE NewLedger
  <2>1. /\ UNCHANGED << entries, outageIndex, head, tail, historyLen, retentionLimit, recorded >>
        /\ now' = now + 1
    BY <1>5 DEF NewLedger, CloseLedger, storeVars, historyVars
  <2>2. \A i \in head .. tail - 1 : entries[i].recorded_at \in Nat
    BY <1>0, HistoryAssumption DEF StoreInv, StoreTypeOK, NoOrphanEntries
  <2>3. Chronological' /\ now' \in Nat
    BY <1>0, <2>1, <2>2 DEF StoreInv, Chronological
  <2> QED BY <1>0, <2>1, <2>3
          DEF Inv, StoreInv, StoreTypeOK, NoOrphanEntries, CachedLengthWithinLimit, IndexExact
<1>6. CASE UNCHANGED vars
  <2>1. UNCHANGED << entries, outageIndex, head, tail, historyLen, retentionLimit, recorded, now >>
    BY <1>6 DEF vars, storeVars, historyVars
  <2> QED BY <1>0, <2>1
          DEF Inv, StoreInv, StoreTypeOK, NoOrphanEntries, CachedLengthWithinLimit, IndexExact, Chronological
<1> QED BY <1>1, <1>2, <1>3, <1>4, <1>5, <1>6 DEF Next

\* The layout invariant, with everything the theorems below read off it.
THEOREM InvAlways == Spec => []Inv
BY InitInv, InvInductive, PTL DEF Spec

(***************************************************************************)
(* Every storage key holds a value of its type in every reachable state.   *)
(***************************************************************************)
THEOREM TypeCorrect == Spec => []TypeOK
<1>1. Inv => TypeOK
  BY DEF Inv, StoreInv, TypeOK
<1> QED BY <1>1, InvAlways, PTL

(***************************************************************************)
(* No prune, trim or drop leaves an entry key behind, and the cached       *)
(* length is the length and never above the limit in force.                *)
(***************************************************************************)
THEOREM NoOrphansAndBounded == Spec => []CountersTellEntries
<1>1. Inv => CountersTellEntries
  BY DEF Inv, StoreInv, CountersTellEntries
<1> QED BY <1>1, InvAlways, PTL

(***************************************************************************)
(* The per-outage index always lists exactly the outage's retained         *)
(* entries, oldest first: the read path that calculate_sla decides         *)
(* duplicates by never misses and never invents a decision.                *)
(***************************************************************************)
THEOREM IndexAlwaysExact == Spec => []IndexExact
<1>1. Inv => IndexExact
  BY DEF Inv, StoreInv
<1> QED BY <1>1, InvAlways, PTL

(***************************************************************************)
(* The retained decisions are always in ledger order.                      *)
(***************************************************************************)
THEOREM AlwaysChronological == Spec => []Chronological
<1>1. Inv => Chronological
  BY DEF Inv, StoreInv
<1> QED BY <1>1, InvAlways, PTL

-----------------------------------------------------------------------------
(***************************************************************************)
(* The sharded history implements RetainedLog, for every set of outages,   *)
(* every retention limit and every number of decisions.                    *)
(*                                                                         *)
(* What is read back is always the run of entries from head to tail        *)
(* (Window).  The index of an outage lists the places of its entries, so   *)
(* reading it equals filtering the window; and every write leaves a window *)
(* that is the newest part of what the window was, with the new decision   *)
(* at its end if there is one.  For a prune by age that is so because the  *)
(* window is in the order of its times: what is recent is at its end.      *)
(***************************************************************************)
-----------------------------------------------------------------------------
(* Vectors *)

\* One of two increasing vectors with the same elements is the other's prefix.
LEMMA IncreasingPrefix ==
  ASSUME NEW s \in Seq(Nat), NEW t \in Seq(Nat), StrictlyIncreasing(s), StrictlyIncreasing(t),
         Elements(s) = Elements(t)
  PROVE  \A i \in 1 .. Len(s) : i <= Len(t) /\ s[i] = t[i]
<1> DEFINE Same  == { n \in Nat : \A i \in 1 .. Len(s) : i <= n => i <= Len(t) /\ s[i] = t[i] }
<1>0. Len(s) \in Nat /\ Len(t) \in Nat
  OBVIOUS
<1>1. 0 \in Same
  OBVIOUS
<1>2. ASSUME NEW n \in Nat, n \in Same
      PROVE  n + 1 \in Same
  <2> SUFFICES ASSUME n + 1 <= Len(s)
               PROVE  n + 1 <= Len(t) /\ s[n + 1] = t[n + 1]
    <3>1. \A i \in 1 .. Len(s) : i <= n + 1 => i <= n \/ i = n + 1
      OBVIOUS
    <3> QED BY <1>2, <3>1
  <2>1. n + 1 \in 1 .. Len(s)
    BY <1>0
  <2>2. PICK j \in 1 .. Len(t) : t[j] = s[n + 1]
    BY <2>1 DEF Elements
  <2>3. j >= n + 1
    <3> SUFFICES ASSUME j <= n PROVE FALSE
      BY <1>0
    <3>1. j \in 1 .. Len(s) /\ s[j] = t[j] /\ j < n + 1
      BY <1>0, <1>2, <2>1
    <3>2. s[j] < s[n + 1]
      BY <2>1, <3>1 DEF StrictlyIncreasing
    <3> QED BY <2>1, <2>2, <3>1, <3>2
  <2>4. n + 1 \in 1 .. Len(t)
    BY <1>0, <2>3
  <2>5. PICK m \in 1 .. Len(s) : s[m] = t[n + 1]
    BY <2>4 DEF Elements
  <2>6. m >= n + 1
    <3> SUFFICES ASSUME m <= n PROVE FALSE
      BY <1>0
    <3>1. m \in 1 .. Len(t) /\ s[m] = t[m] /\ m < n + 1
      BY <1>0, <1>2
    <3>2. t[m] < t[n + 1]
      BY <2>4, <3>1 DEF StrictlyIncreasing
    <3> QED BY <2>4, <2>5, <3>1, <3>2
  <2>7. s[n + 1] <= s[m]
    BY <2>1, <2>6 DEF StrictlyIncreasing
  <2>8. t[n + 1] <= t[j]
    BY <2>3, <2>4 DEF StrictlyIncreasing
  <2>9. s[n + 1] \in Nat /\ t[n + 1] \in Nat
    BY <2>1, <2>4
  <2> QED BY <2>2, <2>4, <2>5, <2>7, <2>8, <2>9
<1>3. \A n \in Nat : n \in Same
  <2> HIDE DEF Same
  <2> QED BY <1>1, <1>2, SetInduction
<1>4. Len(s) \in Same
  BY <1>0, <1>3
<1> QED BY <1>0, <1>4

\* An increasing vector is determined by its elements.
LEMMA SameIncreasing ==
  ASSUME NEW s \in Seq(Nat), NEW t \in Seq(Nat), StrictlyIncreasing(s), StrictlyIncreasing(t),
         Elements(s) = Elements(t)
  PROVE  s = t
<1>1. \A i \in 1 .. Len(s) : i <= Len(t) /\ s[i] = t[i]
  BY IncreasingPrefix
<1>2. \A i \in 1 .. Len(t) : i <= Len(s)
  BY IncreasingPrefix
<1>3. Len(s) \in Nat /\ Len(t) \in Nat
  OBVIOUS
<1>4. Len(s) = Len(t)
  BY <1>1, <1>2, <1>3
<1> QED BY <1>1, <1>4

\* Where in s the members of S are.
PlacesOf(s, S) == { i \in 1 .. Len(s) : s[i] \in S }

\* The filter loop over a vector takes the same turns as over its places.
LEMMA KeepLoopPlaces ==
  ASSUME NEW X, NEW s \in Seq(X), NEW S
  PROVE  \A n \in 0 .. Len(s) :
           /\ KeepLoop(s, S)[n] \in Seq(X)
           /\ Len(KeepLoop(s, S)[n]) = Len(KeepLoop(Run(1, Len(s)), PlacesOf(s, S))[n])
           /\ \A k \in 1 .. Len(KeepLoop(s, S)[n]) :
                KeepLoop(s, S)[n][k] = s[KeepLoop(Run(1, Len(s)), PlacesOf(s, S))[n][k]]
<1> DEFINE P == PlacesOf(s, S)
           r == Run(1, Len(s))
           f == KeepLoop(s, S)
           g == KeepLoop(r, P)
           Follows == { n \in Nat : n <= Len(s) =>
                          /\ g[n] \in Seq(1 .. Len(s))
                          /\ f[n] = [k \in 1 .. Len(g[n]) |-> s[g[n][k]]] }
<1>0. Len(s) \in Nat
  OBVIOUS
<1>1. r \in Seq(Nat) /\ Len(r) = Len(s) /\ \A i \in 1 .. Len(s) : r[i] = i
  BY <1>0 DEF Run
<1>2. f[0] = << >> /\ \A i \in 1 .. Len(s) : f[i] = IF s[i] \in S THEN Append(f[i - 1], s[i]) ELSE f[i - 1]
  BY KeepLoopStep
<1>3. g[0] = << >> /\ \A i \in 1 .. Len(s) : g[i] = IF i \in P THEN Append(g[i - 1], i) ELSE g[i - 1]
  <2> HIDE DEF r
  <2>1. KeepLoop(r, P)[0] = << >> /\ \A i \in 1 .. Len(r) :
          KeepLoop(r, P)[i] = IF r[i] \in P THEN Append(KeepLoop(r, P)[i - 1], r[i]) ELSE KeepLoop(r, P)[i - 1]
    BY <1>1, KeepLoopStep
  <2> QED BY <1>1, <2>1
<1>p. \A i \in 1 .. Len(s) : i \in P <=> s[i] \in S
  BY DEF PlacesOf
<1> HIDE DEF f, g, r, P
<1>4. 0 \in Follows
  BY <1>2, <1>3
<1>5. ASSUME NEW n \in Nat, n \in Follows
      PROVE  n + 1 \in Follows
  <2> SUFFICES ASSUME n + 1 <= Len(s)
               PROVE  /\ g[n + 1] \in Seq(1 .. Len(s))
                      /\ f[n + 1] = [k \in 1 .. Len(g[n + 1]) |-> s[g[n + 1][k]]]
    OBVIOUS
  <2>1. /\ g[n] \in Seq(1 .. Len(s)) /\ f[n] = [k \in 1 .. Len(g[n]) |-> s[g[n][k]]]
        /\ n + 1 \in 1 .. Len(s) /\ (n + 1) - 1 = n
    BY <1>0, <1>5
  <2>2. CASE s[n + 1] \notin S
    <3>1. g[n + 1] = g[n] /\ f[n + 1] = f[n]
      BY <1>2, <1>3, <1>p, <2>1, <2>2
    <3> QED BY <2>1, <3>1
  <2>3. CASE s[n + 1] \in S
    <3>1. g[n + 1] = Append(g[n], n + 1) /\ f[n + 1] = Append(f[n], s[n + 1])
      BY <1>2, <1>3, <1>p, <2>1, <2>3
    <3>2. /\ Append(g[n], n + 1) \in Seq(1 .. Len(s)) /\ Len(Append(g[n], n + 1)) = Len(g[n]) + 1
          /\ Len(g[n]) \in Nat
          /\ \A k \in 1 .. Len(g[n]) : Append(g[n], n + 1)[k] = g[n][k]
          /\ Append(g[n], n + 1)[Len(g[n]) + 1] = n + 1
      BY <2>1
    <3>3. f[n] \in Seq(X) /\ Len(f[n]) = Len(g[n])
      <4>1. \A k \in 1 .. Len(g[n]) : s[g[n][k]] \in X
        BY <2>1
      <4> QED BY <2>1, <3>2, <4>1
    <3>4. Append(f[n], s[n + 1]) = [k \in 1 .. Len(g[n]) + 1 |-> s[Append(g[n], n + 1)[k]]]
      BY <2>1, <3>2, <3>3
    <3> QED BY <3>1, <3>2, <3>4
  <2> QED BY <2>2, <2>3
<1>6. \A n \in Nat : n \in Follows
  <2> HIDE DEF Follows
  <2> QED BY <1>4, <1>5, SetInduction
<1>7. ASSUME NEW n \in 0 .. Len(s)
      PROVE  f[n] \in Seq(X) /\ Len(f[n]) = Len(g[n]) /\ \A k \in 1 .. Len(f[n]) : f[n][k] = s[g[n][k]]
  <2>1. n \in Nat /\ n <= Len(s)
    BY <1>0
  <2>2. g[n] \in Seq(1 .. Len(s)) /\ f[n] = [k \in 1 .. Len(g[n]) |-> s[g[n][k]]]
    BY <1>6, <2>1
  <2>3. Len(g[n]) \in Nat /\ \A k \in 1 .. Len(g[n]) : s[g[n][k]] \in X
    BY <2>2
  <2> QED BY <2>2, <2>3
<1> QED BY <1>7 DEF f, g, r, P

\* The filtered vector, from any increasing vector of the places that pass.
LEMMA KeepPicks ==
  ASSUME NEW X, NEW s \in Seq(X), NEW S, NEW p \in Seq(Nat), StrictlyIncreasing(p),
         Elements(p) = PlacesOf(s, S)
  PROVE  /\ Keep(s, S) \in Seq(X) /\ Len(Keep(s, S)) = Len(p)
         /\ \A k \in 1 .. Len(p) : Keep(s, S)[k] = s[p[k]]
<1> DEFINE P == PlacesOf(s, S)
           r == Run(1, Len(s))
           q == Keep(r, P)
<1>0. Len(s) \in Nat /\ 1 \in Nat
  OBVIOUS
<1>1. r \in Seq(Nat) /\ Len(r) = Len(s) /\ StrictlyIncreasing(r) /\ Elements(r) = 1 .. Len(s)
  <2>1. 1 + Len(s) - 1 = Len(s)
    BY <1>0
  <2> QED BY <1>0, <2>1, Consecutive
<1>2. /\ Keep(s, S) \in Seq(X) /\ Len(Keep(s, S)) = Len(q)
      /\ \A k \in 1 .. Len(q) : Keep(s, S)[k] = s[q[k]]
  <2>1. Len(s) \in 0 .. Len(s)
    BY <1>0
  <2>2. q = KeepLoop(r, P)[Len(s)]
    BY <1>1 DEF Keep
  <2>3. /\ KeepLoop(s, S)[Len(s)] \in Seq(X)
        /\ Len(KeepLoop(s, S)[Len(s)]) = Len(KeepLoop(r, P)[Len(s)])
        /\ \A k \in 1 .. Len(KeepLoop(s, S)[Len(s)]) : KeepLoop(s, S)[Len(s)][k] = s[KeepLoop(r, P)[Len(s)][k]]
    BY <2>1, KeepLoopPlaces
  <2> HIDE DEF P, r, q
  <2> QED BY <2>2, <2>3 DEF Keep
<1>3. q \in Seq(Nat) /\ StrictlyIncreasing(q) /\ Elements(q) = P
  <2>1. (1 .. Len(s)) \cap P = P
    BY DEF PlacesOf
  <2> HIDE DEF P, r
  <2> QED BY <1>1, <2>1, KeepIndices
<1>4. p = q
  BY <1>3, SameIncreasing
<1> QED BY <1>2, <1>4

\* When what passes is all from m on, the filtered vector is the rest from m.
LEMMA KeepSuffix ==
  ASSUME NEW X, NEW s \in Seq(X), NEW S, NEW m \in 1 .. Len(s) + 1,
         PlacesOf(s, S) = m .. Len(s)
  PROVE  /\ Keep(s, S) \in Seq(X)
         /\ Len(Keep(s, S)) = Len(s) - m + 1
         /\ \A k \in 1 .. Len(s) - m + 1 : Keep(s, S)[k] = s[m + k - 1]
<1> DEFINE n == Len(s)
           p == Run(m, n - m + 1)
<1>1. n \in Nat /\ m \in Nat /\ n - m + 1 \in Nat /\ m + (n - m + 1) - 1 = n
  OBVIOUS
<1>2. p \in Seq(Nat) /\ Len(p) = n - m + 1 /\ StrictlyIncreasing(p) /\ Elements(p) = m .. n
  BY <1>1, Consecutive
<1>3. \A k \in 1 .. n - m + 1 : p[k] = m + k - 1
  BY DEF Run
<1> HIDE DEF p
<1>4. Elements(p) = PlacesOf(s, S)
  BY <1>2
<1>5. /\ Keep(s, S) \in Seq(X) /\ Len(Keep(s, S)) = Len(p)
      /\ \A k \in 1 .. Len(p) : Keep(s, S)[k] = s[p[k]]
  BY <1>2, <1>4, KeepPicks
<1> QED BY <1>2, <1>3, <1>5

\* A filter that everything passes.
LEMMA KeepAllIndices ==
  ASSUME NEW s \in Seq(Nat), StrictlyIncreasing(s), NEW S, Elements(s) \subseteq S
  PROVE  Keep(s, S) = s
<1>1. Keep(s, S) \in Seq(Nat) /\ StrictlyIncreasing(Keep(s, S)) /\ Elements(Keep(s, S)) = Elements(s)
  BY KeepIndices
<1> QED BY <1>1, SameIncreasing

-----------------------------------------------------------------------------
(* What the readers are answered *)

\* The retained decisions, oldest first.
Window == [k \in 1 .. tail - head |-> entries[head + k - 1]]

\* read_all_entries skips nothing: every place of the window has its entry.
LEMMA ReadAllIsWindow ==
  ASSUME StoreInv
  PROVE  ReadAllEntries = Window /\ Window \in Seq(Results) /\ Len(Window) = tail - head
<1> DEFINE r == Run(head, tail - head)
<1>1. /\ head \in Nat /\ tail - head \in Nat /\ SaturatingSub(tail, head) = tail - head
      /\ \A i : i \in DOMAIN entries <=> i \in head .. tail - 1
  BY StoreNumbers
<1>2. r \in Seq(Nat) /\ Len(r) = tail - head /\ StrictlyIncreasing(r) /\ Elements(r) = head .. head + (tail - head) - 1
  BY <1>1, Consecutive
<1>3. Elements(r) \subseteq DOMAIN entries
  <2>1. head + (tail - head) - 1 = tail - 1
    BY StoreNumbers
  <2> QED BY <1>1, <1>2, <2>1
<1>4. \A k \in 1 .. tail - head : r[k] = head + k - 1 /\ entries[head + k - 1] \in Results
  <2>1. \A k \in 1 .. tail - head : head + k - 1 \in head .. tail - 1
    BY StoreNumbers
  <2> QED BY <1>1, <2>1 DEF Run, StoreInv, StoreTypeOK
<1>5. ReadAllEntries = ReadSlots(r)
  BY <1>1 DEF ReadAllEntries, ReadRange
<1> HIDE DEF r
<1>6. Keep(r, DOMAIN entries) = r
  BY <1>2, <1>3, KeepAllIndices
<1>7. ReadSlots(r) = [k \in 1 .. tail - head |-> entries[r[k]]]
  BY <1>2, <1>6 DEF ReadSlots
<1> QED BY <1>1, <1>4, <1>5, <1>7 DEF Window

\* Reading an outage's index is filtering the window.
LEMMA IndexIsFilter ==
  ASSUME StoreInv, NEW o \in OutageIds
  PROVE  /\ EntriesForOutage(o) = Keep(Window, { r \in Results : r.outage_id = o })
         /\ EntriesForOutage(o) = [k \in 1 .. Len(outageIndex[o]) |-> entries[outageIndex[o][k]]]
<1> DEFINE x == outageIndex[o]
           p == [k \in 1 .. Len(x) |-> x[k] - head + 1]
           S == { r \in Results : r.outage_id = o }
           live == { i \in head .. tail - 1 : entries[i].outage_id = o }
<1>1. /\ head \in Nat /\ tail \in Nat /\ head <= tail
      /\ \A i : i \in DOMAIN entries <=> i \in head .. tail - 1
  BY StoreNumbers
<1>2. x \in Seq(Nat) /\ StrictlyIncreasing(x) /\ Elements(x) = live
  BY DEF StoreInv, StoreTypeOK, IndexExact
<1>3. Window \in Seq(Results) /\ Len(Window) = tail - head
  BY ReadAllIsWindow
<1>4. EntriesForOutage(o) = [k \in 1 .. Len(x) |-> entries[x[k]]]
  <2>1. Elements(x) \subseteq DOMAIN entries
    BY <1>1, <1>2
  <2>2. Keep(x, DOMAIN entries) = x
    BY <1>2, <2>1, KeepAllIndices
  <2> QED BY <2>2 DEF EntriesForOutage, ReadSlots
<1>5. \A k \in 1 .. Len(x) : x[k] \in head .. tail - 1 /\ entries[x[k]].outage_id = o
  BY <1>2 DEF Elements
<1>a. Len(x) \in Nat /\ \A k \in 1 .. Len(x) : x[k] - head + 1 \in Nat /\ x[k] - head + 1 \in 1 .. tail - head
  <2> HIDE DEF x
  <2> QED BY <1>1, <1>2, <1>5
<1>6. p \in Seq(Nat) /\ Len(p) = Len(x) /\ \A k \in 1 .. Len(x) : p[k] = x[k] - head + 1 /\ p[k] \in 1 .. tail - head
  <2> HIDE DEF x
  <2> QED BY <1>a
<1>7. \A k \in 1 .. tail - head : Window[k] = entries[head + k - 1] /\ Window[k] \in Results
  <2>1. \A k \in 1 .. tail - head : Window[k] = entries[head + k - 1]
    BY DEF Window
  <2> QED BY <1>3, <2>1
<1> HIDE DEF x, p
<1>8. StrictlyIncreasing(p)
  <2> SUFFICES ASSUME NEW i \in 1 .. Len(p), NEW j \in 1 .. Len(p), i < j
               PROVE  p[i] < p[j]
    BY DEF StrictlyIncreasing
  <2>1. x[i] < x[j] /\ x[i] \in Nat /\ x[j] \in Nat
    BY <1>2, <1>6 DEF StrictlyIncreasing
  <2> QED BY <1>1, <1>6, <2>1
<1>9. Elements(p) = PlacesOf(Window, S)
  <2>1. ASSUME NEW i \in Elements(p)
        PROVE  i \in 1 .. Len(Window) /\ Window[i] \in S
    <3>1. PICK k \in 1 .. Len(p) : i = p[k]
      BY <2>1 DEF Elements
    <3>2. i \in 1 .. tail - head /\ head + i - 1 = x[k] /\ k \in 1 .. Len(x)
      BY <1>1, <1>5, <1>6, <3>1
    <3> QED BY <1>3, <1>5, <1>7, <3>2
  <2>2. ASSUME NEW i \in 1 .. Len(Window), Window[i] \in S
        PROVE  i \in Elements(p)
    <3>1. head + i - 1 \in live
      BY <1>1, <1>3, <1>7, <2>2
    <3>2. PICK k \in 1 .. Len(x) : x[k] = head + i - 1
      BY <1>2, <3>1 DEF Elements
    <3>3. p[k] = i /\ k \in 1 .. Len(p)
      BY <1>1, <1>3, <1>6, <3>2
    <3> QED BY <3>3 DEF Elements
  <2> QED BY <2>1, <2>2 DEF PlacesOf
<1>10. /\ Keep(Window, S) \in Seq(Results) /\ Len(Keep(Window, S)) = Len(p)
       /\ \A k \in 1 .. Len(p) : Keep(Window, S)[k] = Window[p[k]]
  <2> HIDE DEF S
  <2> QED BY <1>3, <1>6, <1>8, <1>9, KeepPicks
<1>11. \A k \in 1 .. Len(x) : Window[p[k]] = entries[x[k]]
  <2>1. \A k \in 1 .. Len(x) : head + p[k] - 1 = x[k]
    BY <1>1, <1>5, <1>6
  <2> QED BY <1>6, <1>7, <2>1
<1>12. Keep(Window, S) = [k \in 1 .. Len(x) |-> entries[x[k]]]
  <2> HIDE DEF S
  <2> QED BY <1>6, <1>10, <1>11
<1> QED BY <1>4, <1>12 DEF x

\* RetainedLog is written with the same vector operators.
LEMMA SameOperators ==
  /\ \A s, S : Abstract!Keep(s, S) = Keep(s, S)
  /\ \A s : Abstract!LastOf(s) = LastOf(s)
BY DEF Abstract!Keep, Abstract!KeepLoop, Keep, KeepLoop, Abstract!LastOf, LastOf

\* The two lookups answer as a scan of the window would.
LEMMA AnswersHold == StoreInv => Abstract!Answers
<1> SUFFICES ASSUME StoreInv
             PROVE  Abstract!Answers
  OBVIOUS
<1>1. ReadAllEntries = Window
  BY ReadAllIsWindow
<1>2. [o \in OutageIds |-> EntriesForOutage(o)] = Abstract!ScanByOutage(ReadAllEntries)
  <2>1. ASSUME NEW o \in OutageIds
        PROVE  EntriesForOutage(o) = Abstract!Keep(ReadAllEntries, { r \in Results : r.outage_id = o })
    BY <1>1, IndexIsFilter, SameOperators
  <2> QED BY <2>1 DEF Abstract!ScanByOutage
<1>3. ASSUME NEW o \in OutageIds
      PROVE  LatestForOutage(o) = IF EntriesForOutage(o) = << >> THEN NoResult ELSE LastOf(EntriesForOutage(o))
  <2> DEFINE x == outageIndex[o]
  <2>1. x \in Seq(Nat) /\ EntriesForOutage(o) = [k \in 1 .. Len(x) |-> entries[x[k]]]
    BY IndexIsFilter DEF StoreInv, StoreTypeOK
  <2>2. CASE x = << >>
    BY <2>1, <2>2 DEF LatestForOutage
  <2>3. CASE x # << >>
    <3>1. Len(x) \in 1 .. Len(x)
      BY <2>1, <2>3
    <3>2. LastOf(x) \in DOMAIN entries
      BY <3>1, StoreNumbers DEF LastOf, Elements, StoreInv, IndexExact
    <3>3. LatestForOutage(o) = entries[x[Len(x)]]
      BY <2>3, <3>2 DEF LatestForOutage, LastOf
    <3>4. EntriesForOutage(o) # << >> /\ LastOf(EntriesForOutage(o)) = entries[x[Len(x)]]
      <4>1. Len(EntriesForOutage(o)) = Len(x)
        BY <2>1
      <4> QED BY <2>1, <3>1, <4>1 DEF LastOf
    <3> QED BY <3>3, <3>4
  <2> QED BY <2>2, <2>3
<1> DEFINE byOutage == [o \in OutageIds |-> EntriesForOutage(o)]
<1>4. [o \in OutageIds |-> LatestForOutage(o)]
        = [o \in OutageIds |-> IF byOutage[o] = << >> THEN NoResult ELSE Abstract!LastOf(byOutage[o])]
  BY <1>3, SameOperators
<1> QED BY <1>2, <1>4 DEF Abstract!Answers

\* w is what the slots e hold from h up to t.
Spans(w, e, h, t) ==
  /\ h \in Nat /\ t \in Nat /\ h <= t
  /\ w \in Seq(Results)
  /\ Len(w) = t - h
  /\ \A k \in 1 .. t - h : w[k] = e[h + k - 1]

\* Both, as one formula of a state.
Answered ==
  /\ ReadAllEntries = Window
  /\ Spans(Window, entries, head, tail)
  /\ Abstract!Answers

LEMMA StoreAnswered == StoreInv => Answered
BY StoreNumbers, ReadAllIsWindow, AnswersHold DEF Answered, Spans, Window

\* The same of the state a step leads to.
LEMMA StoreAnsweredNext == StoreInv' => Answered'
BY StoreAnswered, PTL

-----------------------------------------------------------------------------
(* What a step forgets is a prefix *)

LEMMA NewestBySize ==
  ASSUME NEW X, NEW s \in Seq(X), NEW t \in Seq(X), Len(t) <= Len(s),
         \A k \in 1 .. Len(t) : t[k] = s[k + Len(s) - Len(t)]
  PROVE  t = Abstract!Newest(s, Len(t))
<1>1. Len(s) \in Nat /\ Len(t) \in Nat
  OBVIOUS
<1>2. CASE Len(t) = Len(s)
  <2>1. \A k \in 1 .. Len(t) : t[k] = s[k]
    BY <1>1, <1>2
  <2>2. t = s
    BY <1>2, <2>1
  <2> QED BY <1>1, <1>2, <2>2 DEF Abstract!Newest
<1>3. CASE Len(t) < Len(s)
  <2> DEFINE m == Len(s) - Len(t) + 1
             u == SubSeq(s, m, Len(s))
  <2>1. m \in 1 .. Len(s) + 1 /\ Len(s) - m + 1 = Len(t)
    BY <1>1, <1>3
  <2>2. \A i \in m .. Len(s) : s[i] \in X
    BY <1>1, <2>1
  <2>3. /\ u \in Seq(X) /\ Len(u) = IF m <= Len(s) THEN Len(s) - m + 1 ELSE 0
        /\ \A i \in 1 .. Len(s) - m + 1 : u[i] = s[m + i - 1]
    <3> HIDE DEF m
    <3> QED BY <1>1, <2>1, <2>2, SubSeqProperties
  <2>4. Len(u) = Len(t) /\ \A k \in 1 .. Len(t) : u[k] = t[k]
    <3>1. Len(u) = Len(t)
      BY <1>1, <2>1, <2>3
    <3>2. \A k \in 1 .. Len(t) : m + k - 1 = k + Len(s) - Len(t)
      BY <1>1
    <3> HIDE DEF u, m
    <3> QED BY <2>1, <2>3, <3>1, <3>2
  <2>5. u = t
    <3> HIDE DEF u
    <3> QED BY <2>3, <2>4
  <2> QED BY <1>1, <1>3, <2>5 DEF Abstract!Newest
<1> QED BY <1>1, <1>2, <1>3

\* Two windows that end at the same place on slots that agree.
LEMMA LaterStart ==
  ASSUME NEW w, NEW v, NEW e, NEW d, NEW h, NEW g, NEW t,
         Spans(w, e, h, t), Spans(v, d, g, t), h <= g,
         \A i \in g .. t - 1 : d[i] = e[i]
  PROVE  v = Abstract!Newest(w, Len(v)) /\ Len(v) <= Len(w)
<1> USE DEF Spans
<1>1. Len(v) <= Len(w)
  OBVIOUS
<1>2. \A k \in 1 .. Len(v) : v[k] = w[k + Len(w) - Len(v)]
  <2> SUFFICES ASSUME NEW k \in 1 .. t - g
               PROVE  v[k] = w[k + Len(w) - Len(v)]
    OBVIOUS
  <2>1. k + Len(w) - Len(v) = k + g - h
    OBVIOUS
  <2>2. k + g - h \in 1 .. t - h /\ g + k - 1 \in g .. t - 1 /\ h + (k + g - h) - 1 = g + k - 1
    OBVIOUS
  <2>3. w[k + g - h] = e[g + k - 1]
    BY <2>2
  <2>4. v[k] = d[g + k - 1] /\ d[g + k - 1] = e[g + k - 1]
    BY <2>2
  <2> QED BY <2>1, <2>3, <2>4
<1> QED BY <1>1, <1>2, NewestBySize

\* One slot more, with what is appended.
LEMMA OneMore ==
  ASSUME NEW w, NEW e, NEW d, NEW h, NEW t, NEW r \in Results, Spans(w, e, h, t),
         \A i \in h .. t - 1 : d[i] = e[i], d[t] = r
  PROVE  Spans(Append(w, r), d, h, t + 1)
<1> DEFINE a == Append(w, r)
<1>1. h \in Nat /\ t \in Nat /\ h <= t
  BY DEF Spans
<1>2. /\ a \in Seq(Results) /\ Len(a) = t - h + 1
      /\ \A k \in 1 .. t - h : a[k] = e[h + k - 1]
      /\ a[t - h + 1] = r
  <2>1. /\ w \in Seq(Results) /\ Len(w) = t - h
        /\ \A k \in 1 .. t - h : w[k] = e[h + k - 1]
    BY DEF Spans
  <2>2. /\ a \in Seq(Results) /\ Len(a) = Len(w) + 1
        /\ \A k \in 1 .. Len(w) : a[k] = w[k]
        /\ a[Len(w) + 1] = r
    BY <2>1
  <2> HIDE DEF a
  <2> QED BY <2>1, <2>2
<1> HIDE DEF a
<1>3. ASSUME NEW k \in 1 .. (t + 1) - h
      PROVE  a[k] = d[h + k - 1]
  <2>1. CASE k \in 1 .. t - h
    <3>1. h + k - 1 \in h .. t - 1
      BY <1>1, <2>1
    <3> QED BY <1>2, <2>1, <3>1
  <2>2. CASE k = t - h + 1
    <3>1. h + k - 1 = t
      BY <1>1, <2>2
    <3> QED BY <1>2, <2>2, <3>1
  <2> QED BY <1>1, <2>1, <2>2
<1>4. t + 1 \in Nat /\ h <= t + 1 /\ Len(a) = (t + 1) - h
  BY <1>1, <1>2
<1>5. Spans(a, d, h, t + 1)
  BY <1>1, <1>2, <1>3, <1>4 DEF Spans
<1> QED BY <1>5 DEF a

\* append_entry: the decision comes last, and the oldest goes when it must.
LEMMA AppendIsNewest ==
  ASSUME StoreInv, StoreInv', NEW r \in Results,
         AppendEntry(r, retentionLimit, outageIndex[r.outage_id])
  PROVE  \E n \in 1 .. MAX_HISTORY_SIZE : Window' = Abstract!Newest(Append(Window, r), n)
<1> DEFINE written == [i \in DOMAIN entries \cup {tail} |-> IF i = tail THEN r ELSE entries[i]]
           a == Append(Window, r)
<1>0. head \in Nat /\ tail \in Nat /\ head <= tail /\ Spans(Window, entries, head, tail)
  BY StoreAnswered DEF Answered, Spans
<1>1. Spans(Window', entries', head', tail')
  BY StoreAnsweredNext DEF Answered
<1>2. /\ \A i : i \in DOMAIN entries <=> i \in head .. tail - 1
      /\ retentionLimit \in 1 .. MAX_HISTORY_SIZE
      /\ MAX_HISTORY_SIZE \in Nat
  BY StoreNumbers, HistoryAssumption DEF StoreInv, StoreTypeOK
<1>3. /\ tail' = tail + 1
      /\ \/ tail + 1 - head <= retentionLimit /\ entries' = written /\ head' = head
         \/ tail + 1 - head > retentionLimit /\ entries' = Without(written, {head}) /\ head' = head + 1
  <2>1. SaturatingSub(tail + 1, head) = tail + 1 - head
    BY <1>0 DEF SaturatingSub
  <2> HIDE DEF written
  <2> QED BY <2>1 DEF AppendEntry, written
<1>4. tail' = tail + 1 /\ (head' = head \/ head' = head + 1)
  BY <1>3
<1>5. tail' - head' \in 1 .. MAX_HISTORY_SIZE
  <2>1. tail' - head' >= 1
    <3>1. CASE tail + 1 - head > retentionLimit /\ head' = head + 1
      BY <1>0, <1>2, <1>4, <3>1
    <3>2. CASE head' = head
      BY <1>0, <1>4, <3>2
    <3> QED BY <1>3, <3>1, <3>2
  <2>2. historyLen' = tail' - head' /\ historyLen' <= retentionLimit' /\ retentionLimit' \in 1 .. MAX_HISTORY_SIZE
    BY DEF StoreInv, CachedLengthWithinLimit, StoreTypeOK
  <2> QED BY <1>0, <1>2, <1>4, <2>1, <2>2
<1>6. Spans(a, written, head, tail + 1)
  <2>1. (\A i \in head .. tail - 1 : written[i] = entries[i]) /\ written[tail] = r
    BY <1>0, <1>2
  <2> HIDE DEF written
  <2> QED BY <1>0, <2>1, OneMore
<1>7. \A i \in head' .. tail : entries'[i] = written[i]
  <2>1. CASE entries' = written
    <3> HIDE DEF written
    <3> QED BY <2>1
  <2>2. CASE entries' = Without(written, {head}) /\ head' = head + 1
    <3>1. \A i \in head' .. tail : (i \in head .. tail - 1 \/ i = tail) /\ i # head
      BY <1>0, <2>2
    <3>2. \A i \in head' .. tail : i \in DOMAIN written \ {head}
      BY <1>2, <3>1
    <3> HIDE DEF written
    <3> QED BY <2>2, <3>2 DEF Without
  <2> HIDE DEF written
  <2> QED BY <1>3, <2>1, <2>2
<1> HIDE DEF written, a
<1>8. Window' = Abstract!Newest(a, Len(Window'))
  <2>1. \A i \in head' .. tail' - 1 : entries'[i] = written[i]
    BY <1>0, <1>4, <1>7
  <2>2. head <= head'
    BY <1>0, <1>4
  <2> QED BY <1>1, <1>4, <1>6, <2>1, <2>2, LaterStart
<1>9. Len(Window') \in 1 .. MAX_HISTORY_SIZE
  BY <1>1, <1>5 DEF Spans
<1> QED BY <1>8, <1>9 DEF a

\* prune_oldest: the last keep_count decisions stay, where they are.
LEMMA PruneIsNewest ==
  ASSUME StoreInv, StoreInv', NEW keepCount \in Nat, PruneOldest(keepCount)
  PROVE  \E n \in 0 .. Len(Window) : Window' = Abstract!Newest(Window, n)
<1>0. /\ head \in Nat /\ tail \in Nat /\ head <= tail
      /\ Spans(Window, entries, head, tail)
      /\ \A i : i \in DOMAIN entries <=> i \in head .. tail - 1
      /\ SaturatingSub(tail, head) = tail - head
  BY StoreAnswered, StoreNumbers DEF Answered
<1>1. Spans(Window', entries', head', tail')
  BY StoreAnsweredNext DEF Answered
<1>2. /\ head' \in Nat /\ head <= head' /\ head' <= tail /\ tail' = tail
      /\ \A i \in head' .. tail - 1 : entries'[i] = entries[i]
  <2>1. CASE UNCHANGED historyVars
    BY <1>0, <2>1 DEF historyVars
  <2>2. CASE keepCount < tail - head
    <3>1. SaturatingSub(tail, keepCount) = tail - keepCount
      BY <1>0, <2>2 DEF SaturatingSub
    <3>2. /\ head' = tail - keepCount /\ tail' = tail
          /\ entries' = Without(entries, head .. tail - keepCount - 1)
      BY <1>0, <2>2, <3>1 DEF PruneOldest
    <3>3. head' \in Nat /\ head <= head' /\ head' <= tail
      BY <1>0, <2>2, <3>2
    <3>4. \A i \in head' .. tail - 1 : i \in DOMAIN entries \ (head .. tail - keepCount - 1)
      <4>1. \A i \in head' .. tail - 1 : i \in head .. tail - 1 /\ i \notin head .. tail - keepCount - 1
        BY <1>0, <3>2, <3>3
      <4> QED BY <1>0, <4>1
    <3>5. \A i \in head' .. tail - 1 : entries'[i] = entries[i]
      BY <3>2, <3>4 DEF Without
    <3> QED BY <3>2, <3>3, <3>5
  <2>3. UNCHANGED historyVars \/ keepCount < tail - head
    BY <1>0 DEF PruneOldest
  <2> QED BY <2>1, <2>2, <2>3
<1>3. Window' = Abstract!Newest(Window, Len(Window')) /\ Len(Window') <= Len(Window)
  BY <1>0, <1>1, <1>2, LaterStart
<1>4. Len(Window') \in 0 .. Len(Window)
  BY <1>0, <1>1, <1>3 DEF Spans
<1> QED BY <1>3, <1>4

Recent(t) == { r \in Results : r.recorded_at >= t }

\* What is recent is at the end of the window, because the window is in order.
LEMMA RecentIsSuffix ==
  ASSUME StoreInv, NEW t \in Int,
         NEW w, w = Keep(Window, Recent(t))
  PROVE  /\ w \in Seq(Results) /\ Len(w) <= Len(Window)
         /\ \A k \in 1 .. Len(w) : w[k] = Window[k + Len(Window) - Len(w)]
<1> DEFINE P == PlacesOf(Window, Recent(t))
           n == Len(Window)
<1>1. Window \in Seq(Results) /\ n \in Nat /\ n = tail - head
  BY ReadAllIsWindow
<1>2. \A i, j \in 1 .. n : i < j => Window[i].recorded_at <= Window[j].recorded_at
  <2> SUFFICES ASSUME NEW i \in 1 .. n, NEW j \in 1 .. n, i < j
               PROVE  Window[i].recorded_at <= Window[j].recorded_at
    OBVIOUS
  <2>1. head + i - 1 \in head .. tail - 1 /\ head + j - 1 \in head .. tail - 1 /\ head + i - 1 < head + j - 1
    BY <1>1, StoreNumbers
  <2>2. Window[i] = entries[head + i - 1] /\ Window[j] = entries[head + j - 1]
    BY <1>1 DEF Window
  <2> QED BY <2>1, <2>2 DEF StoreInv, Chronological
<1>3. \A i \in 1 .. n : Window[i] \in Results /\ Window[i].recorded_at \in Nat
  BY <1>1, HistoryAssumption
<1>4. \E m \in 1 .. n + 1 : P = m .. n
  <2>1. CASE P = {}
    <3>1. n + 1 \in 1 .. n + 1 /\ (n + 1) .. n = {}
      BY <1>1
    <3> QED BY <2>1, <3>1
  <2>2. CASE P # {}
    <3>1. PICK m \in P : \A k \in P : ~(k < m)
      <4>1. P \subseteq Nat
        BY DEF PlacesOf
      <4> HIDE DEF P
      <4> QED BY <2>2, <4>1, LeastNumber
    <3>2. m \in 1 .. n /\ Window[m].recorded_at >= t
      BY DEF PlacesOf, Recent
    <3>3. \A i \in m .. n : i \in P
      <4> SUFFICES ASSUME NEW i \in m .. n
                   PROVE  Window[i] \in Recent(t) /\ i \in 1 .. n
        BY DEF PlacesOf
      <4>1. i \in 1 .. n /\ (i = m \/ m < i)
        BY <1>1, <3>2
      <4>2. Window[m].recorded_at <= Window[i].recorded_at
        BY <1>2, <1>3, <3>2, <4>1
      <4> QED BY <1>3, <3>2, <4>1, <4>2 DEF Recent
    <3>4. \A i \in P : i \in m .. n
      BY <1>1, <3>1, <3>2 DEF PlacesOf
    <3>5. P = m .. n
      BY <3>3, <3>4
    <3> HIDE DEF P
    <3> QED BY <1>1, <3>2, <3>5
  <2> QED BY <2>1, <2>2
<1>5. PICK m \in 1 .. n + 1 : P = m .. n
  BY <1>4
<1>6. /\ w \in Seq(Results)
      /\ Len(w) = n - m + 1
      /\ \A k \in 1 .. n - m + 1 : w[k] = Window[m + k - 1]
  BY <1>1, <1>5, KeepSuffix, SMTT(30)
<1> HIDE DEF n
<1>7. Len(w) <= n /\ \A k \in 1 .. Len(w) : m + k - 1 = k + n - Len(w)
  BY <1>1, <1>6
<1>8. \A k \in 1 .. Len(w) : w[k] = Window[k + n - Len(w)]
  BY <1>6, <1>7
<1> QED BY <1>6, <1>7, <1>8 DEF n

\* rebuild_history: the survivors are the window it leaves.
LEMMA RebuiltWindow ==
  ASSUME StoreInv, StoreInv', NEW survivors \in Seq(Results), RebuildHistory(survivors)
  PROVE  Window' = survivors
<1> USE StoreNumbers
<1> DEFINE slots == head .. head + Len(survivors) - 1
<1>1. Len(survivors) \in Nat
  OBVIOUS
<1>2. /\ head' = head /\ tail' = head + Len(survivors)
      /\ \A i \in slots : entries'[i] = survivors[i - head + 1]
  BY DEF RebuildHistory
<1>3. \A k \in 1 .. Len(survivors) : head + k - 1 \in slots /\ (head + k - 1) - head + 1 = k
  BY <1>1
<1>4. Window' = [k \in 1 .. tail' - head' |-> entries'[head' + k - 1]]
  BY DEF Window
<1>5. tail' - head' = Len(survivors)
  BY <1>1, <1>2
<1> HIDE DEF slots
<1>6. Window' = [k \in 1 .. Len(survivors) |-> survivors[k]]
  BY <1>2, <1>3, <1>4, <1>5
<1> QED BY <1>6

-----------------------------------------------------------------------------
(* The refinement *)

LEMMA InitImplements == Init => Abstract!Init
<1> SUFFICES ASSUME Init
             PROVE  Abstract!Init
  OBVIOUS
<1>1. Inv
  BY InitInv
<1>2. ReadAllEntries = Window /\ Spans(Window, entries, head, tail) /\ Abstract!Answers
  BY <1>1, StoreAnswered DEF Inv, Answered
<1>3. head = 0 /\ tail = 0 /\ recorded = << >>
  BY DEF Init, HistoryInit
<1>4. Window = << >>
  BY <1>2, <1>3 DEF Spans
<1> QED BY <1>2, <1>3, <1>4 DEF Abstract!Init

\* A step that leaves the newest n decisions, and records none, forgets.
LEMMA ForgetsOldest ==
  ASSUME StoreInv, StoreInv', UNCHANGED recorded, NEW n \in 0 .. Len(Window),
         Window' = Abstract!Newest(Window, n)
  PROVE  Abstract!Next
<1>1. ReadAllEntries = Window
  BY StoreAnswered DEF Answered
<1>2. ReadAllEntries' = Window' /\ Abstract!Answers'
  BY StoreAnsweredNext DEF Answered
<1>3. Abstract!Forget
  BY <1>1, <1>2 DEF Abstract!Forget
<1> QED BY <1>3 DEF Abstract!Next

\* A step that touches no entry is a Forget that forgets nothing.
LEMMA KeepsAll ==
  ASSUME StoreInv, StoreInv', UNCHANGED << recorded, entries, head, tail >>
  PROVE  Abstract!Next
<1>1. Window' = Window
  BY DEF Window
<1>2. Len(Window) \in 0 .. Len(Window) /\ Window = Abstract!Newest(Window, Len(Window))
  BY StoreAnswered DEF Answered, Spans, Abstract!Newest
<1> QED BY <1>1, <1>2, ForgetsOldest

LEMMA RecordImplements ==
  ASSUME StoreInv, StoreInv', NEW r \in Results, Record(r)
  PROVE  Abstract!Next
<1>1. PICK n \in 1 .. MAX_HISTORY_SIZE : Window' = Abstract!Newest(Append(Window, r), n)
  BY AppendIsNewest DEF Record
<1>2. ReadAllEntries = Window
  BY StoreAnswered DEF Answered
<1>3. ReadAllEntries' = Window' /\ Abstract!Answers'
  BY StoreAnsweredNext DEF Answered
<1>4. recorded' = Append(recorded, r)
  BY DEF Record
<1>5. Abstract!Record(r)
  BY <1>1, <1>2, <1>3, <1>4 DEF Abstract!Record
<1> QED BY <1>5 DEF Abstract!Next

LEMMA PruneByAgeImplements ==
  ASSUME StoreInv, StoreInv', NEW minAge \in Nat, PruneHistoryByAge(minAge)
  PROVE  Abstract!Next
<1> DEFINE survivors == Keep(Window, Recent(now - minAge))
<1>1. ReadAllEntries = Window
  BY StoreAnswered DEF Answered
<1>2. now - minAge \in Int
  BY DEF StoreInv
<1>3. /\ survivors \in Seq(Results) /\ Len(survivors) <= Len(Window)
      /\ \A k \in 1 .. Len(survivors) : survivors[k] = Window[k + Len(Window) - Len(survivors)]
  BY <1>2, RecentIsSuffix
<1>4. UNCHANGED recorded /\ (RebuildHistory(survivors) \/ UNCHANGED historyVars)
  BY <1>1 DEF PruneHistoryByAge, Recent
<1> HIDE DEF survivors
<1>5. CASE UNCHANGED historyVars
  BY <1>4, <1>5, KeepsAll DEF historyVars
<1>6. CASE RebuildHistory(survivors)
  <2>1. Window' = survivors
    BY <1>3, <1>6, RebuiltWindow
  <2>2. Window \in Seq(Results)
    BY StoreAnswered DEF Answered, Spans
  <2>3. survivors = Abstract!Newest(Window, Len(survivors))
    BY <1>3, <2>2, NewestBySize
  <2>4. Len(survivors) \in 0 .. Len(Window)
    BY <1>3, <2>2
  <2> QED BY <1>4, <2>1, <2>3, <2>4, ForgetsOldest
<1> QED BY <1>4, <1>5, <1>6

\* Every step of the store is a step of the log, or forgets nothing.
LEMMA StepImplements ==
  ASSUME StoreInv, StoreInv', [Next]_vars
  PROVE  Abstract!Next
<1>1. ASSUME NEW r \in Results, Record(r)
      PROVE  Abstract!Next
  BY <1>1, RecordImplements
<1>2. ASSUME NEW keepLatest \in 0 .. MAX_HISTORY_SIZE, PruneHistory(keepLatest)
      PROVE  Abstract!Next
  <2>1. keepLatest \in Nat /\ PruneOldest(keepLatest) /\ UNCHANGED recorded
    BY <1>2, HistoryAssumption DEF PruneHistory
  <2>2. PICK n \in 0 .. Len(Window) : Window' = Abstract!Newest(Window, n)
    BY <2>1, PruneIsNewest
  <2> QED BY <2>1, <2>2, ForgetsOldest
<1>3. ASSUME NEW minAge \in 0 .. MaxLedger, PruneHistoryByAge(minAge)
      PROVE  Abstract!Next
  <2>1. minAge \in Nat
    BY MaxLedgerAssumption
  <2> QED BY <1>3, <2>1, PruneByAgeImplements
<1>4. ASSUME NEW limit \in 0 .. MAX_HISTORY_SIZE + 1, SetRetentionLimit(limit)
      PROVE  Abstract!Next
  <2>1. limit \in Nat /\ PruneOldest(limit) /\ UNCHANGED recorded
    BY <1>4, HistoryAssumption DEF SetRetentionLimit
  <2>2. PICK n \in 0 .. Len(Window) : Window' = Abstract!Newest(Window, n)
    BY <2>1, PruneIsNewest
  <2> QED BY <2>1, <2>2, ForgetsOldest
<1>5. CASE NewLedger
  BY <1>5, KeepsAll DEF NewLedger, storeVars, historyVars
<1>6. CASE UNCHANGED vars
  BY <1>6, KeepsAll DEF vars, storeVars, historyVars
<1> QED BY <1>1, <1>2, <1>3, <1>4, <1>5, <1>6 DEF Next

\* v is the end of w.
Ends(v, w) ==
  /\ Len(v) \in Nat /\ Len(w) \in Nat /\ Len(v) <= Len(w)
  /\ \A k \in 1 .. Len(v) : v[k] = w[k + (Len(w) - Len(v))]

LEMMA NewestEnds ==
  ASSUME NEW X, NEW w \in Seq(X), NEW n \in Nat
  PROVE  Ends(Abstract!Newest(w, n), w)
<1>1. Len(w) \in Nat
  OBVIOUS
<1>2. CASE n >= Len(w)
  <2>1. Abstract!Newest(w, n) = w
    BY <1>2 DEF Abstract!Newest
  <2>2. \A k \in 1 .. Len(w) : k + (Len(w) - Len(w)) = k
    BY <1>1
  <2> QED BY <1>1, <2>1, <2>2 DEF Ends
<1>3. CASE n < Len(w)
  <2> DEFINE m == Len(w) - n + 1
             v == SubSeq(w, m, Len(w))
  <2>1. Abstract!Newest(w, n) = v
    BY <1>1, <1>3 DEF Abstract!Newest
  <2>2. m \in 1 .. Len(w) + 1 /\ Len(w) - m + 1 = n
    BY <1>1, <1>3
  <2>3. Len(v) = n /\ \A k \in 1 .. n : v[k] = w[m + k - 1]
    <3>1. \A i \in m .. Len(w) : w[i] \in X
      BY <1>1, <2>2
    <3> HIDE DEF m
    <3> QED BY <1>1, <2>2, <3>1
  <2>4. \A k \in 1 .. n : m + k - 1 = k + (Len(w) - n)
    BY <1>1
  <2> HIDE DEF v, m
  <2>5. Ends(v, w)
    BY <1>1, <1>3, <2>3, <2>4 DEF Ends
  <2> QED BY <2>1, <2>5
<1> QED BY <1>1, <1>2, <1>3

\* What is retained loses its oldest part, after the decision just made, if
\* there is one, has joined it.
Moves ==
  \/ UNCHANGED recorded /\ Ends(Window', Window)
  \/ \E r \in Results : recorded' = Append(recorded, r) /\ Ends(Window', Append(Window, r))

LEMMA WindowMoves ==
  ASSUME StoreInv, StoreInv', [Next]_vars
  PROVE  Moves
<1>1. Abstract!Next
  BY StepImplements
<1>2. ReadAllEntries = Window /\ Window \in Seq(Results) /\ Len(Window) \in Nat
  BY ReadAllIsWindow
<1>3. ReadAllEntries' = Window'
  BY StoreAnsweredNext DEF Answered
<1>4. CASE \E r \in Results : Abstract!Record(r)
  <2>1. PICK r \in Results : Abstract!Record(r)
    BY <1>4
  <2>2. /\ recorded' = Append(recorded, r)
        /\ \E n \in 1 .. MAX_HISTORY_SIZE : Window' = Abstract!Newest(Append(Window, r), n)
    BY <1>2, <1>3, <2>1 DEF Abstract!Record
  <2>3. PICK n \in Nat : Window' = Abstract!Newest(Append(Window, r), n)
    BY <2>2, HistoryAssumption
  <2>4. Append(Window, r) \in Seq(Results)
    BY <1>2
  <2>5. Ends(Window', Append(Window, r))
    BY <2>3, <2>4, NewestEnds
  <2> QED BY <2>2, <2>5 DEF Moves
<1>5. CASE Abstract!Forget
  <2>1. recorded' = recorded /\ \E n \in 0 .. Len(Window) : Window' = Abstract!Newest(Window, n)
    BY <1>2, <1>3, <1>5 DEF Abstract!Forget
  <2>2. PICK n \in Nat : Window' = Abstract!Newest(Window, n)
    BY <1>2, <2>1
  <2>3. Ends(Window', Window)
    BY <1>2, <2>2, NewestEnds
  <2> QED BY <2>1, <2>3 DEF Moves
<1> QED BY <1>1, <1>4, <1>5 DEF Abstract!Next

\* The store implements RetainedLog: whatever is appended, pruned, aged out or
\* cut by a lower limit, readers see the newest part of the log, in order, and
\* both lookups answer as a scan of it would (get_history_by_outage,
\* get_latest_by_outage).
THEOREM ImplementsLog == Spec => ImplementsRetainedLog
<1>1. Inv /\ Inv' /\ [Next]_vars => [Abstract!Next]_Abstract!vars
  BY StepImplements DEF Inv
<1> QED BY <1>1, InitImplements, InvAlways, PTL DEF Spec, ImplementsRetainedLog, Abstract!Spec

=============================================================================
