------------------------- MODULE HistoryReadersProofs -------------------------
(***************************************************************************)
(* Following the history from outside, for every page size, history cap    *)
(* and stream of decisions: three ways of cutting a page agree, a copy     *)
(* kept from events is the history, and a walk by offset misses no more    *)
(* than what is dropped while it runs.                                     *)
(***************************************************************************)
EXTENDS HistoryReaders, VecOpsProofs, FiniteSetTheorems, FunctionTheorems

History == INSTANCE HistoryStoreProofs

\* The retained decisions, oldest first.
Window == History!Window

-----------------------------------------------------------------------------
(* The store, by either of its names *)

LEMMA StoreAssumptions == History!HistoryAssumption /\ History!MaxLedgerAssumption
BY PagingAssumption, MaxLedgerAssumption DEF History!HistoryAssumption, History!MaxLedgerAssumption

LEMMA SameVectors ==
  /\ \A s, S : Store!Keep(s, S) = History!Keep(s, S)
  /\ \A a, b : Store!SaturatingSub(a, b) = History!SaturatingSub(a, b)
  /\ \A a, b : Store!Run(a, b) = History!Run(a, b)
BY DEF Store!Keep, Store!KeepLoop, History!Keep, History!KeepLoop, Store!SaturatingSub, History!SaturatingSub,
       Store!Run, History!Run

LEMMA SameReads ==
  /\ \A start, count : Store!ReadRange(start, count) = History!ReadRange(start, count)
  /\ Store!ReadAllEntries = History!ReadAllEntries
BY SameVectors DEF Store!ReadAllEntries, History!ReadAllEntries, Store!ReadRange, History!ReadRange,
                   Store!ReadSlots, History!ReadSlots

LEMMA SameWrites ==
  /\ \A r : Store!Record(r) => History!Record(r)
  /\ \A keepCount : Store!PruneOldest(keepCount) => History!PruneOldest(keepCount)
  /\ \A survivors : Store!RebuildHistory(survivors) => History!RebuildHistory(survivors)
<1>1. \A r : Store!Record(r) => History!Record(r)
  BY SameVectors DEF Store!Record, History!Record, Store!AppendEntry, History!AppendEntry, Store!Without, History!Without
<1>2. \A keepCount : Store!PruneOldest(keepCount) => History!PruneOldest(keepCount)
  BY SameVectors DEF Store!PruneOldest, History!PruneOldest, Store!Without, History!Without,
                     Store!historyVars, History!historyVars
<1>3. \A survivors : Store!RebuildHistory(survivors) => History!RebuildHistory(survivors)
  BY SameVectors DEF Store!RebuildHistory, History!RebuildHistory
<1> QED BY <1>1, <1>2, <1>3

LEMMA SameOperations ==
  /\ \A keepLatest : Store!PruneHistory(keepLatest) => History!PruneHistory(keepLatest)
  /\ \A minAge : Store!PruneHistoryByAge(minAge) => History!PruneHistoryByAge(minAge)
  /\ \A limit : Store!SetRetentionLimit(limit) => History!SetRetentionLimit(limit)
  /\ Store!NewLedger => History!NewLedger
<1>1. \A keepLatest : Store!PruneHistory(keepLatest) => History!PruneHistory(keepLatest)
  BY SameWrites DEF Store!PruneHistory, History!PruneHistory
<1>2. \A minAge : Store!PruneHistoryByAge(minAge) => History!PruneHistoryByAge(minAge)
  BY SameWrites, SameReads, SameVectors
     DEF Store!PruneHistoryByAge, History!PruneHistoryByAge, Store!historyVars, History!historyVars
<1>3. \A limit : Store!SetRetentionLimit(limit) => History!SetRetentionLimit(limit)
  BY SameWrites DEF Store!SetRetentionLimit, History!SetRetentionLimit
<1>4. Store!NewLedger => History!NewLedger
  BY DEF Store!NewLedger, History!NewLedger, Store!CloseLedger, History!CloseLedger, Store!storeVars,
         History!storeVars, Store!historyVars, History!historyVars
<1> QED BY <1>1, <1>2, <1>3, <1>4

\* A write of the contract and the events it publishes.
Writes ==
  \/ \E r \in Results : Record(r)
  \/ \E keepLatest \in 0 .. MAX_HISTORY_SIZE : PruneHistory(keepLatest)
  \/ \E minAge \in 0 .. MaxLedger : PruneHistoryByAge(minAge)
  \/ \E limit \in 1 .. MAX_HISTORY_SIZE : SetRetentionLimit(limit)

\* What a step does to the store.
LEMMA StoreStep ==
  ASSUME [Next]_vars
  PROVE  [History!Next]_(History!vars)
<1>1. CASE \E r \in Results : Record(r)
  BY <1>1, SameWrites DEF Record, History!Next
<1>2. CASE \E keepLatest \in 0 .. MAX_HISTORY_SIZE : PruneHistory(keepLatest)
  BY <1>2, SameOperations DEF PruneHistory, History!Next
<1>3. CASE \E minAge \in 0 .. MaxLedger : PruneHistoryByAge(minAge)
  BY <1>3, SameOperations DEF PruneHistoryByAge, History!Next
<1>4. CASE \E limit \in 1 .. MAX_HISTORY_SIZE : SetRetentionLimit(limit)
  <2>1. PICK limit \in 1 .. MAX_HISTORY_SIZE : SetRetentionLimit(limit)
    BY <1>4
  <2>2. limit \in 0 .. MAX_HISTORY_SIZE + 1
    BY PagingAssumption
  <2> QED BY <2>1, <2>2, SameOperations DEF SetRetentionLimit, History!Next
<1>5. CASE NewLedger
  BY <1>5, SameOperations DEF NewLedger, History!Next
<1>6. CASE ReadPage \/ (\E limit \in WalkLimits : StartWalk(limit)) \/ UNCHANGED vars
  <2>1. UNCHANGED storeVars
    BY <1>6 DEF ReadPage, StartWalk, vars
  <2> QED BY <2>1 DEF storeVars, History!vars, History!storeVars, History!historyVars
<1> QED BY <1>1, <1>2, <1>3, <1>4, <1>5, <1>6 DEF Next

-----------------------------------------------------------------------------
(* What the store says of its window *)

\* The window is what is read back, of the length the counters say.
WindowRead ==
  /\ Store!ReadAllEntries = Window /\ Window \in Seq(Results)
  /\ head \in Nat /\ tail \in Nat /\ head <= tail
  /\ Len(Window) = tail - head /\ SaturatingSub(tail, head) = Len(Window)
  /\ retentionLimit \in 1 .. MAX_HISTORY_SIZE /\ Len(Window) <= retentionLimit

LEMMA WindowIs == History!StoreInv => WindowRead
<1> SUFFICES ASSUME History!StoreInv PROVE WindowRead
  OBVIOUS
<1>1. History!ReadAllEntries = Window /\ Window \in Seq(Results) /\ Len(Window) = tail - head
  BY StoreAssumptions, History!ReadAllIsWindow, Zenon DEF Window
<1>2. /\ head \in Nat /\ tail \in Nat /\ head <= tail /\ tail - head <= retentionLimit
      /\ retentionLimit \in 1 .. MAX_HISTORY_SIZE
  BY StoreAssumptions, History!StoreNumbers, Zenon
<1>3. SaturatingSub(tail, head) = tail - head
  BY <1>2 DEF SaturatingSub
<1> QED BY <1>1, <1>2, <1>3, SameReads DEF WindowRead

\* The same of the state a step leads to.
LEMMA WindowIsNext == History!StoreInv' => WindowRead'
  BY WindowIs, PTL

\* What ends a sequence is its last part.
LEMMA EndIsRest ==
  ASSUME NEW w \in Seq(Results), NEW v \in Seq(Results), History!Ends(v, w)
  PROVE  v = SubSeq(w, Len(w) - Len(v) + 1, Len(w))
<1>1. PICK m \in Nat, n \in Nat : m = Len(v) /\ n = Len(w)
  OBVIOUS
<1>2. m <= n /\ \A k \in 1 .. m : v[k] = w[k + (n - m)]
  BY <1>1 DEF History!Ends
<1>3. PICK u : u = SubSeq(w, n - m + 1, n)
  OBVIOUS
<1>4. u \in Seq(Results) /\ Len(u) = m /\ \A k \in 1 .. m : u[k] = w[k + (n - m)]
  <2>1. \A i \in n - m + 1 .. n : w[i] \in Results
    BY <1>1, <1>2
  <2>2. u = [k \in 1 .. m |-> w[k + (n - m)]]
    <3>1. u = [k \in 1 .. (n - (n - m + 1) + 1) |-> w[k + (n - m + 1) - 1]]
      BY <1>3
    <3>2. n - (n - m + 1) + 1 = m
      OBVIOUS
    <3>3. \A k \in 1 .. m : k + (n - m + 1) - 1 = k + (n - m)
      OBVIOUS
    <3> QED BY <3>1, <3>2, <3>3
  <2>3. \A k \in 1 .. m : w[k + (n - m)] \in Results
    BY <1>1, <1>2
  <2> QED BY <2>2, <2>3
<1>5. v = [k \in 1 .. m |-> v[k]] /\ u = [k \in 1 .. m |-> u[k]]
  BY <1>1, <1>4
<1>6. \A k \in 1 .. m : v[k] = u[k]
  BY <1>2, <1>4
<1>7. v = u
  BY <1>5, <1>6
<1> QED BY <1>1, <1>3, <1>7

\* Whatever a step does to the history, it forgets the oldest first.
LEMMA StepForgets ==
  ASSUME History!Inv, History!Inv', [Next]_vars
  PROVE  /\ Removed = Len(Window) - Len(Window')
         /\ \/ UNCHANGED recorded /\ History!Ends(Window', Window)
            \/ \E r \in Results : recorded' = Append(recorded, r) /\ History!Ends(Window', Append(Window, r))
<1>1. History!StoreInv /\ History!StoreInv'
  BY DEF History!Inv
<1>2. [History!Next]_(History!vars)
  BY StoreStep
<1>3. History!Moves
  BY <1>1, <1>2, StoreAssumptions, History!WindowMoves, Zenon
<1>4. SaturatingSub(tail, head) = Len(Window) /\ SaturatingSub(tail', head') = Len(Window')
  BY <1>1, WindowIs, WindowIsNext DEF WindowRead, SaturatingSub
<1> QED BY <1>3, <1>4 DEF History!Moves, Window, Removed

-----------------------------------------------------------------------------
(* The copy *)

\* The copy is well defined, as the loops of VecOps are.
LEMMA CopyLoopEquation ==
  ASSUME NEW copy, NEW events, Len(events) \in Nat
  PROVE  CopyLoop(copy, events) =
           [i \in 0 .. Len(events) |->
              IF i = 0 THEN copy ELSE Apply(CopyLoop(copy, events)[i - 1], events[i])]
<1> DEFINE Body(f, i) == IF i = 0 THEN copy ELSE Apply(f[i - 1], events[i])
           Defined == { n \in Nat : \E f : f = [i \in 0 .. n |-> Body(f, i)] }
<1>1. 0 \in Defined
  <2>1. [i \in 0 .. 0 |-> copy] = [i \in 0 .. 0 |-> Body([j \in 0 .. 0 |-> copy], i)]
    OBVIOUS
  <2> QED BY <2>1
<1>2. ASSUME NEW n \in Nat, n \in Defined PROVE n + 1 \in Defined
  <2>1. PICK f : f = [i \in 0 .. n |-> Body(f, i)]
    BY <1>2
  <2>2. PICK next : next = Apply(f[n], events[n + 1])
    OBVIOUS
  <2> DEFINE g == [i \in 0 .. n + 1 |-> IF i = n + 1 THEN next ELSE f[i]]
  <2>3. \A i \in 0 .. n + 1 : g[i] = Body(g, i)
    <3> SUFFICES ASSUME NEW i \in 0 .. n + 1 PROVE g[i] = Body(g, i)
      OBVIOUS
    <3>1. CASE i = n + 1
      <4>1. g[n] = f[n] /\ g[i] = next /\ i # 0 /\ i - 1 = n
        BY <3>1
      <4> HIDE DEF g
      <4>2. Body(g, i) = Apply(g[i - 1], events[i])
        BY <4>1
      <4> HIDE DEF Body
      <4> QED BY <2>2, <3>1, <4>1, <4>2
    <3>2. CASE i # n + 1
      <4>1. i \in 0 .. n
        BY <3>2
      <4>2. g[i] = f[i]
        BY <3>2
      <4>3. f[i] = Body(f, i)
        <5> HIDE DEF Body, g
        <5> QED BY <2>1, <4>1, Zenon
      <4>4. i # 0 => g[i - 1] = f[i - 1]
        BY <3>2
      <4> HIDE DEF g
      <4> QED BY <4>2, <4>3, <4>4
    <3> QED BY <3>1, <3>2
  <2>4. g = [i \in 0 .. n + 1 |-> Body(g, i)]
    <3>1. g = [i \in 0 .. n + 1 |-> g[i]]
      OBVIOUS
    <3> HIDE DEF g
    <3> QED BY <2>3, <3>1
  <2> HIDE DEF g
  <2> QED BY <2>4
<1>3. Len(events) \in Defined
  <2>1. \A n \in Nat : n \in Defined
    <3> HIDE DEF Defined
    <3> QED BY <1>1, <1>2, SetInduction
  <2> HIDE DEF Defined
  <2> QED BY <2>1
<1> QED BY <1>3 DEF CopyLoop

\* The copy before any event, and what one more event makes of it.
LEMMA CopyStep ==
  ASSUME NEW copy, NEW events, Len(events) \in Nat
  PROVE  /\ CopyLoop(copy, events)[0] = copy
         /\ \A i \in 1 .. Len(events) :
              CopyLoop(copy, events)[i] = Apply(CopyLoop(copy, events)[i - 1], events[i])
<1> DEFINE after == CopyLoop(copy, events)
           body  == [i \in 0 .. Len(events) |-> IF i = 0 THEN copy ELSE Apply(after[i - 1], events[i])]
<1>1. after = body
  BY CopyLoopEquation
<1> HIDE DEF after
<1>2. after[0] = copy
  BY <1>1
<1>3. ASSUME NEW i \in 1 .. Len(events) PROVE after[i] = Apply(after[i - 1], events[i])
  <2> SUFFICES body[i] = Apply(after[i - 1], events[i])
    BY <1>1
  <2> QED OBVIOUS
<1> QED BY <1>2, <1>3 DEF after

\* One event, and two.
LEMMA CopyOne ==
  ASSUME NEW copy, NEW event, NEW events, events = << event >>
  PROVE  CopyLoop(copy, events)[Len(events)] = Apply(copy, event)
<1> DEFINE after == CopyLoop(copy, events)
<1>1. Len(events) = 1 /\ Len(events) \in Nat /\ events[1] = event
  OBVIOUS
<1>2. after[0] = copy /\ \A i \in 1 .. Len(events) : after[i] = Apply(after[i - 1], events[i])
  <2>1. Len(events) \in Nat
    BY <1>1
  <2> QED BY ONLY <2>1, CopyStep
<1> HIDE DEF after
<1>3. \A i \in 1 .. 1 : after[i] = Apply(after[i - 1], events[i])
  BY <1>1, <1>2
<1>4. PICK n \in Nat : n = 1
  OBVIOUS
<1>5. n \in 1 .. 1 /\ n - 1 = 0
  BY <1>4
<1>6. after[n] = Apply(after[n - 1], events[n])
  BY <1>3, <1>5, Zenon
<1> QED BY <1>1, <1>2, <1>4, <1>5, <1>6, Zenon DEF after

LEMMA CopyTwo ==
  ASSUME NEW copy, NEW events, Len(events) = 2
  PROVE  CopyLoop(copy, events)[2] = Apply(Apply(copy, events[1]), events[2])
<1> DEFINE after == CopyLoop(copy, events)
<1>1. Len(events) = 2 /\ Len(events) \in Nat
  OBVIOUS
<1>2. after[0] = copy /\ \A i \in 1 .. Len(events) : after[i] = Apply(after[i - 1], events[i])
  <2>1. Len(events) \in Nat
    BY <1>1
  <2> QED BY ONLY <2>1, CopyStep
<1> HIDE DEF after
<1>3. \A i \in 1 .. 2 : after[i] = Apply(after[i - 1], events[i])
  BY <1>1, <1>2
<1>4. PICK n \in Nat, m \in Nat : n = 1 /\ m = 2
  OBVIOUS
<1>5. n \in 1 .. 2 /\ n - 1 = 0 /\ m \in 1 .. 2 /\ m - 1 = n
  BY <1>4
<1>6. after[n] = Apply(after[n - 1], events[n]) /\ after[m] = Apply(after[m - 1], events[m])
  BY <1>3, <1>5, Zenon
<1> QED BY <1>1, <1>2, <1>4, <1>5, <1>6, Zenon DEF after

-----------------------------------------------------------------------------
(* The page *)

\* A range of entry keys inside the history reads the same part of the window.
LEMMA RangeOfWindow ==
  ASSUME History!StoreInv, NEW start \in Nat, NEW n \in Nat, n = 0 \/ start + n <= Len(Window)
  PROVE  /\ Store!ReadRange(head + start, n) = [k \in 1 .. n |-> Window[start + k]]
         /\ \A k \in 1 .. n : Window[start + k] \in Results
<1> DEFINE r == History!Run(head + start, n)
<1>1. head \in Nat /\ tail \in Nat /\ Len(Window) = tail - head /\ Window \in Seq(Results)
  BY WindowIs DEF WindowRead
<1>2. \A i : i \in DOMAIN entries <=> i \in head .. tail - 1
  BY StoreAssumptions, History!StoreNumbers, Zenon
<1>3. PICK h \in Nat : h = head + start
  BY <1>1
<1>4. /\ r \in Seq(Nat) /\ Len(r) = n /\ History!StrictlyIncreasing(r)
      /\ History!Elements(r) = h .. h + n - 1
  BY StoreAssumptions, <1>3, History!Consecutive, Zenon
<1>5. History!Elements(r) \subseteq DOMAIN entries
  <2>1. \A i \in h .. h + n - 1 : i \in head .. tail - 1
    BY <1>1, <1>3
  <2> HIDE DEF r
  <2> QED BY <1>2, <1>4, <2>1, Zenon
<1>6. \A k \in 1 .. n : r[k] = h + k - 1
  BY <1>3 DEF History!Run
<1>7. History!ReadRange(h, n) = History!ReadSlots(r)
  BY <1>3 DEF History!ReadRange
<1> HIDE DEF r
<1>8. History!Keep(r, DOMAIN entries) = r
  BY StoreAssumptions, <1>4, <1>5, History!KeepAllIndices, Zenon
<1>9. History!ReadSlots(r) = [k \in 1 .. n |-> entries[r[k]]]
  BY <1>4, <1>8 DEF History!ReadSlots
<1>10. ASSUME NEW k \in 1 .. n
       PROVE  entries[r[k]] = Window[start + k] /\ Window[start + k] \in Results
  <2>1. PICK j \in Nat : j = start + k
    OBVIOUS
  <2>2. j \in 1 .. tail - head /\ head + j - 1 = h + k - 1
    BY <1>1, <1>3, <2>1
  <2>3. Window[j] = entries[head + j - 1] /\ Window[j] \in Results
    BY <1>1, <2>2 DEF Window, History!Window
  <2> QED BY <1>6, <2>1, <2>2, <2>3
<1>11. Store!ReadRange(head + start, n) = History!ReadRange(h, n)
  BY <1>3, SameReads
<1> QED BY <1>7, <1>9, <1>10, <1>11

\* A page is the part of the window its offset and its size cut out of it.
CutAt(page, offset, size, end) ==
  /\ page.total = Len(Window)
  /\ offset < Len(Window) /\ size # 0 =>
       /\ end \in offset .. Len(Window) /\ offset < end
       /\ page.items = [k \in 1 .. end - offset |-> Window[offset + k]]
       /\ page.has_more = (end < Len(Window))
  /\ ~(offset < Len(Window) /\ size # 0) => page.items = << >> /\ page.has_more = FALSE

LEMMA PageItems ==
  ASSUME History!StoreInv, NEW offset \in Nat, NEW limit \in Nat,
         NEW page, page = GetHistoryPage(offset, limit),
         NEW size, size = Least(limit, MAX_PAGE_SIZE),
         NEW end, end = Least(SaturatingAdd(offset, size), Len(Window))
  PROVE  CutAt(page, offset, size, end)
<1>1. PICK total \in Nat : total = Len(Window)
  BY WindowIs DEF WindowRead
<1>2. SaturatingSub(tail, head) = total /\ total <= U32MAX /\ U32MAX \in Nat
  <2>1. Len(Window) <= retentionLimit /\ retentionLimit \in 1 .. MAX_HISTORY_SIZE
    BY WindowIs DEF WindowRead
  <2> QED BY <1>1, <2>1, WindowIs, PagingAssumption DEF WindowRead
<1>3. size \in Nat
  BY PagingAssumption DEF Least
<1>4. CASE offset < total /\ size # 0
  <2>1. end = Least(SaturatingAdd(offset, size), total)
    BY <1>1
  <2>2. end \in offset .. total /\ offset < end
    BY <1>2, <1>3, <1>4, <2>1 DEF Least, SaturatingAdd
  <2>3. PICK n \in Nat : n = end - offset
    BY <2>2
  <2>4. Least(offset, total) = offset
    BY <1>4 DEF Least
  <2>5. Store!ReadRange(head + offset, n) = [k \in 1 .. n |-> Window[offset + k]]
    <3>1. offset + n <= Len(Window)
      BY <1>1, <2>2, <2>3
    <3> QED BY <3>1, RangeOfWindow, Zenon
  <2>6. GetHistoryPage(offset, limit)
          = [items |-> Store!ReadRange(head + offset, n), total |-> total, has_more |-> size # 0 /\ end < total]
    BY <1>2, <1>3, <1>4, <2>1, <2>3, <2>4 DEF GetHistoryPage
  <2>7. (size # 0 /\ end < total) = (end < total)
    BY <1>4
  <2>8. PICK more : more = (end < total)
    OBVIOUS
  <2>9. page.total = total /\ page.items = [k \in 1 .. n |-> Window[offset + k]] /\ page.has_more = more
    <3>1. page = [items |-> [k \in 1 .. n |-> Window[offset + k]], total |-> total, has_more |-> more]
      BY <2>5, <2>6, <2>7, <2>8, Zenon
    <3> QED BY <3>1
  <2> QED BY <1>1, <1>3, <1>4, <2>1, <2>2, <2>3, <2>8, <2>9, Zenon DEF CutAt
<1>5. CASE ~(offset < total /\ size # 0)
  <2>1. PICK last : last = Least(offset, total)
    OBVIOUS
  <2>2. last - last = 0 /\ last \in Nat
    BY <2>1 DEF Least
  <2>3. Store!ReadRange(head + offset, 0) = << >>
    <3>1. Store!ReadRange(head + offset, 0) = [k \in 1 .. 0 |-> Window[offset + k]]
      BY RangeOfWindow
    <3> QED BY <3>1
  <2>4. GetHistoryPage(offset, limit)
          = [items |-> Store!ReadRange(head + offset, 0), total |-> total, has_more |-> size # 0 /\ last < total]
    BY <1>2, <1>3, <1>5, <2>1, <2>2 DEF GetHistoryPage
  <2>5. (size # 0 /\ last < total) = FALSE
    BY <1>5, <2>1 DEF Least
  <2>6. page.total = total /\ page.items = << >> /\ page.has_more = FALSE
    <3>1. page = [items |-> << >>, total |-> total, has_more |-> FALSE]
      BY <2>3, <2>4, <2>5, Zenon
    <3> QED BY <3>1
  <2> QED BY <1>1, <1>3, <1>5, <2>6, Zenon DEF CutAt
<1> QED BY <1>4, <1>5

\* A slice, by its places.
LEMMA SliceIs ==
  ASSUME NEW w \in Seq(Results), NEW start \in Nat, NEW end \in start .. Len(w)
  PROVE  SubSeq(w, start + 1, end) = [k \in 1 .. end - start |-> w[start + k]]
<1>1. PICK m \in Nat : m = start + 1
  OBVIOUS
<1>2. SubSeq(w, m, end) = [k \in 1 .. end - m + 1 |-> w[m + k - 1]]
  OBVIOUS
<1>3. end - m + 1 = end - start
  BY <1>1
<1>4. \A k \in 1 .. end - start : m + k - 1 = start + k
  BY <1>1
<1> QED BY <1>1, <1>2, <1>3, <1>4

\* The three ways of cutting a page agree.
LEMMA PagesHold == History!StoreInv => PagesExact
<1> SUFFICES ASSUME History!StoreInv, NEW offset \in Offsets, NEW limit \in Limits
             PROVE  LET page == GetHistoryPage(offset, limit)
                    IN  /\ page = PageSlice(Store!ReadAllEntries, offset, limit)
                        /\ Len(page.items) = ExpectedPageLen(offset, limit, page.total)
                        /\ page.has_more = ExpectedHasMore(offset, limit, page.total)
  BY DEF PagesExact
<1>1. offset \in 0 .. U32MAX /\ limit \in 0 .. U32MAX /\ U32MAX \in Nat /\ MAX_PAGE_SIZE \in Nat /\ MAX_PAGE_SIZE # 0
  BY PagingAssumption
<1>2. PICK page : page = GetHistoryPage(offset, limit)
  OBVIOUS
<1>3. PICK w \in Seq(Results) : w = Window /\ w = Store!ReadAllEntries /\ Len(w) <= U32MAX
  <2>1. Len(Window) <= retentionLimit /\ retentionLimit \in 1 .. MAX_HISTORY_SIZE
    BY WindowIs DEF WindowRead
  <2>2. Len(Window) <= U32MAX
    BY <2>1, WindowIs, PagingAssumption DEF WindowRead
  <2> QED BY <2>2, WindowIs DEF WindowRead
<1>4. PICK total \in Nat : total = Len(w) /\ total <= U32MAX
  BY <1>3
<1>5. PICK size \in Nat : size = Least(limit, MAX_PAGE_SIZE) /\ (size = 0 <=> limit = 0)
  BY <1>1 DEF Least
<1>6. PICK end : end = Least(SaturatingAdd(offset, size), total)
  OBVIOUS
<1>7. ExpectedPageEnd(offset, limit, total) = end
  BY <1>5, <1>6 DEF ExpectedPageEnd
<1>8. ExpectedPageLen(offset, limit, total) = SaturatingSub(end, offset)
  BY <1>7 DEF ExpectedPageLen
<1>9. ExpectedHasMore(offset, limit, total) = (limit # 0 /\ end < total)
  BY <1>7 DEF ExpectedHasMore
<1>10. offset \in Nat /\ limit \in Nat /\ end = Least(SaturatingAdd(offset, size), Len(Window))
  BY <1>1, <1>3, <1>4, <1>6
<1>11. CutAt(page, offset, size, end)
  <2>1. size = Least(limit, MAX_PAGE_SIZE)
    BY <1>5
  <2>2. offset \in Nat /\ limit \in Nat
    BY <1>10
  <2>3. end = Least(SaturatingAdd(offset, size), Len(Window))
    BY <1>10
  <2> QED BY <1>2, <2>1, <2>2, <2>3, PageItems, Zenon
<1>12. CASE offset < total /\ size # 0
  <2>1. /\ page.total = total /\ end \in offset .. total /\ offset < end
        /\ page.items = [k \in 1 .. end - offset |-> w[offset + k]]
        /\ page.has_more = (end < total)
    BY <1>3, <1>4, <1>11, <1>12 DEF CutAt
  <2>2. PageSlice(w, offset, limit)
          = [items |-> SubSeq(w, offset + 1, end), total |-> total, has_more |-> end < total]
    BY <1>4, <1>5, <1>6, <1>12 DEF PageSlice
  <2>3. SubSeq(w, offset + 1, end) = page.items
    <3>1. w \in Seq(Results) /\ offset \in Nat /\ end \in offset .. Len(w)
      BY <1>4, <1>10, <2>1
    <3>2. SubSeq(w, offset + 1, end) = [k \in 1 .. end - offset |-> w[offset + k]]
      BY ONLY <3>1, SliceIs
    <3> QED BY <2>1, <3>2, Zenon
  <2>4. page = [items |-> page.items, total |-> page.total, has_more |-> page.has_more]
    BY <1>2 DEF GetHistoryPage
  <2>5. Len(page.items) = SaturatingSub(end, offset)
    <3>1. PICK n \in Nat : n = end - offset
      BY <1>1, <2>1
    <3>2. page.items = [k \in 1 .. n |-> w[offset + k]] /\ \A k \in 1 .. n : w[offset + k] \in Results
      BY <1>1, <1>4, <2>1, <3>1
    <3>3. Len(page.items) = n
      BY <3>2
    <3> QED BY <1>1, <2>1, <3>1, <3>3 DEF SaturatingSub
  <2>6. (limit # 0 /\ end < total) = (end < total)
    BY <1>5, <1>12
  <2> QED BY <1>2, <1>3, <1>8, <1>9, <2>1, <2>2, <2>3, <2>4, <2>5, <2>6, Zenon
<1>13. CASE ~(offset < total /\ size # 0)
  <2>1. page.total = total /\ page.items = << >> /\ page.has_more = FALSE
    BY <1>3, <1>4, <1>11, <1>13 DEF CutAt
  <2>2. PageSlice(w, offset, limit)
          = [items |-> << >>, total |-> total, has_more |-> limit # 0 /\ Least(offset, total) < total]
    BY <1>4, <1>5, <1>13 DEF PageSlice
  <2>3. page = [items |-> page.items, total |-> page.total, has_more |-> page.has_more]
    BY <1>2 DEF GetHistoryPage
  <2>4. (limit # 0 /\ Least(offset, total) < total) = FALSE
    BY <1>1, <1>5, <1>13 DEF Least
  <2>5. Len(page.items) = SaturatingSub(end, offset)
    <3>1. Len(page.items) = 0
      BY <2>1
    <3>2. end <= offset /\ end \in Nat
      BY <1>1, <1>4, <1>5, <1>6, <1>13 DEF Least, SaturatingAdd
    <3> QED BY <1>1, <3>1, <3>2 DEF SaturatingSub
  <2>6. (limit # 0 /\ end < total) = FALSE
    BY <1>1, <1>4, <1>5, <1>6, <1>13 DEF Least, SaturatingAdd
  <2> QED BY <1>2, <1>3, <1>8, <1>9, <2>1, <2>2, <2>3, <2>4, <2>5, <2>6, Zenon
<1> QED BY <1>12, <1>13

-----------------------------------------------------------------------------
(* The copy follows the history *)

Copied == mirror = [rows |-> Window, newest |-> Window, cap |-> retentionLimit]

LEMMA ApplyDecision ==
  ASSUME NEW rows, NEW newest, NEW cap, NEW r
  PROVE  Apply([rows |-> rows, newest |-> newest, cap |-> cap], [name |-> "sla_calc", result |-> r])
           = [rows |-> Trimmed(Append(rows, r), cap), newest |-> Trimmed(Append(newest, r), cap), cap |-> cap]
BY DEF Apply

LEMMA ApplyLimit ==
  ASSUME NEW rows, NEW newest, NEW cap, NEW limit
  PROVE  Apply([rows |-> rows, newest |-> newest, cap |-> cap], [name |-> "ret_lim", limit |-> limit])
           = [rows |-> rows, newest |-> Newest(newest, limit), cap |-> limit]
BY DEF Apply

\* The end that n asks for, or all of it when n asks for more than there is.
LEMMA NewestIs ==
  ASSUME NEW w \in Seq(Results), NEW v \in Seq(Results), History!Ends(v, w), NEW n \in Nat,
         Len(v) = IF n >= Len(w) THEN Len(w) ELSE n
  PROVE  v = Newest(w, n)
<1>1. v = SubSeq(w, Len(w) - Len(v) + 1, Len(w))
  BY EndIsRest
<1>2. SaturatingSub(Len(w), n) = Len(w) - Len(v)
  <2>1. PICK m \in Nat, k \in Nat : m = Len(w) /\ k = Len(v)
    OBVIOUS
  <2>2. k = IF n >= m THEN m ELSE n
    BY <2>1
  <2>3. SaturatingSub(m, n) = m - k
    BY <2>2 DEF SaturatingSub
  <2> QED BY <2>1, <2>3
<1> QED BY <1>1, <1>2 DEF Newest

\* What prune_oldest leaves of the history.
LEMMA PruneOldestLeaves ==
  ASSUME History!StoreInv, NEW keepCount \in Nat, Store!PruneOldest(keepCount)
  PROVE  SaturatingSub(tail', head')
           = IF keepCount >= SaturatingSub(tail, head) THEN SaturatingSub(tail, head) ELSE keepCount
<1>1. head \in Nat /\ tail \in Nat /\ head <= tail
  BY WindowIs DEF WindowRead
<1>4. PICK len \in Nat : len = Store!SaturatingSub(tail, head)
  BY <1>1 DEF Store!SaturatingSub
<1>2. CASE keepCount >= Store!SaturatingSub(tail, head)
  <2>1. ~(keepCount < Store!SaturatingSub(tail, head))
    BY <1>2, <1>4
  <2>2. tail' = tail /\ head' = head
    BY <2>1, Zenon DEF Store!PruneOldest, Store!historyVars
  <2> QED BY <1>1, <1>2, <2>2 DEF SaturatingSub, Store!SaturatingSub
<1>3. CASE ~(keepCount >= Store!SaturatingSub(tail, head))
  <2>1. tail' = tail /\ head' = Store!SaturatingSub(tail, keepCount)
    BY <1>3, Zenon DEF Store!PruneOldest
  <2> QED BY <1>1, <1>3, <2>1 DEF SaturatingSub, Store!SaturatingSub
<1> QED BY <1>2, <1>3

\* A call that appends nothing leaves what its `removed` says.
LEMMA PruneForgets ==
  ASSUME History!Inv, History!Inv', [Next]_vars, UNCHANGED recorded
  PROVE  /\ Window' = SubSeq(Window, Removed + 1, Len(Window))
         /\ Removed \in 0 .. Len(Window)
         /\ Removed = Len(Window) - Len(Window')
         /\ History!Ends(Window', Window)
<1>1. WindowRead /\ WindowRead'
  BY WindowIs, WindowIsNext DEF History!Inv
<1>2. recorded \in Seq(Results)
  BY DEF History!Inv
<1>3. \A r : recorded # Append(recorded, r)
  <2> SUFFICES ASSUME NEW r, recorded = Append(recorded, r) PROVE FALSE
    OBVIOUS
  <2>1. Len(Append(recorded, r)) = Len(recorded) + 1 /\ Len(recorded) \in Nat
    BY <1>2
  <2> QED BY <2>1
<1>4. Removed = Len(Window) - Len(Window') /\ History!Ends(Window', Window)
  BY <1>3, StepForgets
<1>5. PICK w \in Seq(Results), v \in Seq(Results) : w = Window /\ v = Window'
  BY <1>1 DEF WindowRead
<1>6. v = SubSeq(w, Len(w) - Len(v) + 1, Len(w))
  BY <1>4, <1>5, EndIsRest
<1>7. Len(v) \in 0 .. Len(w)
  BY <1>4, <1>5 DEF History!Ends
<1> QED BY <1>4, <1>5, <1>6, <1>7

\* A recorded decision joins the history before its oldest part goes.
LEMMA RecordForgets ==
  ASSUME History!Inv, History!Inv', [Next]_vars, NEW r \in Results, Record(r)
  PROVE  /\ recorded' = Append(recorded, r)
         /\ Removed = Len(Window) - Len(Window')
         /\ History!Ends(Window', Append(Window, r))
<1>1. recorded' = Append(recorded, r) /\ recorded \in Seq(Results)
  BY DEF Record, Store!Record, History!Inv
<1>2. recorded' # recorded
  <2>1. Len(recorded') = Len(recorded) + 1 /\ Len(recorded) \in Nat
    BY <1>1
  <2> QED BY <2>1
<1>3. Removed = Len(Window) - Len(Window')
  BY StepForgets
<1>4. PICK q \in Results : recorded' = Append(recorded, q) /\ History!Ends(Window', Append(Window, q))
  BY <1>2, StepForgets
<1>5. q = r
  <2>1. Append(recorded, q)[Len(recorded) + 1] = q /\ Append(recorded, r)[Len(recorded) + 1] = r
    BY <1>1
  <2> QED BY <1>1, <1>4, <2>1
<1> QED BY <1>1, <1>3, <1>4, <1>5

LEMMA RecordCopied ==
  ASSUME History!Inv, History!Inv', Copied, [Next]_vars, NEW r \in Results, Record(r)
  PROVE  Copied'
<1>1. WindowRead /\ WindowRead'
  BY WindowIs, WindowIsNext DEF History!Inv
<1>2. PICK w \in Seq(Results), v \in Seq(Results) : w = Window /\ v = Window'
  BY <1>1 DEF WindowRead
<1>3. History!Ends(v, Append(w, r))
  BY <1>2, RecordForgets
<1>4. PICK a \in Seq(Results) : a = Append(w, r) /\ Len(a) = Len(w) + 1
  <2>1. Append(w, r) \in Seq(Results) /\ Len(Append(w, r)) = Len(w) + 1
    OBVIOUS
  <2> QED BY ONLY <2>1, Zenon
<1>5. v = SubSeq(a, Len(a) - Len(v) + 1, Len(a))
  BY <1>3, <1>4, EndIsRest
<1>6. /\ retentionLimit' = retentionLimit
      /\ Len(a) > retentionLimit => Len(v) = Len(w)
      /\ ~(Len(a) > retentionLimit) => Len(v) = Len(w) + 1
  <2>1. Store!AppendEntry(r, retentionLimit, outageIndex[r.outage_id]) /\ retentionLimit' = retentionLimit
    BY DEF Record, Store!Record
  <2>2. /\ tail' = tail + 1
        /\ \/ Store!SaturatingSub(tail + 1, head) <= retentionLimit /\ head' = head
           \/ Store!SaturatingSub(tail + 1, head) > retentionLimit /\ head' = head + 1
    BY <2>1 DEF Store!AppendEntry
  <2>3. head \in Nat /\ tail \in Nat /\ head <= tail /\ Len(w) = tail - head /\ Len(v) = tail' - head'
    BY <1>1, <1>2 DEF WindowRead
  <2>4. Store!SaturatingSub(tail + 1, head) = Len(a)
    BY <1>4, <2>3 DEF Store!SaturatingSub
  <2>5. retentionLimit \in Nat
    BY <1>1 DEF WindowRead
  <2> QED BY <1>4, <2>1, <2>2, <2>3, <2>4, <2>5
<1>7. mirror' = [rows |-> Trimmed(a, retentionLimit), newest |-> Trimmed(a, retentionLimit), cap |-> retentionLimit]
  <2>1. mirror' = Apply(mirror, [name |-> "sla_calc", result |-> r])
    BY CopyOne DEF Record, Publish
  <2>2. mirror = [rows |-> w, newest |-> w, cap |-> retentionLimit]
    BY <1>2 DEF Copied
  <2> QED BY <1>4, <2>1, <2>2, ApplyDecision
<1>8. v = Trimmed(a, retentionLimit)
  <2>1. CASE Len(a) > retentionLimit
    <3>1. Len(a) - Len(v) + 1 = 2
      BY <1>4, <1>6, <2>1
    <3>2. Tail(a) = SubSeq(a, 2, Len(a))
      BY <1>4
    <3> QED BY <1>5, <2>1, <3>1, <3>2 DEF Trimmed
  <2>2. CASE ~(Len(a) > retentionLimit)
    <3>1. Len(a) - Len(v) + 1 = 1
      BY <1>4, <1>6, <2>2
    <3>2. a = SubSeq(a, 1, Len(a))
      BY <1>4
    <3> QED BY <1>5, <2>2, <3>1, <3>2 DEF Trimmed
  <2> QED BY <2>1, <2>2
<1> QED BY <1>2, <1>6, <1>7, <1>8 DEF Copied

LEMMA PrunesCopied ==
  ASSUME History!Inv, History!Inv', Copied, [Next]_vars,
         \/ \E keepLatest \in 0 .. MAX_HISTORY_SIZE : PruneHistory(keepLatest)
         \/ \E minAge \in 0 .. MaxLedger : PruneHistoryByAge(minAge)
  PROVE  Copied'
<1>1. PICK w \in Seq(Results), v \in Seq(Results) : w = Window /\ v = Window'
  BY WindowIs, WindowIsNext DEF WindowRead, History!Inv
<1>2. UNCHANGED << recorded, retentionLimit >>
  BY DEF PruneHistory, Store!PruneHistory, PruneHistoryByAge, Store!PruneHistoryByAge
<1>3. v = SubSeq(w, Removed + 1, Len(w)) /\ History!Ends(v, w)
  BY <1>1, <1>2, PruneForgets
<1>4. SaturatingSub(tail, head) = Len(w) /\ SaturatingSub(tail', head') = Len(v)
  BY <1>1, WindowIs, WindowIsNext DEF WindowRead, SaturatingSub, History!Inv
<1>5. Len(v) \in Nat /\ Len(w) \in Nat /\ Len(v) <= Len(w)
  BY <1>3 DEF History!Ends
<1>6. mirror = [rows |-> w, newest |-> w, cap |-> retentionLimit]
  BY <1>1 DEF Copied
<1>7. CASE \E keepLatest \in 0 .. MAX_HISTORY_SIZE : PruneHistory(keepLatest)
  <2>1. PICK keepLatest \in 0 .. MAX_HISTORY_SIZE : PruneHistory(keepLatest)
    BY <1>7
  <2>2. mirror' = Apply(mirror, [name |-> "pruned", removed |-> Removed, kept |-> keepLatest])
    BY <2>1, CopyOne DEF PruneHistory, Publish
  <2>4. mirror' = [rows |-> v, newest |-> Newest(w, keepLatest), cap |-> retentionLimit]
    <3>1. mirror' = [rows |-> SubSeq(w, Removed + 1, Len(w)), newest |-> Newest(w, keepLatest), cap |-> retentionLimit]
      BY <1>6, <2>2 DEF Apply
    <3> QED BY <1>3, <3>1
  <2>5. Store!PruneOldest(keepLatest) /\ keepLatest \in Nat
    BY <2>1, StoreAssumptions DEF PruneHistory, Store!PruneHistory
  <2>6. Len(v) = IF keepLatest >= Len(w) THEN Len(w) ELSE keepLatest
    BY <1>4, <2>5, PruneOldestLeaves DEF History!Inv
  <2>7. v = Newest(w, keepLatest)
    BY <1>3, <2>5, <2>6, NewestIs
  <2> QED BY <1>1, <1>2, <2>4, <2>7 DEF Copied
<1>8. CASE \E minAge \in 0 .. MaxLedger : PruneHistoryByAge(minAge)
  <2>1. PICK minAge \in 0 .. MaxLedger : PruneHistoryByAge(minAge)
    BY <1>8
  <2>2. mirror' = Apply(mirror, [name |-> "pruned_a", removed |-> Removed, kept |-> SaturatingSub(tail', head')])
    BY <2>1, CopyOne DEF PruneHistoryByAge, Publish
  <2>6. PICK kept \in Nat : kept = SaturatingSub(tail', head') /\ kept = Len(v)
    BY <1>4, <1>5
  <2>4. mirror' = [rows |-> v, newest |-> Newest(w, kept), cap |-> retentionLimit]
    <3>1. mirror' = Apply(mirror, [name |-> "pruned_a", removed |-> Removed, kept |-> kept])
      BY <2>2, <2>6
    <3>2. mirror' = [rows |-> SubSeq(w, Removed + 1, Len(w)), newest |-> Newest(w, kept), cap |-> retentionLimit]
      BY <1>6, <3>1 DEF Apply
    <3> QED BY <1>3, <3>2
  <2>5. v = Newest(w, kept)
    <3>1. Len(v) = IF kept >= Len(w) THEN Len(w) ELSE kept
      BY <1>5, <2>6
    <3> QED BY <1>3, <3>1, NewestIs
  <2> QED BY <1>1, <1>2, <2>4, <2>5 DEF Copied
<1> QED BY <1>7, <1>8

LEMMA LimitCopied ==
  ASSUME History!Inv, History!Inv', Copied, [Next]_vars, NEW limit \in 1 .. MAX_HISTORY_SIZE, SetRetentionLimit(limit)
  PROVE  Copied'
<1>1. recorded' = recorded /\ retentionLimit' = limit /\ limit \in Nat /\ Store!PruneOldest(limit)
  BY DEF SetRetentionLimit, Store!SetRetentionLimit
<1>2. PICK w \in Seq(Results), v \in Seq(Results) : w = Window /\ v = Window'
  BY WindowIs, WindowIsNext DEF WindowRead, History!Inv
<1>3. PICK removed \in 0 .. Len(w) : /\ removed = Removed /\ v = SubSeq(w, removed + 1, Len(w))
                                     /\ History!Ends(v, w)
  BY <1>1, <1>2, PruneForgets
<1>4. mirror = [rows |-> w, newest |-> w, cap |-> retentionLimit]
  BY <1>2 DEF Copied
<1>5. SaturatingSub(tail, head) = Len(w) /\ SaturatingSub(tail', head') = Len(v)
  BY <1>2, WindowIs, WindowIsNext DEF WindowRead, SaturatingSub, History!Inv
<1>6. Len(v) = IF limit >= Len(w) THEN Len(w) ELSE limit
  BY <1>1, <1>5, PruneOldestLeaves DEF History!Inv
<1>7. v = Newest(w, limit)
  BY <1>1, <1>3, <1>6, NewestIs
\* Cut to the limit a second time, nothing more goes.
<1>8. v = Newest(v, limit)
  <2>1. SaturatingSub(Len(v), limit) = 0 /\ SubSeq(v, 1, Len(v)) = v
    BY <1>1, <1>6 DEF SaturatingSub
  <2> QED BY <2>1 DEF Newest
<1>9. PICK lower : lower = [name |-> "ret_lim", limit |-> limit]
  OBVIOUS
<1>10. Apply(mirror, lower) = [rows |-> w, newest |-> v, cap |-> limit]
  BY <1>4, <1>7, <1>9, ApplyLimit
<1>11. CASE removed > 0
  <2>1. PICK prune : prune = [name |-> "pruned", removed |-> removed, kept |-> limit]
    OBVIOUS
  <2>2. Publish(<< lower >> \o << prune >>)
    BY <1>3, <1>9, <1>11, <2>1 DEF SetRetentionLimit
  <2>3. mirror' = Apply(Apply(mirror, lower), prune)
    <3>1. PICK events : events = << lower >> \o << prune >>
      OBVIOUS
    <3>2. mirror' = CopyLoop(mirror, events)[Len(events)]
      BY <2>2, <3>1, Zenon DEF Publish
    <3>3. Len(events) = 2 /\ events[1] = lower /\ events[2] = prune
      BY <3>1
    <3>4. CopyLoop(mirror, events)[2] = Apply(Apply(mirror, events[1]), events[2])
      BY <3>3, CopyTwo
    <3> QED BY <3>2, <3>3, <3>4
  <2>4. mirror' = [rows |-> v, newest |-> v, cap |-> limit]
    <3>2. Apply([rows |-> w, newest |-> v, cap |-> limit], [name |-> "pruned", removed |-> removed, kept |-> limit])
            = [rows |-> SubSeq(w, removed + 1, Len(w)), newest |-> Newest(v, limit), cap |-> limit]
      BY DEF Apply
    <3> QED BY <1>3, <1>8, <1>10, <2>1, <2>3, <3>2
  <2> QED BY <1>1, <1>2, <2>4 DEF Copied
<1>12. CASE ~(removed > 0)
  <2>1. Publish(<< lower >>)
    <3>1. Publish(<< lower >> \o << >>)
      BY <1>3, <1>9, <1>12 DEF SetRetentionLimit
    <3>2. << lower >> \o << >> = << lower >>
      OBVIOUS
    <3> QED BY <3>1, <3>2, Zenon
  <2>2. mirror' = Apply(mirror, lower)
    BY <2>1, CopyOne DEF Publish
  <2>3. removed + 1 = 1 /\ SubSeq(w, 1, Len(w)) = w
    BY <1>12
  <2> QED BY <1>1, <1>2, <1>3, <1>10, <2>2, <2>3 DEF Copied
<1> QED BY <1>11, <1>12

-----------------------------------------------------------------------------
(* The walk *)

\* How many decisions the history has forgotten.
Forgotten == Len(recorded) - Len(Window)

\* The retained decisions are the last ones of the stream, in its order.
Numbered ==
  /\ Len(Window) <= Len(recorded)
  /\ \A k \in 1 .. Len(Window) : Window[k].serial = Forgotten + k

\* The n-th decision seen is at least the n-th of the stream; how far ahead of
\* it grows along the walk, by at most what was dropped meanwhile,
Follows(seen, dropped) ==
  /\ \A i \in 1 .. Len(seen) : seen[i].serial \in Nat /\ i <= seen[i].serial
  /\ \A i, j \in 1 .. Len(seen) : i <= j => /\ seen[i].serial - i <= seen[j].serial - j
                                           /\ seen[j].serial - j <= seen[i].serial - i + dropped

\* and never past what the history has forgotten by now.
Within(seen, dropped, forgotten) ==
  /\ dropped <= forgotten
  /\ \A i \in 1 .. Len(seen) : seen[i].serial - i <= forgotten /\ forgotten <= seen[i].serial - i + dropped

WalkOK ==
  /\ walk \in [on : BOOLEAN, limit : Nat, offset : Nat, seen : Seq(Results), dropped : Nat]
  /\ walk.offset = Len(walk.seen)
  /\ Follows(walk.seen, walk.dropped)
  /\ walk.on => Within(walk.seen, walk.dropped, Forgotten)

\* The next page goes on where the last one ended.
LEMMA PageFollows ==
  ASSUME NEW seen \in Seq(Results), NEW items \in Seq(Results), NEW dropped \in Nat, NEW forgotten \in Nat,
         Follows(seen, dropped), Within(seen, dropped, forgotten),
         \A k \in 1 .. Len(items) : items[k].serial = forgotten + (Len(seen) + k)
  PROVE  Follows(seen \o items, dropped) /\ Within(seen \o items, dropped, forgotten)
<1>1. PICK t \in Seq(Results) : t = seen \o items
  <2>1. seen \o items \in Seq(Results)
    OBVIOUS
  <2> QED BY ONLY <2>1, Zenon
<1>2. PICK m \in Nat, n \in Nat : m = Len(seen) /\ n = Len(items) /\ Len(t) = m + n
  BY <1>1
<1>3. ASSUME NEW i \in 1 .. Len(t)
      PROVE  t[i].serial \in Nat /\ t[i].serial >= i
             /\ \/ i <= m /\ t[i] = seen[i]
                \/ i > m /\ t[i].serial = forgotten + i
  <2>1. CASE i <= m
    <3>1. t[i] = seen[i] /\ i \in 1 .. Len(seen)
      BY <1>1, <1>2, <2>1
    <3> QED BY <2>1, <3>1 DEF Follows
  <2>2. CASE i > m
    <3>1. PICK k \in 1 .. n : k = i - m
      <4>1. i - m \in 1 .. n
        BY <1>2, <2>2
      <4> QED BY ONLY <4>1, Zenon
    <3>2. t[i] = items[k] /\ m + k = i
      BY <1>1, <1>2, <2>2, <3>1
    <3>3. t[i].serial = forgotten + i
      BY <1>2, <3>2
    <3> QED BY <2>2, <3>3
  <2> QED BY <1>2, <2>1, <2>2
<1>4. \A i \in 1 .. Len(t) : i <= m => i \in 1 .. Len(seen)
  BY <1>2
<1>5. ASSUME NEW i \in 1 .. Len(t)
      PROVE  t[i].serial - i <= forgotten /\ forgotten <= t[i].serial - i + dropped
  <2>1. CASE t[i] = seen[i] /\ i <= m
    <3>1. seen[i].serial - i <= forgotten /\ forgotten <= seen[i].serial - i + dropped
      BY <1>4, <2>1 DEF Within
    <3> QED BY <2>1, <3>1
  <2>2. CASE t[i].serial = forgotten + i
    BY <1>2, <2>2
  <2> QED BY <1>3, <2>1, <2>2
<1>6. ASSUME NEW i \in 1 .. Len(t), NEW j \in 1 .. Len(t), i <= j
      PROVE  t[i].serial - i <= t[j].serial - j /\ t[j].serial - j <= t[i].serial - i + dropped
  <2>1. CASE j <= m
    <3>1. i <= m
      BY <1>2, <1>6, <2>1
    <3>2. t[i] = seen[i] /\ t[j] = seen[j] /\ i \in 1 .. Len(seen) /\ j \in 1 .. Len(seen)
      BY <1>2, <1>3, <1>4, <2>1, <3>1
    <3> QED BY <1>6, <3>2 DEF Follows
  <2>2. CASE j > m
    <3>1. t[j].serial = forgotten + j
      BY <1>2, <1>3, <2>2
    <3> QED BY <1>3, <1>5, <3>1
  <2> QED BY <1>2, <2>1, <2>2
<1>7. Follows(t, dropped)
  BY <1>3, <1>6 DEF Follows
<1>8. Within(t, dropped, forgotten)
  BY <1>5 DEF Within
<1> QED BY <1>1, <1>7, <1>8

\* What the history forgets while the walk runs is counted.
LEMMA DropsFollow ==
  ASSUME NEW seen \in Seq(Results), NEW dropped \in Nat, NEW forgotten \in Nat, NEW more \in Nat,
         Follows(seen, dropped), Within(seen, dropped, forgotten)
  PROVE  Follows(seen, dropped + more) /\ Within(seen, dropped + more, forgotten + more)
<1>1. \A i \in 1 .. Len(seen) : seen[i].serial \in Nat
  BY DEF Follows
<1>2. Follows(seen, dropped + more)
  <2>1. ASSUME NEW i \in 1 .. Len(seen), NEW j \in 1 .. Len(seen), i <= j
        PROVE  /\ seen[i].serial - i <= seen[j].serial - j
               /\ seen[j].serial - j <= seen[i].serial - i + (dropped + more)
    <3>1. PICK a \in Nat, b \in Nat : a = seen[i].serial /\ b = seen[j].serial
      BY <1>1
    <3>2. a - i <= b - j /\ b - j <= a - i + dropped
      BY <2>1, <3>1 DEF Follows
    <3>3. i \in Nat /\ j \in Nat
      OBVIOUS
    <3>4. b - j <= a - i + (dropped + more)
      BY <3>2, <3>3
    <3> QED BY <3>1, <3>2, <3>4
  <2> QED BY <2>1 DEF Follows
<1>3. Within(seen, dropped + more, forgotten + more)
  BY <1>1 DEF Within
<1> QED BY <1>2, <1>3

\* A stretch of the stream has no more gaps than its ends have drifted apart.
LEMMA FewGaps ==
  ASSUME NEW seen \in Seq(Results), NEW dropped \in Nat, Follows(seen, dropped)
  PROVE  /\ \A i, j \in 1 .. Len(seen) : i < j => seen[i].serial < seen[j].serial
         /\ seen # << >> =>
              Cardinality((seen[1].serial .. LastOf(seen).serial) \ Serials(seen)) <= dropped
<1>1. \A i \in 1 .. Len(seen) : seen[i].serial \in Nat /\ i <= seen[i].serial
  BY DEF Follows
<1>2. \A i, j \in 1 .. Len(seen) : i < j => seen[i].serial < seen[j].serial
  BY <1>1 DEF Follows
<1>3. ASSUME seen # << >>
      PROVE  Cardinality((seen[1].serial .. LastOf(seen).serial) \ Serials(seen)) <= dropped
  <2>1. PICK n \in Nat : n = Len(seen) /\ n >= 1
    BY <1>3
  <2>2. PICK first \in Nat, last \in Nat : first = seen[1].serial /\ last = LastOf(seen).serial
    BY <1>1, <2>1 DEF LastOf
  <2>3. first - 1 <= last - n /\ last - n <= first - 1 + dropped
    BY <2>1, <2>2 DEF Follows, LastOf
  <2>4. IsFiniteSet(first .. last) /\ Cardinality(first .. last) = last - first + 1
    <3>1. first \in Int /\ last \in Int /\ ~(first > last)
      BY <2>1, <2>3
    <3> QED BY <3>1, FS_Interval
  <2>5. Serials(seen) \subseteq first .. last
    <3> SUFFICES ASSUME NEW i \in 1 .. n PROVE seen[i].serial \in first .. last
      BY <2>1 DEF Serials
    <3>1. 1 \in 1 .. n /\ n \in 1 .. n
      BY <2>1
    <3>2. seen[1].serial - 1 <= seen[i].serial - i /\ seen[i].serial - i <= seen[n].serial - n
      BY <2>1, <3>1 DEF Follows
    <3> QED BY <1>1, <2>1, <2>2, <3>2, SMTT(30) DEF LastOf
  <2>6. IsFiniteSet(Serials(seen)) /\ Cardinality(Serials(seen)) = n
    <3> DEFINE f == [i \in 1 .. n |-> seen[i].serial]
    <3>1. f \in Bijection(1 .. n, Serials(seen))
      <4>1. f \in [1 .. n -> Serials(seen)]
        BY <2>1 DEF Serials
      <4>2. \A i, j \in 1 .. n : f[i] = f[j] => i = j
        BY <1>1, <1>2, <2>1
      <4>3. \A x \in Serials(seen) : \E i \in 1 .. n : f[i] = x
        BY <2>1 DEF Serials
      <4> HIDE DEF f
      <4> QED BY <4>1, <4>2, <4>3, Fun_IsBij
    <3>2. IsFiniteSet(1 .. n) /\ Cardinality(1 .. n) = n
      <4>1. 1 \in Int /\ n \in Int /\ ~(1 > n) /\ n - 1 + 1 = n
        BY <2>1
      <4>2. IsFiniteSet(1 .. n) /\ Cardinality(1 .. n) = IF 1 > n THEN 0 ELSE n - 1 + 1
        BY <4>1, FS_Interval, Zenon
      <4> QED BY <4>1, <4>2
    <3> HIDE DEF f
    <3>3. ExistsBijection(1 .. n, Serials(seen))
      BY <3>1 DEF ExistsBijection
    <3> QED BY <3>2, <3>3, FS_Bijection
  <2>7. (first .. last) \cap Serials(seen) = Serials(seen)
    BY <2>5
  <2>8. Cardinality((first .. last) \ Serials(seen)) = (last - first + 1) - n
    <3>1. Cardinality((first .. last) \ Serials(seen))
            = Cardinality(first .. last) - Cardinality((first .. last) \cap Serials(seen))
      BY <2>4, FS_Difference, Zenon
    <3> QED BY <2>4, <2>6, <2>7, <3>1
  <2>9. (last - first + 1) - n <= dropped
    BY <2>3
  <2> QED BY <2>2, <2>8, <2>9
<1> QED BY <1>2, <1>3

-----------------------------------------------------------------------------
(* Every step *)

\* Only record appends.
LEMMA OnlyRecordAppends ==
  ASSUME [Next]_vars
  PROVE  UNCHANGED recorded \/ \E r \in Results : Record(r)
BY DEF Next, vars, storeVars, StartWalk, ReadPage, PruneHistory, PruneHistoryByAge, SetRetentionLimit, NewLedger,
       Store!PruneHistory, Store!PruneHistoryByAge, Store!SetRetentionLimit, Store!NewLedger, Store!storeVars

\* The end of a numbered sequence is numbered from where it starts.
LEMMA EndNumbered ==
  ASSUME NEW w \in Seq(Results), NEW v \in Seq(Results), History!Ends(v, w), NEW base \in Nat,
         \A k \in 1 .. Len(w) : w[k].serial = base + k
  PROVE  \A k \in 1 .. Len(v) : v[k].serial = base + (Len(w) - Len(v)) + k
<1>1. PICK m \in Nat, n \in Nat : m = Len(v) /\ n = Len(w)
  OBVIOUS
<1>2. m <= n /\ \A k \in 1 .. m : v[k] = w[k + (n - m)]
  BY <1>1 DEF History!Ends
<1> SUFFICES ASSUME NEW k \in 1 .. m PROVE v[k].serial = base + (n - m) + k
  BY <1>1
<1>3. PICK j \in 1 .. n : j = k + (n - m)
  <2>1. k + (n - m) \in 1 .. n
    BY <1>2
  <2> QED BY ONLY <2>1, Zenon
<1>4. v[k] = w[j] /\ w[j].serial = base + j
  BY <1>1, <1>2, <1>3
<1> QED BY <1>3, <1>4

\* The numbering is kept, and what the history forgets is what the walk counts.
LEMMA NumberedKept ==
  ASSUME History!Inv, History!Inv', Numbered, [Next]_vars
  PROVE  /\ Numbered'
         /\ Forgotten \in Nat /\ Forgotten' \in Nat /\ Forgotten <= Forgotten'
         /\ Removed \in Int /\ Len(recorded) \in Nat /\ Len(recorded') \in Nat
         /\ Removed + Len(recorded') - Len(recorded) = Forgotten' - Forgotten
<1>1. PICK w \in Seq(Results), v \in Seq(Results) : w = Window /\ v = Window'
  BY WindowIs, WindowIsNext DEF WindowRead, History!Inv
<1>2. recorded \in Seq(Results) /\ recorded' \in Seq(Results)
  BY DEF History!Inv
<1>3. PICK base \in Nat : base = Forgotten /\ Len(recorded) = base + Len(w)
  <2>1. Len(recorded) - Len(w) \in Nat
    BY <1>1, <1>2 DEF Numbered
  <2>2. Len(recorded) \in Nat /\ Len(w) \in Nat /\ Forgotten = Len(recorded) - Len(w)
    BY <1>1, <1>2 DEF Forgotten
  <2> QED BY <2>1, <2>2
<1>4. \A k \in 1 .. Len(w) : w[k].serial = base + k
  BY <1>1, <1>3 DEF Numbered
<1>5. CASE UNCHANGED recorded
  <2>1. History!Ends(v, w) /\ Removed = Len(w) - Len(v) /\ Len(v) <= Len(w)
    BY <1>1, <1>5, PruneForgets DEF History!Ends
  <2>2. \A k \in 1 .. Len(v) : v[k].serial = base + (Len(w) - Len(v)) + k
    BY <1>4, <2>1, EndNumbered
  <2>3. Forgotten' = base + (Len(w) - Len(v))
    BY <1>1, <1>2, <1>3, <1>5 DEF Forgotten
  <2>4. Numbered'
    BY <1>1, <1>2, <1>3, <1>5, <2>1, <2>2, <2>3 DEF Numbered
  <2> QED BY <1>2, <1>3, <1>5, <2>1, <2>3, <2>4
<1>6. CASE \E r \in Results : Record(r)
  <2>1. PICK r \in Results : Record(r)
    BY <1>6
  <2>2. PICK a \in Seq(Results) : a = Append(w, r) /\ Len(a) = Len(w) + 1
    <3>1. Append(w, r) \in Seq(Results) /\ Len(Append(w, r)) = Len(w) + 1
      OBVIOUS
    <3> QED BY ONLY <3>1, Zenon
  <2>3. /\ recorded' = Append(recorded, r) /\ Removed = Len(w) - Len(v)
        /\ History!Ends(v, a) /\ Len(v) <= Len(a)
    BY <1>1, <2>1, <2>2, RecordForgets DEF History!Ends
  <2>4. \A k \in 1 .. Len(a) : a[k].serial = base + k
    <3>1. r.serial = base + Len(a)
      BY <1>3, <2>1, <2>2 DEF Record
    <3> SUFFICES ASSUME NEW k \in 1 .. Len(a) PROVE a[k].serial = base + k
      OBVIOUS
    <3>2. CASE k = Len(a)
      BY <2>2, <3>1, <3>2
    <3>3. CASE k # Len(a)
      <4>1. k \in 1 .. Len(w) /\ a[k] = w[k]
        BY <2>2, <3>3
      <4> QED BY <1>4, <4>1
    <3> QED BY <3>2, <3>3
  <2>5. \A k \in 1 .. Len(v) : v[k].serial = base + (Len(a) - Len(v)) + k
    BY <2>3, <2>4, EndNumbered
  <2>6. Len(recorded') = Len(recorded) + 1
    BY <1>2, <2>3
  <2>7. Forgotten' = base + (Len(a) - Len(v))
    BY <1>1, <1>2, <1>3, <2>2, <2>6 DEF Forgotten
  <2>8. Numbered'
    BY <1>1, <1>2, <1>3, <2>2, <2>3, <2>5, <2>6, <2>7 DEF Numbered
  <2> QED BY <1>2, <1>3, <2>2, <2>3, <2>6, <2>7, <2>8
<1> QED BY <1>5, <1>6, OnlyRecordAppends

\* What does not touch the history leaves the window and its place alone.
LEMMA WindowStays ==
  ASSUME UNCHANGED << entries, head, tail >>
  PROVE  Window' = Window /\ (UNCHANGED recorded => Forgotten' = Forgotten)
BY DEF Window, History!Window, Forgotten

LEMMA StartWalkOK ==
  ASSUME Forgotten \in Nat, NEW limit \in WalkLimits, StartWalk(limit)
  PROVE  WalkOK'
<1>1. walk' = [on |-> TRUE, limit |-> limit, offset |-> 0, seen |-> << >>, dropped |-> 0]
  BY DEF StartWalk, NoWalk
<1>2. limit \in Nat
  BY PagingAssumption
<1>3. Forgotten' = Forgotten
  BY WindowStays DEF StartWalk, storeVars
<1>4. Follows(<< >>, 0) /\ Within(<< >>, 0, Forgotten)
  BY DEF Follows, Within
<1>5. << >> \in Seq(Results) /\ Len(<< >>) = 0
  OBVIOUS
<1> QED BY <1>1, <1>2, <1>3, <1>4, <1>5 DEF WalkOK

LEMMA ReadPageOK ==
  ASSUME History!Inv, Numbered, Forgotten \in Nat, WalkOK, ReadPage
  PROVE  WalkOK'
<1>1. PICK page : page = GetHistoryPage(walk.offset, walk.limit)
  OBVIOUS
<1>2. walk' = [walk EXCEPT !.seen   = @ \o page.items,
                           !.offset = @ + Len(page.items),
                           !.on     = page.has_more /\ page.items # << >>]
  BY <1>1 DEF ReadPage
<1>3. walk.on /\ Forgotten' = Forgotten
  BY WindowStays DEF ReadPage, storeVars
<1>4. /\ walk \in [on : BOOLEAN, limit : Nat, offset : Nat, seen : Seq(Results), dropped : Nat]
      /\ walk.offset = Len(walk.seen) /\ Follows(walk.seen, walk.dropped)
      /\ Within(walk.seen, walk.dropped, Forgotten)
  BY <1>3 DEF WalkOK
<1>5. PICK size : size = Least(walk.limit, MAX_PAGE_SIZE)
  OBVIOUS
<1>6. PICK end : end = Least(SaturatingAdd(walk.offset, size), Len(Window))
  OBVIOUS
<1>7. PICK offset \in Nat, limit \in Nat : offset = walk.offset /\ limit = walk.limit
  BY <1>4
<1>8. CutAt(page, offset, size, end)
  <2>1. History!StoreInv
    BY DEF History!Inv
  <2>2. /\ page = GetHistoryPage(offset, limit) /\ size = Least(limit, MAX_PAGE_SIZE)
        /\ end = Least(SaturatingAdd(offset, size), Len(Window))
    BY <1>1, <1>5, <1>6, <1>7
  <2> QED BY <2>1, <2>2, PageItems, Zenon
<1>9. /\ page.items \in Seq(Results)
      /\ \A k \in 1 .. Len(page.items) : page.items[k].serial = Forgotten + (offset + k)
  <2>1. CASE offset < Len(Window) /\ size # 0
    <3>1. PICK n \in Nat : /\ offset + n <= Len(Window)
                           /\ page.items = [k \in 1 .. n |-> Window[offset + k]]
      <4>1. end \in offset .. Len(Window) /\ page.items = [k \in 1 .. end - offset |-> Window[offset + k]]
        BY <1>8, <2>1 DEF CutAt
      <4>2. Len(Window) \in Nat
        BY WindowIs DEF WindowRead, History!Inv
      <4>3. end - offset \in Nat /\ offset + (end - offset) <= Len(Window)
        BY <4>1, <4>2
      <4> QED BY <4>1, <4>3
    <3>2. Window \in Seq(Results) /\ Len(Window) \in Nat
      BY WindowIs DEF WindowRead, History!Inv
    <3>3. ASSUME NEW k \in 1 .. n
          PROVE  Window[offset + k] \in Results /\ Window[offset + k].serial = Forgotten + (offset + k)
      <4>1. offset + k \in 1 .. Len(Window)
        BY <3>1, <3>2
      <4> QED BY <3>2, <4>1 DEF Numbered
    <3>4. page.items \in Seq(Results) /\ Len(page.items) = n
      <4> DEFINE f == [k \in 1 .. n |-> Window[offset + k]]
      <4>1. n \in Nat /\ f \in [1 .. n -> Results]
        BY <3>3
      <4>2. DOMAIN f = 1 .. n
        OBVIOUS
      <4> HIDE DEF f
      <4>3. f \in Seq(Results) /\ Len(f) = n
        BY <4>1, <4>2
      <4>4. page.items = f
        BY <3>1 DEF f
      <4> QED BY <4>3, <4>4
    <3> QED BY <3>1, <3>3, <3>4
  <2>2. CASE ~(offset < Len(Window) /\ size # 0)
    <3>1. page.items = << >>
      BY <1>8, <2>2 DEF CutAt
    <3> QED BY <3>1
  <2> QED BY <2>1, <2>2
<1>10. page.has_more \in BOOLEAN
  BY <1>1, Zenon DEF GetHistoryPage
<1>11. PICK seen \in Seq(Results), dropped \in Nat : seen = walk.seen /\ dropped = walk.dropped
  BY <1>4
<1>12. Follows(seen \o page.items, dropped) /\ Within(seen \o page.items, dropped, Forgotten)
  <2>1. \A k \in 1 .. Len(page.items) : page.items[k].serial = Forgotten + (Len(seen) + k)
    BY <1>4, <1>7, <1>9, <1>11
  <2>2. Follows(seen, dropped) /\ Within(seen, dropped, Forgotten)
    BY <1>4, <1>11
  <2> QED BY <1>9, <2>1, <2>2, PageFollows
<1>13. PICK more \in BOOLEAN : more = (page.has_more /\ page.items # << >>)
  OBVIOUS
<1>14. walk' = [on |-> more, limit |-> limit, offset |-> offset + Len(page.items),
                seen |-> seen \o page.items, dropped |-> dropped]
  BY <1>2, <1>4, <1>7, <1>11, <1>13
<1>15. seen \o page.items \in Seq(Results) /\ Len(seen \o page.items) = offset + Len(page.items)
  BY <1>4, <1>7, <1>9, <1>11
<1>16. offset + Len(page.items) \in Nat
  BY <1>9
<1> QED BY <1>3, <1>12, <1>14, <1>15, <1>16 DEF WalkOK

\* A write moves the walk's count with the history.
LEMMA WriteKeepsWalk ==
  ASSUME History!Inv, History!Inv', Numbered, WalkOK, [Next]_vars, Writes
  PROVE  WalkOK'
<1>1. walk' = IF walk.on THEN [walk EXCEPT !.dropped = @ + Removed + Len(recorded') - Len(recorded)] ELSE walk
  BY DEF Writes, Record, PruneHistory, PruneHistoryByAge, SetRetentionLimit, Publish
<1>2. walk \in [on : BOOLEAN, limit : Nat, offset : Nat, seen : Seq(Results), dropped : Nat]
  BY DEF WalkOK
<1>3. CASE ~walk.on
  <2>1. walk' = walk
    BY <1>1, <1>3
  <2> QED BY <1>3, <2>1 DEF WalkOK
<1>4. CASE walk.on
  <2>1. PICK forgotten \in Nat, more \in Nat : forgotten = Forgotten /\ Forgotten' = forgotten + more
    <3>1. Forgotten \in Nat /\ Forgotten' - Forgotten \in Nat /\ Forgotten' = Forgotten + (Forgotten' - Forgotten)
      BY NumberedKept
    <3> QED BY <3>1
  <2>2. PICK seen \in Seq(Results), dropped \in Nat : seen = walk.seen /\ dropped = walk.dropped
    BY <1>2
  <2>3. dropped + Removed + Len(recorded') - Len(recorded) = dropped + more
    BY <2>1, NumberedKept
  <2>4. walk' = [walk EXCEPT !.dropped = dropped + more]
    BY <1>1, <1>4, <2>2, <2>3
  <2>5. Follows(seen, dropped) /\ Within(seen, dropped, forgotten)
    BY <1>4, <2>1, <2>2 DEF WalkOK
  <2>6. Follows(seen, dropped + more) /\ Within(seen, dropped + more, forgotten + more)
    BY <2>5, DropsFollow
  <2>7. /\ walk' \in [on : BOOLEAN, limit : Nat, offset : Nat, seen : Seq(Results), dropped : Nat]
        /\ walk'.seen = seen /\ walk'.dropped = dropped + more /\ walk'.offset = Len(seen)
    BY <1>2, <2>2, <2>4 DEF WalkOK
  <2> QED BY <2>1, <2>6, <2>7 DEF WalkOK
<1> QED BY <1>3, <1>4

-----------------------------------------------------------------------------
(* The theorems *)

\* What ties the two followers to the store.  The store's own invariant says
\* the window is what is read back; the numbering, that it is the end of the
\* stream; neither the copy nor the walk is in order without both.
Inv == History!Inv /\ Numbered /\ Copied /\ WalkOK

LEMMA InitInv == Init => Inv
<1> SUFFICES ASSUME Init PROVE Inv
  OBVIOUS
<1>1. History!Init
  BY DEF Init, Store!Init, History!Init, Store!HistoryInit, History!HistoryInit
<1>2. History!Inv
  BY <1>1, StoreAssumptions, History!InitInv, Zenon
<1>3. /\ head = 0 /\ tail = 0 /\ retentionLimit = MAX_HISTORY_SIZE /\ recorded = << >>
      /\ walk = NoWalk /\ mirror = [rows |-> << >>, newest |-> << >>, cap |-> MAX_HISTORY_SIZE]
  BY DEF Init, Store!Init, Store!HistoryInit
<1>4. Window = << >>
  BY <1>3 DEF Window, History!Window
<1>5. Len(recorded) = 0 /\ Len(Window) = 0
  BY <1>3, <1>4
<1>6. Numbered
  BY <1>5 DEF Numbered
<1>7. Copied
  BY <1>3, <1>4 DEF Copied
<1>8. WalkOK
  <2>1. Follows(<< >>, 0)
    BY DEF Follows
  <2>2. << >> \in Seq(Results) /\ Len(<< >>) = 0
    OBVIOUS
  <2> QED BY <1>3, <2>1, <2>2 DEF WalkOK, NoWalk
<1> QED BY <1>2, <1>6, <1>7, <1>8 DEF Inv

LEMMA InvInductive == Inv /\ [Next]_vars => Inv'
<1> SUFFICES ASSUME Inv, [Next]_vars PROVE Inv'
  OBVIOUS
<1>1. History!Inv'
  <2>1. [History!Next]_(History!vars)
    BY StoreStep
  <2> QED BY <2>1, StoreAssumptions, History!InvInductive, Zenon DEF Inv
<1>2. Numbered' /\ Forgotten \in Nat
  BY <1>1, NumberedKept DEF Inv
<1>3. CASE \E limit \in WalkLimits : StartWalk(limit)
  <2>1. PICK limit \in WalkLimits : StartWalk(limit)
    BY <1>3
  <2>2. WalkOK'
    BY <1>2, <2>1, StartWalkOK
  <2>3. Copied'
    BY <2>1, WindowStays DEF StartWalk, storeVars, Copied, Inv
  <2> QED BY <1>1, <1>2, <2>2, <2>3 DEF Inv
<1>4. CASE ReadPage
  <2>1. WalkOK'
    BY <1>2, <1>4, ReadPageOK DEF Inv
  <2>2. Copied'
    BY <1>4, WindowStays DEF ReadPage, storeVars, Copied, Inv
  <2> QED BY <1>1, <1>2, <2>1, <2>2 DEF Inv
<1>5. CASE Writes
  <2>1. WalkOK'
    BY <1>1, <1>5, WriteKeepsWalk DEF Inv
  <2>2. Copied'
    BY <1>1, <1>5, RecordCopied, PrunesCopied, LimitCopied DEF Writes, Inv
  <2> QED BY <1>1, <1>2, <2>1, <2>2 DEF Inv
<1>6. CASE NewLedger \/ UNCHANGED vars
  <2>1. UNCHANGED << entries, head, tail, retentionLimit, recorded, walk, mirror >>
    BY <1>6 DEF NewLedger, Store!NewLedger, Store!storeVars, Store!historyVars, vars, storeVars
  <2>2. Copied'
    BY <2>1, WindowStays DEF Copied, Inv
  <2>3. WalkOK'
    BY <2>1, WindowStays DEF WalkOK, Inv
  <2> QED BY <1>1, <1>2, <2>2, <2>3 DEF Inv
<1> QED BY <1>3, <1>4, <1>5, <1>6 DEF Next, Writes

LEMMA InvAlways == Spec => []Inv
BY InitInv, InvInductive, PTL DEF Spec

\* The entry point's range of keys, the helper's slice of the whole history
\* and the executable specification give the same page for every page cap and
\* every u32 offset and limit, whatever the writes have done to the history.
THEOREM PagesAlwaysExact == Spec => []PagesExact
<1>1. Inv => PagesExact
  BY PagesHold DEF Inv, History!Inv
<1> QED BY <1>1, InvAlways, PTL

\* A copy kept from the published events alone, by the removed_count of each
\* prune or by its kept_count, and with the cap of ret_lim, is the retained
\* history row for row after every write of the contract.
THEOREM MirrorAlwaysMatches == Spec => []MirrorMatches
<1>1. Inv => MirrorMatches
  <2> SUFFICES ASSUME Inv PROVE MirrorMatches
    OBVIOUS
  <2>1. Store!ReadAllEntries = Window
    BY WindowIs DEF WindowRead, Inv, History!Inv
  <2> QED BY <2>1 DEF MirrorMatches, Copied, Inv
<1> QED BY <1>1, InvAlways, PTL

\* A consumer that walks the history page by page, whatever is appended, pruned
\* or capped between its calls, sees every decision at most once and in order,
\* and misses at most as many as the history forgot while it walked.
THEOREM WalkAlwaysHonest == Spec => []SkipsAtMostDropped
<1>1. Inv => SkipsAtMostDropped
  <2> SUFFICES ASSUME Inv PROVE SkipsAtMostDropped
    OBVIOUS
  <2>1. PICK seen \in Seq(Results), dropped \in Nat : seen = walk.seen /\ dropped = walk.dropped
    BY DEF Inv, WalkOK
  <2>2. Follows(seen, dropped)
    BY <2>1 DEF Inv, WalkOK
  <2>3. /\ \A i, j \in 1 .. Len(seen) : i < j => seen[i].serial < seen[j].serial
        /\ seen # << >> =>
             Cardinality((seen[1].serial .. LastOf(seen).serial) \ Serials(seen)) <= dropped
    BY <2>2, FewGaps, Zenon
  <2> QED BY <2>1, <2>3 DEF SkipsAtMostDropped
<1> QED BY <1>1, InvAlways, PTL

-----------------------------------------------------------------------------
(* What WalkTerminates rests on                                              *)

\* How many pages a walk can still read, at most.
PagesLeft == IF walk.on THEN MAX_HISTORY_SIZE - walk.offset ELSE 0

\* A walk that goes on has not reached the cap: the history never held more.
OffsetBelowCap == walk.on => walk.offset < MAX_HISTORY_SIZE

\* A page that does not end the walk moves its offset, and not to the end.
LEMMA PageAdvances ==
  ASSUME History!StoreInv, WalkOK, ReadPage
  PROVE  walk.on /\ (walk'.on => walk.offset < walk'.offset /\ walk'.offset < MAX_HISTORY_SIZE)
<1> SUFFICES ASSUME walk'.on
             PROVE  walk.offset < walk'.offset /\ walk'.offset < MAX_HISTORY_SIZE
  BY DEF ReadPage
<1>1. PICK page : page = GetHistoryPage(walk.offset, walk.limit)
  OBVIOUS
<1>2. PICK offset \in Nat, limit \in Nat : offset = walk.offset /\ limit = walk.limit
  BY DEF WalkOK
<1>3. walk' = [walk EXCEPT !.seen   = @ \o page.items,
                           !.offset = @ + Len(page.items),
                           !.on     = page.has_more /\ page.items # << >>]
  BY <1>1 DEF ReadPage
<1>4. page.has_more /\ page.items # << >> /\ walk'.offset = offset + Len(page.items)
  BY <1>2, <1>3 DEF WalkOK
<1>5. PICK size : size = Least(limit, MAX_PAGE_SIZE)
  OBVIOUS
<1>6. PICK end : end = Least(SaturatingAdd(offset, size), Len(Window))
  OBVIOUS
<1>7. CutAt(page, offset, size, end)
  <2>1. page = GetHistoryPage(offset, limit)
    BY <1>1, <1>2
  <2> QED BY <1>5, <1>6, <2>1, PageItems, Zenon
<1>8. /\ end \in offset .. Len(Window) /\ offset < end /\ end < Len(Window)
      /\ page.items = [k \in 1 .. end - offset |-> Window[offset + k]]
  BY <1>4, <1>7 DEF CutAt
<1>9. Len(Window) \in Nat /\ Len(Window) <= MAX_HISTORY_SIZE /\ MAX_HISTORY_SIZE \in Nat
  BY WindowIs, PagingAssumption DEF WindowRead
<1>10. Len(page.items) = end - offset
  <2>1. PICK n \in Nat : n = end - offset
    BY <1>8, <1>9
  <2>2. page.items = [k \in 1 .. n |-> Window[offset + k]]
    BY <1>8, <2>1
  <2> QED BY <2>1, <2>2
<1> QED BY <1>2, <1>4, <1>8, <1>9, <1>10

\* What a step that reads no page does to the walk.
LEMMA OthersLeaveOffset ==
  ASSUME WalkOK, [Next]_vars
  PROVE  \/ ReadPage
         \/ ~walk.on /\ walk'.offset = 0
         \/ walk'.on = walk.on /\ walk'.offset = walk.offset
<1>1. ASSUME NEW limit, StartWalk(limit) PROVE ~walk.on /\ walk'.offset = 0
  BY <1>1 DEF StartWalk, NoWalk
<1>2. CASE Writes
  BY <1>2 DEF WalkOK, Writes, Record, PruneHistory, PruneHistoryByAge, SetRetentionLimit, Publish
<1>3. CASE NewLedger \/ UNCHANGED vars
  BY <1>3 DEF NewLedger, vars
<1> QED BY <1>1, <1>2, <1>3 DEF Next, Writes

(***************************************************************************)
(* Whatever is written between its pages, a walk reads at most             *)
(* MAX_HISTORY_SIZE of them: it is on exactly while pages are left, each   *)
(* page it reads leaves fewer, and nothing another caller does leaves      *)
(* more.  With the fairness of ReadPage this is why every walk ends.       *)
(***************************************************************************)
THEOREM WalkRunsDown ==
  Spec => /\ [](PagesLeft \in Nat /\ (walk.on <=> PagesLeft > 0))
          /\ [][/\ ReadPage => PagesLeft' < PagesLeft
                /\ walk.on => PagesLeft' <= PagesLeft]_vars
<1> DEFINE Down == /\ ReadPage => PagesLeft' < PagesLeft
                   /\ walk.on => PagesLeft' <= PagesLeft
           Left == PagesLeft \in Nat /\ (walk.on <=> PagesLeft > 0)
<1> USE PagingAssumption
<1>1. Init => OffsetBelowCap
  BY DEF Init, NoWalk, OffsetBelowCap
<1>2. Inv /\ OffsetBelowCap /\ [Next]_vars => OffsetBelowCap'
  <2> SUFFICES ASSUME Inv, OffsetBelowCap, [Next]_vars PROVE OffsetBelowCap'
    OBVIOUS
  <2>1. CASE ReadPage
    BY <2>1, PageAdvances DEF Inv, History!Inv, OffsetBelowCap
  <2>2. CASE walk'.offset = 0
    BY <2>2 DEF OffsetBelowCap
  <2>3. CASE walk'.on = walk.on /\ walk'.offset = walk.offset
    BY <2>3 DEF OffsetBelowCap
  <2>4. WalkOK
    BY DEF Inv
  <2> QED BY <2>1, <2>2, <2>3, <2>4, OthersLeaveOffset
<1>3. Inv /\ OffsetBelowCap => Left
  BY DEF Inv, WalkOK, OffsetBelowCap, PagesLeft
<1>4. Inv /\ OffsetBelowCap /\ [Next]_vars => Down
  <2> SUFFICES ASSUME Inv, OffsetBelowCap, [Next]_vars PROVE Down
    OBVIOUS
  <2>1. walk.offset \in Nat
    BY DEF Inv, WalkOK
  <2>2. CASE ReadPage
    <3>1. walk.on /\ (walk'.on => walk.offset < walk'.offset /\ walk'.offset < MAX_HISTORY_SIZE)
      BY <2>2, PageAdvances DEF Inv, History!Inv
    <3>2. walk'.offset \in Nat
      BY <2>2, InvInductive DEF Inv, WalkOK
    <3> QED BY <2>1, <3>1, <3>2 DEF PagesLeft, OffsetBelowCap
  <2>3. CASE ~ReadPage
    BY <2>1, <2>3, OthersLeaveOffset DEF Inv, PagesLeft
  <2> QED BY <2>2, <2>3
<1>5. Inv /\ OffsetBelowCap /\ [Next]_vars => [Down]_vars
  BY <1>4
<1> HIDE DEF Down, Left
<1> QED BY <1>1, <1>2, <1>3, <1>5, InvAlways, PTL DEF Spec, Down, Left

=============================================================================
