---------------------------- MODULE HistoryReaders ----------------------------
(***************************************************************************)
(* The two ways of following the decision history from outside, beside the *)
(* writers of HistoryStore.                                                *)
(*                                                                         *)
(* A consumer walks it page by page (get_history_page_with_meta): offset   *)
(* += items.len(), until has_more is false or a page is empty.  Each page  *)
(* is a call of its own, so appends (which trim), prunes and limit changes *)
(* run between two pages, and every one of them moves what an offset means.*)
(*                                                                         *)
(* A backend keeps a copy of it from events: a decision publishes sla_calc,*)
(* a new limit ret_lim and, if it trims, pruned; the two prunes publish    *)
(* pruned and pruned_a, whether or not they remove anything.  The trim an  *)
(* append makes publishes nothing: the copy must know the cap to follow it.*)
(* docs/AUDIT_TRAIL.md, 558 and 573, tells the backend to drop the         *)
(* removed_count oldest rows, that kept_count remain, and to take          *)
(* kept_count for its new cap.  The first is right, the second right of a  *)
(* prune that removes something, the third wrong: no prune moves the cap,  *)
(* and prune_history publishes what it was asked to keep.  The copy here   *)
(* follows the first two, each by itself, and takes its cap from ret_lim.  *)
(***************************************************************************)
EXTENDS HostClock, FiniteSets, Sequences, VecOps

CONSTANTS
  OutageIds, Results, NoResult, MAX_HISTORY_SIZE, MaxRecorded,  \* as in HistoryStore
  Offsets, Limits,    \* the page inputs compared with the oracle
  WalkLimits,         \* the page sizes a consumer walks with
  MAX_PAGE_SIZE,
  U32MAX

ASSUME PagingAssumption ==
  /\ MAX_HISTORY_SIZE \in Nat \ {0}
  /\ MaxRecorded \in Nat
  /\ \A r \in Results : r.outage_id \in OutageIds /\ r.recorded_at \in Nat
  /\ NoResult \notin Results
  /\ MAX_PAGE_SIZE \in Nat \ {0}
  /\ U32MAX \in Nat
  /\ Offsets \cup Limits \cup WalkLimits \subseteq 0 .. U32MAX
  /\ MAX_HISTORY_SIZE <= U32MAX

VARIABLES
  entries, outageIndex, head, tail, historyLen, retentionLimit, recorded,
  walk,               \* the consumer: its page size, offset, what it has seen
                      \* and whether it still walks; `dropped` is a history
                      \* variable: the decisions forgotten since it began
  mirror              \* the backend's copy: the rows a removed_count leaves it,
                      \* the rows a kept_count leaves it, and its cap

Store == INSTANCE HistoryStore

storeVars == << entries, outageIndex, head, tail, historyLen, retentionLimit, recorded, now >>
vars == << storeVars, walk, mirror >>

-----------------------------------------------------------------------------
(* The page *)

\* u32::saturating_add
SaturatingAdd(a, b) == IF a + b > U32MAX THEN U32MAX ELSE a + b

Least(a, b) == IF a <= b THEN a ELSE b

\* Mutant: the offset is taken for an absolute index.
GetHistoryPageAbsolute(offset, limit) ==
  LET total == SaturatingSub(tail, head)
      size  == Least(limit, MAX_PAGE_SIZE)
      end   == IF offset < total /\ size # 0 THEN Least(SaturatingAdd(offset, size), total)
                                             ELSE Least(offset, total)
  IN  [items |-> Store!ReadRange(offset, end - Least(offset, total)), total |-> total,
       has_more |-> size # 0 /\ end < total]

\* lib.rs: a range of entry keys, from head + offset.
GetHistoryPage(offset, limit) ==
  LET total == SaturatingSub(tail, head)
      size  == Least(limit, MAX_PAGE_SIZE)
      end   == IF offset < total /\ size # 0 THEN Least(SaturatingAdd(offset, size), total)
                                             ELSE Least(offset, total)
  IN  [items |-> Store!ReadRange(head + offset, end - Least(offset, total)), total |-> total,
       has_more |-> size # 0 /\ end < total]

\* history.rs, page_slice and its caller: a slice of the whole history.
PageSlice(history, offset, limit) ==
  LET size == Least(limit, MAX_PAGE_SIZE)
      end  == Least(SaturatingAdd(offset, size), Len(history))
  IN  IF offset < Len(history) /\ size > 0
      THEN [items |-> SubSeq(history, offset + 1, end), total |-> Len(history), has_more |-> end < Len(history)]
      ELSE [items |-> << >>, total |-> Len(history),
            has_more |-> limit # 0 /\ Least(offset, Len(history)) < Len(history)]

\* spec.rs
ExpectedPageEnd(offset, limit, len) == Least(SaturatingAdd(offset, Least(limit, MAX_PAGE_SIZE)), len)
ExpectedPageLen(offset, limit, len) == SaturatingSub(ExpectedPageEnd(offset, limit, len), offset)
ExpectedHasMore(offset, limit, len) == limit # 0 /\ ExpectedPageEnd(offset, limit, len) < len

-----------------------------------------------------------------------------
(* The consumer *)

NoWalk == [on |-> FALSE, limit |-> 0, offset |-> 0, seen |-> << >>, dropped |-> 0]

StartWalk(limit) ==
  /\ ~walk.on
  /\ walk' = [NoWalk EXCEPT !.on = TRUE, !.limit = limit]
  /\ UNCHANGED << storeVars, mirror >>

\* Mutant: the next page starts on the last entry of this one.
ReadPageOverlapping ==
  /\ walk.on
  /\ LET page == GetHistoryPage(walk.offset, walk.limit)
     IN  walk' = [walk EXCEPT !.seen   = @ \o page.items,
                              !.offset = @ + SaturatingSub(Len(page.items), 1),
                              !.on     = page.has_more /\ page.items # << >>]
  /\ UNCHANGED << storeVars, mirror >>

\* Mutant: the consumer goes on until it has as many entries as the total says.
ReadPageByTotal ==
  /\ walk.on
  /\ LET page == GetHistoryPage(walk.offset, walk.limit)
     IN  walk' = [walk EXCEPT !.seen   = @ \o page.items,
                              !.offset = @ + Len(page.items),
                              !.on     = walk.offset + Len(page.items) < page.total]
  /\ UNCHANGED << storeVars, mirror >>

ReadPage ==
  /\ walk.on
  /\ LET page == GetHistoryPage(walk.offset, walk.limit)
     IN  walk' = [walk EXCEPT !.seen   = @ \o page.items,
                              !.offset = @ + Len(page.items),
                              !.on     = page.has_more /\ page.items # << >>]
  /\ UNCHANGED << storeVars, mirror >>

-----------------------------------------------------------------------------
(* The writers and what they publish *)

Removed == SaturatingSub(tail, head) - SaturatingSub(tail', head')

Trimmed(rows, cap) == IF Len(rows) > cap THEN Tail(rows) ELSE rows

Newest(rows, n) == SubSeq(rows, SaturatingSub(Len(rows), n) + 1, Len(rows))

\* What one event does to the copy.  A backend that goes by kept_count can trim
\* as soon as it hears of a lower limit; one that goes by removed_count must
\* wait for the prune that follows, or it drops the same rows twice.
Apply(copy, event) ==
  CASE event.name = "sla_calc" ->
         [copy EXCEPT !.rows   = Trimmed(Append(@, event.result), copy.cap),
                      !.newest = Trimmed(Append(@, event.result), copy.cap)]
    [] event.name = "ret_lim" ->
         [copy EXCEPT !.newest = Newest(@, event.limit), !.cap = event.limit]
    [] event.name \in { "pruned", "pruned_a" } ->
         [copy EXCEPT !.rows   = SubSeq(@, event.removed + 1, Len(@)),
                      !.newest = Newest(@, event.kept)]

\* after[i] is the copy when the first i events have been applied.
CopyLoop(copy, events) ==
  LET after[i \in 0 .. Len(events)] == IF i = 0 THEN copy ELSE Apply(after[i - 1], events[i])
  IN  after

\* The call commits: its events reach the backend in order; the walk only
\* counts what was forgotten while it runs.
Publish(events) ==
  /\ mirror' = CopyLoop(mirror, events)[Len(events)]
  /\ walk' = IF walk.on THEN [walk EXCEPT !.dropped = @ + Removed + Len(recorded') - Len(recorded)] ELSE walk

Record(r) ==
  /\ r.serial = Len(recorded) + 1
  /\ Store!Record(r)
  /\ Publish(<< [name |-> "sla_calc", result |-> r] >>)

\* `kept` is what the caller asked for, not what is left.
PruneHistory(keepLatest) ==
  /\ Store!PruneHistory(keepLatest)
  /\ Publish(<< [name |-> "pruned", removed |-> Removed, kept |-> keepLatest] >>)

PruneHistoryByAge(minAge) ==
  /\ Store!PruneHistoryByAge(minAge)
  /\ Publish(<< [name |-> "pruned_a", removed |-> Removed, kept |-> SaturatingSub(tail', head')] >>)

\* Mutant: the trim of a lowered limit is not announced.
SetRetentionLimitSilently(limit) ==
  /\ Store!SetRetentionLimit(limit)
  /\ Publish(<< [name |-> "ret_lim", limit |-> limit] >>)

SetRetentionLimit(limit) ==
  /\ Store!SetRetentionLimit(limit)
  /\ Publish(<< [name |-> "ret_lim", limit |-> limit] >>
              \o IF Removed > 0 THEN << [name |-> "pruned", removed |-> Removed, kept |-> limit] >>
                                ELSE << >>)

NewLedger == Store!NewLedger /\ UNCHANGED << walk, mirror >>

Init ==
  /\ Store!Init
  /\ walk = NoWalk
  /\ mirror = [rows |-> << >>, newest |-> << >>, cap |-> MAX_HISTORY_SIZE]

Next ==
  \/ \E limit \in WalkLimits : StartWalk(limit)
  \/ ReadPage
  \/ \E r \in Results : Record(r)
  \/ \E keepLatest \in 0 .. MAX_HISTORY_SIZE : PruneHistory(keepLatest)
  \/ \E minAge \in 0 .. MaxLedger : PruneHistoryByAge(minAge)
  \/ \E limit \in 1 .. MAX_HISTORY_SIZE : SetRetentionLimit(limit)
  \/ NewLedger

\* The consumer's loop asks for the next page until it stops; nothing obliges
\* anybody to call the contract.
Spec == Init /\ [][Next]_vars /\ WF_vars(ReadPage)

-----------------------------------------------------------------------------
(* Properties *)

\* The entry point, the helper over the whole history and the executable
\* specification give the same page, in every state the writes can leave the
\* head, the tail and the entry keys in, for offsets and limits up to u32::MAX.
PagesExact ==
  \A offset \in Offsets, limit \in Limits :
    LET page == GetHistoryPage(offset, limit)
    IN  /\ page = PageSlice(Store!ReadAllEntries, offset, limit)
        /\ Len(page.items) = ExpectedPageLen(offset, limit, page.total)
        /\ page.has_more = ExpectedHasMore(offset, limit, page.total)

Serials(s) == { s[k].serial : k \in 1 .. Len(s) }

\* What a walk skips inside the stretch it covers is never more than what was
\* dropped while it ran: no decision is delivered twice or out of order, and a
\* walk nothing disturbs is complete.
SkipsAtMostDropped ==
  /\ \A i, j \in 1 .. Len(walk.seen) : i < j => walk.seen[i].serial < walk.seen[j].serial
  /\ LET first == walk.seen[1].serial
         last  == LastOf(walk.seen).serial
     IN  walk.seen # << >> => Cardinality((first .. last) \ Serials(walk.seen)) <= walk.dropped

\* Every walk ends, however many decisions arrive while it runs: each page
\* moves the offset and the retention limit bounds the history.
WalkTerminates == walk.on ~> ~walk.on

\* A backend that takes its cap from ret_lim, and trims its own appends to it,
\* holds the retained history row for row, whether it drops the removed_count
\* oldest rows of each prune or keeps the kept_count newest: no path forgets a
\* decision that neither an event nor the cap accounts for, both fields of a
\* prune are right whenever it removes something, and a kept_count above what
\* is left does no harm to a backend that does not take it for a cap.
MirrorMatches ==
  /\ mirror.rows = Store!ReadAllEntries
  /\ mirror.newest = Store!ReadAllEntries
  /\ mirror.cap = retentionLimit

=============================================================================
