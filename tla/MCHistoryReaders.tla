--------------------------- MODULE MCHistoryReaders ---------------------------
(* One outage: the per-outage index plays no part in paging.  The serial     *)
(* number a decision carries tells decisions apart as their keys do; the     *)
(* clock ties neighbours so that an age prune can drop one, two or none.     *)
EXTENDS HistoryReaders

CONSTANT o1

MCOutageIds == { o1 }
MCResults == [outage_id : MCOutageIds, recorded_at : 0 .. MaxLedger, serial : 1 .. MaxRecorded]

\* Past the page cap, at the history cap and at the end of the u32 range.
MCOffsets == 0 .. MAX_HISTORY_SIZE + 1 \cup { U32MAX }
MCLimits == 0 .. MAX_PAGE_SIZE + 1 \cup { U32MAX }
MCWalkLimits == { 0, 1, 2 }

=============================================================================
