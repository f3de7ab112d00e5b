---------------------------- MODULE MCHistoryStore ----------------------------
(* HistoryStore on two outages: enough for an append that drops another      *)
(* outage's oldest entry, and for an index rewrite that must leave the other *)
(* outage's index alone.                                                     *)
EXTENDS HistoryStore

CONSTANTS o1, o2

MCOutageIds == { o1, o2 }
MCResults == [outage_id : MCOutageIds, recorded_at : 0 .. MaxLedger]

=============================================================================
