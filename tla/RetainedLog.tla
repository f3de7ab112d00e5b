----------------------------- MODULE RetainedLog -----------------------------
(***************************************************************************)
(* What the decision history promises its readers, with no storage layout. *)
(*                                                                         *)
(* Every decision ever recorded is in `log`, in order.  What the contract  *)
(* still answers questions about is `retained`, always the newest part of  *)
(* the log: a decision can only be forgotten together with everything      *)
(* older than it, and the one just recorded is never the one forgotten.    *)
(* `byOutage` is the answer to get_history_by_outage: exactly what a scan  *)
(* of the retained decisions would find, in the same order; `latest` is    *)
(* the answer to get_latest_by_outage, the last decision of that scan.     *)
(***************************************************************************)
EXTENDS Naturals, Sequences, VecOps

CONSTANTS OutageIds, Results, NoResult, MaxRetained

VARIABLES log, retained, byOutage, latest

vars == << log, retained, byOutage, latest >>

Newest(s, n) == IF n >= Len(s) THEN s ELSE SubSeq(s, Len(s) - n + 1, Len(s))

ScanByOutage(window) ==
  [o \in OutageIds |-> Keep(window, { r \in Results : r.outage_id = o })]

Answers ==
  /\ byOutage = ScanByOutage(retained)
  /\ latest = [o \in OutageIds |->
                IF byOutage[o] = << >> THEN NoResult ELSE LastOf(byOutage[o])]

Init ==
  /\ log = << >>
  /\ retained = << >>
  /\ Answers

Record(r) ==
  /\ log' = Append(log, r)
  /\ \E n \in 1 .. MaxRetained : retained' = Newest(Append(retained, r), n)
  /\ Answers'

Forget ==
  /\ \E n \in 0 .. Len(retained) : retained' = Newest(retained, n)
  /\ Answers'
  /\ UNCHANGED log

Next ==
  \/ \E r \in Results : Record(r)
  \/ Forget

Spec == Init /\ [][Next]_vars

=============================================================================
