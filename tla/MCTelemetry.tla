----------------------------- MODULE MCTelemetry -----------------------------
(* One canonical lane, next to another in the same words, and the custom one *)
(* whose word packs its own four.  A week is two ledgers, a u32 holds up to  *)
(* 3, and the clock runs a week past that: both counters saturate inside a   *)
(* burst, and stored times fall behind the clock.                            *)
EXTENDS PackedTelemetry

MCCanonical == << "critical", "high" >>

=============================================================================
