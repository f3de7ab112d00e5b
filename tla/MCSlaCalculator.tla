--------------------------- MODULE MCSlaCalculator ---------------------------
(* One canonical and one custom severity, which an admin can give the same   *)
(* parameters, so that an outage can move between two generations and back   *)
(* and two severities can share one.  One mttr meets both configurations,    *)
(* one meets the longer threshold only, one is out of bounds.  The hash is   *)
(* its own preimage: distinct configurations do not collide.                 *)
EXTENDS SecondCopies, TLC

CONSTANTS a1, a2, o1, o2

MCAddresses == { a1, a2 }
MCOutageIds == { o1, o2 }

AnyName == Permutations(MCAddresses) \cup Permutations(MCOutageIds)

\* No action of SlaCalculator reads `reply`, `lastUpdate` or `registry`, nor
\* `decided` while MaxDecisions is not below MaxRecorded, and no property of
\* these runs depends on them: states that differ in them alone have the same
\* future.
ButUnread == << roleVars, guardVars, config, custom, writes, historyVars, stats,
               calculations, violations, lastCalculations, lastViolations, now >>

MCCustomOrder == << "database" >>
MCSeverities == { "critical", "database" }
MCLanes == Canonical \cup { "custom" }
MCConfigHash(configs) == configs

\* critical's default, and one with every parameter changed.
Default == [threshold |-> 15, penalty |-> 100, reward |-> 750]
Relaxed == [threshold |-> 30, penalty |-> 50, reward |-> 800]
MCConfigInputs == { Default, Relaxed }

MCMttrs == { 7, 20, 61 }

MCResults ==
  { ComputeResult(o, m, c, ConfigHash(<< c >>), t) :
      o \in OutageIds, m \in Mttrs, c \in Configurations, t \in 1 .. MaxLedger }

=============================================================================
