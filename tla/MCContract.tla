------------------------------ MODULE MCContract ------------------------------
(* A tier and a custom severity, with the default configuration or another   *)
(* reward, so that an outage can be settled twice and on either lane.  Older *)
(* versions have recorded no decision, one, or two of different outages or   *)
(* of the same, one ledger apart, and may have pruned.                       *)
EXTENDS ContractViews

CONSTANTS a1, a2, o1, o2

MCAddresses == { a1, a2 }
MCOutageIds == { o1, o2 }

AnyName == Permutations(MCAddresses) \cup Permutations(MCOutageIds)

\* No action and no property of these runs reads the rest, except `reply` and
\* `view`, in the step that writes them; the lanes' times decide nothing before
\* WEEK, stamp and registry nothing at all, and the handoff slots stay empty.
ButUnread ==
  << roleVars, guardVars, config, custom, writes, historyVars, calculations, violations, stats, lifeVars, now >>

MCSeverities == { "critical", "database" }
MCCustomOrder == << "database" >>
MCLanes == Canonical \cup { "custom" }
MCConfigHash(configs) == configs

Default  == [threshold |-> 15, penalty |-> 100, reward |-> 750]
Rewarded == [threshold |-> 15, penalty |-> 100, reward |-> 800]
MCConfigInputs == { Rewarded }

MCMttrs == { 7, 20 }

MCResults ==
  { ComputeResult(o, m, c, ConfigHash(<< c >>), t) :
      o \in OutageIds, m \in Mttrs, c \in Configurations, t \in 0 .. MaxLedger }

\* 7 minutes earn twice the reward, 20 are 5 too late.
Decision(o, m, c, t) == ComputeResult(o, m, c, MCConfigHash(<< c >>), t)

MCLegacyHistories ==
  { << >>,
    << Decision(o1, 7, Default, 0) >>,
    << Decision(o1, 7, Default, 0), Decision(o2, 20, Default, 1) >>,
    << Decision(o1, 20, Rewarded, 0), Decision(o1, 7, Default, 1) >>,
    << Decision(o2, 7, Default, 0) >>,
    << Decision(o2, 7, Default, 0), Decision(o1, 20, Default, 1) >>,
    << Decision(o2, 20, Rewarded, 0), Decision(o2, 7, Default, 1) >> }

=============================================================================
