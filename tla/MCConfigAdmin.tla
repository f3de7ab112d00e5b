---------------------------- MODULE MCConfigAdmin ----------------------------
(* The configurations are chosen so that each is legal for some tiers and    *)
(* illegal for others, so that tiers can meet in the middle of the ladder,   *)
(* and so that low can rise above medium.  The hash is its own preimage: no  *)
(* two configurations collide, which is what the registry counts on.         *)
EXTENDS ConfigAdmin, ConfigViews, TLC

CONSTANTS a1, a2

MCAddresses == { a1, a2 }

AnyAddress == Permutations(MCAddresses)

\* No action reads `reply` and no property of this run mentions it: states that
\* differ in it alone have the same future.
ButReply == << roleVars, guardVars, configVars, told, backend, writes, now >>

MCCustomOrder == << "database" >>

MCConfigHash(configs) == configs

\* Both sides of every bound of every tier, and of the ratio at penalty 100.
MCProbedConfigs ==
  [threshold : { 0, 1, 60, 61, 120, 121, 240, 241, 1440, 1441 },
   penalty   : { 0, 1, 9, 10, 24, 25, 49, 50, 100, 101, 10000, 10001 },
   reward    : { 0, 1, 150, 151, 100000, 100001 }]

MCProbedMttrs == { 0, 15, 16, 60, 1440, 2000 }

MCConfigInputs ==
  { [threshold |-> 60,  penalty |-> 50,  reward |-> 750],
    [threshold |-> 30,  penalty |-> 25,  reward |-> 400],
    [threshold |-> 120, penalty |-> 100, reward |-> 750],
    [threshold |-> 60,  penalty |-> 10,  reward |-> 10] }

=============================================================================
