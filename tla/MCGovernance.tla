----------------------------- MODULE MCGovernance -----------------------------
(* Three addresses: an admin, a candidate, and one more to supersede or      *)
(* compete with it.                                                          *)
EXTENDS Governance, TLC

CONSTANTS a1, a2, a3

MCAddresses == { a1, a2, a3 }

\* No constant tells two addresses apart, and no property mentions one.
AnyAddress == Permutations(MCAddresses)

=============================================================================
