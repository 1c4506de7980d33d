---------------------------- MODULE MCDocuments -----------------------------
(***************************************************************************)
(* Instances of Documents for TLC.                                         *)
(***************************************************************************)
EXTENDS Documents, TLC

NoPolicies == {}

ComplianceDay == [mode |-> "COMPLIANCE", days |-> 1, allow |-> TRUE]
GovernanceDay == [mode |-> "GOVERNANCE", days |-> 1, allow |-> FALSE]

OnePerMode == {ComplianceDay, GovernanceDay}

\* Ids, hold ids, tenants, titles and request slots are interchangeable.
Interchangeable ==
  Permutations(Docs) \cup Permutations(Holds) \cup Permutations(Tenants)
    \cup Permutations(Titles) \cup Permutations(Reqs)
=============================================================================
