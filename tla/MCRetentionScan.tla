--------------------------- MODULE MCRetentionScan ---------------------------
(***************************************************************************)
(* Instances of RetentionScan for TLC.                                     *)
(***************************************************************************)
EXTENDS RetentionScan

ComplianceDay == [mode |-> "COMPLIANCE", days |-> 1, allow |-> TRUE]
GovernanceDay == [mode |-> "GOVERNANCE", days |-> 1, allow |-> FALSE]

OnePerMode == {ComplianceDay, GovernanceDay}
=============================================================================
