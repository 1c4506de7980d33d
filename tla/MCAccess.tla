------------------------------ MODULE MCAccess -------------------------------
(***************************************************************************)
(* Instances of Access for TLC.                                            *)
(***************************************************************************)
EXTENDS Access, TLC

SomeRoles == {"AUDITOR", "ARCHIVIST"}

\* One endpoint for anybody, one for both roles, one for archivists.
SomeEndpoints == {"get", "integrity_report", "delete"}

Interchangeable == Permutations(Users) \cup Permutations(Reqs)
=============================================================================
