---------------------------- MODULE MCAuditChain -----------------------------
(***************************************************************************)
(* Instances of AuditChain for TLC.                                        *)
(***************************************************************************)
EXTENDS AuditChain, TLC

CONSTANTS r1, r2, float, integer

\* A number written as a float, and the integer JSONB gives back for it.
Rewriting == [p \in {float, integer} |-> integer]

Interchangeable == Permutations(Writers)
=============================================================================
