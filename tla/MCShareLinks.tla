---------------------------- MODULE MCShareLinks ----------------------------
(***************************************************************************)
(* Instances of ShareLinks for TLC.                                        *)
(***************************************************************************)
EXTENDS ShareLinks, TLC

OneOrTwo == {1, 2}
TwoOrUnlimited == {2, None}

\* Links and request slots are interchangeable.
Interchangeable == Permutations(Links) \cup Permutations(Reqs)
=============================================================================
