--------------------------- MODULE MCContentStore ----------------------------
(***************************************************************************)
(* Instances of ContentStore for TLC.                                      *)
(***************************************************************************)
EXTENDS ContentStore

Interchangeable ==
  Permutations(Docs) \cup Permutations(Contents) \cup Permutations(Keks)
    \cup Permutations(Shares) \cup Permutations(Texts) \cup Permutations(Jobs)
    \cup Permutations(Reqs) \cup Permutations(Workers)
=============================================================================
