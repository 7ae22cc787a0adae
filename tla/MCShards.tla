------------------------------ MODULE MCShards ------------------------------
(***************************************************************************)
(* Shards for TLC: both halves of a campaign and a third, so that a merge  *)
(* can meet a gap, a duplicate and an incompatible share.                  *)
(***************************************************************************)
EXTENDS Shards, TLC

MCShares ==
    {[index |-> 0, count |-> 2], [index |-> 1, count |-> 2], [index |-> 1, count |-> 3]}

Symmetry == Permutations(Variants) \union Permutations(Definitions) \union Permutations(Roots)
=============================================================================
