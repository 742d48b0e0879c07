---------------------------- MODULE MCRawCaches -----------------------------
(***************************************************************************)
(* A small instance of RawCaches for TLC: the sizes of the pool scaled so  *)
(* that a few blocks reach its limit, and every rule for taking and giving *)
(* back blocks is used.                                                    *)
(***************************************************************************)
EXTENDS RawCaches, TLC

Symmetry == Permutations(Caches)
=============================================================================
