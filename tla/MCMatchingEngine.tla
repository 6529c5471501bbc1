-------------------------- MODULE MCMatchingEngine --------------------------
(***************************************************************************)
(* Small instances of MatchingEngine for TLC.                              *)
(***************************************************************************)
EXTENDS MatchingEngine, TLC

\* No action prefers one order ID or one stock code.
OrderSymmetry == Permutations(Orders)
Symmetry == OrderSymmetry \cup Permutations(Stocks)
=============================================================================
