--------------------------- MODULE MCRateLimiter ---------------------------
(***************************************************************************)
(* Small instances of RateLimiter for TLC.                                 *)
(***************************************************************************)
EXTENDS RateLimiter, TLC

\* Neither visitors nor ports are told apart.
Symmetry == Permutations(Visitors) \cup Permutations(Ports)
=============================================================================
