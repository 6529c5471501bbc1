------------------------- MODULE MCPostgresExchange -------------------------
(***************************************************************************)
(* Small instances of PostgresExchange for TLC.                            *)
(***************************************************************************)
EXTENDS PostgresExchange, TLC

\* Requests are named by the IDs they draw, not by who they are.
Symmetry == Permutations(Requests)
=============================================================================
