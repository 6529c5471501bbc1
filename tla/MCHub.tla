------------------------------- MODULE MCHub -------------------------------
(***************************************************************************)
(* Small instances of Hub for TLC.                                         *)
(***************************************************************************)
EXTENDS Hub, TLC

\* No action prefers one of the clients that can connect.
ClientSymmetry == Permutations(Clients \ Wrapped)
=============================================================================
