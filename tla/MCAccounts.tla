---------------------------- MODULE MCAccounts ----------------------------
(***************************************************************************)
(* Small instances of Accounts for TLC.                                    *)
(***************************************************************************)
EXTENDS Accounts, TLC

\* Requests, passwords, and the names and addresses that fit their columns are
\* not told apart.
Symmetry ==
  Permutations(Requests) \cup Permutations(Passwords)
    \cup Permutations(Names \ Unfit) \cup Permutations(Emails \ Unfit)
=============================================================================
