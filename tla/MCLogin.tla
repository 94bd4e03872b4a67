------------------------------- MODULE MCLogin -------------------------------
(* An instance of Login for TLC.                                            *)
EXTENDS Login, TLC

\* Requests are alike.
Alike == Permutations(Calls)
=============================================================================
