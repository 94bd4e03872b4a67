------------------------------ MODULE MCSession ------------------------------
(* Instances of Session for TLC.                                            *)
EXTENDS Session, TLC

\* Requests are alike, and so are tenants.
Alike == Permutations(Requests) \cup Permutations(Tenants)
=============================================================================
