----------------------------- MODULE MCService -----------------------------
(***************************************************************************)
(* Small instances of Service.                                             *)
(***************************************************************************)
EXTENDS Service, TLC

ClientSymmetry  == Permutations(Clients)
ServiceSymmetry == Permutations(Services)
=============================================================================
