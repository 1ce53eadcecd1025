------------------------------ MODULE MCReader ------------------------------
(***************************************************************************)
(* Small instances of Reader.                                              *)
(***************************************************************************)
EXTENDS Reader, TLC

Profile(h, d) == [history |-> h, depth |-> d]
ThreeProfiles ==
  {Profile("SYSTEM_DEFAULT", 0), Profile("KEEP_LAST", 2), Profile("KEEP_ALL", 3)}

TakerSymmetry    == Permutations(Takers)
=============================================================================
