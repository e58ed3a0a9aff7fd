--------------------------- MODULE MCServiceLists ---------------------------
(* Instances of ServiceLists for TLC.                                      *)
EXTENDS ServiceLists, TLC

CONSTANTS p1, p2, p3

MCPrograms == {p1, p2, p3}
TwoPrograms == {p1, p2}
Symmetric == Permutations(MCPrograms)
SymmetricTwo == Permutations(TwoPrograms)
=============================================================================
