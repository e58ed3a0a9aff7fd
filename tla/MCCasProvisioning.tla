-------------------------- MODULE MCCasProvisioning --------------------------
(* Instances of CasProvisioning for TLC.                                   *)
EXTENDS CasProvisioning, TLC

CONSTANTS p1, p2

MCParams == {p1, p2}
Symmetry == Permutations(MCParams)

(* Bound: an earlier run has left channels 1 and 10 or nothing, each with  *)
(* its stream 1 or none.                                                   *)
MCInit ==
    /\ Init
    /\ ecmg \in {[c \in Channels |-> None], [c \in Channels |-> IF c = 2 THEN None ELSE p1]}
    /\ \A i \in StreamIds : i[2] # 1 => ecm_stream[i] = None

MCSpec == MCInit /\ [][Next]_vars
==============================================================================
