--------------------------- MODULE MCPollableQueue ---------------------------
(* Instances of PollableQueue for TLC.                                     *)
EXTENDS PollableQueue, TLC

CONSTANTS e1, e2, e3, p1, p2

MCEntries == {e1, e2, e3}
TwoProducers == {p1, p2}
Symmetry == Permutations(MCEntries) \cup Permutations(TwoProducers)
==============================================================================
