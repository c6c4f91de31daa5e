--------------------------- MODULE MCCseSyncRace ---------------------------
(* Two requests and two realignments; neither workers nor realignments are *)
(* told apart by anything but their slot.                                  *)
EXTENDS CseSyncRace, TLC

CONSTANTS w1, w2, s1, s2

MCWorkers == {w1, w2}
MCSyncs   == {s1, s2}
Symmetry  == Permutations(MCWorkers) \union Permutations(MCSyncs)
=============================================================================
