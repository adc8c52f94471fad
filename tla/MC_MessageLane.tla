--------------------------- MODULE MC_MessageLane ---------------------------
(* Model-checking instance of MessageLane: two relayers, three messages.   *)
EXTENDS MessageLane, TLC

CONSTANTS r1, r2

MCRelayers == {r1, r2}
MCSymmetry == Permutations(MCRelayers)
====
