--------------------------- MODULE MC_FinalitySync ---------------------------
EXTENDS FinalitySync

(* The runtime upgrade from 1 to 2 re-indexes the bridge pallet from 40 to *)
(* 41 and the messages pallet from 43 to 44.                              *)
MCBridgePalletIndex == [v \in {1, 2} |-> IF v = 1 THEN 40 ELSE 41]
MCMessagesPalletIndex == [v \in {1, 2} |-> IF v = 1 THEN 43 ELSE 44]
=============================================================================
