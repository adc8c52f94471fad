------------------------- MODULE MC_LaneConfirmation -------------------------
(* Model-checking instance of LaneConfirmation: titan's upgrade from spec  *)
(* version 1 to 2 swaps the messages pallet (44) with another one (45),    *)
(* so a stale call would dispatch that other pallet's call.                *)
EXTENDS LaneConfirmation, TLC

MCMessagesPalletIndex == (1 :> 44) @@ (2 :> 45)
MCOtherPalletIndex == (1 :> 45) @@ (2 :> 44)
=============================================================================
