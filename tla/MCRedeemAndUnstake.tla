------------------------- MODULE MCRedeemAndUnstake -------------------------
(***************************************************************************)
(* RedeemAndUnstake for TLC: two redemptions of the internal address, each   *)
(* of branded tokens or of ST Prime, and one of somebody else.             *)
(***************************************************************************)
EXTENDS RedeemAndUnstake, TLC

CONSTANTS r1, r2, other

MCAmount == (r1 :> 1 @@ r2 :> 1 @@ other :> 1)
=============================================================================
