--------------------------- MODULE MCStakeAndMint ---------------------------
(***************************************************************************)
(* StakeAndMint for TLC: two stakes of the internal address for one        *)
(* beneficiary, and a third one of somebody else.                          *)
(***************************************************************************)
EXTENDS StakeAndMint, TLC

CONSTANTS i1, i2, i3, staker, other, b1, b2

MCStakerOf == (i1 :> staker @@ i2 :> staker @@ i3 :> other)
MCBeneficiaryOf == (i1 :> b1 @@ i2 :> b1 @@ i3 :> b2)
TwoStakerOf == (i1 :> staker @@ i2 :> staker)
TwoBeneficiaryOf == (i1 :> b1 @@ i2 :> b1)
=============================================================================
