----------------------- MODULE MCRegisterBrandedToken -----------------------
(***************************************************************************)
(* RegisterBrandedToken for TLC: two tools, each called with any of three   *)
(* tokens: one with the factor 0.5, one with 10, and one whose factor,     *)
(* 0.000015, has a digit too many for a conversion rate.                   *)
(***************************************************************************)
EXTENDS RegisterBrandedToken, TLC

CONSTANTS acme, bolt, cent

MCFactorOf == (acme :> 500000 @@ bolt :> 10000000 @@ cent :> 15)
=============================================================================
