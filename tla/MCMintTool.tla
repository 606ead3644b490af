------------------------------ MODULE MCMintTool ------------------------------
(***************************************************************************)
(* MintTool for TLC: two runs for one or two tokens; an amount too small to  *)
(* be divided, one that is not a multiple of ten, and a foundation that      *)
(* cannot pay for everything.  The reserve of one token receives or spends   *)
(* ST Prime once, as much as a run stakes for it.                            *)
(***************************************************************************)
EXTENDS MintTool

CONSTANTS r1, r2, u1, u2

Request(t, n) == [token |-> t, amount |-> n]

MCRequests == {Request(u1, 1), Request(u1, 11), Request(u2, 4)}

MCMoved == {[token |-> u1, part |-> "STPrime", amount |-> 2]}
=============================================================================
