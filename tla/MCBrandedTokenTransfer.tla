----------------------- MODULE MCBrandedTokenTransfer -----------------------
(***************************************************************************)
(* BrandedTokenTransfer for TLC: alice has two tokens and bob may claim    *)
(* one.  Two transfers of alice may exceed what she has, bob can only pay  *)
(* back what he got, and one request is refused.                           *)
(***************************************************************************)
EXTENDS BrandedTokenTransfer

CONSTANTS alice, bob

Pay(a, b, n, r) == [from |-> a, to |-> b, amount |-> n, returnType |-> r]

MCAccounts == {alice, bob}
MCRequests == {Pay(alice, bob, 2, "txReceipt"), Pay(alice, bob, 1, "uuid"),
               Pay(bob, alice, 1, "txHash"), Pay(bob, bob, 1, "txHash")}
MCOpening == [a \in MCAccounts |-> IF a = alice THEN 2 ELSE 0]
MCMinted == [a \in MCAccounts |-> IF a = bob THEN 1 ELSE 0]
MCBeneficiaryOf == [c \in Claims |-> bob]
=============================================================================
