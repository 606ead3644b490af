--------------------------- MODULE MCPlainTransfer ---------------------------
(***************************************************************************)
(* PlainTransfer for TLC: two transfers of any currency, the amounts such    *)
(* that one leaves the sender without the fee, or both want the same money. *)
(***************************************************************************)
EXTENDS PlainTransfer

CONSTANTS a, b, t1, t2

Request(c, from, to, amount, r) ==
  [currency |-> c, from |-> from, to |-> to, amount |-> amount, returnType |-> r]

MCRequests ==
  {Request(c, a, b, amount, r) : c \in Currencies, amount \in {2, 3}, r \in ReturnTypes}
  \cup {Request("ST", b, a, 1, "txReceipt"), Request("ETH", b, a, 1, "txHash"),
        Request("ETH", a, a, 1, "uuid")}

MCOpening == [c \in Currencies |-> [x \in Accounts |-> IF x = a THEN 3 ELSE 1]]
=============================================================================
