---------------------------- MODULE PlainTransfer ----------------------------
(***************************************************************************)
(* The transfers that keep no balance of their own: transfer of            *)
(* simple_token.js (ST), ether.js (ETH) and st_prime.js (ST Prime), behind  *)
(* the services of services/transaction/transfer.  Each asks the chain for  *)
(* the balance of the sender, compares it with the amount, and sends the    *)
(* transaction; what the transaction costs is not compared.  A caller is    *)
(* answered at once, with the hash or with the receipt; the others learn of  *)
(* the end from a notification.                                            *)
(*                                                                         *)
(* ST and ETH live on the value chain, where a transaction costs ETH, ST     *)
(* Prime on the utility chain, where it costs ST Prime.                    *)
(***************************************************************************)
EXTENDS Integers, Sequences, FiniteSets

CONSTANTS
  Accounts,
  Transfers,   \* bound: the calls of transfer
  Requests,    \* what transfer may be called with
  Opening,     \* balances at the start, per currency and account
  Fee,         \* what a transaction costs
  MaxFaults,   \* bound: requests that fail
  MaxLate,     \* bound: transactions that could be mined, but not within 50 blocks
  MaxCrashes   \* bound: kills of the process

Currencies  == {"ST", "ETH", "STPrime"}
ReturnTypes == {"uuid", "txHash", "txReceipt"}

ASSUME PlainTransferAssumption ==
  /\ Requests \subseteq [currency : Currencies, from : Accounts, to : Accounts, amount : Nat,
                         returnType : ReturnTypes]
  /\ Opening \in [Currencies -> [Accounts -> Nat]]
  /\ IsFiniteSet(Transfers)
  /\ Fee \in Nat
  /\ MaxFaults \in Nat
  /\ MaxLate \in Nat
  /\ MaxCrashes \in Nat

VARIABLES
  balance,    \* on the chains
  tx,         \* per transfer: its transaction
  step,       \* per transfer: what it awaits, or how it ended
  request,    \* per transfer: its parameters, once it was called
  answer,     \* per transfer: what its promise was resolved with
  published,  \* per transfer: the notifications, in their order
  misjudged,  \* history: transfers whose end was decided against the chain
  faults,     \* requests that failed
  lates,      \* transactions that were not mined within 50 blocks
  crashes

bounds == <<faults, lates, crashes>>
vars   == <<balance, tx, step, request, answer, published, misjudged, bounds>>

Waiting == {"balance", "gas", "send", "receipt", "search"}
Ended   == {"done", "failed", "refused", "thrown", "dangling", "killed"}
TxStates == {"none", "pending", "mined", "reverted"}
Answers  == {"none", "uuid", "hash", "receipt", "error", "thrown"}
Kinds    == {"transaction_initiated", "transaction_mined", "transaction_error"}
NoRequest == [currency |-> "", from |-> "", to |-> "", amount |-> 0, returnType |-> ""]

TypeOK ==
  /\ balance \in [Currencies -> [Accounts -> Nat]]
  /\ tx \in [Transfers -> TxStates]
  /\ step \in [Transfers -> {"new"} \cup Waiting \cup Ended]
  /\ request \in [Transfers -> Requests \cup {NoRequest}]
  /\ answer \in [Transfers -> Answers]
  /\ published \in [Transfers -> Seq(Kinds)]
  /\ misjudged \subseteq Transfers
  /\ faults \in 0..MaxFaults
  /\ lates \in Nat
  /\ crashes \in 0..MaxCrashes

Init ==
  /\ balance = Opening
  /\ tx = [t \in Transfers |-> "none"]
  /\ step = [t \in Transfers |-> "new"]
  /\ request = [t \in Transfers |-> NoRequest]
  /\ answer = [t \in Transfers |-> "none"]
  /\ published = [t \in Transfers |-> <<>>]
  /\ misjudged = {}
  /\ faults = 0 /\ lates = 0 /\ crashes = 0

Fault   == faults < MaxFaults /\ faults' = faults + 1 /\ UNCHANGED <<lates, crashes>>
NoFault == UNCHANGED bounds

Currency(t) == request[t].currency
From(t)     == request[t].from
To(t)       == request[t].to
Amount(t)   == request[t].amount
Go(t, s)    == step' = [step EXCEPT ![t] = s]

\* onResolve: a promise is resolved once.
Answer(t, a)     == answer' = [answer EXCEPT ![t] = IF @ = "none" THEN a ELSE @]
AnswerIf(t, r, a) == IF request[t].returnType = r THEN Answer(t, a) ELSE UNCHANGED answer
Publish(t, kind) == published' = [published EXCEPT ![t] = Append(@, kind)]

-----------------------------------------------------------------------------
(* The chains.                                                             *)

\* What the sender pays the transaction with, and how much of it goes.
GasOf(t) == IF Currency(t) = "STPrime" THEN "STPrime" ELSE "ETH"
Cost(t)  == IF Currency(t) = "ST" THEN Fee ELSE Amount(t) + Fee
Payable(t) == balance[GasOf(t)][From(t)] >= Cost(t)

\* Only the contract of ST can refuse a transaction that is paid for.
Accepted(t) == Currency(t) = "ST" => balance["ST"][From(t)] >= Amount(t)

PayFee(t)   == [balance EXCEPT ![GasOf(t)][From(t)] = @ - Fee]
Transferred(t) ==
  [PayFee(t) EXCEPT ![Currency(t)][From(t)] = @ - Amount(t), ![Currency(t)][To(t)] = @ + Amount(t)]

\* A transaction its sender cannot pay any more is not taken into a block.
Mine(t) ==
  /\ tx[t] = "pending"
  /\ Payable(t)
  /\ \/ Accepted(t) /\ balance' = Transferred(t) /\ tx' = [tx EXCEPT ![t] = "mined"]
     \/ ~Accepted(t) /\ balance' = PayFee(t) /\ tx' = [tx EXCEPT ![t] = "reverted"]
  /\ UNCHANGED <<step, request, answer, published, misjudged, bounds>>

-----------------------------------------------------------------------------
(* transfer.                                                               *)

\* The service and transfer refuse equal addresses and the amount zero before
\* they do anything.
Valid(r) == r.from # r.to /\ r.amount > 0

Call(t, currency) ==
  /\ step[t] = "new"
  /\ \E r \in {r \in Requests : r.currency = currency} :
       /\ request' = [request EXCEPT ![t] = r]
       /\ \/ Valid(r) /\ Go(t, "balance") /\ UNCHANGED answer
          \/ ~Valid(r) /\ Go(t, "refused") /\ Answer(t, "error")
  /\ UNCHANGED <<balance, tx, published, misjudged, bounds>>

TransferSimpleToken(t)      == Call(t, "ST")
TransferEth(t)              == Call(t, "ETH")
TransferSimpleTokenPrime(t) == Call(t, "STPrime")

\* _validateBalance.  Those who want only the uuid are answered now.
MutantStrictly(t) == balance[Currency(t)][From(t)] > Amount(t)
Suffices(t) == balance[Currency(t)][From(t)] >= Amount(t)

ValidateBalance(t) ==
  /\ step[t] = "balance"
  /\ \/ /\ Suffices(t)
        /\ Go(t, IF Currency(t) = "ST" THEN "gas" ELSE "send")
        /\ AnswerIf(t, "uuid", "uuid")
     \/ ~Suffices(t) /\ Go(t, "refused") /\ Answer(t, "error")
  /\ UNCHANGED <<balance, tx, request, published, misjudged, bounds>>

\* Without a balance simple_token.js throws, ether.js answers with an error, and
\* the promise of st_prime.js never settles.
ValidateBalanceFails(t) ==
  /\ step[t] = "balance"
  /\ Fault
  /\ CASE Currency(t) = "ST"      -> Go(t, "thrown") /\ Answer(t, "thrown")
       [] Currency(t) = "ETH"     -> Go(t, "refused") /\ Answer(t, "error")
       [] Currency(t) = "STPrime" -> Go(t, "dangling") /\ UNCHANGED answer
  /\ UNCHANGED <<balance, tx, request, published, misjudged>>

\* ST is transferred by its contract: the gas is estimated first.  When that
\* fails, nothing catches it, and nothing is published.
EstimateGas(t) ==
  /\ step[t] = "gas"
  /\ \/ Accepted(t) /\ Go(t, "send") /\ UNCHANGED answer /\ NoFault
     \/ ~Accepted(t) /\ Go(t, "thrown") /\ Answer(t, "thrown") /\ NoFault
     \/ Go(t, "thrown") /\ Answer(t, "thrown") /\ Fault
  /\ UNCHANGED <<balance, tx, request, published, misjudged>>

\* unlockAccount, sendTransaction, the transactionHash event.
Send(t) ==
  /\ step[t] = "send"
  /\ Payable(t)
  /\ tx' = [tx EXCEPT ![t] = "pending"]
  /\ Go(t, "receipt")
  /\ Publish(t, "transaction_initiated")
  /\ AnswerIf(t, "txHash", "hash")
  /\ UNCHANGED <<balance, request, misjudged, bounds>>

\* onCatchError.
CatchError(t) ==
  /\ Go(t, "failed")
  /\ Publish(t, "transaction_error")
  /\ Answer(t, "error")

\* The node refuses what its sender cannot pay, or the request fails, before the
\* node has accepted the transaction or after that.
SendFails(t) ==
  /\ step[t] = "send"
  /\ \/ ~Payable(t) /\ NoFault /\ UNCHANGED <<tx, misjudged>>
     \/ Fault /\ UNCHANGED <<tx, misjudged>>
     \/ /\ Payable(t) /\ Fault
        /\ tx' = [tx EXCEPT ![t] = "pending"]
        /\ misjudged' = misjudged \cup {t}
  /\ CatchError(t)
  /\ UNCHANGED <<balance, request>>

OnReceipt(t) ==
  /\ Go(t, "done")
  /\ Publish(t, "transaction_mined")
  /\ AnswerIf(t, "txReceipt", "receipt")

\* web3 emits the receipt of a successful transaction, and rejects the promise
\* for one that was reverted.
MutantAnyReceipt(t) == tx[t] \in {"mined", "reverted"}
HasReceipt(t) == tx[t] = "mined"

Receipt(t) ==
  /\ step[t] = "receipt"
  /\ tx[t] \in {"mined", "reverted"}
  /\ \/ HasReceipt(t) /\ OnReceipt(t)
     \/ ~HasReceipt(t) /\ CatchError(t)
  /\ UNCHANGED <<balance, tx, request, misjudged, bounds>>

\* A request for the receipt, or the subscription to new blocks, fails: web3
\* rejects the promise, and the catch block takes every reason but 'not mined
\* within' for the failure of the transaction.
ReceiptFails(t) ==
  /\ step[t] = "receipt"
  /\ Fault
  /\ CatchError(t)
  /\ misjudged' = misjudged \cup {u \in {t} : tx[u] # "reverted"}
  /\ UNCHANGED <<balance, tx, request>>

\* 'not mined within 50 blocks': the handler looks for the receipt itself.
MutantGivesUpAtOnce(t) == "failed"
AfterNotMined(t) == "search"

NotMined(t) ==
  /\ step[t] = "receipt"
  /\ tx[t] = "pending"
  /\ ~Payable(t) \/ lates < MaxLate
  /\ lates' = lates + 1
  /\ Go(t, AfterNotMined(t))
  /\ UNCHANGED <<balance, tx, request, answer, published, misjudged, faults, crashes>>

\* A receipt is found, whatever its status.
SearchFinds(t) ==
  /\ step[t] = "search"
  /\ tx[t] \in {"mined", "reverted"}
  /\ OnReceipt(t)
  /\ misjudged' = misjudged \cup {u \in {t} : tx[u] = "reverted"}
  /\ UNCHANGED <<balance, tx, request, bounds>>

\* The last of the 50 attempts found none; the transaction may be mined since.
SearchGivesUp(t) ==
  /\ step[t] = "search"
  /\ CatchError(t)
  /\ misjudged' = misjudged \cup {u \in {t} : tx[u] # "reverted"}
  /\ UNCHANGED <<balance, tx, request, bounds>>

\* An attempt is rejected, and no further one is made.
SearchBreaksOff(t) ==
  /\ step[t] = "search"
  /\ Fault
  /\ Go(t, "dangling")
  /\ UNCHANGED <<balance, tx, request, answer, published, misjudged>>

Crash ==
  /\ crashes < MaxCrashes
  /\ crashes' = crashes + 1
  /\ step' = [t \in Transfers |-> IF step[t] \in Waiting THEN "killed" ELSE step[t]]
  /\ UNCHANGED <<balance, tx, request, answer, published, misjudged, faults, lates>>

-----------------------------------------------------------------------------
Proceed(t) ==
  \/ ValidateBalance(t) \/ ValidateBalanceFails(t) \/ EstimateGas(t)
  \/ Send(t) \/ SendFails(t)
  \/ Receipt(t) \/ ReceiptFails(t) \/ NotMined(t)
  \/ SearchFinds(t) \/ SearchGivesUp(t) \/ SearchBreaksOff(t)

Next ==
  \/ \E t \in Transfers :
       \/ TransferSimpleToken(t) \/ TransferEth(t) \/ TransferSimpleTokenPrime(t)
       \/ Proceed(t) \/ Mine(t)
  \/ Crash

Spec == Init /\ [][Next]_vars

\* Requests are answered, and what can be mined is; nobody has to call.
FairSpec == Spec /\ \A t \in Transfers : WF_vars(Proceed(t)) /\ WF_vars(Mine(t))

-----------------------------------------------------------------------------
(* What the transfers promise.                                             *)

\* An answer is true: who was given a receipt was paid for, who was told of an
\* error keeps the money, for good; but for those whose transaction was not mined
\* within 50 blocks, or was sent and lost a request after that, of which the code
\* only guesses (simple_token.js:413-434): each of these costs such an event of
\* its own, and the answers of the other transfers stay true.  And while the check
\* of the balance only looks at the amount, a transfer that was refused or has
\* thrown was never sent.
AnswersTrue ==
  /\ \A t \in Transfers :
       /\ answer[t] = "receipt" => tx[t] = "mined" \/ t \in misjudged
       /\ answer[t] = "hash" => tx[t] # "none"
       /\ answer[t] = "error" => tx[t] \in {"none", "reverted"} \/ t \in misjudged
       /\ step[t] \in {"refused", "thrown"} => tx[t] = "none"
  /\ Cardinality(misjudged) <= faults + lates

\* The notifications of a transfer tell one story, in order, and a true one: at
\* most one end, after its beginning unless it never began, and the end that the
\* chain has decided on unless it was guessed.
NotificationsTrue ==
  \A t \in Transfers :
    LET story == published[t] IN
      /\ story \in {<<>>, <<"transaction_error">>, <<"transaction_initiated">>,
                    <<"transaction_initiated", "transaction_mined">>,
                    <<"transaction_initiated", "transaction_error">>}
      /\ story # <<>> /\ story[Len(story)] = "transaction_mined" =>
           tx[t] = "mined" \/ t \in misjudged
      /\ story # <<>> /\ story[Len(story)] = "transaction_error" =>
           tx[t] \in {"none", "reverted"} \/ t \in misjudged

\* Every call comes to an end that its caller hears of, if the process lives and
\* no request fails: an answer, and for those who were answered before the end the
\* last notification.  An ST transfer whose estimate is refused has thrown, of which
\* a caller who wanted the uuid hears nothing (simple_token.js:445).
TransfersEnd ==
  \A t \in Transfers :
    step[t] = "balance" ~>
      \/ step[t] \in {"done", "failed", "refused", "thrown"} /\ answer[t] # "none"
      \/ faults > 0 \/ crashes > 0

\* A transfer the sender can afford, costs included, moves the money if the sender
\* has no other under way.
Affordable(t) == Payable(t) /\ Accepted(t)
Lone(t) == \A u \in Transfers \ {t} : step[u] = "new" \/ From(u) # From(t)
AffordableMoves ==
  \A t \in Transfers :
    step[t] = "balance" /\ Affordable(t) /\ Lone(t) ~>
      (tx[t] = "mined" \/ faults > 0 \/ crashes > 0 \/ ~Lone(t))

-----------------------------------------------------------------------------
(* Why AnswersTrue and NotificationsTrue hold: where a transfer is tells what  *)
(* it has sent, published and answered.                                    *)
Unsent(t)  == tx[t] = "none" /\ published[t] = <<>>
StepInv(t) ==
  /\ step[t] \notin {"new", "refused"} => request[t] \in Requests /\ Valid(request[t])
  /\ step[t] \in {"new", "balance"} => Unsent(t) /\ answer[t] = "none"
  /\ step[t] \in {"gas", "send"} => Unsent(t) /\ answer[t] \in {"none", "uuid"}
  /\ step[t] \in {"refused", "thrown"} => Unsent(t) /\ answer[t] # "receipt" /\ answer[t] # "hash"
  /\ step[t] \in {"receipt", "search"} =>
       /\ tx[t] # "none"
       /\ published[t] = <<"transaction_initiated">>
       /\ answer[t] \in {"none", "uuid", "hash"}
  /\ step[t] = "done" =>
       /\ tx[t] = "mined" \/ t \in misjudged
       /\ tx[t] # "none"
       /\ published[t] = <<"transaction_initiated", "transaction_mined">>
       /\ answer[t] # "error"
  /\ step[t] = "failed" =>
       /\ tx[t] \in {"none", "reverted"} \/ t \in misjudged
       /\ published[t] \in {<<"transaction_error">>,
                            <<"transaction_initiated", "transaction_error">>}
       /\ answer[t] = "hash" => tx[t] # "none"
       /\ answer[t] # "receipt"
  /\ step[t] \in {"dangling", "killed"} =>
       /\ published[t] \in {<<>>, <<"transaction_initiated">>}
       /\ answer[t] \in {"none", "uuid", "hash"}
       /\ answer[t] = "hash" => tx[t] # "none"

StepsInv == TypeOK /\ \A t \in Transfers : StepInv(t)

\* Every end that was, or may still be, guessed goes back to a failed request or a
\* late transaction.
InDoubt == misjudged \cup {t \in Transfers : step[t] = "search"}
CostInv == Cardinality(InDoubt) <= faults + lates

IInv == StepsInv /\ CostInv
=============================================================================
