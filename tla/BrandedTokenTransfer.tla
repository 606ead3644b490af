------------------------ MODULE BrandedTokenTransfer ------------------------
(***************************************************************************)
(* lib/contract_interact/branded_token.js: transfer and claim, and the     *)
(* balances that are kept for them in the storage.  A transfer asks the    *)
(* storage for the sender's balance, reserves the amount there, sends the  *)
(* transaction and settles the reservation when it is mined, or undoes it. *)
(* Several transfers of several processes run at the same time.            *)
(*                                                                         *)
(* STANDALONE_MODE is '1': otherwise it is left to programs outside the    *)
(* repository to settle what was mined.  The chain and TokenBalanceModel   *)
(* (openst-storage: an atomic addition) are seen through their callers.    *)
(***************************************************************************)
EXTENDS Integers, FiniteSets, Sums

CONSTANTS
  Accounts,
  Transfers,      \* bound: the calls of transfer
  Claims,         \* bound: the calls of claim
  Requests,       \* what transfer may be called with
  BeneficiaryOf,  \* beneficiaryAddress of a claim
  Opening,        \* balances at the start
  Minted,         \* processMinting has left this much to claim
  MaxFaults,      \* bound: requests to node or storage that fail
  MaxLate,        \* bound: transactions not mined within 50 blocks
  MaxCrashes      \* bound: kills of the process

ReturnTypes == {"uuid", "txHash", "txReceipt"}

ASSUME BrandedTokenTransferAssumption ==
  /\ Requests \subseteq
       [from : Accounts, to : Accounts, amount : Nat, returnType : ReturnTypes]
  /\ IsFiniteSet(Transfers) /\ IsFiniteSet(Claims)
  /\ BeneficiaryOf \in [Claims -> Accounts]
  /\ Opening \in [Accounts -> Nat]
  /\ Minted \in [Accounts -> Nat]
  /\ MaxFaults \in Nat
  /\ MaxLate \in Nat
  /\ MaxCrashes \in Nat

VARIABLES
  balance,    \* balanceOf on the utility chain
  claimable,  \* minted and not yet claimed
  tx,         \* per transfer: its transaction
  claimTx,    \* per claim: its transaction
  paid,       \* per claim: _value of the Transfer event of its receipt
  settled,    \* storage: settled_balance
  unsettled,  \* storage: un_settled_debits
  step,       \* per transfer: what it awaits, or how it ended
  request,    \* per transfer: its parameters, once it was called
  answer,     \* per transfer: what its promise was resolved with
  claimStep,  \* per claim: what it awaits, or how it ended
  misjudged,  \* history: transfers whose end was decided against the chain
  faults, lates, crashes

chainVars == <<balance, claimable, tx, claimTx, paid>>
storage   == <<settled, unsettled>>
calls     == <<step, request, answer, claimStep>>
bounds    == <<faults, lates, crashes>>
vars      == <<chainVars, storage, calls, misjudged, bounds>>

Waiting == {"balance",    \* for the balance of the sender
            "reserve",    \* for _pessimisticDebit
            "gas",        \* for the gas estimate
            "send",       \* for unlockAccount and the transaction hash
            "receipt",    \* for the receipt event of web3
            "search",     \* for getTransactionReceiptFromTrasactionHash
            "credit",     \* for _creditBalance of the recipient
            "debit",      \* for _debitBalance of the sender
            "rollback"}   \* for _pessimisticDebit with the amount negated
Ended == {"done", "failed", "refused", "thrown", "dangling", "killed"}

ClaimWaiting == {"gas", "receipt", "credit"}
ClaimEnded == {"done", "failed", "dangling", "killed"}

TxStates == {"none", "pending", "mined", "reverted"}
Answers  == {"none", "uuid", "hash", "receipt", "error", "thrown"}
NoRequest == [from |-> "", to |-> "", amount |-> 0, returnType |-> ""]

TypeOK ==
  /\ balance \in [Accounts -> Nat]
  /\ claimable \in [Accounts -> Nat]
  /\ tx \in [Transfers -> TxStates]
  /\ claimTx \in [Claims -> TxStates]
  /\ paid \in [Claims -> Nat]
  /\ settled \in [Accounts -> Int]
  /\ unsettled \in [Accounts -> Int]
  /\ step \in [Transfers -> {"new"} \cup Waiting \cup Ended]
  /\ request \in [Transfers -> Requests \cup {NoRequest}]
  /\ answer \in [Transfers -> Answers]
  /\ claimStep \in [Claims -> {"new"} \cup ClaimWaiting \cup ClaimEnded]
  /\ misjudged \subseteq Transfers
  /\ faults \in 0..MaxFaults
  /\ lates \in 0..MaxLate
  /\ crashes \in 0..MaxCrashes

Init ==
  /\ balance = Opening /\ settled = Opening
  /\ claimable = Minted
  /\ unsettled = [a \in Accounts |-> 0]
  /\ tx = [t \in Transfers |-> "none"]
  /\ claimTx = [c \in Claims |-> "none"]
  /\ paid = [c \in Claims |-> 0]
  /\ step = [t \in Transfers |-> "new"]
  /\ request = [t \in Transfers |-> NoRequest]
  /\ answer = [t \in Transfers |-> "none"]
  /\ claimStep = [c \in Claims |-> "new"]
  /\ misjudged = {}
  /\ faults = 0 /\ lates = 0 /\ crashes = 0

Fault   == faults < MaxFaults /\ faults' = faults + 1
NoFault == UNCHANGED faults

-----------------------------------------------------------------------------
(* The storage and the promise of a transfer.                              *)
Available(a) == settled[a] - unsettled[a]

\* TokenBalanceModel.update.
Add(a, settle, unsettle) ==
  /\ settled' = [settled EXCEPT ![a] = @ + settle]
  /\ unsettled' = [unsettled EXCEPT ![a] = @ + unsettle]

From(t)   == request[t].from
To(t)     == request[t].to
Amount(t) == request[t].amount
Go(t, s)  == step' = [step EXCEPT ![t] = s]

\* onResolve: a promise is resolved once.
Answer(t, a) == answer' = [answer EXCEPT ![t] = IF @ = "none" THEN a ELSE @]

-----------------------------------------------------------------------------
(* transfer.                                                               *)

\* The service and transfer are called; they refuse equal addresses and the
\* amount zero before they do anything.
Valid(r) == r.from # r.to /\ r.amount > 0

Call(t) ==
  /\ step[t] = "new"
  /\ \E r \in Requests :
       /\ request' = [request EXCEPT ![t] = r]
       /\ \/ Valid(r) /\ Go(t, "balance") /\ UNCHANGED answer
          \/ ~Valid(r) /\ Go(t, "refused") /\ Answer(t, "error")
  /\ UNCHANGED <<chainVars, storage, claimStep, misjudged, bounds>>

\* _validateBalance: the storage answers.
Suffices(t) == Available(From(t)) >= Amount(t)

ValidateBalance(t) ==
  /\ step[t] = "balance"
  /\ \/ Suffices(t) /\ Go(t, "reserve") /\ UNCHANGED answer
     \/ ~Suffices(t) /\ Go(t, "refused") /\ Answer(t, "error")
  /\ UNCHANGED <<chainVars, storage, request, claimStep, misjudged, bounds>>

\* _pessimisticDebit; a caller that wants only the uuid has its answer now.
MutantNoReserve(t) == UNCHANGED storage
ReserveAmount(t) == Add(From(t), 0, Amount(t))

PessimisticDebit(t) ==
  /\ step[t] = "reserve"
  /\ ReserveAmount(t)
  /\ Go(t, "gas")
  /\ IF request[t].returnType = "uuid" THEN Answer(t, "uuid") ELSE UNCHANGED answer
  /\ UNCHANGED <<chainVars, request, claimStep, misjudged, bounds>>

\* The storage fails before anything was reserved.
StorageRefuses(t) ==
  /\ step[t] \in {"balance", "reserve"}
  /\ Fault
  /\ Go(t, "refused")
  /\ Answer(t, "error")
  /\ UNCHANGED <<chainVars, storage, request, claimStep, misjudged, lates, crashes>>

\* The node runs the transfer on its latest block to estimate the gas.
EstimateGas(t) ==
  /\ step[t] = "gas"
  /\ balance[From(t)] >= Amount(t)
  /\ Go(t, "send")
  /\ UNCHANGED <<chainVars, storage, request, answer, claimStep, misjudged, bounds>>

\* It fails there, or the request does.  This await is outside the promise
\* whose catch block undoes the reservation.
EstimateGasFails(t) ==
  /\ step[t] = "gas"
  /\ \/ balance[From(t)] < Amount(t) /\ NoFault
     \/ Fault
  /\ Go(t, "thrown")
  /\ Answer(t, "thrown")
  /\ UNCHANGED <<chainVars, storage, request, claimStep, misjudged, lates, crashes>>

\* unlockAccount, sendTransaction, the transactionHash event.
SendTransaction(t) ==
  /\ step[t] = "send"
  /\ tx' = [tx EXCEPT ![t] = "pending"]
  /\ Go(t, "receipt")
  /\ IF request[t].returnType = "txHash" THEN Answer(t, "hash") ELSE UNCHANGED answer
  /\ UNCHANGED <<balance, claimable, claimTx, paid, storage, request, claimStep,
                 misjudged, bounds>>

\* The request fails, before the node has accepted the transaction or after
\* that: the answer is lost and the transaction is on its way.
SendFails(t) ==
  /\ step[t] = "send"
  /\ Fault
  /\ Go(t, "rollback")
  /\ \/ UNCHANGED <<tx, misjudged>>
     \/ /\ tx' = [tx EXCEPT ![t] = "pending"]
        /\ misjudged' = misjudged \cup {t}
  /\ UNCHANGED <<balance, claimable, claimTx, paid, storage, request, answer,
                 claimStep, lates, crashes>>

\* A block takes the transaction in, which the contract may refuse by then.
MineTransfer(t) ==
  /\ tx[t] = "pending"
  /\ \/ /\ balance[From(t)] >= Amount(t)
        /\ tx' = [tx EXCEPT ![t] = "mined"]
        /\ balance' = [balance EXCEPT ![From(t)] = @ - Amount(t),
                                      ![To(t)] = @ + Amount(t)]
     \/ /\ balance[From(t)] < Amount(t)
        /\ tx' = [tx EXCEPT ![t] = "reverted"]
        /\ UNCHANGED balance
  /\ UNCHANGED <<claimable, claimTx, paid, storage, calls, misjudged, bounds>>

\* web3 (1.0.0-beta.33) emits the receipt of a successful transaction and
\* rejects the promise for one that was reverted.
MutantAlwaysReceipt(t) == "credit"
AfterReceipt(t) == IF tx[t] = "mined" THEN "credit" ELSE "rollback"

Receipt(t) ==
  /\ step[t] = "receipt"
  /\ tx[t] \in {"mined", "reverted"}
  /\ Go(t, AfterReceipt(t))
  /\ UNCHANGED <<chainVars, storage, request, answer, claimStep, misjudged, bounds>>

\* A request for the receipt, or the subscription to new blocks, fails: web3
\* rejects the promise, and the catch block takes every reason but 'not mined
\* within' for the failure of the transaction.
ReceiptFails(t) ==
  /\ step[t] = "receipt"
  /\ Fault
  /\ Go(t, "rollback")
  /\ misjudged' = misjudged \cup {u \in {t} : tx[t] # "reverted"}
  /\ UNCHANGED <<chainVars, storage, request, answer, claimStep, lates, crashes>>

\* 'not mined within 50 blocks'.
NotMined(t) ==
  /\ step[t] = "receipt"
  /\ tx[t] = "pending"
  /\ lates < MaxLate
  /\ lates' = lates + 1
  /\ Go(t, "search")
  /\ UNCHANGED <<chainVars, storage, request, answer, claimStep, misjudged,
                 faults, crashes>>

\* A receipt is found, and onReceipt called without a look at its status.
SearchFinds(t) ==
  /\ step[t] = "search"
  /\ tx[t] \in {"mined", "reverted"}
  /\ Go(t, "credit")
  /\ misjudged' = misjudged \cup {u \in {t} : tx[t] = "reverted"}
  /\ UNCHANGED <<chainVars, storage, request, answer, claimStep, bounds>>

\* The last of the 50 attempts found none; the transaction may be mined since.
SearchGivesUp(t) ==
  /\ step[t] = "search"
  /\ Go(t, "rollback")
  /\ misjudged' = misjudged \cup {u \in {t} : tx[t] # "reverted"}
  /\ UNCHANGED <<chainVars, storage, request, answer, claimStep, bounds>>

\* An attempt is rejected; nothing catches that and no further one is made.
SearchBreaksOff(t) ==
  /\ step[t] = "search"
  /\ Fault
  /\ Go(t, "dangling")
  /\ UNCHANGED <<chainVars, storage, request, answer, claimStep, misjudged,
                 lates, crashes>>

\* onReceipt: _creditBalance, then _debitBalance; their results are not looked
\* at, so a failure of the storage skips the update.
CreditRecipient(t) ==
  /\ step[t] = "credit"
  /\ \/ Add(To(t), Amount(t), 0) /\ NoFault
     \/ UNCHANGED storage /\ Fault
  /\ Go(t, "debit")
  /\ UNCHANGED <<chainVars, request, answer, claimStep, misjudged, lates, crashes>>

MutantKeepsReservation(t) == Add(From(t), -Amount(t), 0)
SettleDebit(t) == Add(From(t), -Amount(t), -Amount(t))

DebitSender(t) ==
  /\ step[t] = "debit"
  /\ \/ SettleDebit(t) /\ NoFault
     \/ UNCHANGED storage /\ Fault
  /\ Go(t, "done")
  /\ IF request[t].returnType = "txReceipt" THEN Answer(t, "receipt") ELSE UNCHANGED answer
  /\ UNCHANGED <<chainVars, request, claimStep, misjudged, lates, crashes>>

\* onCatchError.
Rollback(t) ==
  /\ step[t] = "rollback"
  /\ \/ Add(From(t), 0, -Amount(t)) /\ NoFault
     \/ UNCHANGED storage /\ Fault
  /\ Go(t, "failed")
  /\ Answer(t, "error")
  /\ UNCHANGED <<chainVars, request, claimStep, misjudged, lates, crashes>>

-----------------------------------------------------------------------------
(* claim.                                                                  *)
ClaimGo(c, s) == claimStep' = [claimStep EXCEPT ![c] = s]

CallClaim(c) ==
  /\ claimStep[c] = "new"
  /\ ClaimGo(c, "gas")
  /\ UNCHANGED <<chainVars, storage, step, request, answer, misjudged, bounds>>

\* The estimate, then safeSendFromAddr up to the transaction hash.
SendClaim(c) ==
  /\ claimStep[c] = "gas"
  /\ ClaimGo(c, "receipt")
  /\ claimTx' = [claimTx EXCEPT ![c] = "pending"]
  /\ UNCHANGED <<balance, claimable, tx, paid, storage, step, request, answer,
                 misjudged, bounds>>

\* The node refuses a claim of nothing when it estimates the gas, or a request
\* fails, the last one perhaps after the node has accepted the transaction.
SendClaimFails(c) ==
  /\ claimStep[c] = "gas"
  /\ \/ claimable[BeneficiaryOf[c]] = 0 /\ NoFault /\ UNCHANGED claimTx
     \/ Fault /\ UNCHANGED claimTx
     \/ Fault /\ claimTx' = [claimTx EXCEPT ![c] = "pending"]
  /\ ClaimGo(c, "failed")
  /\ UNCHANGED <<balance, claimable, tx, paid, storage, step, request, answer,
                 misjudged, lates, crashes>>

\* A claim pays out all there is; with nothing to pay it is reverted.
MineClaim(c) ==
  LET b == BeneficiaryOf[c] IN
    /\ claimTx[c] = "pending"
    /\ claimTx' = [claimTx EXCEPT ![c] = IF claimable[b] > 0 THEN "mined" ELSE "reverted"]
    /\ paid' = [paid EXCEPT ![c] = claimable[b]]
    /\ balance' = [balance EXCEPT ![b] = @ + claimable[b]]
    /\ claimable' = [claimable EXCEPT ![b] = 0]
    /\ UNCHANGED <<tx, storage, calls, misjudged, bounds>>

\* The receipt: without a Transfer event the claim has failed.
HasTransferEvent(c) == claimTx[c] = "mined"

ClaimReceipt(c) ==
  /\ claimStep[c] = "receipt"
  /\ claimTx[c] \in {"mined", "reverted"}
  /\ ClaimGo(c, IF HasTransferEvent(c) THEN "credit" ELSE "failed")
  /\ UNCHANGED <<chainVars, storage, step, request, answer, misjudged, bounds>>

\* waitAndGetTransactionReceipt: a rejected request is the last one.
ClaimPollFails(c) ==
  /\ claimStep[c] = "receipt"
  /\ Fault
  /\ ClaimGo(c, "dangling")
  /\ UNCHANGED <<chainVars, storage, step, request, answer, misjudged, lates, crashes>>

CreditBeneficiary(c) ==
  /\ claimStep[c] = "credit"
  /\ \/ Add(BeneficiaryOf[c], paid[c], 0) /\ NoFault
     \/ UNCHANGED storage /\ Fault
  /\ ClaimGo(c, "done")
  /\ UNCHANGED <<chainVars, step, request, answer, misjudged, lates, crashes>>

\* The process is killed: its calls are gone, what it reserved is not.
Crash ==
  /\ crashes < MaxCrashes
  /\ crashes' = crashes + 1
  /\ step' = [t \in Transfers |-> IF step[t] \in Waiting THEN "killed" ELSE step[t]]
  /\ claimStep' = [c \in Claims |->
                     IF claimStep[c] \in ClaimWaiting THEN "killed" ELSE claimStep[c]]
  /\ UNCHANGED <<chainVars, storage, request, answer, misjudged, faults, lates>>

-----------------------------------------------------------------------------
Progress(t) ==
  \/ ValidateBalance(t) \/ PessimisticDebit(t) \/ StorageRefuses(t)
  \/ EstimateGas(t) \/ EstimateGasFails(t)
  \/ SendTransaction(t) \/ SendFails(t) \/ Receipt(t) \/ ReceiptFails(t)
  \/ SearchFinds(t) \/ SearchGivesUp(t) \/ SearchBreaksOff(t)
  \/ CreditRecipient(t) \/ DebitSender(t) \/ Rollback(t)

ClaimProgress(c) ==
  \/ SendClaim(c) \/ SendClaimFails(c) \/ ClaimReceipt(c) \/ ClaimPollFails(c)
  \/ CreditBeneficiary(c)

Next ==
  \/ \E t \in Transfers : Call(t) \/ Progress(t) \/ NotMined(t) \/ MineTransfer(t)
  \/ \E c \in Claims : CallClaim(c) \/ ClaimProgress(c) \/ MineClaim(c)
  \/ Crash

Spec == Init /\ [][Next]_vars

-----------------------------------------------------------------------------
(* What the balances must guarantee.                                       *)
Total(S) == Sum([t \in Transfers |-> IF t \in S THEN Amount(t) ELSE 0])
SentFrom(a) == {t \in Transfers : tx[t] = "pending" /\ From(t) = a}

\* What an account is shown too much because the end of a transfer was decided
\* against the chain: the sender the amount that was rolled back, the recipient
\* the amount that was credited.
Excess(a) ==
  {t \in misjudged : \/ From(t) = a /\ step[t] = "failed"
                     \/ To(t) = a /\ step[t] \in {"debit", "done", "killed"}}

\* The balance that is shown, and that the next transfer is measured by, never
\* promises more than the chain will have left when the transactions that are
\* sent are mined: pessimistic, as the comment of line 333 has it.  Concurrent
\* transfers, failures of node and storage and kills do not change that; a
\* transfer that was decided against the chain adds its own amount, to one
\* account, and no more.
NeverOverpromises ==
  \A a \in Accounts : Available(a) + Total(SentFrom(a)) <= balance[a] + Total(Excess(a))

\* When everything has come to an end without failure, the stored balances are
\* those of the chain, except for what died at its gas estimate.
AtRest ==
  /\ \A t \in Transfers : step[t] \in {"new"} \cup Ended /\ tx[t] # "pending"
  /\ \A c \in Claims : claimStep[c] \in {"new"} \cup ClaimEnded /\ claimTx[c] # "pending"

ThrownOf(a) == {t \in Transfers : step[t] = "thrown" /\ From(t) = a}

BalancesSettle ==
  (AtRest /\ misjudged = {} /\ faults = 0 /\ crashes = 0) =>
    \A a \in Accounts : settled[a] = balance[a] /\ unsettled[a] = Total(ThrownOf(a))

\* A receipt is answered only for tokens that have moved, and an error only for
\* tokens that have not and will not move, whatever happened to the other
\* transfers.  A transfer that ends otherwise took a request that failed after
\* the transaction was sent, or a transaction that was late, of its own.
AnswersTrue ==
  /\ \A t \in Transfers \ misjudged :
       /\ answer[t] = "receipt" => tx[t] = "mined"
       /\ answer[t] \in {"error", "thrown"} => tx[t] \in {"none", "reverted"}
  /\ Cardinality(misjudged) <= faults + lates

-----------------------------------------------------------------------------
(* Why AnswersTrue holds: what a call awaits, how it ended and what it       *)
(* answered follow its transaction, unless it is misjudged.                  *)
BeforeSend == {"new", "balance", "reserve", "gas", "send", "refused", "thrown"}

StepInv(t) ==
  /\ step[t] \in BeforeSend => tx[t] = "none"
  /\ step[t] \in {"receipt", "search"} => tx[t] # "none"
  /\ step[t] \notin {"new", "refused"} => Valid(request[t]) /\ request[t] \in Requests

JudgementInv(t) ==
  /\ t \in misjudged =>
       /\ step[t] \in {"credit", "debit", "done", "rollback", "failed", "killed"}
       /\ step[t] \in {"credit", "debit", "done"} => tx[t] = "reverted"
       /\ tx[t] # "none"
  /\ t \notin misjudged =>
       /\ step[t] \in {"credit", "debit", "done"} => tx[t] = "mined"
       /\ step[t] \in {"rollback", "failed"} => tx[t] \in {"none", "reverted"}

AnswerInv(t) ==
  /\ answer[t] = "receipt" => step[t] = "done"
  /\ answer[t] = "error" => step[t] \in {"refused", "failed"}
  /\ answer[t] = "thrown" => step[t] = "thrown"

CallsInv == TypeOK /\ \A t \in Transfers : StepInv(t) /\ JudgementInv(t) /\ AnswerInv(t)

\* Every end that was, or may still be, decided against the chain goes back to a
\* failed request or a late transaction.
InDoubt == misjudged \cup {t \in Transfers : step[t] = "search"}
CostInv == Cardinality(InDoubt) <= faults + lates

(* Why NeverOverpromises holds: but for what misjudged transfers have added,  *)
(* the chain is ahead of what is shown by what is reserved or sent and not   *)
(* mined, and by what is mined and not yet credited.                         *)
Reserved == {"gas", "send", "receipt", "search", "rollback"}

HeldFrom(a) ==
  {t \in Transfers : /\ From(t) = a /\ tx[t] # "mined"
                     /\ step[t] \in Reserved \/ tx[t] = "pending"}
DueTo(a) ==
  {t \in Transfers : /\ To(t) = a /\ tx[t] = "mined"
                     /\ step[t] \in {"receipt", "search", "credit"}}
DueClaims(a) ==
  {c \in Claims : /\ BeneficiaryOf[c] = a /\ claimTx[c] = "mined"
                  /\ claimStep[c] \in {"receipt", "credit"}}
Payout(S) == Sum([c \in Claims |-> IF c \in S THEN paid[c] ELSE 0])

LedgerInv ==
  \A a \in Accounts :
    balance[a] + Total(Excess(a))
      >= Available(a) + Total(HeldFrom(a)) + Total(DueTo(a)) + Payout(DueClaims(a))

(* Why BalancesSettle holds: as long as nothing failed and nothing was killed, *)
(* the stored balances differ from the chain's by exactly what is under way.   *)
OwedBy(a) ==
  {t \in Transfers : /\ From(t) = a /\ tx[t] = "mined"
                     /\ step[t] \in {"receipt", "search", "credit", "debit"}}
Unsettling(a) ==
  {t \in Transfers : From(t) = a /\ step[t] \in Reserved \cup {"credit", "debit", "thrown"}}

Calm == misjudged = {} /\ faults = 0 /\ crashes = 0

Undisturbed(c) ==
  /\ claimStep[c] \notin {"dangling", "killed"}
  /\ claimStep[c] = "failed" => claimTx[c] # "pending"

CalmInv ==
  Calm =>
    /\ \A t \in Transfers : step[t] \notin {"dangling", "killed"}
    /\ \A c \in Claims : Undisturbed(c)
    /\ \A a \in Accounts :
         /\ settled[a] + Total(DueTo(a)) + Payout(DueClaims(a)) = balance[a] + Total(OwedBy(a))
         /\ unsettled[a] = Total(Unsettling(a))

ClaimStepInv(c) ==
  /\ claimStep[c] \in {"new", "gas"} => claimTx[c] = "none"
  /\ claimStep[c] \in {"credit", "done"} => claimTx[c] = "mined"

BalanceInv == (\A c \in Claims : ClaimStepInv(c)) /\ LedgerInv /\ CalmInv

IInv == CallsInv /\ CostInv /\ BalanceInv
=============================================================================
